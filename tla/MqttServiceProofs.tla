------------------------- MODULE MqttServiceProofs -------------------------
(***************************************************************************)
(* Proofs about MqttService, for any number of processes, drops and        *)
(* messages: types; that no registration falls between the loop that       *)
(* subscribes again and subscribe itself; and that a message which is put  *)
(* back for an acknowledgement that did not come is not delivered twice.   *)
(***************************************************************************)
EXTENDS MqttService, TLAPS

\* A listener that awaits an answer is at one of its topics.
InRange == \A p \in Procs, l \in Listeners :
  task[p][l].pc \in {"subscribing", "failing"} => task[p][l].i <= Len(Wants[l])

\* An iteration over the handlers is at one of them.
Iterates == \A p \in Procs : conn[p] = "resubscribing" =>
  1 <= at[p] /\ at[p] <= upto[p] /\ upto[p] <= Len(handlers[p])

LEMMA WantsType ==
  ASSUME NEW l \in Listeners
  PROVE  /\ Wants[l] \in Seq(Topics)
         /\ Len(Wants[l]) \in {1, 2}
         /\ \A i \in 1 .. 3 : i <= Len(Wants[l]) => Wants[l][i] \in Topics
<1>1. l \in {"mission", "telemetry", "download"}
  BY ListenersAssumption DEF Wants
<1>2. "status" \in Topics /\ "progress" \in Topics /\ "raw" \in Topics
      /\ "heartbeat" \in Topics /\ "response" \in Topics
  BY DEF Topics
<1>3. CASE l = "mission"
  <2>1. Wants[l] = <<"status", "progress">>
    BY <1>3 DEF Wants
  <2>2. QED
    BY <1>2, <2>1
<1>4. CASE l = "telemetry"
  <2>1. Wants[l] = <<"raw", "heartbeat">>
    BY <1>4 DEF Wants
  <2>2. QED
    BY <1>2, <2>1
<1>5. CASE l = "download"
  <2>1. Wants[l] = <<"response">>
    BY <1>5 DEF Wants
  <2>2. QED
    BY <1>2, <2>1
<1>6. QED
  BY <1>1, <1>3, <1>4, <1>5

LEMMA ClosedTypes ==
  ASSUME task \in [Procs -> [Listeners -> Task]], pub \in [Procs -> PubState],
         NEW ps, Closed(ps)
  PROVE  task' \in [Procs -> [Listeners -> Task]] /\ pub' \in [Procs -> PubState]
<1>1. ASSUME NEW p \in Procs
      PROVE  FailingTasks(task[p]) \in [Listeners -> Task]
  <2>1. ASSUME NEW l \in Listeners
        PROVE  task[p][l] \in Task /\ [task[p][l] EXCEPT !.pc = "failing"] \in Task
    <3>1. task[p][l] \in Task
      OBVIOUS
    <3>2. QED
      BY <3>1 DEF Task
  <2>2. QED
    BY <2>1 DEF FailingTasks
<1>2. ASSUME NEW p \in Procs
      PROVE  FailingPub(pub[p]) \in PubState
  <2>1. CASE pub[p].pc = "sending"
    <3>1. pub[p] \in [pc : {"sending", "failing", "unanswered"}, m : Messages]
      BY <2>1 DEF PubState
    <3>2. [pub[p] EXCEPT !.pc = "unanswered"] \in
            [pc : {"sending", "failing", "unanswered"}, m : Messages]
      BY <3>1
    <3>3. QED
      BY <2>1, <3>2 DEF FailingPub, PubState
  <2>2. CASE pub[p].pc # "sending"
    BY <2>2 DEF FailingPub
  <2>3. QED
    BY <2>1, <2>2
<1>3. QED
  BY <1>1, <1>2 DEF Closed

\* What Closed does to one listener: an awaited answer fails, all else stays.
LEMMA ClosedTask ==
  ASSUME task \in [Procs -> [Listeners -> Task]], NEW ps, Closed(ps),
         NEW p \in Procs, NEW l \in Listeners
  PROVE  /\ task'[p][l].i = task[p][l].i
         /\ p \in ps => task'[p][l].pc # "subscribing"
         /\ p \notin ps => task'[p][l] = task[p][l]
         /\ task'[p][l].pc \in {"subscribing", "failing"} =>
              task[p][l].pc \in {"subscribing", "failing"}
<1>1. CASE p \notin ps
  BY <1>1 DEF Closed
<1>2. CASE p \in ps
  <2>1. task'[p][l] = IF task[p][l].pc = "subscribing"
                      THEN [task[p][l] EXCEPT !.pc = "failing"] ELSE task[p][l]
    BY <1>2 DEF Closed, FailingTasks
  <2>2. task[p][l] \in Task
    OBVIOUS
  <2>3. QED
    BY <1>2, <2>1, <2>2 DEF Task
<1>3. QED
  BY <1>1, <1>2

LEMMA AppendKey ==
  ASSUME NEW h \in Seq(Topics), IsKeys(h), NEW t \in Topics,
         \A i \in 1 .. Len(h) : h[i] # t
  PROVE  Append(h, t) \in Seq(Topics) /\ IsKeys(Append(h, t))
<1>1. Append(h, t) \in Seq(Topics) /\ Len(Append(h, t)) = Len(h) + 1 /\ Len(h) \in Nat
  OBVIOUS
<1>2. \A i \in 1 .. Len(h) : Append(h, t)[i] = h[i]
  OBVIOUS
<1>3. Append(h, t)[Len(h) + 1] = t
  OBVIOUS
<1>4. ASSUME NEW i \in 1 .. Len(h) + 1, NEW j \in 1 .. Len(h) + 1,
             Append(h, t)[i] = Append(h, t)[j]
      PROVE  i = j
  <2>1. CASE i \in 1 .. Len(h) /\ j \in 1 .. Len(h)
    BY <1>2, <1>4, <2>1 DEF IsKeys
  <2>2. CASE i = Len(h) + 1 /\ j \in 1 .. Len(h)
    BY <1>2, <1>3, <1>4, <2>2
  <2>3. CASE i \in 1 .. Len(h) /\ j = Len(h) + 1
    BY <1>2, <1>3, <1>4, <2>3
  <2>4. QED
    BY <1>1, <2>1, <2>2, <2>3
<1>5. QED
  BY <1>1, <1>4 DEF IsKeys

-----------------------------------------------------------------------------
(* Types.                                                                  *)

Typed == TypeOK /\ InRange /\ Iterates

LEMMA TypedInit == Init => Typed
<1> SUFFICES ASSUME Init
             PROVE  Typed
  OBVIOUS
<1>1. [pc |-> "next", i |-> 1] \in Task
  BY DEF Task
<1>2. [pc |-> "get", m |-> NoMessage] \in PubState
  BY DEF PubState
<1>3. TypeOK
  BY <1>1, <1>2, BoundsAssumption DEF Init, TypeOK, IsKeys
<1>4. InRange /\ Iterates
  BY DEF Init, InRange, Iterates
<1>5. QED
  BY <1>3, <1>4 DEF Typed

\* The loop's iteration, when no handler comes or goes.
LEMMA IterateTypes ==
  ASSUME Typed, NEW p \in Procs, NEW c \in {"listening", "sleeping", "connecting", "resubscribing"},
         NEW i \in Nat, NEW n \in Nat, Iterate(p, c, i, n), UNCHANGED handlers,
         c = "resubscribing" => 1 <= i /\ i <= n /\ n <= Len(handlers[p])
  PROVE  /\ conn' \in [Procs -> {"connecting", "resubscribing", "listening", "sleeping"}]
         /\ at' \in [Procs -> Nat] /\ upto' \in [Procs -> Nat]
         /\ Iterates'
  BY DEF Iterate, Typed, TypeOK, Iterates

\* A step of one listener, to another state of the same topic or past it.
LEMMA TaskTypes ==
  ASSUME Typed, NEW p \in Procs, NEW l \in Listeners,
         NEW c \in {"next", "subscribing", "failing", "dead"},
         task[p][l].i <= Len(Wants[l])
  PROVE  /\ [task EXCEPT ![p][l].pc = c] \in [Procs -> [Listeners -> Task]]
         /\ Advance(p, l) \in [Procs -> [Listeners -> Task]]
         /\ task' = [task EXCEPT ![p][l].pc = c] \/ task' = Advance(p, l) => InRange'
<1>1. /\ task \in [Procs -> [Listeners -> Task]]
      /\ task[p] \in [Listeners -> Task] /\ task[p][l] \in Task
  BY DEF Typed, TypeOK
<1>2. task[p][l].i \in 1 .. 3 /\ task[p][l].i <= 2
  BY <1>1, WantsType DEF Task
<1>3. /\ [task[p][l] EXCEPT !.pc = c] \in Task
      /\ [pc |-> "next", i |-> task[p][l].i + 1] \in Task
  BY <1>1, <1>2 DEF Task
<1>4. /\ [task EXCEPT ![p][l].pc = c] =
           [task EXCEPT ![p] = [task[p] EXCEPT ![l] = [task[p][l] EXCEPT !.pc = c]]]
      /\ Advance(p, l) =
           [task EXCEPT ![p] = [task[p] EXCEPT ![l] = [pc |-> "next", i |-> task[p][l].i + 1]]]
  BY <1>1 DEF Advance
<1>5. ASSUME task' = [task EXCEPT ![p][l].pc = c] \/ task' = Advance(p, l),
             NEW q \in Procs, NEW k \in Listeners,
             task'[q][k].pc \in {"subscribing", "failing"}
      PROVE  task'[q][k].i <= Len(Wants[k])
  <2>1. CASE q = p /\ k = l
    <3>1. task'[q][k] \in {[task[p][l] EXCEPT !.pc = c],
                           [pc |-> "next", i |-> task[p][l].i + 1]}
      BY <1>1, <1>4, <1>5, <2>1
    <3>2. task'[q][k].i = task[p][l].i
      BY <1>1, <1>5, <3>1 DEF Task
    <3>3. QED
      BY <2>1, <3>2
  <2>2. CASE ~ (q = p /\ k = l)
    <3>1. task'[q][k] = task[q][k]
      BY <1>1, <1>4, <1>5, <2>2
    <3>2. QED
      BY <1>5, <3>1 DEF Typed, InRange
  <2>3. QED
    BY <2>1, <2>2
<1>6. QED
  BY <1>1, <1>3, <1>4, <1>5 DEF InRange

LEMMA ClosedTyped ==
  ASSUME Typed, NEW ps, Closed(ps)
  PROVE  /\ task' \in [Procs -> [Listeners -> Task]] /\ pub' \in [Procs -> PubState]
         /\ InRange'
<1>1. task \in [Procs -> [Listeners -> Task]] /\ pub \in [Procs -> PubState]
  BY DEF Typed, TypeOK
<1>2. task' \in [Procs -> [Listeners -> Task]] /\ pub' \in [Procs -> PubState]
  BY <1>1, ClosedTypes
<1>3. ASSUME NEW q \in Procs, NEW k \in Listeners
      PROVE  /\ task'[q][k].i = task[q][k].i
             /\ task'[q][k].pc \in {"subscribing", "failing"} =>
                  task[q][k].pc \in {"subscribing", "failing"}
  BY <1>1, ClosedTask
<1>4. QED
  BY <1>2, <1>3 DEF Typed, InRange

LEMMA RegisterTypes ==
  ASSUME Typed, NEW p \in Procs, NEW l \in Listeners, Register(p, l)
  PROVE  /\ Topic(p, l) \in Topics
         /\ handlers' \in [Procs -> Seq(Topics)] /\ \A q \in Procs : IsKeys(handlers'[q])
         /\ \A q \in Procs : Len(handlers[q]) <= Len(handlers'[q])
<1>1. handlers \in [Procs -> Seq(Topics)] /\ \A q \in Procs : IsKeys(handlers[q])
  BY DEF Typed, TypeOK
<1>2. Topic(p, l) \in Topics
  <2>1. task[p] \in [Listeners -> Task] /\ task[p][l] \in Task
    BY DEF Typed, TypeOK
  <2>2. task[p][l].i \in 1 .. 3 /\ task[p][l].i <= Len(Wants[l])
    BY <2>1 DEF Task, Register
  <2>3. QED
    BY <2>2, WantsType DEF Topic
<1>3. CASE Topic(p, l) \in Registered(p)
  <2>1. handlers' = handlers
    BY <1>1, <1>3 DEF Register
  <2>2. QED
    BY <1>1, <1>2, <2>1
<1>4. CASE Topic(p, l) \notin Registered(p)
  <2>1. handlers' = [handlers EXCEPT ![p] = Append(handlers[p], Topic(p, l))]
    BY <1>1, <1>4 DEF Register
  <2>2. \A i \in 1 .. Len(handlers[p]) : handlers[p][i] # Topic(p, l)
    BY <1>4 DEF Registered
  <2>3. /\ Append(handlers[p], Topic(p, l)) \in Seq(Topics)
        /\ IsKeys(Append(handlers[p], Topic(p, l)))
    BY <1>1, <1>2, <2>2, AppendKey
  <2>4. Len(handlers[p]) <= Len(Append(handlers[p], Topic(p, l)))
    BY <1>1, <1>2
  <2>5. QED
    BY <1>1, <1>2, <2>1, <2>3, <2>4
<1>5. QED
  BY <1>3, <1>4

LEMMA TypedConnection ==
  ASSUME Typed, NEW p \in Procs, Drop(p) \/ Loop(p)
  PROVE  Typed'
<1>1. CASE Drop(p)
  BY <1>1, ClosedTyped, BoundsAssumption DEF Drop, connVars, Typed, TypeOK, Iterates
<1>2. CASE Connect(p)
  <2>1. handlers[p] \in Seq(Topics) /\ Len(handlers[p]) \in Nat
    BY DEF Typed, TypeOK
  <2>2. /\ conn' \in [Procs -> {"connecting", "resubscribing", "listening", "sleeping"}]
        /\ at' \in [Procs -> Nat] /\ upto' \in [Procs -> Nat]
        /\ Iterates'
    <3>1. CASE handlers[p] = <<>>
      BY <1>2, <3>1, IterateTypes DEF Connect
    <3>2. CASE handlers[p] # <<>>
      <4>1. 1 <= Len(handlers[p])
        BY <2>1, <3>2
      <4>2. QED
        BY <1>2, <2>1, <3>2, <4>1, IterateTypes DEF Connect
    <3>3. QED
      BY <3>1, <3>2
  <2>3. /\ task' \in [Procs -> [Listeners -> Task]] /\ pub' \in [Procs -> PubState]
        /\ InRange'
    BY <1>2, ClosedTyped DEF Connect
  <2>4. QED
    BY <1>2, <2>2, <2>3 DEF Connect, Typed, TypeOK
<1>3. CASE ConnectFails(p)
  BY <1>3, BoundsAssumption DEF ConnectFails, pubVars, Typed, TypeOK, InRange, Iterates
<1>4. CASE Resubscribe(p)
  <2>1. CASE Len(handlers[p]) # upto[p]
    <3>1. Closed({p})
      BY <1>4, <2>1 DEF Resubscribe
    <3>2. QED
      BY <1>4, <2>1, <3>1, ClosedTyped DEF Resubscribe, Typed, TypeOK, Iterates
  <2>2. CASE Len(handlers[p]) = upto[p]
    <3>1. /\ handlers[p] \in Seq(Topics) /\ at[p] \in Nat /\ upto[p] \in Nat
          /\ 1 <= at[p] /\ at[p] <= Len(handlers[p])
      BY <1>4, <2>2 DEF Resubscribe, Typed, TypeOK, Iterates
    <3>2. handlers[p][at[p]] \in Topics
      BY <3>1
    <3>3. /\ conn' \in [Procs -> {"connecting", "resubscribing", "listening", "sleeping"}]
          /\ at' \in [Procs -> Nat] /\ upto' \in [Procs -> Nat]
          /\ Iterates'
      <4>1. CASE at[p] = upto[p]
        BY <1>4, <2>2, <4>1, IterateTypes DEF Resubscribe
      <4>2. CASE at[p] # upto[p]
        BY <1>4, <2>2, <3>1, <4>2, IterateTypes DEF Resubscribe
      <4>3. QED
        BY <4>1, <4>2
    <3>4. QED
      BY <1>4, <2>2, <3>2, <3>3 DEF Resubscribe, Typed, TypeOK, InRange
  <2>3. QED
    BY <2>1, <2>2
<1>5. CASE NoticeDrop(p)
  <2>1. /\ conn' \in [Procs -> {"connecting", "resubscribing", "listening", "sleeping"}]
        /\ at' \in [Procs -> Nat] /\ upto' \in [Procs -> Nat]
        /\ Iterates'
    BY <1>5, IterateTypes DEF NoticeDrop
  <2>2. QED
    BY <1>5, <2>1 DEF NoticeDrop, pubVars, Typed, TypeOK, InRange
<1>6. CASE Wake(p)
  BY <1>6 DEF Wake, pubVars, Typed, TypeOK, InRange, Iterates
<1>7. QED
  BY <1>1, <1>2, <1>3, <1>4, <1>5, <1>6 DEF Loop

LEMMA TypedListener ==
  ASSUME Typed, NEW p \in Procs, NEW l \in Listeners, Listen(p, l)
  PROVE  Typed'
<1>1. CASE Register(p, l)
  <2>1. task[p][l].i <= Len(Wants[l])
    BY <1>1 DEF Register
  <2>2. task' \in [Procs -> [Listeners -> Task]] /\ InRange'
    <3>1. CASE client[p] /\ link[p] = "up"
      BY <1>1, <2>1, <3>1, TaskTypes DEF Register
    <3>2. CASE client[p] /\ link[p] # "up"
      BY <1>1, <2>1, <3>2, TaskTypes DEF Register
    <3>3. CASE ~ client[p]
      BY <1>1, <2>1, <3>3, TaskTypes DEF Register
    <3>4. QED
      BY <3>1, <3>2, <3>3
  <2>3. /\ handlers' \in [Procs -> Seq(Topics)] /\ \A q \in Procs : IsKeys(handlers'[q])
        /\ \A q \in Procs : Len(handlers[q]) <= Len(handlers'[q])
    BY <1>1, RegisterTypes
  <2>4. Iterates'
    <3>1. \A q \in Procs : /\ Len(handlers[q]) \in Nat /\ Len(handlers'[q]) \in Nat
                           /\ at[q] \in Nat /\ upto[q] \in Nat
      BY <2>3 DEF Typed, TypeOK
    <3>2. QED
      BY <1>1, <2>3, <3>1 DEF Register, connVars, Typed, Iterates
  <2>5. QED
    BY <1>1, <2>2, <2>3, <2>4 DEF Register, connVars, pubVars, Typed, TypeOK
<1>2. CASE Subscribed(p, l)
  <2>1. task[p][l].i <= Len(Wants[l])
    BY <1>2 DEF Subscribed, Typed, InRange
  <2>2. task' \in [Procs -> [Listeners -> Task]] /\ InRange'
    BY <1>2, <2>1, TaskTypes DEF Subscribed
  <2>3. Topic(p, l) \in Topics
    <3>1. task[p] \in [Listeners -> Task] /\ task[p][l] \in Task
      BY DEF Typed, TypeOK
    <3>2. QED
      BY <2>1, <3>1, WantsType DEF Topic, Task
  <2>4. QED
    BY <1>2, <2>2, <2>3 DEF Subscribed, connVars, pubVars, Typed, TypeOK, Iterates
<1>3. CASE SubscribeRaises(p, l)
  <2>1. task[p][l].i <= Len(Wants[l])
    BY <1>3 DEF SubscribeRaises, Typed, InRange
  <2>2. task' \in [Procs -> [Listeners -> Task]] /\ InRange'
    <3>1. CASE l = "download"
      BY <1>3, <2>1, <3>1, TaskTypes DEF SubscribeRaises
    <3>2. CASE l # "download"
      BY <1>3, <2>1, <3>2, TaskTypes DEF SubscribeRaises
    <3>3. QED
      BY <3>1, <3>2
  <2>3. QED
    BY <1>3, <2>2 DEF SubscribeRaises, connVars, pubVars, Typed, TypeOK, Iterates
<1>4. QED
  BY <1>1, <1>2, <1>3 DEF Listen

\* The publish loop and publish touch nothing that Typed says of the rest.
LEMMA TypedPublish ==
  ASSUME Typed, NEW p \in Procs, Put(p) \/ Publish(p)
  PROVE  Typed'
<1>1. /\ queue \in [Procs -> Seq(Messages)] /\ queue[p] \in Seq(Messages)
      /\ pub \in [Procs -> PubState] /\ pub[p] \in PubState
      /\ delivered \in Seq(Messages)
  BY DEF Typed, TypeOK
<1>2. [pc |-> "get", m |-> NoMessage] \in PubState /\ [pc |-> "resting", m |-> NoMessage] \in PubState
  BY DEF PubState
<1>3. CASE Put(p)
  <2>1. put + 1 \in Messages /\ put' \in 0 .. MaxMessages
    BY <1>3, BoundsAssumption DEF Put, Typed, TypeOK, Messages
  <2>2. Append(queue[p], put + 1) \in Seq(Messages)
    BY <1>1, <2>1
  <2>3. queue' \in [Procs -> Seq(Messages)]
    BY <1>1, <1>3, <2>2 DEF Put
  <2>4. QED
    BY <1>3, <2>1, <2>3 DEF Put, connVars, Typed, TypeOK, InRange, Iterates
<1>4. CASE Take(p)
  <2>1. /\ Head(queue[p]) \in Messages /\ Tail(queue[p]) \in Seq(Messages)
        /\ Append(Tail(queue[p]), Head(queue[p])) \in Seq(Messages)
    BY <1>1, <1>4 DEF Take
  <2>2. queue' \in [Procs -> Seq(Messages)]
    BY <1>1, <1>4, <2>1 DEF Take
  <2>3. \A c \in {"sending", "failing"} : [pc |-> c, m |-> Head(queue[p])] \in PubState
    BY <2>1 DEF PubState
  <2>4. pub' \in [Procs -> PubState]
    <3>1. CASE client[p]
      BY <1>1, <1>4, <2>3, <3>1 DEF Take
    <3>2. CASE ~ client[p]
      BY <1>1, <1>2, <1>4, <3>2 DEF Take
    <3>3. QED
      BY <3>1, <3>2
  <2>5. QED
    BY <1>4, <2>2, <2>4 DEF Take, connVars, Typed, TypeOK, InRange, Iterates
<1>5. CASE Rested(p)
  <2>1. pub[p].m = NoMessage
    BY <1>1, <1>5 DEF Rested, PubState
  <2>2. [pub[p] EXCEPT !.pc = "get"] \in PubState
    BY <1>1, <2>1 DEF PubState
  <2>3. pub' \in [Procs -> PubState]
    BY <1>1, <1>5, <2>2 DEF Rested
  <2>4. QED
    BY <1>5, <2>3 DEF Rested, connVars, Typed, TypeOK, InRange, Iterates
<1>6. CASE Sent(p) \/ SendRaises(p)
  <2>1. pub[p].m \in Messages
    BY <1>1, <1>6 DEF Sent, SendRaises, PubState
  <2>2. Append(delivered, pub[p].m) \in Seq(Messages)
    BY <1>1, <2>1
  <2>3. delivered' \in Seq(Messages)
    BY <1>1, <1>6, <2>2 DEF Sent, SendRaises, MayHaveArrived
  <2>4. pub' \in [Procs -> PubState]
    BY <1>1, <1>2, <1>6 DEF Sent, SendRaises
  <2>5. QED
    BY <1>6, <2>3, <2>4 DEF Sent, SendRaises, connVars, Typed, TypeOK, InRange, Iterates
<1>7. QED
  BY <1>3, <1>4, <1>5, <1>6 DEF Publish

LEMMA TypedNext == Typed /\ [Next]_vars => Typed'
<1> SUFFICES ASSUME Typed, [Next]_vars
             PROVE  Typed'
  OBVIOUS
<1>1. CASE UNCHANGED vars
  BY <1>1 DEF vars, connVars, pubVars, Typed, TypeOK, InRange, Iterates
<1>2. CASE Next
  <2>1. PICK p \in Procs : \/ Drop(p) \/ Loop(p)
                           \/ \E l \in Listeners : Listen(p, l)
                           \/ Put(p) \/ Publish(p)
    BY <1>2 DEF Next
  <2>2. QED
    BY <2>1, TypedConnection, TypedListener, TypedPublish
<1>3. QED
  BY <1>1, <1>2

LEMMA TypedInvariant == Spec => []Typed
BY TypedInit, TypedNext, PTL DEF Spec

\* The connection, the listeners, the publish loop and the queue keep their
\* types, and the handlers are the keys of a dictionary, in every process
\* (mqtt_client.py:30-45, 73-79).
THEOREM TypeCorrect == Spec => []TypeOK
<1>1. Typed => TypeOK
  BY DEF Typed
<1>2. QED
  BY <1>1, TypedInvariant, PTL

-----------------------------------------------------------------------------
(* No registration is missed.  A topic is always the business of someone:  *)
(* of the loop, which has it before it, or of the broker, which has the    *)
(* subscription, or of the listener that asks for it.  What makes this     *)
(* inductive is that only one process at a time is connected under the     *)
(* client id, and that only on a connection does anyone await an answer.   *)

OneIsUp == \A p, q \in Procs : link[p] = "up" /\ link[q] = "up" => p = q

UpIsClient == \A p \in Procs :
  link[p] = "up" => client[p] /\ conn[p] \in {"resubscribing", "listening"}

AskedWhenUp == \A p \in Procs, l \in Listeners :
  task[p][l].pc = "subscribing" => link[p] = "up"

AheadOfLoop(p, k) == conn[p] = "resubscribing" /\ at[p] <= k /\ k <= upto[p]

AskedFor(p, t) == \E l \in Listeners : task[p][l].pc = "subscribing" /\ Topic(p, l) = t

Covered == \A p \in Procs : link[p] = "up" =>
  \A k \in 1 .. Len(handlers[p]) :
    \/ AheadOfLoop(p, k)
    \/ handlers[p][k] \in subs
    \/ AskedFor(p, handlers[p][k])

Connected == OneIsUp /\ UpIsClient /\ AskedWhenUp

LEMMA ConnectedNext == Typed /\ Connected /\ [Next]_vars => Connected'
<1> SUFFICES ASSUME Typed, Connected, [Next]_vars
             PROVE  Connected'
  OBVIOUS
<1>1. /\ task \in [Procs -> [Listeners -> Task]] /\ link \in [Procs -> {"none", "up", "down"}]
      /\ client \in [Procs -> BOOLEAN]
      /\ conn \in [Procs -> {"connecting", "resubscribing", "listening", "sleeping"}]
  BY DEF Typed, TypeOK
<1>2. CASE UNCHANGED vars
  BY <1>2 DEF vars, connVars, pubVars, Connected, OneIsUp, UpIsClient, AskedWhenUp
<1>3. ASSUME NEW p \in Procs, Drop(p)
      PROVE  Connected'
  <2>1. Closed({p})
    BY <1>3 DEF Drop
  <2>2. AskedWhenUp'
    BY <1>1, <1>3, <2>1, ClosedTask DEF Drop, Connected, AskedWhenUp
  <2>3. QED
    BY <1>1, <1>3, <2>2 DEF Drop, connVars, Connected, OneIsUp, UpIsClient
<1>4. ASSUME NEW p \in Procs, Connect(p)
      PROVE  Connected'
  <2>1. Closed(Up)
    BY <1>4 DEF Connect
  <2>2. \A q \in Procs : link'[q] = "up" => q = p
    BY <1>4 DEF Connect
  <2>3. link'[p] = "up" /\ client'[p] /\ conn'[p] \in {"resubscribing", "listening"}
    BY <1>1, <1>4 DEF Connect, Iterate
  <2>4. ASSUME NEW q \in Procs, NEW l \in Listeners, task'[q][l].pc = "subscribing"
        PROVE  FALSE
    <3>1. task[q][l].pc = "subscribing" => q \in Up
      BY DEF Connected, AskedWhenUp, Up
    <3>2. QED
      BY <1>1, <2>1, <2>4, <3>1, ClosedTask
  <2>5. QED
    BY <2>2, <2>3, <2>4 DEF Connected, OneIsUp, UpIsClient, AskedWhenUp
<1>5. ASSUME NEW p \in Procs, ConnectFails(p) \/ Wake(p)
      PROVE  Connected'
  BY <1>1, <1>5 DEF ConnectFails, Wake, pubVars, Connected, OneIsUp, UpIsClient, AskedWhenUp
<1>6. ASSUME NEW p \in Procs, Resubscribe(p)
      PROVE  Connected'
  <2>1. CASE Len(handlers[p]) # upto[p]
    <3>1. Closed({p})
      BY <1>6, <2>1 DEF Resubscribe
    <3>2. AskedWhenUp'
      BY <1>1, <1>6, <2>1, <3>1, ClosedTask DEF Resubscribe, Connected, AskedWhenUp
    <3>3. QED
      BY <1>1, <1>6, <2>1, <3>2 DEF Resubscribe, Connected, OneIsUp, UpIsClient
  <2>2. CASE Len(handlers[p]) = upto[p]
    <3>1. conn'[p] \in {"resubscribing", "listening"}
          /\ \A q \in Procs \ {p} : conn'[q] = conn[q]
      BY <1>1, <1>6, <2>2 DEF Resubscribe, Iterate
    <3>2. QED
      BY <1>6, <2>2, <3>1 DEF Resubscribe, Connected, OneIsUp, UpIsClient, AskedWhenUp
  <2>3. QED
    BY <2>1, <2>2
<1>7. ASSUME NEW p \in Procs, NoticeDrop(p)
      PROVE  Connected'
  BY <1>1, <1>7 DEF NoticeDrop, Iterate, pubVars, Connected, OneIsUp, UpIsClient, AskedWhenUp
<1>8. ASSUME NEW p \in Procs, NEW l \in Listeners, Listen(p, l)
      PROVE  Connected'
  <2>1. UNCHANGED <<link, client, conn>>
    BY <1>8 DEF Listen, Register, Subscribed, SubscribeRaises, connVars
  <2>2. ASSUME NEW q \in Procs, NEW k \in Listeners, task'[q][k].pc = "subscribing"
        PROVE  task[q][k].pc = "subscribing" \/ (q = p /\ link[p] = "up")
    <3>1. task[p] \in [Listeners -> Task] /\ task[p][l] \in Task
      BY <1>1
    <3>2. CASE Register(p, l)
      BY <1>1, <2>2, <3>1, <3>2 DEF Register, Advance, Task
    <3>3. CASE Subscribed(p, l)
      BY <1>1, <2>2, <3>1, <3>3 DEF Subscribed, Advance, Task
    <3>4. CASE SubscribeRaises(p, l)
      BY <1>1, <2>2, <3>1, <3>4 DEF SubscribeRaises, Task
    <3>5. QED
      BY <1>8, <3>2, <3>3, <3>4 DEF Listen
  <2>3. QED
    BY <2>1, <2>2 DEF Connected, OneIsUp, UpIsClient, AskedWhenUp
<1>9. ASSUME NEW p \in Procs, Put(p) \/ Publish(p)
      PROVE  Connected'
  BY <1>9 DEF Put, Publish, Take, Rested, Sent, SendRaises, connVars,
              Connected, OneIsUp, UpIsClient, AskedWhenUp
<1>10. QED
  BY <1>2, <1>3, <1>4, <1>5, <1>6, <1>7, <1>8, <1>9 DEF Next, Loop

\* What is covered stays so when nothing that covers it is touched.
LEMMA CoveredSame ==
  ASSUME Covered, UNCHANGED <<link, conn, at, upto, handlers, subs, task>>
  PROVE  Covered'
BY DEF Covered, AheadOfLoop, AskedFor, Topic

LEMMA CoveredConnection ==
  ASSUME Typed, Connected, Covered, NEW p \in Procs, Drop(p) \/ Loop(p)
  PROVE  Covered'
<1>1. /\ task \in [Procs -> [Listeners -> Task]] /\ link \in [Procs -> {"none", "up", "down"}]
      /\ conn \in [Procs -> {"connecting", "resubscribing", "listening", "sleeping"}]
      /\ at \in [Procs -> Nat] /\ upto \in [Procs -> Nat]
      /\ handlers \in [Procs -> Seq(Topics)]
  BY DEF Typed, TypeOK
<1>2. ASSUME \A q \in Procs : link'[q] # "up"
      PROVE  Covered'
  BY <1>2 DEF Covered
<1>3. CASE Drop(p)
  <2>1. \A q \in Procs : link'[q] # "up"
    BY <1>1, <1>3 DEF Drop, Connected, OneIsUp
  <2>2. QED
    BY <1>2, <2>1
<1>4. CASE Connect(p)
  <2>1. UNCHANGED handlers /\ \A q \in Procs : link'[q] = "up" => q = p
    BY <1>4 DEF Connect
  <2>2. ASSUME NEW k \in 1 .. Len(handlers[p])
        PROVE  AheadOfLoop(p, k)'
    <3>1. handlers[p] # <<>>
      BY <1>1, <2>2
    <3>2. conn'[p] = "resubscribing" /\ at'[p] = 1 /\ upto'[p] = Len(handlers[p])
      BY <1>1, <1>4, <3>1 DEF Connect, Iterate
    <3>3. QED
      BY <1>1, <2>2, <3>2 DEF AheadOfLoop
  <2>3. QED
    BY <2>1, <2>2 DEF Covered
<1>5. CASE ConnectFails(p) \/ Wake(p)
  <2>1. /\ UNCHANGED <<link, at, upto, handlers, subs, task>>
        /\ \A q \in Procs : conn'[q] = conn[q] \/ conn[q] \in {"connecting", "sleeping"}
    BY <1>1, <1>5 DEF ConnectFails, Wake, pubVars
  <2>2. \A q \in Procs : link[q] = "up" => conn'[q] = conn[q]
    BY <2>1 DEF Connected, UpIsClient
  <2>3. QED
    BY <2>1, <2>2 DEF Covered, AheadOfLoop, AskedFor, Topic
<1>6. CASE Resubscribe(p)
  <2>1. CASE Len(handlers[p]) # upto[p]
    <3>1. \A q \in Procs : link'[q] # "up"
      BY <1>1, <1>6, <2>1 DEF Resubscribe, Connected, OneIsUp
    <3>2. QED
      BY <1>2, <3>1
  <2>2. CASE Len(handlers[p]) = upto[p]
    <3>1. /\ UNCHANGED <<link, handlers, task>>
          /\ link[p] = "up"
          /\ subs' = subs \cup {handlers[p][at[p]]}
      BY <1>6, <2>2 DEF Resubscribe
    <3>2. \A q \in Procs : link'[q] = "up" => q = p
      BY <3>1 DEF Connected, OneIsUp
    <3>3. ASSUME NEW k \in 1 .. Len(handlers[p])
          PROVE  \/ AheadOfLoop(p, k)'
                 \/ handlers[p][k] \in subs'
                 \/ AskedFor(p, handlers[p][k])'
      <4>1. CASE k = at[p]
        BY <3>1, <4>1
      <4>2. CASE AheadOfLoop(p, k) /\ k # at[p]
        <5>1. /\ at[p] \in Nat /\ upto[p] \in Nat /\ k \in Nat
              /\ at[p] <= k /\ k <= upto[p]
          BY <1>1, <4>2 DEF AheadOfLoop
        <5>2. at[p] # upto[p] /\ at[p] + 1 <= k
          BY <4>2, <5>1
        <5>3. conn'[p] = "resubscribing" /\ at'[p] = at[p] + 1 /\ upto'[p] = upto[p]
          BY <1>1, <1>6, <2>2, <5>2 DEF Resubscribe, Iterate
        <5>4. QED
          BY <5>1, <5>2, <5>3 DEF AheadOfLoop
      <4>3. CASE handlers[p][k] \in subs
        BY <3>1, <4>3
      <4>4. CASE AskedFor(p, handlers[p][k])
        BY <3>1, <4>4 DEF AskedFor, Topic
      <4>5. QED
        BY <3>1, <4>1, <4>2, <4>3, <4>4 DEF Covered
    <3>4. QED
      BY <3>1, <3>2, <3>3 DEF Covered
  <2>3. QED
    BY <2>1, <2>2
<1>7. CASE NoticeDrop(p)
  <2>1. /\ link'[p] = "none"
        /\ \A q \in Procs \ {p} : /\ link'[q] = link[q] /\ conn'[q] = conn[q]
                                  /\ at'[q] = at[q] /\ upto'[q] = upto[q]
        /\ UNCHANGED <<handlers, subs, task>>
    BY <1>1, <1>7 DEF NoticeDrop, Iterate, pubVars
  <2>2. QED
    BY <2>1 DEF Covered, AheadOfLoop, AskedFor, Topic
<1>8. QED
  BY <1>3, <1>4, <1>5, <1>6, <1>7 DEF Loop

LEMMA CoveredListener ==
  ASSUME Typed, Connected, Covered, NEW p \in Procs, NEW l \in Listeners, Listen(p, l)
  PROVE  Covered'
<1>1. /\ task \in [Procs -> [Listeners -> Task]]
      /\ task[p] \in [Listeners -> Task] /\ task[p][l] \in Task
      /\ handlers \in [Procs -> Seq(Topics)] /\ handlers[p] \in Seq(Topics)
  BY DEF Typed, TypeOK
<1>2. UNCHANGED <<link, client, conn, at, upto>>
  BY DEF Listen, Register, Subscribed, SubscribeRaises, connVars
<1>3. ASSUME NEW q \in Procs, NEW k \in Listeners, ~ (q = p /\ k = l)
      PROVE  task'[q][k] = task[q][k]
  BY <1>1, <1>3 DEF Listen, Register, Subscribed, SubscribeRaises, Advance
<1>4. CASE Register(p, l)
  <2>1. UNCHANGED subs
    BY <1>4 DEF Register
  <2>2. ASSUME NEW q \in Procs, NEW t, AskedFor(q, t)
        PROVE  AskedFor(q, t)'
    <3>1. PICK k \in Listeners : task[q][k].pc = "subscribing" /\ Topic(q, k) = t
      BY <2>2 DEF AskedFor
    <3>2. ~ (q = p /\ k = l)
      BY <1>4, <3>1 DEF Register
    <3>3. QED
      BY <1>3, <3>1, <3>2 DEF AskedFor, Topic
  <2>3. ASSUME link[p] = "up"
        PROVE  AskedFor(p, Topic(p, l))'
    <3>1. client[p]
      BY <2>3 DEF Connected, UpIsClient
    <3>2. task' = [task EXCEPT ![p][l].pc = "subscribing"]
      BY <1>4, <2>3, <3>1 DEF Register
    <3>3. task'[p][l].pc = "subscribing" /\ task'[p][l].i = task[p][l].i
      BY <1>1, <3>2 DEF Task
    <3>4. QED
      BY <3>3 DEF AskedFor, Topic
  <2>4. ASSUME NEW q \in Procs, NEW k \in 1 .. Len(handlers'[q])
        PROVE  \/ k \in 1 .. Len(handlers[q]) /\ handlers'[q][k] = handlers[q][k]
               \/ q = p /\ handlers'[q][k] = Topic(p, l)
    <3>1. CASE q # p \/ Topic(p, l) \in Registered(p)
      <4>1. handlers'[q] = handlers[q]
        BY <1>1, <1>4, <3>1 DEF Register
      <4>2. QED
        BY <2>4, <4>1
    <3>2. CASE q = p /\ Topic(p, l) \notin Registered(p)
      <4>1. handlers'[p] = Append(handlers[p], Topic(p, l))
        BY <1>1, <1>4, <3>2 DEF Register
      <4>2. Topic(p, l) \in Topics
        BY <1>4, RegisterTypes
      <4>3. QED
        BY <1>1, <2>4, <3>2, <4>1, <4>2
    <3>3. QED
      BY <3>1, <3>2
  <2>5. ASSUME NEW q \in Procs, link'[q] = "up", NEW k \in 1 .. Len(handlers'[q])
        PROVE  \/ AheadOfLoop(q, k)'
               \/ handlers'[q][k] \in subs'
               \/ AskedFor(q, handlers[q][k])'
    <3>1. CASE k \in 1 .. Len(handlers[q]) /\ handlers'[q][k] = handlers[q][k]
      <4>1. AheadOfLoop(q, k) \/ handlers[q][k] \in subs \/ AskedFor(q, handlers[q][k])
        BY <1>2, <2>5, <3>1 DEF Covered
      <4>2. AskedFor(q, handlers[q][k]) => AskedFor(q, handlers[q][k])'
        BY <2>2, <3>1 DEF AskedFor, Topic
      <4>3. QED
        BY <1>2, <2>1, <3>1, <4>1, <4>2 DEF AheadOfLoop
    <3>2. CASE q = p /\ handlers'[q][k] = Topic(p, l)
      <4>1. AskedFor(p, Topic(p, l))'
        BY <1>2, <2>3, <2>5, <3>2
      <4>2. task'[p][l].i = task[p][l].i
        BY <1>1, <1>2, <1>4, <2>5, <3>2 DEF Register, Connected, UpIsClient, Task
      <4>3. QED
        BY <3>2, <4>1, <4>2 DEF AskedFor, Topic
    <3>3. QED
      BY <2>4, <2>5, <3>1, <3>2
  <2>6. QED
    BY <2>5 DEF Covered
<1>5. CASE Subscribed(p, l)
  <2>1. subs' = subs \cup {Topic(p, l)} /\ UNCHANGED handlers
    BY <1>5 DEF Subscribed
  <2>2. link[p] = "up"
    BY <1>5 DEF Subscribed, Connected, AskedWhenUp
  <2>3. ASSUME NEW t, AskedFor(p, t)
        PROVE  t \in subs' \/ AskedFor(p, t)'
    <3>1. PICK k \in Listeners : task[p][k].pc = "subscribing" /\ Topic(p, k) = t
      BY <2>3 DEF AskedFor
    <3>2. CASE k = l
      BY <2>1, <3>1, <3>2
    <3>3. CASE k # l
      BY <1>3, <3>1, <3>3 DEF AskedFor, Topic
    <3>4. QED
      BY <3>2, <3>3
  <2>4. \A q \in Procs : link'[q] = "up" => q = p
    BY <1>2, <2>2 DEF Connected, OneIsUp
  <2>5. QED
    BY <1>2, <2>1, <2>3, <2>4 DEF Covered, AheadOfLoop
<1>6. CASE SubscribeRaises(p, l)
  <2>1. UNCHANGED <<handlers, subs>>
    BY <1>6 DEF SubscribeRaises
  <2>2. ASSUME NEW q \in Procs, NEW t, AskedFor(q, t)
        PROVE  AskedFor(q, t)'
    <3>1. PICK k \in Listeners : task[q][k].pc = "subscribing" /\ Topic(q, k) = t
      BY <2>2 DEF AskedFor
    <3>2. ~ (q = p /\ k = l)
      BY <1>6, <3>1 DEF SubscribeRaises
    <3>3. QED
      BY <1>3, <3>1, <3>2 DEF AskedFor, Topic
  <2>3. QED
    BY <1>2, <2>1, <2>2 DEF Covered, AheadOfLoop
<1>7. QED
  BY <1>4, <1>5, <1>6 DEF Listen

LEMMA CoveredNext == Typed /\ Connected /\ Covered /\ [Next]_vars => Covered'
<1> SUFFICES ASSUME Typed, Connected, Covered, [Next]_vars
             PROVE  Covered'
  OBVIOUS
<1>1. CASE UNCHANGED vars
  BY <1>1, CoveredSame DEF vars, connVars
<1>2. CASE Next
  <2>1. PICK p \in Procs : \/ Drop(p) \/ Loop(p)
                           \/ \E l \in Listeners : Listen(p, l)
                           \/ Put(p) \/ Publish(p)
    BY <1>2 DEF Next
  <2>2. CASE Put(p) \/ Publish(p)
    BY <2>2, CoveredSame DEF Put, Publish, Take, Rested, Sent, SendRaises, connVars
  <2>3. QED
    BY <2>1, <2>2, CoveredConnection, CoveredListener
<1>3. QED
  BY <1>1, <1>2

\* Whatever is registered before, during or after a reconnection, a process
\* that has come to listening is subscribed to it, or its listener is asking
\* for it: for any number of processes, lost connections and listeners
\* (mqtt_client.py:73-79, 87-120).
THEOREM NoRegistrationMissed == Spec => []ReadyMeansSubscribed
<1> DEFINE IInv == Typed /\ Connected /\ Covered
<1>1. Init => Connected /\ Covered
  BY DEF Init, Connected, OneIsUp, UpIsClient, AskedWhenUp, Covered
<1>2. Init => IInv
  BY <1>1, TypedInit
<1>3. IInv /\ [Next]_vars => IInv'
  BY TypedNext, ConnectedNext, CoveredNext
<1>4. Covered => ReadyMeansSubscribed
  BY DEF Covered, ReadyMeansSubscribed, Registered, AheadOfLoop, AskedFor
<1>5. QED
  BY <1>2, <1>3, <1>4, PTL DEF Spec

-----------------------------------------------------------------------------
(* No message twice.  A message is in one place at most: in a queue, in    *)
(* the hands of a publish loop, or with the broker.  The part about        *)
(* AtMostOnce is inductive with the others, and with the number of         *)
(* messages published so far, which makes the next one new.                *)

Numbered ==
  /\ \A i \in 1 .. Len(delivered) : delivered[i] <= put
  /\ \A p \in Procs : pub[p].m <= put
  /\ \A p \in Procs : \A i \in 1 .. Len(queue[p]) : queue[p][i] <= put

QueuedOnce == \A p, q \in Procs :
  \A i \in 1 .. Len(queue[p]), j \in 1 .. Len(queue[q]) :
    queue[p][i] = queue[q][j] => p = q /\ i = j

HeldOnce == \A p, q \in Procs : pub[p].m = pub[q].m /\ pub[p].m # NoMessage => p = q

Apart == \A p \in Procs :
  /\ \A q \in Procs : \A i \in 1 .. Len(queue[p]) : queue[p][i] # pub[q].m
  /\ \A j \in 1 .. Len(delivered) :
       /\ pub[p].m # delivered[j]
       /\ \A i \in 1 .. Len(queue[p]) : queue[p][i] # delivered[j]

OnePlace == Numbered /\ AtMostOnce /\ QueuedOnce /\ HeldOnce /\ Apart

LEMMA AppendMessage ==
  ASSUME NEW q \in Seq(Messages), NEW m \in Messages, NEW r, r = Append(q, m),
         NEW i \in 1 .. Len(r)
  PROVE  \/ i \in 1 .. Len(q) /\ r[i] = q[i]
         \/ i = Len(q) + 1 /\ r[i] = m
<1>1. Len(q) \in Nat /\ Len(r) = Len(q) + 1
  OBVIOUS
<1>2. i \in 1 .. Len(q) \/ i = Len(q) + 1
  BY <1>1
<1>3. QED
  BY <1>1, <1>2

LEMMA TailMessage ==
  ASSUME NEW q \in Seq(Messages), q # <<>>, NEW r, r = Tail(q),
         NEW i \in 1 .. Len(r)
  PROVE  i + 1 \in 1 .. Len(q) /\ i + 1 # 1 /\ i \in Nat /\ r[i] = q[i + 1]
<1>1. Len(q) \in Nat /\ Len(r) = Len(q) - 1
  OBVIOUS
<1>2. i + 1 \in 1 .. Len(q) /\ i + 1 # 1 /\ i \in Nat
  BY <1>1
<1>3. QED
  BY <1>2

\* Where the messages of a queue come from when its head has gone to the end.
From(q, i) == IF i = Len(q) THEN 1 ELSE i + 1

LEMMA Rotated ==
  ASSUME NEW q \in Seq(Messages), q # <<>>, NEW r, r = Append(Tail(q), Head(q)),
         NEW i \in 1 .. Len(r)
  PROVE  From(q, i) \in 1 .. Len(q) /\ i \in 1 .. Len(q) /\ r[i] = q[From(q, i)]
<1>1. Len(q) \in Nat \ {0} /\ Head(q) = q[1] /\ q[1] \in Messages
  OBVIOUS
<1>a. Tail(q) \in Seq(Messages) /\ Len(Tail(q)) = Len(q) - 1
  OBVIOUS
<1>2. PICK t \in Seq(Messages) : t = Tail(q) /\ Len(t) = Len(q) - 1
  BY <1>a, Zenon
<1>3. r = Append(t, q[1])
  BY <1>1, <1>2
<1>4. \/ i \in 1 .. Len(t) /\ r[i] = t[i]
      \/ i = Len(t) + 1 /\ r[i] = q[1]
  BY <1>1, <1>3, AppendMessage
<1>5. CASE i = Len(t) + 1
  <2>1. i = Len(q) /\ r[i] = q[1]
    BY <1>1, <1>2, <1>4, <1>5
  <2>2. QED
    BY <1>1, <2>1 DEF From
<1>6. CASE i \in 1 .. Len(t) /\ r[i] = t[i]
  <2>1. i + 1 \in 1 .. Len(q) /\ i \in Nat /\ t[i] = q[i + 1]
    BY <1>2, <1>6, TailMessage
  <2>2. i # Len(q) /\ i \in 1 .. Len(q)
    <3>1. i \in 1 .. Len(t)
      BY <1>6
    <3>2. QED
      BY <1>1, <2>1, <3>1
  <2>3. QED
    BY <1>6, <2>1, <2>2 DEF From
<1>7. QED
  BY <1>4, <1>5, <1>6

\* No two messages of a queue come from the same.
LEMMA FromOnce ==
  ASSUME NEW q \in Seq(Messages), NEW i \in 1 .. Len(q), NEW j \in 1 .. Len(q),
         From(q, i) = From(q, j)
  PROVE  i = j
<1>1. Len(q) \in Nat /\ i \in Nat /\ j \in Nat /\ i >= 1 /\ j >= 1
  OBVIOUS
<1>2. QED
  BY <1>1 DEF From

\* Every step but publish and those of the publish loops leaves the messages
\* where they are.
LEMMA OnePlaceSame ==
  ASSUME OnePlace, UNCHANGED <<queue, put, delivered>>,
         \A p \in Procs : pub'[p].m = pub[p].m
  PROVE  OnePlace'
BY DEF OnePlace, Numbered, AtMostOnce, QueuedOnce, HeldOnce, Apart

LEMMA ClosedPub ==
  ASSUME Typed, NEW ps, Closed(ps), NEW p \in Procs
  PROVE  pub'[p].m = pub[p].m
<1>1. pub[p] \in PubState
  BY DEF Typed, TypeOK
<1>2. [pub[p] EXCEPT !.pc = "unanswered"].m = pub[p].m
  BY <1>1 DEF PubState
<1>3. pub'[p] \in {pub[p], [pub[p] EXCEPT !.pc = "unanswered"]}
  BY DEF Closed, FailingPub
<1>4. QED
  BY <1>2, <1>3

LEMMA OnePlacePublish ==
  ASSUME Typed, Typed', OnePlace, NEW p \in Procs, Put(p) \/ Publish(p)
  PROVE  OnePlace'
<1>1. /\ queue \in [Procs -> Seq(Messages)] /\ queue[p] \in Seq(Messages)
      /\ pub \in [Procs -> PubState] /\ pub[p] \in PubState
      /\ delivered \in Seq(Messages) /\ put \in Nat
      /\ \A q \in Procs : queue[q] \in Seq(Messages) /\ pub[q].m \in Nat
  <2>1. \A q \in Procs : pub[q] \in PubState
    BY DEF Typed, TypeOK
  <2>2. \A q \in Procs : pub[q].m \in Nat
    BY <2>1, BoundsAssumption DEF PubState, Messages, NoMessage
  <2>3. QED
    BY <2>2 DEF Typed, TypeOK
<1>a. /\ \A q \in Procs : pub[q].m <= put
      /\ \A j \in 1 .. Len(delivered) : delivered[j] \in Nat /\ delivered[j] <= put
      /\ \A q \in Procs : \A i \in 1 .. Len(queue[q]) : queue[q][i] \in Nat /\ queue[q][i] <= put
  <2>1. \A m \in Messages : m \in Nat
    BY BoundsAssumption DEF Messages
  <2>2. /\ \A j \in 1 .. Len(delivered) : delivered[j] \in Messages
        /\ \A q \in Procs : \A i \in 1 .. Len(queue[q]) : queue[q][i] \in Messages
    BY <1>1
  <2>3. QED
    BY <2>1, <2>2 DEF OnePlace, Numbered
<1>2. CASE Put(p)
  <2>1. put' = put + 1 /\ put + 1 \in Messages /\ UNCHANGED <<pub, delivered>>
    BY <1>1, <1>2, BoundsAssumption DEF Put, Messages
  <2>2. \A q \in Procs : queue'[q] = IF q = p THEN Append(queue[p], put + 1) ELSE queue[q]
    BY <1>1, <1>2 DEF Put
  <2>3. ASSUME NEW q \in Procs, NEW i \in 1 .. Len(queue'[q])
        PROVE  \/ i \in 1 .. Len(queue[q]) /\ queue'[q][i] = queue[q][i]
               \/ q = p /\ i = Len(queue[p]) + 1 /\ queue'[q][i] = put + 1
    <3>1. CASE q = p
      <4>1. queue'[p] = Append(queue[p], put + 1)
        BY <2>2
      <4>2. QED
        BY <1>1, <2>1, <2>3, <3>1, <4>1, AppendMessage
    <3>2. CASE q # p
      BY <2>2, <2>3, <3>2
    <3>3. QED
      BY <3>1, <3>2
  <2>4. \A n \in Nat : n <= put => n <= put + 1 /\ n # put + 1
    BY <1>1
  <2>5. Numbered'
    <3>1. ASSUME NEW q \in Procs, NEW i \in 1 .. Len(queue'[q])
          PROVE  queue'[q][i] <= put'
      <4>1. \/ queue'[q][i] \in Nat /\ queue'[q][i] <= put
            \/ queue'[q][i] = put + 1
        BY <1>a, <2>3
      <4>2. QED
        BY <1>1, <2>1, <4>1
    <3>2. QED
      BY <1>1, <1>a, <2>1, <2>4, <3>1 DEF Numbered
  <2>6. AtMostOnce' /\ HeldOnce'
    BY <2>1 DEF OnePlace, AtMostOnce, HeldOnce
  <2>7. QueuedOnce'
    <3> SUFFICES ASSUME NEW q \in Procs, NEW r \in Procs,
                        NEW i \in 1 .. Len(queue'[q]), NEW j \in 1 .. Len(queue'[r]),
                        queue'[q][i] = queue'[r][j]
                 PROVE  q = r /\ i = j
      BY DEF QueuedOnce
    <3>1. \/ i \in 1 .. Len(queue[q]) /\ queue'[q][i] = queue[q][i]
          \/ q = p /\ i = Len(queue[p]) + 1 /\ queue'[q][i] = put + 1
      BY <2>3
    <3>2. \/ j \in 1 .. Len(queue[r]) /\ queue'[r][j] = queue[r][j]
          \/ r = p /\ j = Len(queue[p]) + 1 /\ queue'[r][j] = put + 1
      BY <2>3
    <3>3. QED
      BY <1>a, <2>4, <3>1, <3>2 DEF OnePlace, QueuedOnce
  <2>8. Apart'
    <3>1. ASSUME NEW q \in Procs, NEW r \in Procs, NEW i \in 1 .. Len(queue'[q])
          PROVE  queue'[q][i] # pub'[r].m
      <4>1. pub'[r].m = pub[r].m /\ pub[r].m # put + 1
        BY <1>1, <1>a, <2>1, <2>4
      <4>2. QED
        BY <2>3, <4>1 DEF OnePlace, Apart
    <3>2. \A q \in Procs : \A j \in 1 .. Len(delivered') : \A i \in 1 .. Len(queue'[q]) :
            queue'[q][i] # delivered'[j]
      BY <1>a, <2>1, <2>3, <2>4 DEF OnePlace, Apart
    <3>3. QED
      BY <2>1, <3>1, <3>2 DEF OnePlace, Apart
  <2>9. QED
    BY <2>5, <2>6, <2>7, <2>8 DEF OnePlace
<1>3. CASE Take(p)
  <2>1. UNCHANGED <<put, delivered>> /\ queue[p] # <<>> /\ pub[p].m = NoMessage
    BY <1>1, <1>3 DEF Take, PubState
  <2>2. /\ 1 \in 1 .. Len(queue[p]) /\ Head(queue[p]) = queue[p][1]
        /\ queue[p][1] \in Messages /\ queue[p][1] # NoMessage
    <3>1. 1 \in 1 .. Len(queue[p]) /\ Head(queue[p]) = queue[p][1] /\ queue[p][1] \in Messages
      BY <1>1, <2>1
    <3>2. NoMessage \notin Messages
      BY DEF Messages, NoMessage
    <3>3. QED
      BY <3>1, <3>2
  <2>3. CASE client[p]
    <3>1. /\ queue' = [queue EXCEPT ![p] = Tail(queue[p])]
          /\ pub' = [pub EXCEPT ![p] =
               [pc |-> IF link[p] = "up" THEN "sending" ELSE "failing", m |-> Head(queue[p])]]
      BY <1>1, <1>3, <2>3 DEF Take
    <3>2. \A q \in Procs : queue'[q] = IF q = p THEN Tail(queue[p]) ELSE queue[q]
      BY <1>1, <3>1
    <3>3. \A q \in Procs : pub'[q].m = IF q = p THEN queue[p][1] ELSE pub[q].m
      BY <1>1, <2>2, <3>1
    <3>4. ASSUME NEW q \in Procs, NEW i \in 1 .. Len(queue'[q])
          PROVE  \/ /\ q = p /\ i \in Nat /\ i + 1 \in 1 .. Len(queue[p]) /\ i + 1 # 1
                    /\ queue'[q][i] = queue[p][i + 1]
                 \/ q # p /\ i \in 1 .. Len(queue[q]) /\ queue'[q][i] = queue[q][i]
      <4>1. CASE q = p
        <5>1. queue'[p] = Tail(queue[p])
          BY <3>2
        <5>2. QED
          BY <1>1, <2>1, <3>4, <4>1, <5>1, TailMessage
      <4>2. CASE q # p
        BY <3>2, <3>4, <4>2
      <4>3. QED
        BY <4>1, <4>2
    <3>5. Numbered'
      BY <1>a, <2>1, <2>2, <3>3, <3>4 DEF Numbered
    <3>6. QueuedOnce'
      <4> SUFFICES ASSUME NEW q \in Procs, NEW r \in Procs,
                          NEW i \in 1 .. Len(queue'[q]), NEW j \in 1 .. Len(queue'[r]),
                          queue'[q][i] = queue'[r][j]
                   PROVE  q = r /\ i = j
        BY DEF QueuedOnce
      <4>1. \/ /\ q = p /\ i \in Nat /\ i + 1 \in 1 .. Len(queue[p]) /\ i + 1 # 1
               /\ queue'[q][i] = queue[p][i + 1]
            \/ q # p /\ i \in 1 .. Len(queue[q]) /\ queue'[q][i] = queue[q][i]
        BY <3>4
      <4>2. \/ /\ r = p /\ j \in Nat /\ j + 1 \in 1 .. Len(queue[p]) /\ j + 1 # 1
               /\ queue'[r][j] = queue[p][j + 1]
            \/ r # p /\ j \in 1 .. Len(queue[r]) /\ queue'[r][j] = queue[r][j]
        BY <3>4
      <4>3. CASE q = p /\ r = p
        <5>1. i + 1 = j + 1
          BY <4>1, <4>2, <4>3 DEF OnePlace, QueuedOnce
        <5>2. QED
          BY <4>1, <4>2, <4>3, <5>1
      <4>4. CASE ~ (q = p /\ r = p)
        BY <4>1, <4>2, <4>4 DEF OnePlace, QueuedOnce
      <4>5. QED
        BY <4>3, <4>4
    <3>7. HeldOnce'
      BY <2>2, <3>3 DEF OnePlace, HeldOnce, Apart
    <3>8. Apart'
      <4>1. ASSUME NEW q \in Procs, NEW r \in Procs, NEW i \in 1 .. Len(queue'[q])
            PROVE  queue'[q][i] # pub'[r].m
        <5>1. CASE r = p
          BY <2>2, <3>3, <3>4, <4>1, <5>1 DEF OnePlace, QueuedOnce
        <5>2. CASE r # p
          BY <3>3, <3>4, <4>1, <5>2 DEF OnePlace, Apart
        <5>3. QED
          BY <5>1, <5>2
      <4>2. \A q \in Procs : \A j \in 1 .. Len(delivered') : pub'[q].m # delivered'[j]
        BY <2>1, <2>2, <3>3 DEF OnePlace, Apart
      <4>3. \A q \in Procs : \A j \in 1 .. Len(delivered') : \A i \in 1 .. Len(queue'[q]) :
              queue'[q][i] # delivered'[j]
        BY <2>1, <3>4 DEF OnePlace, Apart
      <4>4. QED
        BY <4>1, <4>2, <4>3 DEF Apart
    <3>9. QED
      BY <2>1, <3>5, <3>6, <3>7, <3>8 DEF OnePlace, AtMostOnce
  <2>4. CASE ~ client[p]
    <3>1. /\ queue' = [queue EXCEPT ![p] = Append(Tail(queue[p]), Head(queue[p]))]
          /\ pub' = [pub EXCEPT ![p] = [pc |-> "resting", m |-> NoMessage]]
      BY <1>1, <1>3, <2>4 DEF Take
    <3>2. \A q \in Procs : pub'[q].m = pub[q].m
      BY <1>1, <2>1, <3>1
    <3>3. ASSUME NEW q \in Procs, NEW i \in 1 .. Len(queue'[q])
          PROVE  \/ /\ q = p /\ From(queue[p], i) \in 1 .. Len(queue[p])
                    /\ i \in 1 .. Len(queue[p])
                    /\ queue'[q][i] = queue[p][From(queue[p], i)]
                 \/ q # p /\ i \in 1 .. Len(queue[q]) /\ queue'[q][i] = queue[q][i]
      <4>1. CASE q = p
        <5>1. queue'[p] = Append(Tail(queue[p]), Head(queue[p]))
          BY <1>1, <3>1
        <5>2. QED
          BY <1>1, <2>1, <3>3, <4>1, <5>1, Rotated
      <4>2. CASE q # p
        BY <1>1, <3>1, <3>3, <4>2
      <4>3. QED
        BY <4>1, <4>2
    <3>a. ASSUME NEW q \in Procs, NEW i \in 1 .. Len(queue'[q])
          PROVE  \E k \in 1 .. Len(queue[q]) : queue'[q][i] = queue[q][k]
      BY <3>3, <3>a
    <3>b. Numbered'
      BY <1>a, <2>1, <3>2, <3>a DEF Numbered
    <3>c. HeldOnce'
      BY <3>2 DEF OnePlace, HeldOnce
    <3>d. Apart'
      <4>1. \A q \in Procs, r \in Procs : \A i \in 1 .. Len(queue'[q]) : queue'[q][i] # pub'[r].m
        BY <3>2, <3>a DEF OnePlace, Apart
      <4>2. \A q \in Procs : \A j \in 1 .. Len(delivered') : \A i \in 1 .. Len(queue'[q]) :
              queue'[q][i] # delivered'[j]
        BY <2>1, <3>a DEF OnePlace, Apart
      <4>3. \A q \in Procs : \A j \in 1 .. Len(delivered') : pub'[q].m # delivered'[j]
        BY <2>1, <3>2 DEF OnePlace, Apart
      <4>4. QED
        BY <4>1, <4>2, <4>3 DEF Apart
    <3>4. Numbered' /\ HeldOnce' /\ Apart'
      BY <3>b, <3>c, <3>d
    <3>5. QueuedOnce'
      <4> SUFFICES ASSUME NEW q \in Procs, NEW r \in Procs,
                          NEW i \in 1 .. Len(queue'[q]), NEW j \in 1 .. Len(queue'[r]),
                          queue'[q][i] = queue'[r][j]
                   PROVE  q = r /\ i = j
        BY DEF QueuedOnce
      <4>1. CASE q = p /\ r = p
        <5>1. From(queue[p], i) = From(queue[p], j)
          BY <3>3, <4>1 DEF OnePlace, QueuedOnce
        <5>2. i \in 1 .. Len(queue[p]) /\ j \in 1 .. Len(queue[p])
          BY <3>3, <4>1
        <5>3. QED
          BY <1>1, <4>1, <5>1, <5>2, FromOnce
      <4>2. CASE q # p /\ r # p
        BY <3>3, <4>2 DEF OnePlace, QueuedOnce
      <4>3. CASE q = p /\ r # p
        BY <3>a, <4>3 DEF OnePlace, QueuedOnce
      <4>4. CASE q # p /\ r = p
        BY <3>a, <4>4 DEF OnePlace, QueuedOnce
      <4>5. QED
        BY <4>1, <4>2, <4>3, <4>4
    <3>6. QED
      BY <2>1, <3>4, <3>5 DEF OnePlace, AtMostOnce
  <2>5. QED
    BY <2>3, <2>4
<1>4. CASE Rested(p)
  <2>1. [pub[p] EXCEPT !.pc = "get"].m = pub[p].m
    BY <1>1 DEF PubState
  <2>2. QED
    BY <1>1, <1>4, <2>1, OnePlaceSame DEF Rested
\* A message is handed to the broker, or given up, or both as far as the loop
\* can know; it is in the loop's hands no more.
<1>5. CASE Sent(p) \/ SendRaises(p)
  <2>1. pub[p].m \in Messages /\ NoMessage \notin Messages
    BY <1>1, <1>5 DEF Sent, SendRaises, PubState, Messages, NoMessage
  <2>2. UNCHANGED <<put, queue>>
    BY <1>5 DEF Sent, SendRaises
  <2>3. \A q \in Procs : pub'[q].m = IF q = p THEN NoMessage ELSE pub[q].m
    BY <1>1, <1>5 DEF Sent, SendRaises
  <2>4. delivered' = delivered \/ delivered' = Append(delivered, pub[p].m)
    BY <1>5 DEF Sent, SendRaises, MayHaveArrived
  <2>5. ASSUME NEW j \in 1 .. Len(delivered')
        PROVE  \/ j \in 1 .. Len(delivered) /\ delivered'[j] = delivered[j]
               \/ j = Len(delivered) + 1 /\ delivered'[j] = pub[p].m
    <3>1. CASE delivered' = delivered
      BY <2>5, <3>1
    <3>2. CASE delivered' = Append(delivered, pub[p].m)
      BY <1>1, <2>1, <2>5, <3>2, AppendMessage
    <3>3. QED
      BY <2>4, <3>1, <3>2
  <2>6. /\ \A j \in 1 .. Len(delivered) : delivered[j] \in Messages
        /\ \A q \in Procs : \A i \in 1 .. Len(queue[q]) : queue[q][i] \in Messages
    BY <1>1
  <2>7. Numbered'
    <3>1. \A j \in 1 .. Len(delivered') : delivered'[j] <= put
      BY <1>a, <2>5
    <3>2. \A q \in Procs : pub'[q].m <= put
      <4>1. NoMessage <= put
        BY <1>1 DEF NoMessage
      <4>2. QED
        BY <1>a, <2>3, <4>1
    <3>3. QED
      BY <1>a, <2>2, <3>1, <3>2 DEF Numbered
  <2>8. AtMostOnce'
    BY <2>5 DEF OnePlace, AtMostOnce, Apart
  <2>9. QueuedOnce' /\ HeldOnce'
    BY <2>2, <2>3 DEF OnePlace, QueuedOnce, HeldOnce
  <2>10. Apart'
    <3>1. \A q \in Procs, r \in Procs : \A i \in 1 .. Len(queue'[q]) : queue'[q][i] # pub'[r].m
      BY <2>1, <2>2, <2>3, <2>6 DEF OnePlace, Apart
    <3>2. \A q \in Procs : \A j \in 1 .. Len(delivered') : pub'[q].m # delivered'[j]
      BY <2>1, <2>3, <2>5, <2>6 DEF OnePlace, Apart, HeldOnce
    <3>3. \A q \in Procs : \A j \in 1 .. Len(delivered') : \A i \in 1 .. Len(queue'[q]) :
            queue'[q][i] # delivered'[j]
      BY <2>2, <2>5 DEF OnePlace, Apart
    <3>4. QED
      BY <3>1, <3>2, <3>3 DEF Apart
  <2>11. QED
    BY <2>7, <2>8, <2>9, <2>10 DEF OnePlace
<1>6. QED
  BY <1>2, <1>3, <1>4, <1>5 DEF Publish

LEMMA OnePlaceNext == Typed /\ Typed' /\ OnePlace /\ [Next]_vars => OnePlace'
<1> SUFFICES ASSUME Typed, Typed', OnePlace, [Next]_vars
             PROVE  OnePlace'
  OBVIOUS
<1>1. CASE UNCHANGED vars
  BY <1>1, OnePlaceSame DEF vars, pubVars
<1>2. CASE Next
  <2>1. PICK p \in Procs : \/ Drop(p) \/ Loop(p)
                           \/ \E l \in Listeners : Listen(p, l)
                           \/ Put(p) \/ Publish(p)
    BY <1>2 DEF Next
  <2>2. CASE Drop(p) \/ Connect(p)
    <3>1. UNCHANGED <<queue, put, delivered>> /\ \E ps : Closed(ps)
      BY <2>2 DEF Drop, Connect
    <3>2. QED
      BY <3>1, ClosedPub, OnePlaceSame
  <2>3. CASE Resubscribe(p)
    <3>1. UNCHANGED <<queue, put, delivered>> /\ (UNCHANGED pub \/ Closed({p}))
      BY <2>3 DEF Resubscribe
    <3>2. \A q \in Procs : pub'[q].m = pub[q].m
      BY <3>1, ClosedPub
    <3>3. QED
      BY <3>1, <3>2, OnePlaceSame
  <2>4. CASE ConnectFails(p) \/ NoticeDrop(p) \/ Wake(p) \/ \E l \in Listeners : Listen(p, l)
    <3>1. UNCHANGED <<queue, put, delivered, pub>>
      BY <2>4 DEF ConnectFails, NoticeDrop, Wake, Listen, Register, Subscribed, SubscribeRaises, pubVars
    <3>2. QED
      BY <3>1, OnePlaceSame
  <2>5. CASE Put(p) \/ Publish(p)
    BY <2>5, OnePlacePublish
  <2>6. QED
    BY <2>1, <2>2, <2>3, <2>4, <2>5 DEF Loop
<1>3. QED
  BY <1>1, <1>2

\* The broker receives no message twice, for any number of processes and
\* messages and wherever connections break: a message without a connection
\* goes round in its queue, one whose publish raised is dropped, though it may
\* have arrived (mqtt_client.py:122-144).
THEOREM NoMessageTwice == Spec => []AtMostOnce
<1>1. Init => OnePlace
  BY DEF Init, OnePlace, Numbered, AtMostOnce, QueuedOnce, HeldOnce, Apart, NoMessage
<1>2. Typed /\ Typed' /\ OnePlace /\ [Next]_vars => OnePlace'
  BY OnePlaceNext
<1>3. OnePlace => AtMostOnce
  BY DEF OnePlace
<1>4. QED
  BY <1>1, <1>2, <1>3, TypedInvariant, PTL DEF Spec
=============================================================================
