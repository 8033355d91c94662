---------------------------- MODULE MqttService ----------------------------
(***************************************************************************)
(* MQTTService (shared/mqtt_client.py), the MQTT client that all services  *)
(* of a gateway process share, in each of the processes that serve the     *)
(* gateway: the connection loop, the publish loop, and the listeners that  *)
(* subscribe through it.  The code between two awaits is one action.       *)
(*                                                                         *)
(* Every process connects under the same client id (mqtt_runtime.py:15).   *)
(* The broker keeps one connection per id: it closes the one it has when   *)
(* another comes (external, MQTT 3.1.1 section 3.1.4), and forgets the     *)
(* subscriptions with it, since clean_session is set.                      *)
(***************************************************************************)
EXTENDS Naturals, Sequences, FiniteSets

CONSTANTS
  Procs,         \* the processes that serve the gateway
  Listeners,     \* the listeners that subscribe in each of them
  MaxDrops,      \* bound: connections lost or refused, other than taken over
  MaxMessages    \* bound: messages published

\* What the listeners of the gateway subscribe to, in this order.  The two that
\* start with the process run once; the listener for downloads is started by a
\* request, and again by the next if that failed.
Wants == [mission   |-> <<"status", "progress">>,
          telemetry |-> <<"raw", "heartbeat">>,
          download  |-> <<"response">>]

Topics == {"status", "progress", "raw", "heartbeat", "response"}

ASSUME ListenersAssumption == Listeners \subseteq DOMAIN Wants
ASSUME BoundsAssumption    == MaxDrops \in Nat /\ MaxMessages \in Nat

VARIABLES
  conn,      \* conn[p]: what _connection_loop does
  link,      \* link[p]: its connection: "up", or "down" and not yet noticed
  client,    \* client[p]: is self._client set?
  handlers,  \* handlers[p]: the keys of self._handlers, oldest first
  at, upto,  \* at[p]: the handler being subscribed again, of upto[p]
  subs,      \* the subscriptions of the broker's connection
  task,      \* task[p][l]: what listener l awaits, and its position in Wants[l]
  queue,     \* queue[p]: self._publish_queue
  pub,       \* pub[p]: what _publish_loop does, and with which message
  delivered, \* the messages the broker received
  put,       \* number of messages published
  drops      \* number of drops (bounded by MaxDrops)

connVars == <<conn, client, at, upto>>
pubVars  == <<queue, pub, put, delivered>>
vars     == <<connVars, link, handlers, subs, task, pubVars, drops>>

Messages  == 1 .. MaxMessages
NoMessage == 0

\* What a listener awaits, and at which of its topics it is.
Task == [pc : {"next", "subscribing", "failing", "dead"}, i : 1 .. 3]

\* What the publish loop does, and with which message.
PubState == [pc : {"sending", "failing", "unanswered"}, m : Messages] \cup
            [pc : {"get", "resting"}, m : {NoMessage}]

\* The keys of a dictionary: none comes twice.
IsKeys(h) == \A i, j \in 1 .. Len(h) : h[i] = h[j] => i = j

TypeOK ==
  /\ conn \in [Procs -> {"connecting", "resubscribing", "listening", "sleeping"}]
  /\ link \in [Procs -> {"none", "up", "down"}]
  /\ client \in [Procs -> BOOLEAN]
  /\ handlers \in [Procs -> Seq(Topics)]
  /\ \A p \in Procs : IsKeys(handlers[p])
  /\ at \in [Procs -> Nat] /\ upto \in [Procs -> Nat]
  /\ subs \in SUBSET Topics
  /\ task \in [Procs -> [Listeners -> Task]]
  /\ queue \in [Procs -> Seq(Messages)]
  /\ pub \in [Procs -> PubState]
  /\ delivered \in Seq(Messages)
  /\ put \in 0 .. MaxMessages
  /\ drops \in 0 .. MaxDrops

Init ==
  /\ conn = [p \in Procs |-> "connecting"]
  /\ link = [p \in Procs |-> "none"]
  /\ client = [p \in Procs |-> FALSE]
  /\ handlers = [p \in Procs |-> <<>>]
  /\ at = [p \in Procs |-> 0] /\ upto = [p \in Procs |-> 0]
  /\ subs = {}
  /\ task = [p \in Procs |-> [l \in Listeners |-> [pc |-> "next", i |-> 1]]]
  /\ queue = [p \in Procs |-> <<>>]
  /\ pub = [p \in Procs |-> [pc |-> "get", m |-> NoMessage]]
  /\ delivered = <<>>
  /\ put = 0
  /\ drops = 0

-----------------------------------------------------------------------------
(* The broker closes a connection (external).  Whatever awaits an answer   *)
(* on it will raise.                                                       *)

FailingTasks(ts) == [l \in Listeners |->
  IF ts[l].pc = "subscribing" THEN [ts[l] EXCEPT !.pc = "failing"] ELSE ts[l]]

FailingPub(b) == IF b.pc = "sending" THEN [b EXCEPT !.pc = "unanswered"] ELSE b

\* The connections of the processes in ps are closed.
Closed(ps) ==
  /\ task' = [p \in Procs |-> IF p \in ps THEN FailingTasks(task[p]) ELSE task[p]]
  /\ pub' = [p \in Procs |-> IF p \in ps THEN FailingPub(pub[p]) ELSE pub[p]]

Up == {p \in Procs : link[p] = "up"}

Drop(p) ==
  /\ link[p] = "up"
  /\ drops < MaxDrops
  /\ drops' = drops + 1
  /\ link' = [link EXCEPT ![p] = "down"]
  /\ subs' = {}
  /\ Closed({p})
  /\ UNCHANGED <<connVars, handlers, queue, put, delivered>>

-----------------------------------------------------------------------------
(* _connection_loop.                                                       *)

\* Where the loop is, and where in its iteration over the handlers.
Iterate(p, c, i, n) ==
  /\ conn' = [conn EXCEPT ![p] = c]
  /\ at' = [at EXCEPT ![p] = i]
  /\ upto' = [upto EXCEPT ![p] = n]

\* Mutant: the subscriptions are thought to outlive the connection.
ConnectWithoutResubscribing(p) ==
  /\ conn[p] = "connecting"
  /\ link' = [q \in Procs |-> IF q = p THEN "up" ELSE IF link[q] = "up" THEN "down" ELSE link[q]]
  /\ subs' = {}
  /\ client' = [client EXCEPT ![p] = TRUE]
  /\ conn' = [conn EXCEPT ![p] = "listening"]
  /\ Closed(Up)
  /\ UNCHANGED <<at, upto, handlers, queue, put, delivered, drops>>

\* The broker accepts the connection and closes the one it had for this client
\* id.  The loop sets self._client and begins to subscribe all topics again.
Connect(p) ==
  /\ conn[p] = "connecting"
  /\ link' = [q \in Procs |-> IF q = p THEN "up" ELSE IF link[q] = "up" THEN "down" ELSE link[q]]
  /\ subs' = {}
  /\ client' = [client EXCEPT ![p] = TRUE]
  /\ IF handlers[p] = <<>>
     THEN Iterate(p, "listening", 0, 0)
     ELSE Iterate(p, "resubscribing", 1, Len(handlers[p]))
  /\ Closed(Up)
  /\ UNCHANGED <<handlers, queue, put, delivered, drops>>

ConnectFails(p) ==
  /\ conn[p] = "connecting"
  /\ drops < MaxDrops
  /\ drops' = drops + 1
  /\ conn' = [conn EXCEPT ![p] = "sleeping"]
  /\ UNCHANGED <<client, at, upto, link, handlers, subs, task, pubVars>>

\* One topic is subscribed again.  If a listener has registered another in the
\* meantime, the iteration over the dictionary raises and the connection is
\* closed; otherwise it goes on, or comes to its end.
Resubscribe(p) ==
  /\ conn[p] = "resubscribing"
  /\ link[p] = "up"
  /\ \/ /\ Len(handlers[p]) # upto[p]
        /\ link' = [link EXCEPT ![p] = "down"]
        /\ subs' = {}
        /\ Closed({p})
        /\ UNCHANGED <<conn, at, upto>>
     \/ /\ Len(handlers[p]) = upto[p]
        /\ subs' = subs \cup {handlers[p][at[p]]}
        /\ IF at[p] = upto[p]
           THEN Iterate(p, "listening", 0, 0)
           ELSE Iterate(p, "resubscribing", at[p] + 1, upto[p])
        /\ UNCHANGED <<link, task, pub>>
  /\ UNCHANGED <<client, handlers, queue, put, delivered, drops>>

\* The loop finds that its connection is closed and goes to sleep for 5 s.
NoticeDrop(p) ==
  /\ conn[p] \in {"resubscribing", "listening"}
  /\ link[p] = "down"
  /\ link' = [link EXCEPT ![p] = "none"]
  /\ client' = [client EXCEPT ![p] = FALSE]
  /\ Iterate(p, "sleeping", 0, 0)
  /\ UNCHANGED <<handlers, subs, task, pubVars, drops>>

Wake(p) ==
  /\ conn[p] = "sleeping"
  /\ conn' = [conn EXCEPT ![p] = "connecting"]
  /\ UNCHANGED <<client, at, upto, link, handlers, subs, task, pubVars, drops>>

-----------------------------------------------------------------------------
(* The listeners: subscribe, topic after topic.                            *)

Topic(p, l) == Wants[l][task[p][l].i]

Registered(p) == {handlers[p][i] : i \in 1 .. Len(handlers[p])}

Advance(p, l) == [task EXCEPT ![p][l] = [pc |-> "next", i |-> @.i + 1]]

\* Mutant: the topic is registered only when there is no connection to
\* subscribe it on.
RegisterOrSubscribe(p, l) ==
  /\ task[p][l].pc = "next" /\ task[p][l].i <= Len(Wants[l])
  /\ IF client[p]
     THEN task' = [task EXCEPT ![p][l].pc =
                     IF link[p] = "up" THEN "subscribing" ELSE "failing"]
          /\ UNCHANGED handlers
     ELSE task' = Advance(p, l)
          /\ handlers' = [handlers EXCEPT ![p] =
                            IF Topic(p, l) \in Registered(p) THEN @ ELSE Append(@, Topic(p, l))]
  /\ UNCHANGED <<connVars, link, subs, pubVars, drops>>

\* Mutant: the handlers are a list.
RegisterAgain(p, l) ==
  /\ task[p][l].pc = "next" /\ task[p][l].i <= Len(Wants[l])
  /\ handlers' = [handlers EXCEPT ![p] = Append(@, Topic(p, l))]
  /\ task' = IF client[p]
             THEN [task EXCEPT ![p][l].pc = IF link[p] = "up" THEN "subscribing" ELSE "failing"]
             ELSE Advance(p, l)
  /\ UNCHANGED <<connVars, link, subs, pubVars, drops>>

\* The topic is registered and, if self._client is set, subscribed at once.
Register(p, l) ==
  /\ task[p][l].pc = "next" /\ task[p][l].i <= Len(Wants[l])
  /\ handlers' = [handlers EXCEPT ![p] =
       IF Topic(p, l) \in Registered(p) THEN @ ELSE Append(@, Topic(p, l))]
  /\ task' = IF client[p]
             THEN [task EXCEPT ![p][l].pc = IF link[p] = "up" THEN "subscribing" ELSE "failing"]
             ELSE Advance(p, l)
  /\ UNCHANGED <<connVars, link, subs, pubVars, drops>>

Subscribed(p, l) ==
  /\ task[p][l].pc = "subscribing"
  /\ subs' = subs \cup {Topic(p, l)}
  /\ task' = Advance(p, l)
  /\ UNCHANGED <<connVars, link, handlers, pubVars, drops>>

\* The subscription raises: a listener that started with the process is gone
\* with its task, the download listener is started again by the next request.
SubscribeRaises(p, l) ==
  /\ task[p][l].pc = "failing"
  /\ task' = [task EXCEPT ![p][l].pc = IF l = "download" THEN "next" ELSE "dead"]
  /\ UNCHANGED <<connVars, link, handlers, subs, pubVars, drops>>

-----------------------------------------------------------------------------
(* publish and _publish_loop.                                              *)

Put(p) ==
  /\ put < MaxMessages
  /\ put' = put + 1
  /\ queue' = [queue EXCEPT ![p] = Append(@, put + 1)]
  /\ UNCHANGED <<connVars, link, handlers, subs, task, pub, delivered, drops>>

\* The oldest message is taken; without a connection it goes back to the end
\* of the queue, behind those that came later.
Take(p) ==
  /\ pub[p].pc = "get"
  /\ queue[p] # <<>>
  /\ IF client[p]
     THEN /\ queue' = [queue EXCEPT ![p] = Tail(@)]
          /\ pub' = [pub EXCEPT ![p] =
               [pc |-> IF link[p] = "up" THEN "sending" ELSE "failing", m |-> Head(queue[p])]]
     ELSE /\ queue' = [queue EXCEPT ![p] = Append(Tail(@), Head(@))]
          /\ pub' = [pub EXCEPT ![p] = [pc |-> "resting", m |-> NoMessage]]
  /\ UNCHANGED <<connVars, link, handlers, subs, task, put, delivered, drops>>

Rested(p) ==
  /\ pub[p].pc = "resting"
  /\ pub' = [pub EXCEPT ![p].pc = "get"]
  /\ UNCHANGED <<connVars, link, handlers, subs, task, queue, put, delivered, drops>>

Sent(p) ==
  /\ pub[p].pc = "sending"
  /\ delivered' = Append(delivered, pub[p].m)
  /\ pub' = [pub EXCEPT ![p] = [pc |-> "get", m |-> NoMessage]]
  /\ UNCHANGED <<connVars, link, handlers, subs, task, queue, put, drops>>

\* The publish raised.  If the connection broke while it waited for its
\* acknowledgement, the broker may have the message.
MayHaveArrived(p) ==
  \/ UNCHANGED delivered
  \/ /\ pub[p].pc = "unanswered"
     /\ delivered' = Append(delivered, pub[p].m)

\* Mutant: a message whose publish raised is queued again.
SendRaisesAndRetries(p) ==
  /\ pub[p].pc \in {"failing", "unanswered"}
  /\ MayHaveArrived(p)
  /\ queue' = [queue EXCEPT ![p] = Append(@, pub[p].m)]
  /\ pub' = [pub EXCEPT ![p] = [pc |-> "get", m |-> NoMessage]]
  /\ UNCHANGED <<connVars, link, handlers, subs, task, put, drops>>

\* Mutant: an exception ends the loop.
SendRaisesForGood(p) ==
  /\ FALSE
  /\ UNCHANGED vars

\* The exception is logged; the message is not tried again.
SendRaises(p) ==
  /\ pub[p].pc \in {"failing", "unanswered"}
  /\ MayHaveArrived(p)
  /\ pub' = [pub EXCEPT ![p] = [pc |-> "get", m |-> NoMessage]]
  /\ UNCHANGED <<connVars, link, handlers, subs, task, queue, put, drops>>

-----------------------------------------------------------------------------
Loop(p)      == Connect(p) \/ ConnectFails(p) \/ Resubscribe(p) \/ NoticeDrop(p) \/ Wake(p)
Listen(p, l) == Register(p, l) \/ Subscribed(p, l) \/ SubscribeRaises(p, l)
Publish(p)   == Take(p) \/ Rested(p) \/ Sent(p) \/ SendRaises(p)

Next == \E p \in Procs :
  \/ Drop(p)
  \/ Loop(p)
  \/ \E l \in Listeners : Listen(p, l)
  \/ Put(p)
  \/ Publish(p)

Spec == Init /\ [][Next]_vars

\* asyncio runs each task that can run, and the broker answers.  Nothing need
\* be published, no download need be requested, and connections need not drop.
Fairness == \A p \in Procs :
  /\ WF_vars(Connect(p)) /\ WF_vars(Resubscribe(p)) /\ WF_vars(NoticeDrop(p)) /\ WF_vars(Wake(p))
  /\ \A l \in Listeners \ {"download"} : WF_vars(Register(p, l))
  /\ \A l \in Listeners : WF_vars(Subscribed(p, l)) /\ WF_vars(SubscribeRaises(p, l))
  /\ WF_vars(Publish(p))

FairSpec == Spec /\ Fairness

-----------------------------------------------------------------------------
(* Properties.                                                             *)

\* A process that has come to listening is subscribed to every topic that was
\* registered, or a listener is about to: no registration falls between the
\* loop that subscribes again and subscribe itself (mqtt_client.py:73-79,
\* 102-111).
ReadyMeansSubscribed ==
  \A p \in Procs : conn[p] = "listening" /\ link[p] = "up" =>
    \A t \in Registered(p) :
      t \in subs \/ \E l \in Listeners : task[p][l].pc = "subscribing" /\ Topic(p, l) = t

\* No message reaches the broker twice, though a publish whose
\* acknowledgement is lost may have reached it (mqtt_client.py:122-144).
AtMostOnce == \A i, j \in 1 .. Len(delivered) : delivered[i] = delivered[j] => i = j

Pending(p) == {queue[p][i] : i \in 1 .. Len(queue[p])} \cup {pub[p].m}

\* Once connections stop being lost, the publish queue is worked off: no
\* message goes round in it for ever (mqtt_client.py:137-140).
QueueDrains == \A p \in Procs, m \in Messages : m \in Pending(p) ~> m \notin Pending(p)

\* The topics that have been registered, and those whose subscribe returned.
Asked(p) ==
  Registered(p) \cup
  {t \in Topics : \E l \in Listeners : \E i \in 1 .. task[p][l].i - 1 : Wants[l][i] = t}

\* Once connections stop being lost, a process is subscribed for good to
\* everything it asked for, whichever side of a lost connection or of a
\* reconnection it asked on (mqtt_client.py:73-79, 105-120).
AskedIsSubscribed == \A p \in Procs : <>[](Asked(p) \subseteq subs)

\* "Maintain persistent MQTT connection with auto-reconnect"
\* (mqtt_client.py:88): when the network loses no connection, every process
\* stays connected from some moment on.
Persistent == \A p \in Procs : <>[](conn[p] = "listening")
=============================================================================
