------------------------ MODULE MissionReportsProofs ------------------------
(***************************************************************************)
(* Proofs about MissionReports, for any amount of news: types, and that    *)
(* the messages which come back to the gateway do not multiply.            *)
(***************************************************************************)
EXTENDS MissionReports, FiniteSetTheorems, TLAPS

LEMMA CardinalityOfOne ==
  ASSUME NEW x
  PROVE  Cardinality({x}) <= 1 /\ Cardinality({}) <= 1
<1>1. Cardinality({x}) = 1
  BY FS_Singleton
<1>2. Cardinality({}) = 0
  BY FS_EmptySet
<1>3. QED
  BY <1>1, <1>2

\* What Emit makes of the queue and of the dashboards.
LEMMA EmitTypes ==
  ASSUME TypeOK, NEW n \in News, NEW entry \in Entry, Emit(n, entry)
  PROVE  queue' \in Seq(Message) /\ shown' \in Entry
<1>1. [of |-> n, st |-> entry.st] \in Message
  BY DEF Message, Entry
<1>2. QED
  BY <1>1 DEF Emit, TypeOK

LEMMA FlushTypes ==
  ASSUME TypeOK, NEW entry \in Entry, Flush(entry)
  PROVE  TypeOK'
<1>1. news + 1 \in News
  BY NewsAssumption DEF Flush, TypeOK, News
<1>2. queue' \in Seq(Message) /\ shown' \in Entry
  BY <1>1, EmitTypes DEF Flush
<1>3. txn' \in SUBSET Entry /\ Cardinality(txn') <= 1
  BY <1>1, CardinalityOfOne DEF Flush
<1>4. QED
  BY <1>1, <1>2, <1>3 DEF Flush, TypeOK, News

LEMMA RequestFlushes ==
  ASSUME TypeOK, Request
  PROVE  \E entry \in Entry : Flush(entry)
<1>1. row \in Entry /\ row.active \in BOOLEAN /\ row.st \in Status
  BY DEF TypeOK, Entry
<1>2. CASE Assign
  <2>1. news + 1 \in Status
    BY <1>2, NewsAssumption DEF Assign, Flush, TypeOK, Status
  <2>2. [active |-> TRUE, st |-> news + 1] \in Entry
    BY <2>1 DEF Entry
  <2>3. QED
    BY <1>2, <2>2 DEF Assign
<1>3. CASE Unassign
  <2>1. [row EXCEPT !.active = FALSE] \in Entry
    BY <1>1 DEF Entry
  <2>2. QED
    BY <1>3, <2>1 DEF Unassign
<1>4. CASE UpdateStatus
  <2>1. news + 1 \in Status
    BY <1>4, NewsAssumption DEF UpdateStatus, Flush, TypeOK, Status
  <2>2. [row EXCEPT !.st = news + 1] \in Entry
    BY <1>1, <2>1 DEF Entry
  <2>3. QED
    BY <1>4, <2>2 DEF UpdateStatus
<1>5. QED
  BY <1>2, <1>3, <1>4 DEF Request

LEMMA TypeNext == TypeOK /\ [Next]_vars => TypeOK'
<1> SUFFICES ASSUME TypeOK, [Next]_vars
             PROVE  TypeOK'
  OBVIOUS
<1>1. CASE UNCHANGED vars
  BY <1>1 DEF vars, TypeOK
<1>2. CASE Report
  <2>1. news + 1 \in News /\ [of |-> news + 1, st |-> news + 1] \in Message
    BY <1>2, NewsAssumption DEF Report, TypeOK, News, Status, Message
  <2>2. QED
    BY <1>2, <2>1 DEF Report, TypeOK, News
<1>3. CASE Request
  BY <1>3, RequestFlushes, FlushTypes
<1>4. CASE Commit
  BY <1>4, CardinalityOfOne DEF Commit, TypeOK
<1>5. CASE Rollback
  BY <1>5, CardinalityOfOne DEF Rollback, TypeOK
<1>6. CASE Publish
  <2>1. Head(queue) \in Message /\ Tail(queue) \in Seq(Message)
    BY <1>6 DEF Publish, TypeOK
  <2>2. QED
    BY <1>6, <2>1 DEF Publish, TypeOK
<1>7. CASE LookUp
  <2>1. Head(topic) \in Message /\ Tail(topic) \in Seq(Message)
    BY <1>7 DEF LookUp, TypeOK
  <2>2. handler' \in SUBSET Message /\ Cardinality(handler') <= 1
    BY <1>7, <2>1, CardinalityOfOne DEF LookUp
  <2>3. QED
    BY <1>7, <2>1, <2>2 DEF LookUp, TypeOK
<1>8. CASE Handle
  <2>1. PICK m \in handler : Emit(m.of, [active |-> TRUE, st |-> m.st])
    BY <1>8 DEF Handle
  <2>2. m.of \in News /\ [active |-> TRUE, st |-> m.st] \in Entry
    BY <2>1 DEF TypeOK, Message, Entry
  <2>3. queue' \in Seq(Message) /\ shown' \in Entry
    BY <2>1, <2>2, EmitTypes
  <2>4. QED
    BY <1>8, <2>3, CardinalityOfOne DEF Handle, TypeOK
<1>9. QED
  BY <1>1, <1>2, <1>3, <1>4, <1>5, <1>6, <1>7, <1>8 DEF Next, End

\* The news and the messages about them stay within their types
\* (mqtt_listener.py:23-61, service.py:732-748).
THEOREM TypeCorrect == Spec => []TypeOK
<1>1. ASSUME Init
      PROVE  TypeOK
  <2>1. 0 \in Status /\ 0 \in 0 .. MaxNews
    BY NewsAssumption DEF Status
  <2>2. row \in Entry /\ shown \in Entry
    BY <1>1, <2>1 DEF Init, Entry
  <2>3. Cardinality(txn) <= 1 /\ Cardinality(handler) <= 1
    BY <1>1, CardinalityOfOne DEF Init
  <2>4. QED
    BY <1>1, <2>1, <2>2, <2>3 DEF Init, TypeOK
<1>2. QED
  BY <1>1, TypeNext, PTL DEF Spec

-----------------------------------------------------------------------------
(* The messages do not multiply.                                           *)

\* Every message goes back to news there was.
Known == /\ \A i \in 1 .. Len(queue) : queue[i].of <= news
         /\ \A i \in 1 .. Len(topic) : topic[i].of <= news
         /\ \A m \in handler : m.of <= news

\* A message that is unlike all others may be appended.
LEMMA AppendDistinct ==
  ASSUME NEW q \in Seq(Message), NEW m \in Message, Distinct(q), Unlike(<<m>>, q)
  PROVE  Distinct(Append(q, m))
<1>1. \A i \in 1 .. Len(q) : q[i].of # m.of
  BY DEF Unlike
<1>2. /\ Len(Append(q, m)) = Len(q) + 1 /\ Len(q) \in Nat
      /\ \A i \in 1 .. Len(q) : Append(q, m)[i] = q[i]
      /\ Append(q, m)[Len(q) + 1] = m
  OBVIOUS
<1>3. QED
  BY <1>1, <1>2 DEF Distinct

LEMMA AppendUnlike ==
  ASSUME NEW p \in Seq(Message), NEW q \in Seq(Message), NEW m \in Message,
         Unlike(p, q), Unlike(<<m>>, p)
  PROVE  Unlike(p, Append(q, m))
<1>1. \A i \in 1 .. Len(p) : p[i].of # m.of
  BY DEF Unlike
<1>2. /\ Len(Append(q, m)) = Len(q) + 1 /\ Len(q) \in Nat
      /\ \A i \in 1 .. Len(q) : Append(q, m)[i] = q[i]
      /\ Append(q, m)[Len(q) + 1] = m
  OBVIOUS
<1>3. QED
  BY <1>1, <1>2 DEF Unlike

LEMMA TailDistinct ==
  ASSUME NEW q \in Seq(Message), q # <<>>, Distinct(q)
  PROVE  /\ Tail(q) \in Seq(Message) /\ Head(q) \in Message
         /\ Distinct(Tail(q)) /\ Unlike(<<Head(q)>>, Tail(q))
<1>1. /\ Len(Tail(q)) = Len(q) - 1 /\ Len(q) \in Nat /\ Len(q) > 0
      /\ \A i \in 1 .. Len(q) - 1 : Tail(q)[i] = q[i + 1]
      /\ Head(q) = q[1] /\ Tail(q) \in Seq(Message) /\ Head(q) \in Message
  OBVIOUS
<1>2. QED
  BY <1>1 DEF Distinct, Unlike

LEMMA TailUnlike ==
  ASSUME NEW p \in Seq(Message), NEW q \in Seq(Message), q # <<>>, Unlike(p, q)
  PROVE  Unlike(p, Tail(q)) /\ Unlike(<<Head(q)>>, p)
<1>1. /\ Len(Tail(q)) = Len(q) - 1 /\ Len(q) \in Nat /\ Len(q) > 0
      /\ \A i \in 1 .. Len(q) - 1 : Tail(q)[i] = q[i + 1]
      /\ Head(q) = q[1]
  OBVIOUS
<1>2. QED
  BY <1>1 DEF Unlike

LEMMA UnlikeBothWays ==
  ASSUME NEW p, NEW q
  PROVE  Unlike(p, q) <=> Unlike(q, p)
BY DEF Unlike

\* A message that is on its way nowhere may be put into the queue.
LEMMA Enqueue ==
  ASSUME TypeOK, OneCopy, NEW m \in Message, Unlike(<<m>>, queue), Unlike(<<m>>, topic)
  PROVE  /\ Distinct(Append(queue, m)) /\ Unlike(Append(queue, m), topic)
         /\ Distinct(Append(topic, m)) /\ Unlike(queue, Append(topic, m))
<1>1. /\ queue \in Seq(Message) /\ topic \in Seq(Message)
      /\ Distinct(queue) /\ Distinct(topic) /\ Unlike(queue, topic)
  BY DEF TypeOK, OneCopy
<1>2. Distinct(Append(queue, m)) /\ Distinct(Append(topic, m))
  BY <1>1, AppendDistinct
<1>3. Unlike(queue, Append(topic, m))
  BY <1>1, AppendUnlike
<1>4. Unlike(topic, Append(queue, m))
  BY <1>1, AppendUnlike, UnlikeBothWays
<1>5. QED
  BY <1>2, <1>3, <1>4, UnlikeBothWays

\* Fresh news are unlike all that went before.
LEMMA NewsUnlike ==
  ASSUME TypeOK, Known, NEW m, m.of = news + 1
  PROVE  /\ Unlike(<<m>>, queue) /\ Unlike(<<m>>, topic)
         /\ \A h \in handler : Unlike(<<m>>, <<h>>)
<1>1. \A i \in 1 .. Len(queue) : queue[i] \in Message
  BY DEF TypeOK
<1>2. \A i \in 1 .. Len(topic) : topic[i] \in Message
  BY DEF TypeOK
<1>3. /\ news \in Nat /\ \A x \in Message : x.of \in Nat
      /\ \A h \in handler : h \in Message
  BY DEF TypeOK, Message, News
<1>4. Unlike(<<m>>, queue)
  BY <1>1, <1>3 DEF Known, Unlike
<1>5. Unlike(<<m>>, topic)
  BY <1>2, <1>3 DEF Known, Unlike
<1>6. QED
  BY <1>3, <1>4, <1>5 DEF Known, Unlike

\* Which messages one is unlike depends on the news it goes back to.
LEMMA SameNews ==
  ASSUME NEW m, NEW h, NEW q, m.of = h.of, Unlike(<<h>>, q)
  PROVE  Unlike(<<m>>, q)
BY DEF Unlike

\* An appended message that is known leaves all messages known.
LEMMA AppendKnown ==
  ASSUME NEW q \in Seq(Message), NEW m \in Message, NEW n \in Nat, NEW k \in Nat,
         \A i \in 1 .. Len(q) : q[i].of <= n, n <= k, m.of <= k
  PROVE  /\ \A i \in 1 .. Len(Append(q, m)) : Append(q, m)[i].of <= k
         /\ \A i \in 1 .. Len(q) : q[i].of <= k
<1>1. /\ Len(Append(q, m)) = Len(q) + 1 /\ Len(q) \in Nat
      /\ \A i \in 1 .. Len(q) : Append(q, m)[i] = q[i]
      /\ Append(q, m)[Len(q) + 1] = m
      /\ \A i \in 1 .. Len(q) : q[i] \in Message
  OBVIOUS
<1>2. \A x \in Message : x.of \in Nat
  BY DEF Message, News
<1>3. \A i \in 1 .. Len(q) : q[i].of <= k
  BY <1>1, <1>2
<1>4. QED
  BY <1>1, <1>3

LEMMA OneCopyNext ==
  ASSUME TypeOK, OneCopy, Known, [Next]_vars
  PROVE  OneCopy'
<1>0. /\ queue \in Seq(Message) /\ topic \in Seq(Message) /\ handler \in SUBSET Message
      /\ Distinct(queue) /\ Distinct(topic) /\ Unlike(queue, topic) /\ Unlike(topic, queue)
      /\ \A h \in handler : Unlike(<<h>>, queue) /\ Unlike(<<h>>, topic)
      /\ \A h \in handler : <<h>> \in Seq(Message)
  BY UnlikeBothWays DEF TypeOK, OneCopy
<1>1. CASE UNCHANGED <<queue, topic, handler>>
  BY <1>1 DEF OneCopy
<1>2. CASE Report
  <2> DEFINE m == [of |-> news + 1, st |-> news + 1]
  <2>1. m \in Message
    BY <1>2, NewsAssumption DEF Report, TypeOK, Message, News, Status
  <2>2. topic' = Append(topic, m) /\ UNCHANGED <<queue, handler>>
    BY <1>2 DEF Report
  <2>3. Unlike(<<m>>, queue) /\ Unlike(<<m>>, topic) /\ \A h \in handler : Unlike(<<m>>, <<h>>)
    BY NewsUnlike
  <2>4. Distinct(Append(topic, m)) /\ Unlike(queue, Append(topic, m))
    BY <2>1, <2>3, Enqueue
  <2>5. \A h \in handler : Unlike(<<h>>, Append(topic, m))
    BY <1>0, <2>1, <2>3, AppendUnlike
  <2>6. QED
    BY <1>0, <2>2, <2>4, <2>5 DEF OneCopy
<1>3. ASSUME NEW entry \in Entry, Flush(entry)
      PROVE  OneCopy'
  <2> DEFINE m == [of |-> news + 1, st |-> entry.st]
  <2>1. m \in Message
    BY <1>3, NewsAssumption DEF Flush, TypeOK, Message, News, Entry
  <2>2. queue' = Append(queue, m) /\ UNCHANGED <<topic, handler>>
    BY <1>3 DEF Flush, Emit
  <2>3. Unlike(<<m>>, queue) /\ Unlike(<<m>>, topic) /\ \A h \in handler : Unlike(<<m>>, <<h>>)
    BY NewsUnlike
  <2>4. Distinct(Append(queue, m)) /\ Unlike(Append(queue, m), topic)
    BY <2>1, <2>3, Enqueue
  <2>5. \A h \in handler : Unlike(<<h>>, Append(queue, m))
    BY <1>0, <2>1, <2>3, AppendUnlike
  <2>6. QED
    BY <1>0, <2>2, <2>4, <2>5 DEF OneCopy
<1>4. CASE Request
  <2>1. \E entry \in Entry : Flush(entry)
    BY <1>4, RequestFlushes
  <2>2. QED
    BY <1>3, <2>1
<1>5. CASE Publish
  <2> DEFINE m == Head(queue)
  <2>1. queue # <<>> /\ queue' = Tail(queue) /\ topic' = Append(topic, m) /\ UNCHANGED handler
    BY <1>5 DEF Publish
  <2>2. /\ m \in Message /\ Tail(queue) \in Seq(Message)
        /\ Distinct(Tail(queue)) /\ Unlike(<<m>>, Tail(queue))
    BY <1>0, <2>1, TailDistinct
  <2>3. Unlike(topic, Tail(queue)) /\ Unlike(<<m>>, topic)
    BY <1>0, <2>1, TailUnlike
  <2>4. \A h \in handler : Unlike(<<h>>, Tail(queue)) /\ Unlike(<<m>>, <<h>>)
    BY <1>0, <2>1, TailUnlike
  <2>5. Distinct(Append(topic, m))
    BY <1>0, <2>2, <2>3, AppendDistinct
  <2>6. Unlike(Tail(queue), Append(topic, m))
    BY <1>0, <2>2, <2>3, AppendUnlike, UnlikeBothWays
  <2>7. \A h \in handler : Unlike(<<h>>, Append(topic, m))
    BY <1>0, <2>2, <2>4, AppendUnlike
  <2>8. QED
    BY <2>1, <2>2, <2>4, <2>5, <2>6, <2>7 DEF OneCopy
<1>6. CASE LookUp
  <2> DEFINE m == Head(topic)
  <2>1. topic # <<>> /\ topic' = Tail(topic) /\ handler' \subseteq {m} /\ UNCHANGED queue
    BY <1>6 DEF LookUp
  <2>2. Distinct(Tail(topic)) /\ Unlike(<<m>>, Tail(topic))
    BY <1>0, <2>1, TailDistinct
  <2>3. Unlike(queue, Tail(topic)) /\ Unlike(<<m>>, queue)
    BY <1>0, <2>1, TailUnlike
  <2>4. QED
    BY <1>0, <2>1, <2>2, <2>3 DEF OneCopy
<1>7. CASE Handle
  <2>1. PICK h \in handler : Emit(h.of, [active |-> TRUE, st |-> h.st])
    BY <1>7 DEF Handle
  <2> DEFINE m == [of |-> h.of, st |-> h.st]
  <2>2. m \in Message /\ queue' = Append(queue, m) /\ handler' = {} /\ UNCHANGED topic
    BY <1>0, <1>7, <2>1 DEF Handle, Emit, Message
  <2>3. Unlike(<<m>>, queue) /\ Unlike(<<m>>, topic)
    <3>1. m.of = h.of /\ Unlike(<<h>>, queue) /\ Unlike(<<h>>, topic)
      BY <1>0
    <3>2. QED
      BY <3>1, SameNews
  <2>4. Distinct(Append(queue, m)) /\ Unlike(Append(queue, m), topic)
    BY <2>2, <2>3, Enqueue
  <2>5. QED
    BY <1>0, <2>2, <2>4 DEF OneCopy
<1>8. QED
  BY <1>1, <1>2, <1>4, <1>5, <1>6, <1>7 DEF Next, End, Commit, Rollback, vars

LEMMA KnownNext ==
  ASSUME TypeOK, Known, [Next]_vars
  PROVE  Known'
<1>0. /\ queue \in Seq(Message) /\ topic \in Seq(Message) /\ handler \in SUBSET Message
      /\ news \in Nat /\ news + 1 \in Nat /\ news <= news + 1
      /\ \A x \in Message : x.of \in Nat
      /\ \A i \in 1 .. Len(queue) : queue[i].of <= news
      /\ \A i \in 1 .. Len(topic) : topic[i].of <= news
      /\ \A h \in handler : h.of <= news
  BY DEF TypeOK, Known, Message, News
<1>1. CASE UNCHANGED <<queue, topic, handler, news>>
  BY <1>1 DEF Known
<1>2. CASE Report
  <2> DEFINE m == [of |-> news + 1, st |-> news + 1]
  <2>1. m \in Message /\ m.of <= news + 1
    BY <1>0, <1>2, NewsAssumption DEF Report, TypeOK, Message, News, Status
  <2>2. topic' = Append(topic, m) /\ news' = news + 1 /\ UNCHANGED <<queue, handler>>
    BY <1>2 DEF Report
  <2>3. \A i \in 1 .. Len(Append(topic, m)) : Append(topic, m)[i].of <= news + 1
    BY <1>0, <2>1, AppendKnown
  <2>4. \A i \in 1 .. Len(queue) : queue[i].of <= news + 1
    BY <1>0, <2>1, AppendKnown
  <2>5. \A h \in handler : h.of <= news + 1
    BY <1>0
  <2> HIDE DEF m
  <2>6. QED
    BY <2>2, <2>3, <2>4, <2>5 DEF Known
<1>3. CASE Request
  <2>1. PICK entry \in Entry : Flush(entry)
    BY <1>3, RequestFlushes
  <2> DEFINE m == [of |-> news + 1, st |-> entry.st]
  <2>2. m \in Message /\ m.of <= news + 1
    BY <1>0, <2>1, NewsAssumption DEF Flush, TypeOK, Message, News, Entry
  <2>3. queue' = Append(queue, m) /\ news' = news + 1 /\ UNCHANGED <<topic, handler>>
    BY <2>1 DEF Flush, Emit
  <2>4. \A i \in 1 .. Len(Append(queue, m)) : Append(queue, m)[i].of <= news + 1
    BY <1>0, <2>2, AppendKnown
  <2>5. \A i \in 1 .. Len(topic) : topic[i].of <= news + 1
    BY <1>0, <2>2, AppendKnown
  <2>6. \A h \in handler : h.of <= news + 1
    BY <1>0
  <2> HIDE DEF m
  <2>7. QED
    BY <2>3, <2>4, <2>5, <2>6 DEF Known
<1>4. CASE Publish
  BY <1>0, <1>4 DEF Publish, Known
<1>5. CASE LookUp
  BY <1>0, <1>5 DEF LookUp, Known
<1>6. CASE Handle
  BY <1>0, <1>6 DEF Handle, Emit, Known
<1>7. QED
  BY <1>1, <1>2, <1>3, <1>4, <1>5, <1>6 DEF Next, End, Commit, Rollback, vars

\* Although the gateway hears its own messages, each report and each request
\* is on its way at most once (service.py:732-748).
THEOREM NeverMultiplies == Spec => []OneCopy
<1>1. Init => OneCopy /\ Known
  BY DEF Init, OneCopy, Known, Distinct, Unlike
<1>2. TypeOK /\ OneCopy /\ Known /\ [Next]_vars => OneCopy' /\ Known'
  BY OneCopyNext, KnownNext
<1>3. QED
  BY <1>1, <1>2, TypeCorrect, PTL DEF Spec
=============================================================================
