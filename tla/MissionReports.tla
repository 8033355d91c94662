--------------------------- MODULE MissionReports ---------------------------
(***************************************************************************)
(* How the status of one mission on one vehicle travels.  The vehicle      *)
(* reports it on the MQTT topic .../mission/{vehicle}/status.  The gateway *)
(* takes the messages of that topic one after the other; its listener      *)
(* (mission/mqtt_listener.py) hands them to update_mission_status, which   *)
(* tells the dashboards and publishes the status, through                  *)
(* _emit_assignment_updates, on that same topic.  So do the HTTP requests  *)
(* that assign, unassign or set a status; they do it after their flush and *)
(* before their commit.                                                    *)
(*                                                                         *)
(* The listener leaves "async for db in get_postgres_session()" by break:  *)
(* the generator is closed where it stands, at its yield, and never gets   *)
(* to the commit after it, so what the listener wrote is rolled back.      *)
(*                                                                         *)
(* One gateway process, connected to the broker, and one mission and       *)
(* vehicle.  A piece of news is a report of the vehicle or an HTTP         *)
(* request; they are numbered as they come, and a status is named by the   *)
(* news that first brought it, 0 before any did.                           *)
(***************************************************************************)
EXTENDS Naturals, Sequences, FiniteSets

CONSTANTS
  MaxNews,     \* bound: reports and requests
  Rollbacks    \* may a request fail between its flush and its commit?

ASSUME NewsAssumption      == MaxNews \in Nat
ASSUME RollbacksAssumption == Rollbacks \in BOOLEAN

VARIABLES
  row,       \* the assignment as it is committed: active or not, and its status
  txn,       \* the assignment as an HTTP request has flushed it: a set of
             \* one entry, empty when no request is writing
  handler,   \* the message for which the listener has found the row: a set of
             \* one message, or empty
  queue,     \* MQTTService._publish_queue: messages on their way to the broker
  topic,     \* messages on their way from the broker to the gateway
  shown,     \* the assignment as the dashboards show it
  news,      \* number of reports and requests so far
  reported   \* those that are reports of the vehicle

vars == <<row, txn, handler, queue, topic, shown, news, reported>>

News    == 1 .. MaxNews
Status  == 0 .. MaxNews
Entry   == [active : BOOLEAN, st : Status]
Message == [of : News, st : Status]     \* the news it goes back to, and a status

TypeOK ==
  /\ row \in Entry
  /\ txn \in SUBSET Entry /\ Cardinality(txn) <= 1
  /\ handler \in SUBSET Message /\ Cardinality(handler) <= 1
  /\ queue \in Seq(Message) /\ topic \in Seq(Message)
  /\ shown \in Entry
  /\ news \in 0 .. MaxNews
  /\ reported \in SUBSET News

Init ==
  /\ row = [active |-> FALSE, st |-> 0]
  /\ txn = {}
  /\ handler = {}
  /\ queue = <<>> /\ topic = <<>>
  /\ shown = row
  /\ news = 0
  /\ reported = {}

\* Mutant: the update is published on the progress topic too, to which the
\* listener is subscribed as well.
EmitOnBothTopics(n, entry) ==
  /\ queue' = queue \o <<[of |-> n, st |-> entry.st], [of |-> n, st |-> entry.st]>>
  /\ shown' = entry

\* _emit_assignment_updates: on to the topic, and out to the dashboards.
Emit(n, entry) ==
  /\ queue' = Append(queue, [of |-> n, st |-> entry.st])
  /\ shown' = entry

-----------------------------------------------------------------------------
(* The vehicle and the HTTP requests.                                      *)

Report ==
  /\ news < MaxNews
  /\ news' = news + 1
  /\ reported' = reported \cup {news + 1}
  /\ topic' = Append(topic, [of |-> news + 1, st |-> news + 1])
  /\ UNCHANGED <<row, txn, handler, queue, shown>>

\* A request flushes the assignment as it wants it to be and emits that.
Flush(entry) ==
  /\ txn = {}
  /\ news < MaxNews
  /\ news' = news + 1
  /\ txn' = {entry}
  /\ Emit(news + 1, entry)
  /\ UNCHANGED <<row, handler, topic, reported>>

\* assign_mission inserts an active row with status READY.
Assign == ~row.active /\ Flush([active |-> TRUE, st |-> news + 1])

Unassign == row.active /\ Flush([row EXCEPT !.active = FALSE])

UpdateStatus == row.active /\ Flush([row EXCEPT !.st = news + 1])

Commit ==
  /\ txn # {}
  /\ row' \in txn
  /\ txn' = {}
  /\ UNCHANGED <<handler, queue, topic, shown, news, reported>>

Rollback ==
  /\ Rollbacks
  /\ txn # {}
  /\ txn' = {}
  /\ UNCHANGED <<row, handler, queue, topic, shown, news, reported>>

-----------------------------------------------------------------------------
(* The gateway's MQTT tasks.                                               *)

\* _publish_loop hands the oldest message to the broker, which sends it back.
Publish ==
  /\ queue # <<>>
  /\ queue' = Tail(queue)
  /\ topic' = Append(topic, Head(queue))
  /\ UNCHANGED <<row, txn, handler, shown, news, reported>>

\* Mutant: the listener does not ask for an active assignment.
LookUpAny ==
  /\ handler = {}
  /\ topic # <<>>
  /\ topic' = Tail(topic)
  /\ handler' = {Head(topic)}
  /\ UNCHANGED <<row, txn, queue, shown, news, reported>>

\* Mutant: every message gets a task of its own.
LookUpAtOnce ==
  /\ topic # <<>>
  /\ topic' = Tail(topic)
  /\ handler' = IF row.active THEN handler \cup {Head(topic)} ELSE handler
  /\ UNCHANGED <<row, txn, queue, shown, news, reported>>

\* The listener takes a message and looks for the active assignment; a message
\* for which there is none is dropped (404).
LookUp ==
  /\ handler = {}
  /\ topic # <<>>
  /\ topic' = Tail(topic)
  /\ handler' = IF row.active THEN {Head(topic)} ELSE {}
  /\ UNCHANGED <<row, txn, queue, shown, news, reported>>

\* It flushes the status into the row it found, waiting, if that changes the
\* row, for a request that has it locked; emits it, and is rolled back.
Handle ==
  /\ \E m \in handler :
       /\ m.st # row.st => txn = {} \/ ~row.active
       /\ Emit(m.of, [active |-> TRUE, st |-> m.st])
  /\ handler' = {}
  /\ UNCHANGED <<row, txn, topic, news, reported>>

-----------------------------------------------------------------------------
Request == Assign \/ Unassign \/ UpdateStatus
End     == Commit \/ Rollback

Next == Report \/ Request \/ End \/ Publish \/ LookUp \/ Handle

Spec == Init /\ [][Next]_vars

\* Tasks that can run do run, and a request ends.  Neither the vehicle nor a
\* user need have any news.
Fairness == WF_vars(End) /\ WF_vars(Publish) /\ WF_vars(LookUp) /\ WF_vars(Handle)

FairSpec == Spec /\ Fairness

-----------------------------------------------------------------------------
(* Properties.                                                             *)

Unlike(p, q) == \A i \in 1 .. Len(p), j \in 1 .. Len(q) : p[i].of # q[j].of

Distinct(q) == \A i, j \in 1 .. Len(q) : i # j => q[i].of # q[j].of

\* The gateway's own messages come back to it, but they do not multiply: each
\* report and request is on its way at most once (service.py:732-748).
OneCopy ==
  /\ Distinct(queue) /\ Distinct(topic) /\ Unlike(queue, topic)
  /\ \A m \in handler : Unlike(<<m>>, queue) /\ Unlike(<<m>>, topic)

Silent == queue = <<>> /\ topic = <<>> /\ handler = {}

\* Once the mission is unassigned for good, and the vehicle has said what it
\* had to say, the topic falls silent (service.py:331-334).
UnassignSilences == <>[](~row.active) => <>[]Silent

\* "Subscribe to mission status/progress topics and persist updates"
\* (mqtt_listener.py:17): what the dashboards show of a vehicle's report is
\* stored in the end, unless later news or an unassignment makes it void.
ReportsPersist ==
  \A n \in News :
    (n \in reported /\ shown.st = n) ~> (row.st >= n \/ ~row.active)
=============================================================================
