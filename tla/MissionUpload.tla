---------------------------- MODULE MissionUpload ----------------------------
(***************************************************************************)
(* The edge agent uploads missions to its autopilot:                       *)
(* upload_mission_event_to_autopilot (mission_uploader.py) on top of       *)
(* MavlinkReader.notify / wait_for (mavlink_reader.py), called for one     *)
(* upload event after the other by MqttBridge.handle_messages.             *)
(*                                                                         *)
(* The agent is one asyncio task beside _mavlink_loop, which takes every   *)
(* message off the serial link as it comes: a message for which no         *)
(* coroutine is waiting at that moment is dropped.  The task is away from  *)
(* wait_for whenever it awaits an MQTT publish, so "pc" says what it is    *)
(* awaiting.  The code between two awaits is one action.                   *)
(*                                                                         *)
(* The autopilot and the serial link are not part of the repository: they  *)
(* are modelled after what the uploader relies on (a receiver that asks    *)
(* for the items in order, repeats a request, acknowledges at the end),    *)
(* over a link that keeps the order and may lose messages.                 *)
(***************************************************************************)
EXTENDS Naturals, Sequences, FiniteSets

CONSTANTS
  Plans,          \* the missions the cloud sends: sequences of waypoint seq numbers
  MaxUploads,     \* bound: upload events handled
  MaxLoss,        \* bound: messages the serial link loses
  MaxRetry,       \* bound: requests the autopilot repeats, in each upload
  SlowLink,       \* may 30 s pass while a message or a repeat is still to come?
  SendFaults,     \* may a pymavlink send raise?
  PublishFaults   \* may an MQTT publish of the agent raise?

ASSUME PlansAssumption   == Plans \subseteq Seq(Nat)
ASSUME BoundsAssumption  == /\ MaxUploads \in Nat \ {0}
                            /\ MaxLoss \in Nat
                            /\ MaxRetry \in Nat
ASSUME SwitchesAssumption == /\ SlowLink \in BOOLEAN
                             /\ SendFaults \in BOOLEAN
                             /\ PublishFaults \in BOOLEAN

VARIABLES
  pc,        \* what the agent's upload task awaits; "idle": the next upload event
  upload,    \* number of the upload event being, or last, handled
  plans,     \* plans[u]: the waypoints of upload event u
  sent,      \* the seq numbers whose item was sent (the local set "sent")
  report,    \* report[u]: last status published for upload u
  down,      \* messages on the way to the autopilot
  up,        \* messages on the way to the agent
  rx,        \* the autopilot's transfer: [on, count, items]
  onboard,   \* the mission the autopilot holds: for each item, the upload it came from
  retries,   \* requests repeated in this upload (bounded by MaxRetry)
  losses     \* messages lost so far (bounded by MaxLoss)

agentVars == <<pc, upload, plans, sent, report>>
apVars    == <<rx, onboard, retries>>
vars      == <<agentVars, down, up, apVars, losses>>

Uploads == 1 .. MaxUploads

ClearMsg      == [t |-> "CLEAR"]
CountMsg(n)   == [t |-> "COUNT", n |-> n]
\* "of" is the upload an item belongs to: the item's payload, which the
\* autopilot stores without looking at it.
ItemMsg(k, u) == [t |-> "ITEM", seq |-> k, of |-> u]
RequestMsg(k) == [t |-> "REQUEST", seq |-> k]
AckMsg(type)  == [t |-> "ACK", type |-> type]
Accepted      == 0      \* MAV_MISSION_ACCEPTED
Refused       == 1      \* any other MAV_MISSION_RESULT

DownMsg == [t : {"CLEAR"}] \cup [t : {"COUNT"}, n : Nat]
             \cup [t : {"ITEM"}, seq : Nat, of : Uploads]
UpMsg   == [t : {"REQUEST"}, seq : Nat] \cup [t : {"ACK"}, type : {Accepted, Refused}]

NoTransfer == [on |-> FALSE, count |-> 0, items |-> <<>>]

Report == {"none", "uploading", "uploaded", "failed", "abandoned"}

TypeOK ==
  /\ pc \in {"idle", "announce", "request", "progress", "ack"}
  /\ upload \in 0 .. MaxUploads
  /\ pc # "idle" => upload > 0
  /\ plans \in [Uploads -> Seq(Nat)]
  /\ sent \in SUBSET Nat
  /\ report \in [Uploads -> Report]
  /\ down \in Seq(DownMsg)
  /\ up \in Seq(UpMsg)
  /\ rx \in [on : BOOLEAN, count : Nat, items : Seq(Uploads)]
  /\ onboard \in Seq(Uploads)
  /\ retries \in 0 .. MaxRetry
  /\ losses \in 0 .. MaxLoss

Init ==
  /\ pc = "idle"
  /\ upload = 0
  /\ plans = [u \in Uploads |-> <<>>]
  /\ sent = {}
  /\ report = [u \in Uploads |-> "none"]
  /\ down = <<>>
  /\ up = <<>>
  /\ rx = NoTransfer
  /\ onboard = <<>>
  /\ retries = 0
  /\ losses = 0

-----------------------------------------------------------------------------
(* The waypoints of the upload under way.                                  *)

Plan == plans[upload]

\* The keys of wp_by_seq.  Two waypoints with the same seq collapse into one
\* key, while "count" counts both.
SeqsOf(plan) == {plan[i] : i \in 1 .. Len(plan)}

AllSent(s) == Cardinality(s) >= Len(Plan)

\* notify() hands a message to the coroutine that waits for it: the predicate
\* of the request wait (mission_uploader.py:113-117), and no predicate for the
\* acknowledgment.  Everything else is taken off the link and dropped.
Awaited(m) ==
  \/ pc = "request" /\ m.t = "REQUEST" /\ m.seq \in SeqsOf(Plan) /\ m.seq \notin sent
  \/ pc = "ack" /\ m.t = "ACK"

-----------------------------------------------------------------------------
(* The agent.                                                              *)

\* The upload coroutine returns to handle_messages with its last status
\* published, or leaves with the exception of a publish that failed, which
\* handle_messages swallows: then the cloud hears nothing more of the upload.
Finish(u, status) ==
  /\ pc' = "idle"
  /\ \/ report' = [report EXCEPT ![u] = status]
     \/ PublishFaults /\ report' = [report EXCEPT ![u] = "abandoned"]

\* Mutant: an upload event is taken up while the last is still under way (the
\* handler runs as a task of its own, as the download's does).
TakeUpWhileBusy(p) ==
  /\ upload < MaxUploads
  /\ upload' = upload + 1
  /\ plans' = [plans EXCEPT ![upload + 1] = p]
  /\ retries' = 0
  /\ pc' = "announce"
  /\ report' = [report EXCEPT ![upload + 1] = "uploading"]
  /\ UNCHANGED <<sent, down, up, rx, onboard, losses>>

\* An upload event arrives.
TakeUp(p) ==
  /\ pc = "idle"
  /\ upload < MaxUploads
  /\ upload' = upload + 1
  /\ plans' = [plans EXCEPT ![upload + 1] = p]
  /\ retries' = 0
  /\ IF p = <<>>
     THEN Finish(upload + 1, "failed")
     ELSE /\ pc' = "announce"
          /\ report' = [report EXCEPT ![upload + 1] = "uploading"]
  /\ UNCHANGED <<sent, down, up, rx, onboard, losses>>

\* Mutant: the count is sent before the old mission is cleared.
CountBeforeClear ==
  /\ pc = "announce"
  /\ sent' = {}
  /\ down' = down \o <<CountMsg(Len(Plan)), ClearMsg>>
  /\ pc' = "request"
  /\ UNCHANGED <<upload, plans, report, up, apVars, losses>>

\* UPLOADING is published: clear the old mission, best effort, announce the
\* number of items and start waiting for requests.
Announce ==
  /\ pc = "announce"
  /\ sent' = {}
  /\ \E cleared, counted \in (IF SendFaults THEN BOOLEAN ELSE {TRUE}) :
       /\ down' = down \o (IF cleared THEN <<ClearMsg>> ELSE <<>>)
                       \o (IF counted THEN <<CountMsg(Len(Plan))>> ELSE <<>>)
       /\ IF counted
          THEN pc' = "request" /\ UNCHANGED report
          ELSE Finish(upload, "failed")
  /\ UNCHANGED <<upload, plans, up, apVars, losses>>

\* Mutant: after a failed send, FAILED is published and the loop goes on.
AnswerWithoutReturn ==
  /\ pc = "request"
  /\ up # <<>>
  /\ Awaited(Head(up))
  /\ up' = Tail(up)
  /\ \/ /\ down' = Append(down, ItemMsg(Head(up).seq, upload))
        /\ sent' = sent \cup {Head(up).seq}
        /\ pc' = "progress"
        /\ UNCHANGED report
     \/ /\ SendFaults
        /\ report' = [report EXCEPT ![upload] = "failed"]
        /\ UNCHANGED <<down, sent, pc>>
  /\ UNCHANGED <<upload, plans, apVars, losses>>

\* A request the agent waits for: send the item, then await the publish of
\* the progress message.
AnswerRequest ==
  /\ pc = "request"
  /\ up # <<>>
  /\ Awaited(Head(up))
  /\ up' = Tail(up)
  /\ \/ /\ down' = Append(down, ItemMsg(Head(up).seq, upload))
        /\ sent' = sent \cup {Head(up).seq}
        /\ pc' = "progress"
        /\ UNCHANGED report
     \/ /\ SendFaults
        /\ Finish(upload, "failed")
        /\ UNCHANGED <<down, sent>>
  /\ UNCHANGED <<upload, plans, apVars, losses>>

\* The progress message is published: back to the loop, or on to the
\* acknowledgment.
ProgressPublished ==
  /\ pc = "progress"
  /\ pc' = IF AllSent(sent) THEN "ack" ELSE "request"
  /\ UNCHANGED <<upload, plans, sent, report, down, up, apVars, losses>>

\* Publishing UPLOADING or the progress raises.
PublishFails ==
  /\ PublishFaults
  /\ pc \in {"announce", "progress"}
  /\ pc' = "idle"
  /\ report' = [report EXCEPT ![upload] = "abandoned"]
  /\ UNCHANGED <<upload, plans, sent, down, up, apVars, losses>>

\* Mutant: a refusal is published as a status the cloud does not know.
UnknownStatus ==
  /\ pc = "ack"
  /\ up # <<>>
  /\ Awaited(Head(up))
  /\ up' = Tail(up)
  /\ Finish(upload, IF Head(up).type = Accepted THEN "uploaded" ELSE "rejected")
  /\ UNCHANGED <<upload, plans, sent, down, apVars, losses>>

\* The acknowledgment: any MISSION_ACK will do, whatever it acknowledges.
ReceiveAck ==
  /\ pc = "ack"
  /\ up # <<>>
  /\ Awaited(Head(up))
  /\ up' = Tail(up)
  /\ Finish(upload, IF Head(up).type = Accepted THEN "uploaded" ELSE "failed")
  /\ UNCHANGED <<upload, plans, sent, down, apVars, losses>>

\* _mavlink_loop takes a message nobody waits for off the link.
DropUnawaited ==
  /\ up # <<>>
  /\ ~Awaited(Head(up))
  /\ up' = Tail(up)
  /\ UNCHANGED <<agentVars, down, apVars, losses>>

\* 30 s without the awaited message.  Unless the link may be that slow, all
\* that was on the way has arrived and the autopilot has repeated itself, or
\* given up, long before.
Quiet == down = <<>> /\ up = <<>> /\ ~rx.on

\* Mutant: the wait for the acknowledgment has no timeout.
TimeoutOfRequestsOnly ==
  /\ pc = "request"
  /\ SlowLink \/ Quiet
  /\ Finish(upload, "failed")
  /\ UNCHANGED <<upload, plans, sent, down, up, apVars, losses>>

Timeout ==
  /\ pc \in {"request", "ack"}
  /\ SlowLink \/ Quiet
  /\ Finish(upload, "failed")
  /\ UNCHANGED <<upload, plans, sent, down, up, apVars, losses>>

-----------------------------------------------------------------------------
(* The autopilot and the link (external).                                  *)

ApReceiveClear ==
  /\ down # <<>>
  /\ Head(down).t = "CLEAR"
  /\ down' = Tail(down)
  /\ up' = Append(up, AckMsg(Accepted))
  /\ rx' = NoTransfer
  /\ onboard' = <<>>
  /\ UNCHANGED <<agentVars, retries, losses>>

\* A transfer starts over, or is refused (no room for that many items).
ApReceiveCount ==
  /\ down # <<>>
  /\ Head(down).t = "COUNT"
  /\ down' = Tail(down)
  /\ \/ /\ rx' = [on |-> TRUE, count |-> Head(down).n, items |-> <<>>]
        /\ up' = Append(up, RequestMsg(0))
     \/ /\ rx' = NoTransfer
        /\ up' = Append(up, AckMsg(Refused))
  /\ UNCHANGED <<agentVars, onboard, retries, losses>>

\* The item asked for is stored; the last one replaces the mission.  An item
\* out of turn, and one the autopilot cannot fly, is refused.
ApReceiveItem ==
  /\ down # <<>>
  /\ Head(down).t = "ITEM"
  /\ down' = Tail(down)
  /\ LET items == Append(rx.items, Head(down).of) IN
     \/ /\ rx.on /\ Head(down).seq = Len(rx.items)
        /\ IF Len(items) = rx.count
           THEN /\ onboard' = items
                /\ rx' = NoTransfer
                /\ up' = Append(up, AckMsg(Accepted))
           ELSE /\ rx' = [rx EXCEPT !.items = items]
                /\ up' = Append(up, RequestMsg(Len(items)))
                /\ UNCHANGED onboard
     \/ /\ rx.on /\ Head(down).seq = Len(rx.items)
        /\ rx' = NoTransfer
        /\ up' = Append(up, AckMsg(Refused))
        /\ UNCHANGED onboard
     \/ /\ ~(rx.on /\ Head(down).seq = Len(rx.items))
        /\ up' = Append(up, AckMsg(Refused))
        /\ UNCHANGED <<rx, onboard>>
  /\ UNCHANGED <<agentVars, retries, losses>>

ApRepeatRequest ==
  /\ rx.on
  /\ retries < MaxRetry
  /\ retries' = retries + 1
  /\ up' = Append(up, RequestMsg(Len(rx.items)))
  /\ UNCHANGED <<agentVars, down, rx, onboard, losses>>

ApGiveUp ==
  /\ rx.on
  /\ rx' = NoTransfer
  /\ up' = Append(up, AckMsg(Refused))
  /\ UNCHANGED <<agentVars, down, onboard, retries, losses>>

Lose ==
  /\ losses < MaxLoss
  /\ losses' = losses + 1
  /\ \/ down # <<>> /\ down' = Tail(down) /\ UNCHANGED up
     \/ up # <<>> /\ up' = Tail(up) /\ UNCHANGED down
  /\ UNCHANGED <<agentVars, apVars>>

-----------------------------------------------------------------------------
Agent == \/ \E p \in Plans : TakeUp(p)
         \/ Announce
         \/ AnswerRequest
         \/ ProgressPublished
         \/ PublishFails
         \/ ReceiveAck
         \/ DropUnawaited
         \/ Timeout

Autopilot == \/ ApReceiveClear
             \/ ApReceiveCount
             \/ ApReceiveItem
             \/ ApRepeatRequest
             \/ ApGiveUp

Next == Agent \/ Autopilot \/ Lose

Spec == Init /\ [][Next]_vars

\* asyncio runs every task that can run, the link delivers or loses what was
\* sent, and an autopilot does not stay in a transfer for ever.  Nothing is
\* assumed of upload events: they need not come.
Fairness ==
  /\ WF_vars(Announce)
  /\ WF_vars(AnswerRequest)
  /\ WF_vars(ProgressPublished)
  /\ WF_vars(ReceiveAck)
  /\ WF_vars(DropUnawaited)
  /\ WF_vars(Timeout)
  /\ WF_vars(ApReceiveClear)
  /\ WF_vars(ApReceiveCount)
  /\ WF_vars(ApReceiveItem)
  /\ WF_vars(ApGiveUp)

FairSpec == Spec /\ Fairness

-----------------------------------------------------------------------------
(* Properties.                                                             *)

\* The whole mission of upload u.
Whole(u) == [i \in 1 .. Len(plans[u]) |-> u]

\* When the agent has told the cloud UPLOADED, every item the autopilot holds
\* is an item of that mission and none is missing, whatever the link lost and
\* whatever earlier uploads left behind (mission_uploader.py:220-225).
UploadedIsOnboard ==
  upload > 0 /\ report[upload] = "uploaded" => onboard = Whole(upload)

\* Why it holds of the first upload on a fresh link: nothing is on its way
\* until the agent announces the mission; MISSION_CLEAR_ALL travels ahead of
\* everything else, so that its acknowledgment is the first message to come
\* back and is gone once an item was asked for; after that the autopilot only
\* acknowledges a mission that it took completely.
FreshLink == down = <<>> /\ up = <<>> /\ ~rx.on /\ onboard = <<>>

NothingBefore == /\ upload = 0 => report[1] = "none"
                 /\ upload = 0 \/ pc = "announce" => FreshLink

Reporting == upload = 1 => (report[1] = "uploading" <=> pc # "idle")

CountAnnounced ==
  /\ pc # "idle" => Len(plans[1]) > 0
  /\ \A i \in 1 .. Len(down) : down[i].t = "COUNT" => down[i].n = Len(plans[1])
  /\ rx.on => rx.count = Len(plans[1])

ClearLeads ==
  \A i \in 1 .. Len(down) : down[i].t = "CLEAR" =>
     i = 1 /\ up = <<>> /\ ~rx.on /\ onboard = <<>> /\ sent = {}

ConsentMeansOnboard ==
  \A i \in 1 .. Len(up) : up[i].t = "ACK" /\ up[i].type = Accepted =>
     onboard = Whole(1) \/ (i = 1 /\ sent = {})

FirstUpload ==
  /\ NothingBefore
  /\ Reporting
  /\ CountAnnounced
  /\ ClearLeads
  /\ ConsentMeansOnboard
  /\ pc \in {"progress", "ack"} => sent # {}
  /\ report[1] = "uploaded" => onboard = Whole(1) /\ Len(plans[1]) > 0

\* Why it holds of every upload, where nothing fails and 30 s are enough for
\* all that is on the link: uploads do not mix.  Whatever an upload left on the
\* link is refused before the next is announced, so that a transfer takes only
\* items of its own, each when it is asked for, and the first acknowledgment
\* after a request ends the transfer and nothing but refusals follows it.
BetweenUploads ==
  pc \in {"idle", "announce"} =>
    /\ ~rx.on
    /\ \A i \in 1 .. Len(down) : down[i].t = "ITEM"
    /\ \A i \in 1 .. Len(up) : up[i] = AckMsg(Refused)

AnnouncedLast ==
  \A i \in 1 .. Len(down) : down[i].t # "ITEM" =>
    /\ sent = {} /\ ~rx.on
    /\ \A j \in 1 .. Len(up) : up[j].t = "ACK"
    /\ down[i].t = "CLEAR" => i + 1 = Len(down) /\ down[i + 1].t = "COUNT"
    /\ down[i].t = "COUNT" => i = Len(down) /\ down[i].n = Len(Plan)

TransferIsCurrent ==
  rx.on =>
    /\ rx.count = Len(Plan)
    /\ \A i \in 1 .. Len(rx.items) : rx.items[i] = upload
    /\ 0 .. Len(rx.items) - 1 \subseteq sent
    /\ sent \subseteq 0 .. Len(rx.items)
    /\ \A i \in 1 .. Len(up) : up[i].t = "REQUEST" => up[i].seq <= Len(rx.items)
    /\ \/ down = <<>>
       \/ down = <<ItemMsg(Len(rx.items), upload)>> /\ Len(rx.items) \in sent

\* An item was asked for before the agent sees the j-th message.
AskedBefore(j) == sent # {} \/ \E i \in 1 .. j - 1 : up[i].t = "REQUEST"

AnswerIsLast ==
  \A j \in 1 .. Len(up) : up[j].t = "ACK" /\ AskedBefore(j) =>
    /\ ~rx.on
    /\ up[j].type = Accepted => onboard = Whole(upload)
    /\ \A i \in j + 1 .. Len(up) : up[i] = AckMsg(Refused)

ReportIsTrue ==
  /\ upload > 0 => (report[upload] = "uploading" <=> pc # "idle")
  /\ pc # "idle" => Len(Plan) > 0
  /\ pc \in {"progress", "ack"} => sent # {}
  /\ upload > 0 /\ report[upload] = "uploaded" => onboard = Whole(upload) /\ Len(Plan) > 0
  /\ \A i \in 1 .. Len(onboard) : onboard[i] <= upload

UploadsApart ==
  /\ BetweenUploads
  /\ AnnouncedLast
  /\ TransferIsCurrent
  /\ AnswerIsLast
  /\ ReportIsTrue

\* Every upload taken up comes to an end, so that handle_messages, which
\* awaits it, gets to the next command or upload (mqtt_bridge.py:119-126).
UploadConcludes == \A u \in Uploads : report[u] = "uploading" ~> report[u] # "uploading"

\* The upload whose whole mission the autopilot holds.
Held == IF onboard # <<>> /\ \E u \in 1 .. upload : onboard = Whole(u)
        THEN onboard[1] ELSE 0

\* The agent keeps the promise of UploadContract: statuses come in the order
\* uploading, then one final one, for one upload at a time, and from UPLOADED
\* on the vehicle holds that mission until the next upload is taken up.
Contract == INSTANCE UploadContract WITH held <- Held

ImplementsContract == Contract!Spec
=============================================================================
