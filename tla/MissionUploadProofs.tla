------------------------- MODULE MissionUploadProofs -------------------------
(***************************************************************************)
(* Proofs about MissionUpload.  TypeOK for every value of the constants;   *)
(* then that UPLOADED is only reported of a mission the autopilot holds,   *)
(* and that the agent implements UploadContract, whatever the missions,    *)
(* however many messages are lost or requests repeated: for one upload on  *)
(* a fresh link, however slow the link is and whichever sends and          *)
(* publishes fail; and for any number of uploads, where nothing fails and  *)
(* 30 s are enough for all that is on the link.                            *)
(***************************************************************************)
EXTENDS MissionUpload, SequenceTheorems, TLAPS

\* Messages are built as the types say.
LEMMA MessageTypes ==
  /\ ClearMsg \in DownMsg
  /\ \A n \in Nat : CountMsg(n) \in DownMsg
  /\ \A k \in Nat, u \in Uploads : ItemMsg(k, u) \in DownMsg
  /\ \A k \in Nat : RequestMsg(k) \in UpMsg
  /\ AckMsg(Accepted) \in UpMsg
  /\ AckMsg(Refused) \in UpMsg
BY DEF ClearMsg, CountMsg, ItemMsg, RequestMsg, AckMsg, DownMsg, UpMsg

LEMMA AppendType ==
  ASSUME NEW S, NEW q \in Seq(S), NEW m \in S
  PROVE  Append(q, m) \in Seq(S)
OBVIOUS

LEMMA TailType ==
  ASSUME NEW S, NEW q \in Seq(S), q # <<>>
  PROVE  Tail(q) \in Seq(S) /\ Head(q) \in S
OBVIOUS

\* What the agent puts on the link in Announce.
LEMMA AnnounceType ==
  ASSUME NEW q \in Seq(DownMsg), NEW n \in Nat, NEW a \in BOOLEAN, NEW b \in BOOLEAN
  PROVE  q \o (IF a THEN <<ClearMsg>> ELSE <<>>)
           \o (IF b THEN <<CountMsg(n)>> ELSE <<>>) \in Seq(DownMsg)
<1>1. (IF a THEN <<ClearMsg>> ELSE <<>>) \in Seq(DownMsg)
  BY MessageTypes
<1>2. (IF b THEN <<CountMsg(n)>> ELSE <<>>) \in Seq(DownMsg)
  BY MessageTypes
<1>3. QED
  BY <1>1, <1>2, ConcatProperties

LEMMA FinishType ==
  ASSUME TypeOK, NEW u \in Uploads, NEW status \in Report, Finish(u, status)
  PROVE  pc' = "idle" /\ report' \in [Uploads -> Report]
BY DEF TypeOK, Finish, Report

LEMMA TypeInit == Init => TypeOK
BY BoundsAssumption DEF Init, TypeOK, NoTransfer, Report, Uploads

LEMMA TypeNext == TypeOK /\ [Next]_vars => TypeOK'
<1> SUFFICES ASSUME TypeOK, [Next]_vars
             PROVE  TypeOK'
  OBVIOUS
<1> USE BoundsAssumption, SwitchesAssumption
<1>0. pc # "idle" => upload \in Uploads
  BY DEF TypeOK, Uploads
<1>a. "uploaded" \in Report /\ "failed" \in Report
  BY DEF Report
<1>b. NoTransfer \in [on : BOOLEAN, count : Nat, items : Seq(Uploads)]
  <2>1. <<>> \in Seq(Uploads)
    OBVIOUS
  <2>2. QED
    BY <2>1 DEF NoTransfer
<1>1. ASSUME NEW p \in Plans, TakeUp(p)
      PROVE  TypeOK'
  <2>1. upload + 1 \in Uploads /\ p \in Seq(Nat)
    BY <1>1, PlansAssumption DEF TakeUp, TypeOK, Uploads
  <2>2. report' \in [Uploads -> Report] /\ pc' \in {"idle", "announce"}
    BY <1>1, <2>1, FinishType DEF TakeUp, TypeOK, Report
  <2>3. upload' \in 0 .. MaxUploads /\ retries' \in 0 .. MaxRetry
    BY <1>1 DEF TakeUp, TypeOK
  <2>4. plans' \in [Uploads -> Seq(Nat)]
    BY <1>1, <2>1 DEF TakeUp, TypeOK
  <2>5. UNCHANGED <<sent, down, up, rx, onboard, losses>>
    BY <1>1 DEF TakeUp
  <2>6. QED
    BY <1>1, <2>1, <2>2, <2>3, <2>4, <2>5 DEF TakeUp, TypeOK
<1>2. CASE Announce
  <2> Plan \in Seq(Nat)
    BY <1>0, <1>2 DEF Announce, Plan, TypeOK
  <2>1. PICK a \in BOOLEAN, b \in BOOLEAN :
          /\ down' = down \o (IF a THEN <<ClearMsg>> ELSE <<>>)
                          \o (IF b THEN <<CountMsg(Len(Plan))>> ELSE <<>>)
          /\ IF b THEN pc' = "request" /\ UNCHANGED report
                  ELSE Finish(upload, "failed")
    BY <1>2 DEF Announce
  <2>2. down' \in Seq(DownMsg)
    BY <2>1, AnnounceType, LenProperties DEF TypeOK
  <2>3. pc' \in {"idle", "request"} /\ report' \in [Uploads -> Report]
    BY <1>2, <2>1, FinishType, <1>0, <1>a DEF Announce, TypeOK
  <2>4. QED
    BY <1>2, <2>2, <2>3 DEF TypeOK, Announce, apVars
<1>3. CASE AnswerRequest
  <2>1. up' \in Seq(UpMsg) /\ Head(up) \in UpMsg
    BY <1>3 DEF AnswerRequest, TypeOK
  <2>2. Head(up).seq \in Nat
    BY <1>3, <2>1 DEF AnswerRequest, Awaited, UpMsg
  <2>3. down' \in Seq(DownMsg) /\ sent' \in SUBSET Nat
    <3>1. CASE down' = Append(down, ItemMsg(Head(up).seq, upload))
               /\ sent' = sent \cup {Head(up).seq}
      <4>1. ItemMsg(Head(up).seq, upload) \in DownMsg
        BY <1>3, <2>2, <1>0, MessageTypes DEF AnswerRequest
      <4>2. QED
        BY <3>1, <4>1, <2>2, AppendType DEF TypeOK
    <3>2. QED
      BY <1>3, <3>1 DEF AnswerRequest, TypeOK
  <2>4. pc' \in {"idle", "progress"} /\ report' \in [Uploads -> Report]
    BY <1>3, <1>0, <1>a, FinishType DEF AnswerRequest, TypeOK
  <2>5. QED
    BY <1>3, <2>1, <2>3, <2>4 DEF AnswerRequest, TypeOK, apVars
<1>4. CASE ProgressPublished
  BY <1>4 DEF ProgressPublished, TypeOK, apVars
<1>5. CASE PublishFails
  BY <1>5, <1>0 DEF PublishFails, TypeOK, Report, apVars
<1>6. CASE ReceiveAck
  <2>1. pc' = "idle" /\ report' \in [Uploads -> Report]
    BY <1>6, <1>0, <1>a, FinishType DEF ReceiveAck
  <2>2. QED
    BY <1>6, <2>1 DEF ReceiveAck, TypeOK, apVars
<1>7. CASE DropUnawaited
  BY <1>7 DEF DropUnawaited, agentVars, apVars, TypeOK
<1>8. CASE Timeout
  <2>1. pc' = "idle" /\ report' \in [Uploads -> Report]
    BY <1>8, <1>0, <1>a, FinishType DEF Timeout
  <2>2. QED
    BY <1>8, <2>1 DEF Timeout, TypeOK, apVars
<1>9. CASE ApReceiveClear
  <2>1. up' \in Seq(UpMsg) /\ down' \in Seq(DownMsg)
    BY <1>9, MessageTypes DEF ApReceiveClear, TypeOK
  <2>2. rx' \in [on : BOOLEAN, count : Nat, items : Seq(Uploads)]
    BY <1>9, <1>b DEF ApReceiveClear
  <2>3. QED
    BY <1>9, <2>1, <2>2 DEF ApReceiveClear, TypeOK, agentVars
<1>10. CASE ApReceiveCount
  <2>1. Head(down) \in DownMsg /\ down' \in Seq(DownMsg)
    BY <1>10 DEF ApReceiveCount, TypeOK
  <2>2. Head(down).n \in Nat
    BY <1>10, <2>1 DEF ApReceiveCount, DownMsg
  <2>3. up' \in Seq(UpMsg)
    <3>1. RequestMsg(0) \in UpMsg /\ AckMsg(Refused) \in UpMsg
      BY MessageTypes
    <3>2. QED
      <4>1. /\ Append(up, RequestMsg(0)) \in Seq(UpMsg)
            /\ Append(up, AckMsg(Refused)) \in Seq(UpMsg)
        BY <3>1, AppendType DEF TypeOK
      <4>2. QED
        BY <1>10, <4>1 DEF ApReceiveCount
  <2>4. rx' \in [on : BOOLEAN, count : Nat, items : Seq(Uploads)]
    <3>1. [on |-> TRUE, count |-> Head(down).n, items |-> <<>>]
            \in [on : BOOLEAN, count : Nat, items : Seq(Uploads)]
      BY <2>2
    <3>2. QED
      BY <1>10, <1>b, <3>1 DEF ApReceiveCount
  <2>5. QED
    BY <1>10, <2>1, <2>3, <2>4 DEF ApReceiveCount, TypeOK, agentVars
<1>11. CASE ApReceiveItem
  <2>1. Head(down) \in DownMsg /\ down' \in Seq(DownMsg)
    BY <1>11 DEF ApReceiveItem, TypeOK
  <2>2. Head(down).of \in Uploads
    BY <1>11, <2>1 DEF ApReceiveItem, DownMsg
  <2>3. Append(rx.items, Head(down).of) \in Seq(Uploads)
    BY <2>2 DEF TypeOK
  <2>4. Len(Append(rx.items, Head(down).of)) \in Nat
    BY <2>3
  <2>5. up' \in Seq(UpMsg)
    <3>1. AckMsg(Accepted) \in UpMsg /\ AckMsg(Refused) \in UpMsg
      BY MessageTypes
    <3>2. RequestMsg(Len(Append(rx.items, Head(down).of))) \in UpMsg
      BY <2>4, MessageTypes
    <3>3. QED
      <4>1. /\ Append(up, AckMsg(Accepted)) \in Seq(UpMsg)
            /\ Append(up, AckMsg(Refused)) \in Seq(UpMsg)
            /\ Append(up, RequestMsg(Len(Append(rx.items, Head(down).of)))) \in Seq(UpMsg)
        BY <3>1, <3>2, AppendType DEF TypeOK
      <4>2. QED
        BY <1>11, <4>1 DEF ApReceiveItem
  <2>6. rx' \in [on : BOOLEAN, count : Nat, items : Seq(Uploads)]
    <3>1. [rx EXCEPT !.items = Append(rx.items, Head(down).of)]
            \in [on : BOOLEAN, count : Nat, items : Seq(Uploads)]
      BY <2>3 DEF TypeOK
    <3>2. QED
      BY <1>11, <1>b, <3>1 DEF ApReceiveItem, TypeOK
  <2>7. onboard' \in Seq(Uploads)
    BY <1>11, <2>3 DEF ApReceiveItem, TypeOK
  <2>8. QED
    BY <1>11, <2>1, <2>5, <2>6, <2>7 DEF ApReceiveItem, TypeOK, agentVars
<1>12. CASE ApRepeatRequest
  <2>1. Len(rx.items) \in Nat
    BY DEF TypeOK
  <2>2. QED
    BY <1>12, <2>1, MessageTypes DEF ApRepeatRequest, TypeOK, agentVars
<1>13. CASE ApGiveUp
  BY <1>13, <1>b, MessageTypes DEF ApGiveUp, TypeOK, agentVars
<1>14. CASE Lose
  <2>1. up' \in Seq(UpMsg) /\ down' \in Seq(DownMsg)
    <3>1. down # <<>> => Tail(down) \in Seq(DownMsg)
      BY TailType DEF TypeOK
    <3>2. up # <<>> => Tail(up) \in Seq(UpMsg)
      BY TailType DEF TypeOK
    <3>3. QED
      BY <1>14, <3>1, <3>2 DEF Lose, TypeOK
  <2>2. losses' \in 0 .. MaxLoss
    BY <1>14 DEF Lose, TypeOK
  <2>3. QED
    BY <1>14, <2>1, <2>2 DEF Lose, TypeOK, agentVars, apVars
<1>15. CASE UNCHANGED vars
  BY <1>15 DEF vars, agentVars, apVars, TypeOK
<1>16. QED
  BY <1>1, <1>2, <1>3, <1>4, <1>5, <1>6, <1>7, <1>8, <1>9, <1>10, <1>11,
     <1>12, <1>13, <1>14, <1>15 DEF Next, Agent, Autopilot

\* The agent, the link and the autopilot never leave their types, for any set
\* of missions and any bounds.
THEOREM TypeCorrect == Spec => []TypeOK
<1>1. QED
  BY TypeInit, TypeNext, PTL DEF Spec

-----------------------------------------------------------------------------
(* The first upload.                                                       *)

LEMMA MessageFields ==
  /\ ClearMsg.t = "CLEAR"
  /\ \A n \in Nat : CountMsg(n).t = "COUNT" /\ CountMsg(n).n = n
  /\ \A k \in Nat, u \in Uploads : ItemMsg(k, u).t = "ITEM"
  /\ \A k \in Nat : RequestMsg(k).t = "REQUEST"
  /\ AckMsg(Refused).type # Accepted
BY DEF ClearMsg, CountMsg, ItemMsg, RequestMsg, AckMsg, Accepted, Refused

LEMMA AppendElements ==
  ASSUME NEW S, NEW q \in Seq(S), NEW m \in S
  PROVE  /\ Len(Append(q, m)) = Len(q) + 1
         /\ \A i \in 1 .. Len(q) : Append(q, m)[i] = q[i]
         /\ Append(q, m)[Len(q) + 1] = m
OBVIOUS

LEMMA TailElements ==
  ASSUME NEW S, NEW q \in Seq(S), q # <<>>
  PROVE  /\ Len(q) \in Nat \ {0}
         /\ Head(q) = q[1]
         /\ Len(Tail(q)) = Len(q) - 1
         /\ \A i \in 1 .. Len(Tail(q)) : i + 1 \in 2 .. Len(q) /\ Tail(q)[i] = q[i + 1]
OBVIOUS

LEMMA PairConcat ==
  ASSUME NEW S, NEW a \in S, NEW b \in S
  PROVE  <<a>> \o <<b>> = <<a, b>>
<1>1. <<a>> \in Seq(S) /\ <<b>> \in Seq(S) /\ <<a, b>> \in Seq(S)
  OBVIOUS
<1>2. /\ <<a>> \o <<b>> \in Seq(S)
      /\ Len(<<a>> \o <<b>>) = 2
      /\ (<<a>> \o <<b>>)[1] = a /\ (<<a>> \o <<b>>)[2] = b
  BY <1>1
<1>3. Len(<<a, b>>) = 2 /\ <<a, b>>[1] = a /\ <<a, b>>[2] = b
  OBVIOUS
<1>4. \A i \in 1 .. 2 : (<<a>> \o <<b>>)[i] = <<a, b>>[i]
  BY <1>2, <1>3
<1>5. QED
  BY <1>1, <1>2, <1>3, <1>4, SeqEqual

\* With one upload, as many items as the mission has are the whole mission.
LEMMA AllItemsAreWhole ==
  ASSUME MaxUploads = 1, TypeOK, NEW q \in Seq(Uploads), Len(q) = Len(plans[1])
  PROVE  q = Whole(1)
<1>1. Uploads = {1}
  BY DEF Uploads
<1>2. \A i \in 1 .. Len(q) : q[i] = 1
  BY <1>1
<1>3. q = [i \in 1 .. Len(q) |-> q[i]]
  OBVIOUS
<1>4. QED
  BY <1>2, <1>3 DEF Whole

LEMMA FinishEffect ==
  ASSUME TypeOK, NEW u \in Uploads, NEW status, Finish(u, status)
  PROVE  pc' = "idle" /\ report'[u] \in {status, "abandoned"}
BY DEF TypeOK, Finish

\* Taking a message off either end of the link disturbs no part of the
\* invariant that speaks of the messages still on it.
LEMMA FewerMessages ==
  ASSUME TypeOK, FirstUpload, NEW d, NEW u,
         d = down \/ (down # <<>> /\ d = Tail(down)),
         u = up \/ (up # <<>> /\ u = Tail(up))
  PROVE  /\ \A i \in 1 .. Len(d) : d[i].t = "COUNT" => d[i].n = Len(plans[1])
         /\ \A i \in 1 .. Len(d) : d[i].t = "CLEAR" =>
               i = 1 /\ d = down /\ u = <<>> /\ ~rx.on /\ onboard = <<>> /\ sent = {}
         /\ \A i \in 1 .. Len(u) : u[i].t = "ACK" /\ u[i].type = Accepted =>
               onboard = Whole(1) \/ (u = up /\ i = 1 /\ sent = {})
<1>1. /\ \A i \in 1 .. Len(d) : d[i].t = "COUNT" => d[i].n = Len(plans[1])
      /\ \A i \in 1 .. Len(d) : d[i].t = "CLEAR" =>
               i = 1 /\ d = down /\ up = <<>> /\ ~rx.on /\ onboard = <<>> /\ sent = {}
  <2>1. CASE d = down
    BY <2>1 DEF FirstUpload, CountAnnounced, ClearLeads
  <2>2. CASE down # <<>> /\ d = Tail(down)
    <3>1. \A i \in 1 .. Len(d) : i + 1 \in 2 .. Len(down) /\ d[i] = down[i + 1]
      BY <2>2, TailElements DEF TypeOK
    <3>2. \A i \in 1 .. Len(d) : i + 1 \in 1 .. Len(down) /\ i + 1 # 1
      BY <3>1
    <3>3. \A i \in 1 .. Len(d) : d[i].t # "CLEAR"
      BY <3>1, <3>2 DEF FirstUpload, ClearLeads
    <3>4. QED
      BY <3>1, <3>2, <3>3 DEF FirstUpload, CountAnnounced
  <2>3. QED
    BY <2>1, <2>2
<1>2. \A i \in 1 .. Len(u) : u[i].t = "ACK" /\ u[i].type = Accepted =>
               onboard = Whole(1) \/ (u = up /\ i = 1 /\ sent = {})
  <2>1. CASE u = up
    BY <2>1 DEF FirstUpload, ConsentMeansOnboard
  <2>2. CASE up # <<>> /\ u = Tail(up)
    <3>1. \A i \in 1 .. Len(u) : i + 1 \in 2 .. Len(up) /\ u[i] = up[i + 1]
      BY <2>2, TailElements DEF TypeOK
    <3>2. \A i \in 1 .. Len(u) : i + 1 \in 1 .. Len(up) /\ i + 1 # 1
      BY <3>1
    <3>3. QED
      BY <3>1, <3>2 DEF FirstUpload, ConsentMeansOnboard
  <2>3. QED
    BY <2>1, <2>2
<1>3. QED
  BY <1>1, <1>2

LEMMA FirstUploadInit ==
  ASSUME MaxUploads = 1
  PROVE  Init => FirstUpload
BY DEF Init, FirstUpload, NothingBefore, Reporting, CountAnnounced, ClearLeads,
       ConsentMeansOnboard, FreshLink, NoTransfer, Uploads

LEMMA FirstUploadNext ==
  ASSUME MaxUploads = 1, TypeOK, TypeOK', FirstUpload, [Next]_vars
  PROVE  FirstUpload'
<1>a. Uploads = {1} /\ upload \in {0, 1} /\ 1 \in Uploads
  BY DEF Uploads, TypeOK
<1>b. pc # "idle" => upload = 1 /\ Plan = plans[1]
  BY <1>a DEF TypeOK, Plan
<1>c. plans[1] \in Seq(Nat) /\ Len(plans[1]) \in Nat
  BY <1>a DEF TypeOK
\* What the actions have in common that touch neither the autopilot nor the
\* mission and leave fewer messages on the link, or as many.
<1>d. ASSUME down' = down \/ (down # <<>> /\ down' = Tail(down)),
             up' = up \/ (up # <<>> /\ up' = Tail(up)),
             UNCHANGED <<upload, plans, sent, apVars>>,
             pc' # "idle" => pc # "idle",
             pc' = "announce" => pc = "announce",
             NothingBefore', Reporting',
             pc' \in {"progress", "ack"} => sent # {},
             report'[1] = "uploaded" => onboard = Whole(1) /\ Len(plans[1]) > 0
      PROVE  FirstUpload'
  <2>1. /\ \A i \in 1 .. Len(down') : down'[i].t = "COUNT" => down'[i].n = Len(plans[1])
        /\ \A i \in 1 .. Len(down') : down'[i].t = "CLEAR" =>
              i = 1 /\ down' = down /\ up' = <<>> /\ ~rx.on /\ onboard = <<>> /\ sent = {}
        /\ \A i \in 1 .. Len(up') : up'[i].t = "ACK" /\ up'[i].type = Accepted =>
              onboard = Whole(1) \/ (up' = up /\ i = 1 /\ sent = {})
    BY <1>d, FewerMessages
  <2>2. CountAnnounced'
    BY <1>d, <2>1 DEF apVars, CountAnnounced, FirstUpload
  <2>3. ClearLeads'
    BY <1>d, <2>1 DEF apVars, ClearLeads
  <2>4. ConsentMeansOnboard'
    BY <1>d, <2>1 DEF apVars, ConsentMeansOnboard, Whole
  <2>5. QED
    BY <1>d, <2>2, <2>3, <2>4 DEF apVars, FirstUpload, Whole
<1>1. ASSUME NEW p \in Plans, TakeUp(p)
      PROVE  FirstUpload'
  <2>1. /\ upload = 0 /\ upload' = 1 /\ FreshLink /\ report[1] = "none"
        /\ plans' = [plans EXCEPT ![1] = p] /\ plans'[1] = p
        /\ UNCHANGED <<sent, down, up, rx, onboard, losses>>
    <3>1. upload = 0 /\ upload' = 1 /\ upload + 1 = 1
      BY <1>1, <1>a DEF TakeUp
    <3>2. FreshLink /\ report[1] = "none"
      BY <3>1 DEF FirstUpload, NothingBefore
    <3>3. plans' = [plans EXCEPT ![1] = p] /\ plans'[1] = p
      BY <1>1, <1>a, <3>1 DEF TakeUp, TypeOK
    <3>4. QED
      BY <1>1, <3>1, <3>2, <3>3 DEF TakeUp
  <2>2. \/ pc' = "idle" /\ report'[1] \in {"failed", "abandoned"}
        \/ pc' = "announce" /\ report'[1] = "uploading" /\ p # <<>>
    <3>1. CASE p = <<>>
      BY <1>1, <1>a, <2>1, <3>1, FinishEffect DEF TakeUp
    <3>2. CASE p # <<>>
      BY <1>1, <1>a, <2>1, <3>2 DEF TakeUp, TypeOK
    <3>3. QED
      BY <3>1, <3>2
  <2>3. p # <<>> => Len(p) > 0
    BY <1>1, PlansAssumption
  <2>4. NothingBefore' /\ Reporting'
    BY <2>1, <2>2 DEF NothingBefore, Reporting, FreshLink
  <2>5. CountAnnounced'
    BY <2>1, <2>2, <2>3 DEF CountAnnounced, FreshLink
  <2>6. ClearLeads' /\ ConsentMeansOnboard'
    BY <2>1 DEF FreshLink, ClearLeads, ConsentMeansOnboard
  <2>7. QED
    BY <2>2, <2>4, <2>5, <2>6 DEF FirstUpload
<1>2. CASE Announce
  <2>1. pc = "announce" /\ FreshLink /\ upload = 1 /\ Len(plans[1]) > 0 /\ sent' = {}
    BY <1>2, <1>b DEF Announce, FirstUpload, NothingBefore, CountAnnounced
  <2>2. PICK a \in BOOLEAN, b \in BOOLEAN :
          /\ down' = down \o (IF a THEN <<ClearMsg>> ELSE <<>>)
                          \o (IF b THEN <<CountMsg(Len(plans[1]))>> ELSE <<>>)
          /\ IF b THEN pc' = "request" /\ UNCHANGED report
                  ELSE Finish(upload, "failed")
    BY <1>2, <1>b, <2>1 DEF Announce
  <2>3. \/ pc' = "request" /\ report'[1] = "uploading"
        \/ pc' = "idle" /\ report'[1] \in {"failed", "abandoned"}
    <3>1. report[1] = "uploading"
      BY <2>1 DEF FirstUpload, Reporting
    <3>2. CASE b
      BY <2>2, <3>1, <3>2
    <3>3. CASE ~b
      BY <1>a, <2>1, <2>2, <3>3, FinishEffect
    <3>4. QED
      BY <3>2, <3>3
  <2>4. down' \in {<<>>, <<ClearMsg>>, <<CountMsg(Len(plans[1]))>>,
                   <<ClearMsg, CountMsg(Len(plans[1]))>>}
    <3> DEFINE C == CountMsg(Len(plans[1]))
    <3>1. down = <<>>
      BY <2>1 DEF FreshLink
    <3>2. /\ <<>> \o <<>> \o <<>> = <<>>
          /\ <<>> \o <<ClearMsg>> \o <<>> = <<ClearMsg>>
          /\ <<>> \o <<>> \o <<C>> = <<C>>
          /\ <<>> \o <<ClearMsg>> \o <<C>> = <<ClearMsg, C>>
      <4>1. C \in DownMsg /\ ClearMsg \in DownMsg
        BY <1>c, MessageTypes
      <4> HIDE DEF C
      <4>2. <<ClearMsg>> \in Seq(DownMsg) /\ <<C>> \in Seq(DownMsg) /\ <<>> \in Seq(DownMsg)
        BY <4>1
      <4>3. <<ClearMsg>> \o <<C>> = <<ClearMsg, C>>
        BY <4>1, PairConcat
      <4>4. <<>> \o <<ClearMsg>> = <<ClearMsg>> /\ <<>> \o <<>> = <<>>
        BY <4>2, ConcatEmptySeq
      <4>5. <<ClearMsg>> \o <<>> = <<ClearMsg>> /\ <<>> \o <<C>> = <<C>>
        BY <4>2, ConcatEmptySeq
      <4>6. QED
        BY <4>3, <4>4, <4>5
    <3>3. QED
      BY <2>2, <3>1, <3>2
  <2>5. UNCHANGED <<upload, plans, up, rx, onboard>>
    BY <1>2 DEF Announce, apVars
  <2>6. NothingBefore' /\ Reporting'
    BY <2>1, <2>3, <2>5 DEF NothingBefore, Reporting
  <2>7. CountAnnounced' /\ ClearLeads'
    <3>1. \A i \in 1 .. Len(down') :
             \/ i = 1 /\ down'[i] = ClearMsg
             \/ down'[i] = CountMsg(Len(plans[1]))
      BY <2>4
    <3>2. /\ \A i \in 1 .. Len(down') : down'[i].t = "COUNT" => down'[i].n = Len(plans[1])
          /\ \A i \in 1 .. Len(down') : down'[i].t = "CLEAR" => i = 1
      BY <3>1, <1>c, MessageFields
    <3>3. QED
      BY <3>2, <2>1, <2>5 DEF CountAnnounced, ClearLeads, FreshLink
  <2>8. ConsentMeansOnboard'
    BY <2>1, <2>5 DEF FreshLink, ConsentMeansOnboard
  <2>9. QED
    BY <2>3, <2>6, <2>7, <2>8 DEF FirstUpload
<1>3. CASE AnswerRequest
  <2>1. /\ upload = 1 /\ pc = "request" /\ up # <<>> /\ up' = Tail(up)
        /\ Head(up) = up[1] /\ up[1].t = "REQUEST"
        /\ UNCHANGED <<upload, plans, apVars>>
    BY <1>3, <1>b, TailElements DEF AnswerRequest, Awaited, TypeOK
  <2>2. CASE /\ down' = Append(down, ItemMsg(Head(up).seq, upload))
             /\ sent' = sent \cup {Head(up).seq}
             /\ pc' = "progress"
             /\ UNCHANGED report
    <3>1. 1 \in 1 .. Len(up) /\ Head(up).seq \in Nat
      BY <2>1 DEF TypeOK, UpMsg
    <3>2. \A i \in 1 .. Len(down) : down[i].t # "CLEAR"
      BY <2>1 DEF FirstUpload, ClearLeads
    <3>3. ItemMsg(Head(up).seq, upload) \in DownMsg /\ ItemMsg(Head(up).seq, upload).t = "ITEM"
      BY <1>a, <2>1, <3>1, MessageTypes, MessageFields
    <3>4. /\ \A i \in 1 .. Len(down') : down'[i].t # "CLEAR"
          /\ \A i \in 1 .. Len(down') : down'[i].t = "COUNT" => down'[i].n = Len(plans[1])
      <4>1. \A i \in 1 .. Len(down') :
               (i \in 1 .. Len(down) /\ down'[i] = down[i]) \/ down'[i].t = "ITEM"
        BY SMTT(30), <2>2, <3>3, AppendElements DEF TypeOK
      <4>2. QED
        BY <3>2, <4>1 DEF FirstUpload, CountAnnounced
    <3>5. ConsentMeansOnboard'
      <4>1. \A i \in 1 .. Len(up') : i + 1 \in 1 .. Len(up) /\ i + 1 # 1 /\ up'[i] = up[i + 1]
        BY <2>1, TailElements DEF TypeOK
      <4>2. QED
        BY <2>1, <4>1 DEF apVars, FirstUpload, ConsentMeansOnboard, Whole
    <3>6. NothingBefore' /\ Reporting' /\ CountAnnounced' /\ ClearLeads'
      BY <2>1, <2>2, <3>4 DEF apVars, NothingBefore, Reporting, CountAnnounced, ClearLeads, FirstUpload
    <3>7. sent' # {}
      BY <2>2
    <3>8. report'[1] # "uploaded"
      BY <2>1, <2>2 DEF FirstUpload, Reporting
    <3>9. QED
      BY <2>2, <3>5, <3>6, <3>7, <3>8 DEF FirstUpload
  <2>3. CASE Finish(upload, "failed") /\ UNCHANGED <<down, sent>>
    <3>1. pc' = "idle" /\ report'[1] \in {"failed", "abandoned"}
      BY <1>a, <2>1, <2>3, FinishEffect
    <3>2. NothingBefore' /\ Reporting'
      BY <2>1, <3>1 DEF NothingBefore, Reporting
    <3>3. QED
      BY <1>d, <2>1, <2>3, <3>1, <3>2
  <2>4. QED
    BY <1>3, <2>2, <2>3 DEF AnswerRequest
<1>4. CASE ProgressPublished
  <2>1. NothingBefore' /\ Reporting'
    BY <1>4 DEF ProgressPublished, FirstUpload, NothingBefore, Reporting, FreshLink, apVars
  <2>2. sent # {}
    BY <1>4 DEF ProgressPublished, FirstUpload
  <2>3. QED
    BY <1>4, <1>d, <2>1, <2>2 DEF ProgressPublished, FirstUpload
<1>5. CASE PublishFails
  <2>1. upload = 1 /\ pc' = "idle" /\ report'[1] = "abandoned"
    BY <1>5, <1>a, <1>b DEF PublishFails, TypeOK
  <2>2. NothingBefore' /\ Reporting'
    BY <1>5, <2>1 DEF PublishFails, NothingBefore, Reporting
  <2>3. QED
    BY <1>5, <1>d, <2>1, <2>2 DEF PublishFails, FirstUpload
<1>6. CASE ReceiveAck
  <2>1. upload = 1 /\ pc = "ack" /\ sent # {} /\ up # <<>> /\ Head(up) = up[1] /\ up[1].t = "ACK"
    BY <1>6, <1>b, TailElements DEF ReceiveAck, Awaited, FirstUpload, TypeOK
  <2>2. up[1].type = Accepted => onboard = Whole(1)
    <3>1. 1 \in 1 .. Len(up)
      BY <2>1 DEF TypeOK
    <3>2. QED
      BY <2>1, <3>1 DEF FirstUpload, ConsentMeansOnboard
  <2>3. /\ pc' = "idle"
        /\ report'[1] \in {"uploaded", "failed", "abandoned"}
        /\ report'[1] = "uploaded" => up[1].type = Accepted
    BY <1>6, <1>a, <2>1, FinishEffect DEF ReceiveAck
  <2>4. NothingBefore' /\ Reporting'
    BY <1>6, <2>1, <2>3 DEF ReceiveAck, NothingBefore, Reporting
  <2>5. Len(plans[1]) > 0
    BY <2>1 DEF FirstUpload, CountAnnounced
  <2>6. QED
    BY <1>6, <1>d, <2>1, <2>2, <2>3, <2>4, <2>5 DEF ReceiveAck
<1>7. CASE DropUnawaited
  <2>1. NothingBefore' /\ Reporting'
    BY <1>7 DEF DropUnawaited, agentVars, apVars, FirstUpload, NothingBefore, Reporting, FreshLink
  <2>2. QED
    BY <1>7, <1>d, <2>1 DEF DropUnawaited, agentVars, FirstUpload
<1>8. CASE Timeout
  <2>1. upload = 1 /\ pc' = "idle" /\ report'[1] \in {"failed", "abandoned"}
    BY <1>8, <1>a, <1>b, FinishEffect DEF Timeout
  <2>2. NothingBefore' /\ Reporting'
    BY <1>8, <2>1 DEF Timeout, NothingBefore, Reporting
  <2>3. QED
    BY <1>8, <1>d, <2>1, <2>2 DEF Timeout
\* What the autopilot's steps have in common: one message more on its way to
\* the agent, which is no consent or follows from a mission taken completely
\* or from MISSION_CLEAR_ALL.
<1> DEFINE Clearing == down # <<>> /\ down[1].t = "CLEAR"
<1>e. ASSUME NEW m \in UpMsg, up' = Append(up, m),
             down' = down \/ (down # <<>> /\ down' = Tail(down)),
             down' = down => rx.on,
             UNCHANGED agentVars,
             down # <<>> \/ rx.on,
             onboard' = onboard \/ onboard' = Whole(1)
               \/ (Clearing /\ onboard' = <<>>),
             rx'.on => rx'.count = Len(plans[1]),
             m.t = "ACK" /\ m.type = Accepted =>
               onboard' = Whole(1) \/ Clearing
      PROVE  FirstUpload'
  <2>1. /\ \A i \in 1 .. Len(down') : down'[i].t = "COUNT" => down'[i].n = Len(plans[1])
        /\ \A i \in 1 .. Len(down') : down'[i].t = "CLEAR" =>
              down' = down /\ ~rx.on
    BY <1>e, FewerMessages
  <2>2. upload = 1 /\ pc # "announce"
    BY <1>a, <1>e DEF FirstUpload, NothingBefore, FreshLink
  <2>3. Clearing => up = <<>> /\ sent = {} /\ onboard = <<>>
    <3>1. down # <<>> => 1 \in 1 .. Len(down)
      BY DEF TypeOK
    <3>2. QED
      BY <3>1 DEF FirstUpload, ClearLeads
  <2>4. NothingBefore' /\ Reporting'
    BY <1>e, <2>2 DEF agentVars, NothingBefore, Reporting, FirstUpload
  <2>5. CountAnnounced'
    BY <1>e, <2>1 DEF agentVars, CountAnnounced, FirstUpload
  <2>6. ClearLeads'
    BY <1>e, <2>1 DEF ClearLeads
  <2>7. onboard = Whole(1) => onboard' = Whole(1)
    BY <1>e, <2>3
  <2>8. report[1] = "uploaded" => onboard' = Whole(1) /\ Len(plans[1]) > 0
    BY <2>7 DEF FirstUpload
  <2>9. ConsentMeansOnboard'
    <3>1. \A i \in 1 .. Len(up') :
             \/ i \in 1 .. Len(up) /\ up'[i] = up[i]
             \/ i = Len(up) + 1 /\ up'[i] = m
      <4>1. up \in Seq(UpMsg) /\ Len(up) \in Nat
        BY DEF TypeOK
      <4>2. /\ Len(up') = Len(up) + 1
            /\ \A i \in 1 .. Len(up) : up'[i] = up[i]
            /\ up'[Len(up) + 1] = m
        BY <1>e, <4>1, AppendElements
      <4>3. QED
        BY <4>1, <4>2
    <3>2. up = <<>> => Len(up) + 1 = 1
      OBVIOUS
    <3>3. ASSUME NEW i \in 1 .. Len(up'), up'[i].t = "ACK" /\ up'[i].type = Accepted
          PROVE  onboard' = Whole(1) \/ (i = 1 /\ sent = {})
      <4>1. CASE i \in 1 .. Len(up) /\ up'[i] = up[i]
        BY <2>7, <3>3, <4>1 DEF FirstUpload, ConsentMeansOnboard
      <4>2. CASE i = Len(up) + 1 /\ up'[i] = m
        BY <1>e, <2>3, <3>2, <3>3, <4>2
      <4>3. QED
        BY <3>1, <4>1, <4>2
    <3>4. QED
      BY <1>e, <3>3 DEF agentVars, ConsentMeansOnboard, Whole
  <2>10. QED
    BY <1>e, <2>4, <2>5, <2>6, <2>8, <2>9 DEF agentVars, FirstUpload, Whole
<1>9. CASE ApReceiveClear
  <2>1. AckMsg(Accepted) \in UpMsg /\ Clearing /\ ~rx'.on /\ onboard' = <<>>
    BY <1>9, MessageTypes, TailElements DEF ApReceiveClear, TypeOK, NoTransfer
  <2>2. down' # down
    BY <1>9, TailElements DEF ApReceiveClear, TypeOK
  <2>3. QED
    BY <1>9, <1>e, <2>1, <2>2 DEF ApReceiveClear
<1>10. CASE ApReceiveCount
  <2>1. 1 \in 1 .. Len(down) /\ Head(down) = down[1]
    BY <1>10, TailElements DEF ApReceiveCount, TypeOK
  <2>2. Head(down).n = Len(plans[1])
    BY <1>10, <2>1 DEF ApReceiveCount, FirstUpload, CountAnnounced
  <2>3. down' # down
    BY <1>10, TailElements DEF ApReceiveCount, TypeOK
  <2>4. rx'.on => rx'.count = Len(plans[1])
    BY <1>10, <2>2 DEF ApReceiveCount, NoTransfer
  <2>5. PICK m \in UpMsg : up' = Append(up, m) /\ ~(m.t = "ACK" /\ m.type = Accepted)
    <3>1. CASE up' = Append(up, RequestMsg(0))
      BY <3>1, MessageTypes, MessageFields
    <3>2. CASE up' = Append(up, AckMsg(Refused))
      BY <3>2, MessageTypes, MessageFields
    <3>3. QED
      BY <1>10, <3>1, <3>2 DEF ApReceiveCount
  <2>6. QED
    BY <1>10, <1>e, <2>3, <2>4, <2>5 DEF ApReceiveCount
<1>11. CASE ApReceiveItem
  <2>1. down' # down /\ down # <<>> /\ down' = Tail(down) /\ UNCHANGED agentVars
    BY <1>11, TailElements DEF ApReceiveItem, TypeOK
  <2> DEFINE items == Append(rx.items, Head(down).of)
  <2>2. Head(down) \in DownMsg /\ Head(down).t = "ITEM"
    BY <1>11, TailType DEF ApReceiveItem, TypeOK
  <2>3. Head(down).of \in Uploads
    BY <2>2 DEF DownMsg
  <2>4. items \in Seq(Uploads) /\ Len(items) \in Nat
    BY <2>3, AppendType DEF TypeOK
  <2>5. CASE /\ rx.on /\ Len(items) = rx.count /\ onboard' = items
             /\ rx' = NoTransfer /\ up' = Append(up, AckMsg(Accepted))
    <3>1. onboard' = Whole(1)
      BY <2>4, <2>5, AllItemsAreWhole DEF FirstUpload, CountAnnounced
    <3>2. QED
      BY <1>e, <2>1, <2>5, <3>1, MessageTypes DEF NoTransfer
  <2>6. CASE /\ rx.on /\ rx' = [rx EXCEPT !.items = items]
             /\ up' = Append(up, RequestMsg(Len(items))) /\ UNCHANGED onboard
    <3>1. rx'.on => rx'.count = Len(plans[1])
      BY <2>6 DEF TypeOK, FirstUpload, CountAnnounced
    <3>2. RequestMsg(Len(items)) \in UpMsg /\ RequestMsg(Len(items)).t = "REQUEST"
      BY <2>4, MessageTypes, MessageFields
    <3>3. QED
      BY <1>e, <2>1, <2>6, <3>1, <3>2
  <2>7. CASE /\ rx' \in {rx, NoTransfer} /\ up' = Append(up, AckMsg(Refused))
             /\ UNCHANGED onboard
    <3>1. rx'.on => rx'.count = Len(plans[1])
      BY <2>7 DEF NoTransfer, FirstUpload, CountAnnounced
    <3>2. QED
      BY <1>e, <2>1, <2>7, <3>1, MessageTypes, MessageFields
  <2>8. QED
    BY <1>11, <2>5, <2>6, <2>7 DEF ApReceiveItem
<1>12. CASE ApRepeatRequest
  <2>1. Len(rx.items) \in Nat
    BY DEF TypeOK
  <2>2. RequestMsg(Len(rx.items)) \in UpMsg /\ RequestMsg(Len(rx.items)).t = "REQUEST"
    BY <2>1, MessageTypes, MessageFields
  <2>3. rx.on => rx.count = Len(plans[1])
    BY DEF FirstUpload, CountAnnounced
  <2>4. QED
    BY <1>12, <1>e, <2>2, <2>3 DEF ApRepeatRequest
<1>13. CASE ApGiveUp
  BY <1>13, <1>e, MessageTypes, MessageFields DEF ApGiveUp, NoTransfer
<1>14. CASE Lose
  <2>1. NothingBefore' /\ Reporting'
    BY <1>14 DEF Lose, agentVars, apVars, FirstUpload, NothingBefore, Reporting, FreshLink
  <2>2. QED
    BY <1>14, <1>d, <2>1 DEF Lose, agentVars, FirstUpload
<1>15. CASE UNCHANGED vars
  <2>1. NothingBefore' /\ Reporting'
    BY <1>15 DEF vars, agentVars, apVars, FirstUpload, NothingBefore, Reporting, FreshLink
  <2>2. QED
    BY <1>15, <1>d, <2>1 DEF vars, agentVars, FirstUpload
<1>16. QED
  BY <1>1, <1>2, <1>3, <1>4, <1>5, <1>6, <1>7, <1>8, <1>9, <1>10, <1>11,
     <1>12, <1>13, <1>14, <1>15 DEF Next, Agent, Autopilot

\* The strengthening of UploadedIsOnboard holds of every behaviour with one
\* upload: what each message on the link, and each thing the autopilot holds,
\* says of the upload under way (mission_uploader.py:119-225).
THEOREM FirstUploadInvariant ==
  ASSUME MaxUploads = 1
  PROVE  Spec => []FirstUpload
<1>1. Init => FirstUpload
  BY FirstUploadInit
<1>2. TypeOK /\ TypeOK' /\ FirstUpload /\ [Next]_vars => FirstUpload'
  BY FirstUploadNext
<1>3. QED
  BY <1>1, <1>2, TypeCorrect, PTL DEF Spec

\* The first UPLOADED the agent reports is true and stays true, for any
\* mission, any number of lost messages and repeated requests, any delay, and
\* whichever sends and publishes fail.
THEOREM FirstUploadIsOnboard ==
  ASSUME MaxUploads = 1
  PROVE  Spec => []UploadedIsOnboard
<1>1. TypeOK /\ FirstUpload => UploadedIsOnboard
  BY DEF TypeOK, FirstUpload, UploadedIsOnboard
<1>2. QED
  BY <1>1, TypeCorrect, FirstUploadInvariant, PTL

-----------------------------------------------------------------------------
(* Refinement.                                                             *)

LEMMA HeldMeaning ==
  ASSUME MaxUploads = 1, TypeOK
  PROVE  /\ Held \in {0, 1}
         /\ Held = 1 <=> upload = 1 /\ onboard # <<>> /\ onboard = Whole(1)
<1>1. onboard # <<>> => onboard[1] \in Uploads
  BY DEF TypeOK
<1>2. Uploads = {1} /\ upload \in {0, 1}
  BY DEF TypeOK, Uploads
<1>3. \A u \in 1 .. upload : u = 1 /\ upload = 1
  BY <1>2
<1>4. upload = 1 => 1 \in 1 .. upload
  OBVIOUS
<1>5. QED
  BY <1>1, <1>2, <1>3, <1>4 DEF Held

LEMMA HeldMeaningNext ==
  ASSUME MaxUploads = 1, TypeOK'
  PROVE  /\ Held' \in {0, 1}
         /\ Held' = 1 <=> upload' = 1 /\ onboard' # <<>> /\ onboard' = Whole(1)'
<1>1. onboard' # <<>> => onboard'[1] \in Uploads
  BY DEF TypeOK
<1>2. Uploads = {1} /\ upload' \in {0, 1}
  BY DEF TypeOK, Uploads
<1>3. \A u \in 1 .. upload' : u = 1 /\ upload' = 1
  BY <1>2
<1>4. upload' = 1 => 1 \in 1 .. upload'
  OBVIOUS
<1>5. QED
  BY <1>1, <1>2, <1>3, <1>4 DEF Held, Whole

LEMMA ContractStep ==
  ASSUME MaxUploads = 1, TypeOK, TypeOK', FirstUpload, FirstUpload', [Next]_vars
  PROVE  [Contract!Next]_(Contract!vars)
<1>a. Uploads = {1} /\ upload \in {0, 1} /\ 1 \in Uploads
  BY DEF Uploads, TypeOK
<1>b. pc # "idle" => upload = 1 /\ report[1] = "uploading" /\ Contract!UnderWay
  BY <1>a DEF TypeOK, FirstUpload, Reporting, Contract!UnderWay
\* Held as it is before and after the step.
<1>c. /\ Held \in {0, 1} /\ Held' \in {0, 1}
      /\ Held = 1 <=> upload = 1 /\ onboard # <<>> /\ onboard = Whole(1)
      /\ Held' = 1 <=> upload' = 1 /\ onboard' # <<>> /\ onboard' = Whole(1)'
  BY HeldMeaning, HeldMeaningNext
\* The agent's steps after which the cloud has been told nothing new.
<1>d. ASSUME UNCHANGED <<upload, plans, report, onboard>>
      PROVE  [Contract!Next]_(Contract!vars)
  BY <1>c, <1>d DEF Whole, Contract!vars
\* The steps that end the upload.
<1>e. ASSUME UNCHANGED <<upload, plans, onboard>>, pc # "idle", NEW status,
             \/ status \in {"failed", "abandoned"}
             \/ status = "uploaded" /\ onboard = Whole(1) /\ onboard # <<>>,
             report' = [report EXCEPT ![upload] = status]
      PROVE  Contract!Next
  <2>1. Held' = Held
    BY <1>c, <1>e DEF Whole
  <2>2. status = "uploaded" => Held = upload
    BY <1>b, <1>c, <1>e
  <2>3. Contract!Conclude
    BY <1>b, <1>e, <2>1, <2>2 DEF Contract!Conclude
  <2>4. QED
    BY <2>3 DEF Contract!Next
<1>f. ASSUME UNCHANGED <<upload, plans, onboard>>, pc # "idle",
             NEW status, Finish(upload, status),
             \/ status = "failed"
             \/ status = "uploaded" /\ onboard = Whole(1) /\ onboard # <<>>
      PROVE  Contract!Next
  BY <1>e, <1>f DEF Finish
\* The autopilot's steps.
<1>g. ASSUME UNCHANGED agentVars, upload = 1
      PROVE  [Contract!Next]_(Contract!vars)
  <2>1. CASE report[1] = "uploaded"
    <3>1. onboard = Whole(1) /\ onboard' = Whole(1)
      BY <1>g, <2>1 DEF agentVars, FirstUpload, Whole
    <3>2. onboard' = onboard
      BY <3>1
    <3>3. QED
      BY <1>d, <1>g, <3>2 DEF agentVars
  <2>2. CASE report[1] # "uploaded"
    BY <1>c, <1>g, <2>2 DEF agentVars, Contract!vars, Contract!Next, Contract!VehicleChanges
  <2>3. QED
    BY <2>1, <2>2
<1>1. ASSUME NEW p \in Plans, TakeUp(p)
      PROVE  Contract!Next
  <2>1. upload = 0 /\ upload' = 1 /\ onboard = <<>> /\ onboard' = <<>> /\ report[1] = "none"
    BY <1>1, <1>a DEF TakeUp, FirstUpload, NothingBefore, FreshLink
  <2>2. Held = 0 /\ Held' = 0
    BY <1>c, <2>1
  <2>3. \E r \in {"uploading", "failed", "abandoned"} :
           report' = [report EXCEPT ![upload + 1] = r]
    BY <1>1 DEF TakeUp, Finish
  <2>4. QED
    <3>1. ~Contract!UnderWay /\ upload < MaxUploads /\ upload' = upload + 1 /\ Held' = Held
      BY <2>1, <2>2 DEF Contract!UnderWay
    <3>2. Contract!TakeUp
      BY <2>3, <3>1 DEF Contract!TakeUp
    <3>3. QED
      BY <3>2 DEF Contract!Next
<1>2. CASE Announce
  BY <1>2, <1>d, <1>f DEF Announce, apVars
<1>3. CASE AnswerRequest
  BY <1>3, <1>d, <1>f DEF AnswerRequest, apVars
<1>4. CASE ProgressPublished
  BY <1>4, <1>d DEF ProgressPublished, apVars
<1>5. CASE PublishFails
  BY <1>5, <1>e DEF PublishFails, apVars
<1>6. CASE ReceiveAck
  <2>1. CASE report'[1] = "uploaded"
    <3>1. onboard' = Whole(1)' /\ Len(plans'[1]) > 0
      BY <2>1 DEF FirstUpload
    <3>2. UNCHANGED <<onboard, plans, upload>> /\ pc # "idle"
      BY <1>6 DEF ReceiveAck, apVars
    <3>3. onboard = Whole(1) /\ Len(onboard) = Len(plans[1]) /\ Len(plans[1]) > 0
      BY <1>a, <3>1, <3>2 DEF Whole, TypeOK
    <3>4. onboard # <<>>
      BY <3>3
    <3>5. Finish(upload, "uploaded") \/ Finish(upload, "failed")
      BY <1>6 DEF ReceiveAck
    <3>6. QED
      BY <1>f, <3>2, <3>3, <3>4, <3>5
  <2>2. CASE report'[1] # "uploaded"
    <3>1. report' # [report EXCEPT ![upload] = "uploaded"]
      BY <1>6, <1>b, <1>a, <2>2 DEF ReceiveAck, TypeOK
    <3>2. \/ report' = [report EXCEPT ![upload] = "failed"]
          \/ report' = [report EXCEPT ![upload] = "abandoned"]
      BY <1>6, <3>1 DEF ReceiveAck, Finish
    <3>3. QED
      BY <1>6, <1>e, <3>2 DEF ReceiveAck, apVars
  <2>3. QED
    BY <2>1, <2>2
<1>7. CASE DropUnawaited
  BY <1>7, <1>d DEF DropUnawaited, agentVars, apVars
<1>8. CASE Timeout
  BY <1>8, <1>f DEF Timeout, apVars
<1>9. CASE Autopilot
  <2>1. UNCHANGED agentVars
    BY <1>9 DEF Autopilot, ApReceiveClear, ApReceiveCount, ApReceiveItem, ApRepeatRequest, ApGiveUp
  <2>2. down # <<>> \/ rx.on
    BY <1>9 DEF Autopilot, ApReceiveClear, ApReceiveCount, ApReceiveItem, ApRepeatRequest, ApGiveUp
  <2>3. upload = 1
    BY <1>a, <2>2 DEF FirstUpload, NothingBefore, FreshLink
  <2>4. QED
    BY <1>g, <2>1, <2>3
<1>10. CASE Lose
  BY <1>10, <1>d DEF Lose, agentVars, apVars
<1>11. CASE UNCHANGED vars
  BY <1>11, <1>d DEF vars, agentVars, apVars
<1>12. QED
  BY <1>1, <1>2, <1>3, <1>4, <1>5, <1>6, <1>7, <1>8, <1>9, <1>10, <1>11 DEF Next, Agent

\* For its first upload the agent implements UploadContract.
THEOREM FirstUploadContract ==
  ASSUME MaxUploads = 1
  PROVE  Spec => ImplementsContract
<1>1. Init => Contract!Init
  <2>1. Init => Held = 0
    BY DEF Init, Held
  <2>2. QED
    BY <2>1 DEF Init, Contract!Init, Contract!Uploads, Uploads
<1>2. TypeOK /\ TypeOK' /\ FirstUpload /\ FirstUpload' /\ [Next]_vars
        => [Contract!Next]_(Contract!vars)
  BY ContractStep
<1>3. QED
  BY <1>1, <1>2, TypeCorrect, FirstUploadInvariant, PTL
     DEF Spec, ImplementsContract, Contract!Spec
-----------------------------------------------------------------------------
(* Any number of uploads, where nothing fails and 30 s are enough.          *)

\* Nothing fails, and 30 s are enough for all that is on the link.
QuietLink == ~SlowLink /\ ~SendFaults /\ ~PublishFaults

LEMMA TailShift ==
  ASSUME NEW S, NEW q \in Seq(S), q # <<>>, NEW t, t = Tail(q)
  PROVE  /\ t \in Seq(S)
         /\ Len(q) \in Nat \ {0}
         /\ Head(q) = q[1] /\ 1 \in 1 .. Len(q)
         /\ Len(t) = Len(q) - 1
         /\ \A i \in 1 .. Len(t) : i + 1 \in 1 .. Len(q) /\ t[i] = q[i + 1]
OBVIOUS

LEMMA AppendShift ==
  ASSUME NEW S, NEW q \in Seq(S), NEW m \in S, NEW a, a = Append(q, m)
  PROVE  /\ a \in Seq(S)
         /\ Len(a) = Len(q) + 1 /\ Len(q) \in Nat
         /\ \A i \in 1 .. Len(q) : a[i] = q[i]
         /\ a[Len(q) + 1] = m
         /\ \A i \in 1 .. Len(a) : i \in 1 .. Len(q) \/ i = Len(q) + 1
OBVIOUS

\* As many items of the upload as its mission has are the whole mission.
LEMMA OwnItemsAreWhole ==
  ASSUME NEW S, NEW u \in Uploads, NEW q \in Seq(S), Len(q) = Len(plans[u]),
         \A i \in 1 .. Len(q) : q[i] = u
  PROVE  q = Whole(u)
<1>1. q = [i \in 1 .. Len(q) |-> q[i]]
  OBVIOUS
<1>2. QED
  BY <1>1 DEF Whole

\* The messages on the link, by kind.
LEMMA KindsOfMessages ==
  /\ \A m \in DownMsg : m.t \in {"CLEAR", "COUNT", "ITEM"}
  /\ \A m \in UpMsg : m.t \in {"REQUEST", "ACK"}
  /\ \A m \in UpMsg : m.t = "REQUEST" => m.seq \in Nat
  /\ AckMsg(Refused).t = "ACK"
  /\ AckMsg(Accepted).t = "ACK"
  /\ ClearMsg.t = "CLEAR"
  /\ \A n \in Nat : CountMsg(n).t = "COUNT" /\ CountMsg(n).n = n
  /\ \A k \in Nat, u \in Uploads :
        ItemMsg(k, u).t = "ITEM" /\ ItemMsg(k, u).seq = k /\ ItemMsg(k, u).of = u
  /\ \A k \in Nat : RequestMsg(k).t = "REQUEST" /\ RequestMsg(k).seq = k
  /\ AckMsg(Refused).type # Accepted
BY DEF DownMsg, UpMsg, ClearMsg, CountMsg, ItemMsg, RequestMsg, AckMsg, Accepted, Refused

LEMMA QuietInit == Init => UploadsApart
<1>1. Init => BetweenUploads /\ AnnouncedLast /\ TransferIsCurrent
  BY DEF Init, BetweenUploads, AnnouncedLast, TransferIsCurrent, NoTransfer
<1>2. Init => AnswerIsLast /\ ReportIsTrue
  BY DEF Init, AnswerIsLast, ReportIsTrue
<1>3. QED
  BY <1>1, <1>2 DEF UploadsApart

\* The agent sees one message less, or as many.
LEMMA FewerComeUp ==
  ASSUME TypeOK, AnswerIsLast, UNCHANGED <<sent, upload, plans, onboard, rx>>,
         up' = up \/ (up # <<>> /\ up' = Tail(up))
  PROVE  /\ \A j \in 1 .. Len(up') : \E i \in 1 .. Len(up) : up'[j] = up[i]
         /\ AnswerIsLast'
<1>1. CASE up' = up
  <2>1. AnswerIsLast'
    BY <1>1 DEF AnswerIsLast, AskedBefore, Whole
  <2>2. QED
    BY <1>1, <2>1
<1>2. CASE up # <<>> /\ up' = Tail(up)
  <2>1. PICK q, t : q = up /\ t = up'
    OBVIOUS
  <2>2. /\ Len(q) \in Nat /\ Len(t) = Len(q) - 1
        /\ \A i \in 1 .. Len(t) : i + 1 \in 1 .. Len(q) /\ t[i] = q[i + 1]
    BY <1>2, <2>1, TailShift DEF TypeOK
  <2>3. ASSUME NEW j \in 1 .. Len(t), t[j].t = "ACK",
               sent # {} \/ \E i \in 1 .. j - 1 : t[i].t = "REQUEST"
        PROVE  /\ ~rx.on
               /\ t[j].type = Accepted => onboard = Whole(upload)
               /\ \A i \in j + 1 .. Len(t) : t[i] = AckMsg(Refused)
    <3>1. j + 1 \in 1 .. Len(q) /\ t[j] = q[j + 1] /\ j \in Nat
      BY <2>2
    <3>2. ASSUME NEW i \in 1 .. j - 1, t[i].t = "REQUEST"
          PROVE  AskedBefore(j + 1)
      <4>1. i \in 1 .. Len(t)
        BY <2>2
      <4>2. i + 1 \in 1 .. (j + 1) - 1 /\ q[i + 1].t = "REQUEST"
        BY <2>2, <3>2, <4>1, <3>1
      <4>3. QED
        BY <2>1, <4>2 DEF AskedBefore
    <3>3. AskedBefore(j + 1)
      BY <2>3, <3>2 DEF AskedBefore
    <3>4. /\ ~rx.on
          /\ up[j + 1].type = Accepted => onboard = Whole(upload)
          /\ \A i \in (j + 1) + 1 .. Len(up) : up[i] = AckMsg(Refused)
      BY <2>1, <2>3, <3>1, <3>3 DEF AnswerIsLast
    <3>5. ASSUME NEW i \in j + 1 .. Len(t)
          PROVE  t[i] = AckMsg(Refused)
      <4>1. i \in 1 .. Len(t) /\ i + 1 \in (j + 1) + 1 .. Len(q)
        BY <2>2, <3>1
      <4>2. QED
        BY <2>1, <2>2, <3>4, <4>1
    <3>6. QED
      BY <2>1, <3>1, <3>4, <3>5
  <2>4. AnswerIsLast'
    BY <1>2, <2>1, <2>3 DEF AnswerIsLast, AskedBefore, Whole
  <2>5. QED
    BY <2>1, <2>2, <2>4
<1>3. QED
  BY <1>1, <1>2

\* The autopilot sees one message less, or as many.
LEMMA FewerGoDown ==
  ASSUME TypeOK, AnnouncedLast, UNCHANGED <<sent, upload, plans>>, ~rx.on => ~rx'.on,
         down' = down \/ (down # <<>> /\ down' = Tail(down)),
         \A j \in 1 .. Len(up') : up'[j].t = "ACK" \/ \E i \in 1 .. Len(up) : up'[j] = up[i]
  PROVE  /\ \A j \in 1 .. Len(down') : \E i \in 1 .. Len(down) : down'[j] = down[i]
         /\ AnnouncedLast'
<1>1. CASE down' = down
  <2>1. AnnouncedLast'
    BY <1>1 DEF AnnouncedLast, Plan
  <2>2. QED
    BY <1>1, <2>1
<1>2. CASE down # <<>> /\ down' = Tail(down)
  <2>1. PICK q, t : q = down /\ t = down'
    OBVIOUS
  <2>2. /\ Len(q) \in Nat /\ Len(t) = Len(q) - 1
        /\ \A i \in 1 .. Len(t) : i + 1 \in 1 .. Len(q) /\ t[i] = q[i + 1]
    BY <1>2, <2>1, TailShift DEF TypeOK
  <2>3. ASSUME NEW i \in 1 .. Len(t), t[i].t # "ITEM"
        PROVE  /\ sent = {} /\ ~rx.on
               /\ \A j \in 1 .. Len(up') : up'[j].t = "ACK"
               /\ t[i].t = "CLEAR" => i + 1 = Len(t) /\ t[i + 1].t = "COUNT"
               /\ t[i].t = "COUNT" => i = Len(t) /\ t[i].n = Len(Plan)
    <3>1. i + 1 \in 1 .. Len(q) /\ t[i] = q[i + 1] /\ i \in Nat
      BY <2>2
    <3>2. /\ sent = {} /\ ~rx.on
          /\ \A j \in 1 .. Len(up) : up[j].t = "ACK"
          /\ q[i + 1].t = "CLEAR" => (i + 1) + 1 = Len(q) /\ q[(i + 1) + 1].t = "COUNT"
          /\ q[i + 1].t = "COUNT" => i + 1 = Len(q) /\ q[i + 1].n = Len(Plan)
      BY <2>1, <2>3, <3>1 DEF AnnouncedLast
    <3>3. t[i].t = "CLEAR" => i + 1 = Len(t) /\ t[i + 1].t = "COUNT"
      BY <2>2, <3>1, <3>2
    <3>4. t[i].t = "COUNT" => i = Len(t) /\ t[i].n = Len(Plan)
      BY <2>2, <3>1, <3>2
    <3>5. QED
      BY <3>2, <3>3, <3>4
  <2>4. AnnouncedLast'
    BY <2>1, <2>3 DEF AnnouncedLast, Plan
  <2>5. QED
    BY <2>1, <2>2, <2>4
<1>3. QED
  BY <1>1, <1>2

\* Both, for the steps that leave mission and autopilot alone.
LEMMA FewerStayApart ==
  ASSUME TypeOK, UploadsApart, UNCHANGED <<upload, plans, sent, apVars>>,
         down' = down \/ (down # <<>> /\ down' = Tail(down)),
         up' = up \/ (up # <<>> /\ up' = Tail(up)),
         pc' \in {"idle", "announce"} =>
            \/ pc \in {"idle", "announce"}
            \/ /\ ~rx.on
               /\ \A i \in 1 .. Len(down') : down'[i].t = "ITEM"
               /\ \A i \in 1 .. Len(up') : up'[i] = AckMsg(Refused),
         ReportIsTrue'
  PROVE  UploadsApart'
<1>1. /\ \A j \in 1 .. Len(up') : \E i \in 1 .. Len(up) : up'[j] = up[i]
      /\ AnswerIsLast'
  BY FewerComeUp DEF UploadsApart, apVars
<1>2. /\ \A j \in 1 .. Len(down') : \E i \in 1 .. Len(down) : down'[j] = down[i]
      /\ AnnouncedLast'
  BY <1>1, FewerGoDown DEF UploadsApart, apVars
<1>3. BetweenUploads'
  <2>1. CASE pc \in {"idle", "announce"}
    BY <1>1, <1>2, <2>1 DEF UploadsApart, BetweenUploads, apVars
  <2>2. CASE pc \notin {"idle", "announce"}
    BY <2>2 DEF BetweenUploads, apVars
  <2>3. QED
    BY <2>1, <2>2
<1>4. TransferIsCurrent'
  <2> SUFFICES ASSUME rx.on
               PROVE  TransferIsCurrent'
    BY DEF TransferIsCurrent, apVars
  <2>1. down # <<>> /\ down = <<ItemMsg(Len(rx.items), upload)>> => Tail(down) = <<>>
    OBVIOUS
  <2>2. \/ down' = <<>>
        \/ down' = <<ItemMsg(Len(rx.items), upload)>> /\ Len(rx.items) \in sent
    BY <2>1 DEF UploadsApart, TransferIsCurrent
  <2>3. \A i \in 1 .. Len(up') : up'[i].t = "REQUEST" => up'[i].seq <= Len(rx.items)
    BY <1>1 DEF UploadsApart, TransferIsCurrent
  <2>4. QED
    BY <2>2, <2>3 DEF UploadsApart, TransferIsCurrent, Plan, apVars
<1>5. QED
  BY <1>1, <1>2, <1>3, <1>4 DEF UploadsApart

\* The autopilot answers with one message more.
LEMMA OneMoreComesUp ==
  ASSUME TypeOK, AnswerIsLast, UNCHANGED <<sent, upload, plans>>,
         NEW m \in UpMsg, up' = Append(up, m),
         \/ sent = {} /\ \A j \in 1 .. Len(up) : up[j].t = "ACK"
         \/ rx.on /\ m.t = "REQUEST"
         \/ /\ rx.on /\ ~rx'.on
            /\ m.type = Accepted => onboard' = Whole(upload)
         \/ m = AckMsg(Refused) /\ ~rx.on /\ ~rx'.on /\ UNCHANGED onboard
  PROVE  AnswerIsLast'
<1>1. PICK q, a : q = up /\ a = up'
  OBVIOUS
<1>2. /\ Len(q) \in Nat /\ Len(a) = Len(q) + 1
      /\ \A i \in 1 .. Len(q) : a[i] = q[i]
      /\ a[Len(q) + 1] = m
      /\ \A i \in 1 .. Len(a) : i \in 1 .. Len(q) \/ i = Len(q) + 1
  BY <1>1, AppendShift DEF TypeOK
\* What was asked before the messages that were there already.
<1>3. ASSUME NEW j \in 1 .. Len(a), AskedBefore(j)'
      PROVE  /\ AskedBefore(j)
             /\ sent # {} \/ \E i \in 1 .. Len(q) : q[i].t = "REQUEST"
  <2>1. CASE sent # {}
    BY <2>1 DEF AskedBefore
  <2>2. ASSUME NEW i \in 1 .. j - 1, a[i].t = "REQUEST"
        PROVE  i \in 1 .. Len(q) /\ q[i].t = "REQUEST"
    <3>1. i \in 1 .. Len(q)
      BY <1>2
    <3>2. QED
      BY <1>2, <2>2, <3>1
  <2>3. QED
    BY <1>1, <1>3, <2>1, <2>2 DEF AskedBefore
<1>4. CASE sent = {} /\ \A j \in 1 .. Len(up) : up[j].t = "ACK"
  <2>1. \A j \in 1 .. Len(a) : ~AskedBefore(j)'
    BY <1>1, <1>3, <1>4
  <2>2. QED
    BY <1>1, <2>1 DEF AnswerIsLast
<1>5. CASE rx.on
  <2>1. ASSUME NEW j \in 1 .. Len(q), AskedBefore(j)
        PROVE  q[j].t # "ACK"
    BY <1>1, <1>5, <2>1 DEF AnswerIsLast
  <2>2. CASE m.t = "REQUEST"
    <3>1. ASSUME NEW j \in 1 .. Len(a), AskedBefore(j)'
          PROVE  a[j].t # "ACK"
      BY <1>2, <1>3, <2>1, <2>2, <3>1
    <3>2. QED
      BY <1>1, <3>1 DEF AnswerIsLast
  <2>3. CASE ~rx'.on /\ (m.type = Accepted => onboard' = Whole(upload))
    <3>1. ASSUME NEW j \in 1 .. Len(a), a[j].t = "ACK", AskedBefore(j)'
          PROVE  j = Len(q) + 1
      BY <1>2, <1>3, <2>1, <3>1
    <3>2. \A i \in Len(q) + 1 + 1 .. Len(a) : FALSE
      BY <1>2
    <3>3. ASSUME NEW j \in 1 .. Len(a), a[j].t = "ACK", AskedBefore(j)'
          PROVE  /\ ~rx'.on
                 /\ a[j].type = Accepted => onboard' = Whole(upload)
                 /\ \A i \in j + 1 .. Len(a) : a[i] = AckMsg(Refused)
      BY <1>2, <2>3, <3>1, <3>2, <3>3
    <3>4. QED
      BY <1>1, <3>3 DEF AnswerIsLast, Whole
  <2>4. CASE m = AckMsg(Refused) /\ ~rx.on
    BY <1>5, <2>4
  <2>5. QED
    BY <1>4, <1>5, <2>2, <2>3, <2>4
<1>6. CASE m = AckMsg(Refused) /\ ~rx.on /\ ~rx'.on /\ UNCHANGED onboard
  <2>1. m.type # Accepted
    BY <1>6, KindsOfMessages
  <2>2. ASSUME NEW j \in 1 .. Len(a), a[j].t = "ACK", AskedBefore(j)'
        PROVE  /\ a[j].type = Accepted => onboard' = Whole(upload)
               /\ \A i \in j + 1 .. Len(a) : a[i] = AckMsg(Refused)
    <3>1. CASE j \in 1 .. Len(q)
      <4>1. /\ q[j].type = Accepted => onboard = Whole(upload)
            /\ \A i \in j + 1 .. Len(q) : q[i] = AckMsg(Refused)
        BY <1>1, <1>2, <1>3, <2>2, <3>1 DEF AnswerIsLast
      <4>2. ASSUME NEW i \in j + 1 .. Len(a)
            PROVE  a[i] = AckMsg(Refused)
        <5>1. i \in j + 1 .. Len(q) \/ i = Len(q) + 1
          BY <1>2, <3>1
        <5>2. QED
          BY <1>2, <1>6, <4>1, <5>1
      <4>3. QED
        BY <1>2, <1>6, <3>1, <4>1, <4>2
    <3>2. CASE j = Len(q) + 1
      <4>1. \A i \in j + 1 .. Len(a) : FALSE
        BY <1>2, <3>2
      <4>2. QED
        BY <1>2, <2>1, <3>2, <4>1
    <3>3. QED
      BY <1>2, <3>1, <3>2
  <2>3. QED
    BY <1>1, <1>6, <2>2 DEF AnswerIsLast, Whole
<1>7. QED
  BY <1>4, <1>5, <1>6

\* What the autopilot does when it answers: it keeps the uploads apart, if what
\* it answers, does to its transfer and to the mission on board suits the
\* upload under way.
LEMMA AnswersStayApart ==
  ASSUME TypeOK, UploadsApart, UNCHANGED agentVars,
         NEW m \in UpMsg, up' = Append(up, m),
         down' = down \/ (down # <<>> /\ down' = Tail(down)),
         AnswerIsLast', TransferIsCurrent', AnnouncedLast', ReportIsTrue',
         pc \in {"idle", "announce"} => m = AckMsg(Refused) /\ ~rx'.on
  PROVE  UploadsApart'
<1>1. BetweenUploads'
  <2> SUFFICES ASSUME pc \in {"idle", "announce"}
               PROVE  BetweenUploads'
    BY DEF BetweenUploads, agentVars
  <2>1. \A i \in 1 .. Len(up') : up'[i] = AckMsg(Refused)
    <3>1. \A i \in 1 .. Len(up') : (i \in 1 .. Len(up) /\ up'[i] = up[i]) \/ up'[i] = m
      <4>1. PICK q, a : q = up /\ a = up'
        OBVIOUS
      <4>2. /\ \A i \in 1 .. Len(q) : a[i] = q[i]
            /\ a[Len(q) + 1] = m
            /\ \A i \in 1 .. Len(a) : i \in 1 .. Len(q) \/ i = Len(q) + 1
        BY <4>1, AppendShift DEF TypeOK
      <4>3. QED
        BY <4>1, <4>2
    <3>2. QED
      BY <3>1 DEF UploadsApart, BetweenUploads
  <2>2. \A i \in 1 .. Len(down') : down'[i].t = "ITEM"
    <3>1. CASE down' = down
      BY <3>1 DEF UploadsApart, BetweenUploads
    <3>2. CASE down # <<>> /\ down' = Tail(down)
      <4>1. \A i \in 1 .. Len(down') : i + 1 \in 1 .. Len(down) /\ down'[i] = down[i + 1]
        <5>1. PICK q, t : q = down /\ t = down'
          OBVIOUS
        <5>2. \A i \in 1 .. Len(t) : i + 1 \in 1 .. Len(q) /\ t[i] = q[i + 1]
          BY <3>2, <5>1, TailShift DEF TypeOK
        <5>3. QED
          BY <5>1, <5>2
      <4>2. QED
        BY <4>1 DEF UploadsApart, BetweenUploads
    <3>3. QED
      BY <3>1, <3>2
  <2>3. QED
    BY <2>1, <2>2 DEF BetweenUploads, agentVars
<1>2. QED
  BY <1>1 DEF UploadsApart

LEMMA QuietTakeUp ==
  ASSUME TypeOK, TypeOK', UploadsApart, ~PublishFaults, NEW p \in Plans, TakeUp(p)
  PROVE  UploadsApart'
<1>1. /\ pc = "idle" /\ pc' \in {"idle", "announce"}
      /\ upload' = upload + 1 /\ upload \in Nat /\ upload + 1 \in Uploads
      /\ plans' = [plans EXCEPT ![upload + 1] = p]
      /\ UNCHANGED <<sent, down, up, rx, onboard>>
  BY BoundsAssumption DEF TakeUp, Finish, TypeOK, Uploads
<1>2. plans'[upload + 1] = p /\ p \in Seq(Nat)
  BY <1>1, PlansAssumption DEF TypeOK
<1>3. /\ ~rx.on
      /\ \A i \in 1 .. Len(down) : down[i].t = "ITEM"
      /\ \A i \in 1 .. Len(up) : up[i] = AckMsg(Refused)
  BY <1>1 DEF UploadsApart, BetweenUploads
<1>4. BetweenUploads' /\ AnnouncedLast' /\ TransferIsCurrent'
  BY <1>1, <1>3 DEF BetweenUploads, AnnouncedLast, TransferIsCurrent
<1>5. AnswerIsLast'
  BY <1>1, <1>3, KindsOfMessages DEF AnswerIsLast
<1>6. /\ report'[upload + 1] = "uploading" <=> pc' # "idle"
      /\ report'[upload + 1] # "uploaded"
      /\ pc' # "idle" => p # <<>>
  <2>1. CASE p = <<>>
    BY <1>1, <2>1 DEF TakeUp, Finish, TypeOK
  <2>2. CASE p # <<>>
    BY <1>1, <2>2 DEF TakeUp, TypeOK
  <2>3. QED
    BY <2>1, <2>2
<1>7. ReportIsTrue'
  <2>1. \A i \in 1 .. Len(onboard) : onboard[i] <= upload + 1
    <3>1. \A i \in 1 .. Len(onboard) : onboard[i] <= upload /\ onboard[i] \in Nat
      <4>1. \A i \in 1 .. Len(onboard) : onboard[i] \in Uploads
        BY SMTT(30) DEF TypeOK
      <4>2. QED
        BY <4>1 DEF UploadsApart, ReportIsTrue, Uploads
    <3>2. QED
      BY <1>1, <3>1
  <2>2. p # <<>> => Len(p) > 0
    BY <1>2
  <2>3. QED
    BY <1>1, <1>2, <1>6, <2>1, <2>2 DEF ReportIsTrue, Plan
<1>8. QED
  BY <1>4, <1>5, <1>7 DEF UploadsApart

LEMMA QuietAnnounce ==
  ASSUME TypeOK, TypeOK', UploadsApart, ~SendFaults, Announce
  PROVE  UploadsApart'
<1>1. /\ pc = "announce" /\ pc' = "request" /\ sent' = {}
      /\ down' = down \o <<ClearMsg>> \o <<CountMsg(Len(Plan))>>
      /\ UNCHANGED <<upload, plans, report, up, rx, onboard>>
  BY DEF Announce, apVars
<1>2. /\ ~rx.on
      /\ \A i \in 1 .. Len(down) : down[i].t = "ITEM"
      /\ \A i \in 1 .. Len(up) : up[i] = AckMsg(Refused)
  BY <1>1 DEF UploadsApart, BetweenUploads
<1>3. Len(Plan) \in Nat /\ upload \in Uploads
  BY <1>1, BoundsAssumption DEF Plan, TypeOK, Uploads
<1>4. /\ Len(down) \in Nat /\ Len(down') = Len(down) + 2
      /\ \A i \in 1 .. Len(down) : down'[i] = down[i]
      /\ down'[Len(down) + 1] = ClearMsg
      /\ down'[Len(down) + 2] = CountMsg(Len(Plan))
  <2>1. PICK q, c, n : q = down /\ c = ClearMsg /\ n = CountMsg(Len(Plan))
    OBVIOUS
  <2>2. q \in Seq(DownMsg) /\ c \in DownMsg /\ n \in DownMsg
    BY <1>3, <2>1, MessageTypes DEF TypeOK
  <2>3. <<c>> \in Seq(DownMsg) /\ <<n>> \in Seq(DownMsg)
    BY <2>2
  <2>4. /\ q \o <<c>> \in Seq(DownMsg)
        /\ Len(q \o <<c>>) = Len(q) + 1
        /\ \A i \in 1 .. Len(q) : (q \o <<c>>)[i] = q[i]
        /\ (q \o <<c>>)[Len(q) + 1] = c
    BY <2>2, <2>3
  <2>5. PICK r : r = q \o <<c>>
    OBVIOUS
  <2>6. /\ Len(r \o <<n>>) = Len(r) + 1
        /\ \A i \in 1 .. Len(r) : (r \o <<n>>)[i] = r[i]
        /\ (r \o <<n>>)[Len(r) + 1] = n
    BY <2>2, <2>3, <2>4, <2>5
  <2>7. \A i \in 1 .. Len(q) : i \in 1 .. Len(r)
    BY <2>2, <2>4, <2>5
  <2>8. Len(q) + 1 \in 1 .. Len(r) /\ Len(r) + 1 = Len(q) + 2
    BY <2>2, <2>4, <2>5
  <2>9. QED
    BY <1>1, <2>1, <2>2, <2>4, <2>5, <2>6, <2>7, <2>8
<1>5. \A i \in 1 .. Len(down') : down'[i].t # "ITEM" =>
         \/ i + 1 = Len(down') /\ down'[i] = ClearMsg
         \/ i = Len(down') /\ down'[i] = CountMsg(Len(Plan))
  <2>1. \A i \in 1 .. Len(down') :
           i \in 1 .. Len(down) \/ i = Len(down) + 1 \/ i = Len(down) + 2
    BY <1>4
  <2>2. QED
    BY <1>2, <1>4, <2>1
<1>6. \A i \in 1 .. Len(up) : up[i].t = "ACK"
  BY <1>2, KindsOfMessages
<1>7. AnnouncedLast'
  <2>1. Plan' = Plan
    BY <1>1 DEF Plan
  <2>2. ASSUME NEW i \in 1 .. Len(down'), i + 1 = Len(down'), down'[i] = ClearMsg
        PROVE  /\ down'[i].t = "CLEAR"
               /\ down'[i + 1].t = "COUNT"
    BY <1>3, <1>4, <2>2, KindsOfMessages
  <2>3. ASSUME NEW i \in 1 .. Len(down'), i = Len(down'), down'[i] = CountMsg(Len(Plan))
        PROVE  down'[i].t = "COUNT" /\ down'[i].n = Len(Plan)
    BY <1>3, <2>3, KindsOfMessages
  <2>4. QED
    BY <1>1, <1>2, <1>5, <1>6, <2>1, <2>2, <2>3 DEF AnnouncedLast
<1>8. BetweenUploads' /\ TransferIsCurrent'
  BY <1>1, <1>2 DEF BetweenUploads, TransferIsCurrent
<1>9. AnswerIsLast'
  BY <1>1, <1>2, KindsOfMessages DEF AnswerIsLast, AskedBefore
<1>10. ReportIsTrue'
  BY <1>1 DEF UploadsApart, ReportIsTrue, Plan, Whole
<1>11. QED
  BY <1>7, <1>8, <1>9, <1>10 DEF UploadsApart

LEMMA QuietAnswer ==
  ASSUME TypeOK, TypeOK', UploadsApart, ~SendFaults, AnswerRequest
  PROVE  UploadsApart'
<1>1. PICK k : k = Head(up).seq
  OBVIOUS
<1>2. /\ pc = "request" /\ pc' = "progress" /\ up # <<>> /\ up' = Tail(up)
      /\ Head(up).t = "REQUEST" /\ k \notin sent /\ sent' = sent \cup {k}
      /\ down' = Append(down, ItemMsg(k, upload))
      /\ UNCHANGED <<upload, plans, report, rx, onboard>>
  BY <1>1 DEF AnswerRequest, Awaited, apVars
<1>3. /\ Len(up) \in Nat /\ Len(up') = Len(up) - 1
      /\ Head(up) = up[1] /\ 1 \in 1 .. Len(up)
      /\ \A i \in 1 .. Len(up') : i + 1 \in 1 .. Len(up) /\ up'[i] = up[i + 1]
  <2>1. PICK q, t : q = up /\ t = up'
    OBVIOUS
  <2>2. /\ Len(q) \in Nat \ {0} /\ Len(t) = Len(q) - 1
        /\ Head(q) = q[1] /\ 1 \in 1 .. Len(q)
        /\ \A i \in 1 .. Len(t) : i + 1 \in 1 .. Len(q) /\ t[i] = q[i + 1]
    BY <1>2, <2>1, TailShift DEF TypeOK
  <2>3. QED
    BY <2>1, <2>2
<1>4. k \in Nat /\ upload \in Uploads
  BY <1>1, <1>2, <1>3, KindsOfMessages, BoundsAssumption DEF TypeOK, Uploads
<1>5. ItemMsg(k, upload) \in DownMsg /\ ItemMsg(k, upload).t = "ITEM"
  BY <1>4, MessageTypes, KindsOfMessages
<1>6. \A i \in 1 .. Len(down) : down[i].t = "ITEM"
  BY <1>2, <1>3 DEF UploadsApart, AnnouncedLast
<1>7. \A i \in 1 .. Len(down') : down'[i].t = "ITEM"
  <2>1. PICK q, a, m : q = down /\ a = down' /\ m = ItemMsg(k, upload)
    OBVIOUS
  <2>2. /\ \A i \in 1 .. Len(q) : a[i] = q[i]
        /\ a[Len(q) + 1] = m
        /\ \A i \in 1 .. Len(a) : i \in 1 .. Len(q) \/ i = Len(q) + 1
    BY <1>2, <1>5, <2>1, AppendShift DEF TypeOK
  <2>3. QED
    BY <1>5, <1>6, <2>1, <2>2
<1>8. BetweenUploads' /\ AnnouncedLast'
  BY <1>2, <1>7 DEF BetweenUploads, AnnouncedLast
<1>9. TransferIsCurrent'
  <2> SUFFICES ASSUME rx.on
               PROVE  TransferIsCurrent'
    BY <1>2 DEF TransferIsCurrent
  <2> DEFINE L == Len(rx.items)
  <2>1. L \in Nat
    BY DEF TypeOK
  <2>2. /\ 0 .. L - 1 \subseteq sent /\ sent \subseteq 0 .. L /\ k <= L
        /\ rx.count = Len(Plan)
        /\ \A i \in 1 .. L : rx.items[i] = upload
        /\ \A i \in 1 .. Len(up) : up[i].t = "REQUEST" => up[i].seq <= L
        /\ L \notin sent => down = <<>>
    BY <1>1, <1>2, <1>3 DEF UploadsApart, TransferIsCurrent
  <2>3. k = L
    BY <1>2, <1>4, <2>1, <2>2
  <2>4. down' = <<ItemMsg(L, upload)>>
    BY <1>2, <2>2, <2>3
  <2>5. 0 .. L - 1 \subseteq sent' /\ sent' \subseteq 0 .. L /\ L \in sent'
    <3>1. 0 .. L - 1 \subseteq sent' /\ L \in sent'
      BY <1>2, <2>2, <2>3
    <3>2. L \in 0 .. L
      BY <2>1
    <3>3. sent' \subseteq 0 .. L
      <4>1. sent \subseteq 0 .. L /\ k \in 0 .. L
        BY <2>2, <2>3, <3>2
      <4> HIDE DEF L
      <4>2. QED
        BY <1>2, <4>1
    <3>4. QED
      BY <3>1, <3>3
  <2>6. \A i \in 1 .. Len(up') : up'[i].t = "REQUEST" => up'[i].seq <= L
    BY <1>3, <2>2
  <2>7. QED
    BY <1>2, <2>2, <2>4, <2>5, <2>6 DEF TransferIsCurrent, Plan
<1>10. AnswerIsLast'
  <2>1. ASSUME NEW j \in 1 .. Len(up'), up'[j].t = "ACK"
        PROVE  /\ ~rx.on
               /\ up'[j].type = Accepted => onboard = Whole(upload)
               /\ \A i \in j + 1 .. Len(up') : up'[i] = AckMsg(Refused)
    <3>1. j + 1 \in 1 .. Len(up) /\ up'[j] = up[j + 1] /\ j \in Nat /\ 1 \in 1 .. (j + 1) - 1
      BY <1>3
    <3>2. AskedBefore(j + 1)
      BY <1>2, <1>3, <3>1 DEF AskedBefore
    <3>3. /\ ~rx.on
          /\ up[j + 1].type = Accepted => onboard = Whole(upload)
          /\ \A i \in (j + 1) + 1 .. Len(up) : up[i] = AckMsg(Refused)
      BY <2>1, <3>1, <3>2 DEF UploadsApart, AnswerIsLast
    <3>4. ASSUME NEW i \in j + 1 .. Len(up')
          PROVE  up'[i] = AckMsg(Refused)
      <4>1. i \in 1 .. Len(up') /\ i + 1 \in (j + 1) + 1 .. Len(up)
        BY <1>3, <3>1
      <4>2. QED
        BY <1>3, <3>3, <4>1
    <3>5. QED
      BY <3>1, <3>3, <3>4
  <2>2. QED
    BY <1>2, <2>1 DEF AnswerIsLast, Whole
<1>11. ReportIsTrue'
  <2>1. sent' # {}
    BY <1>2
  <2>2. QED
    BY <1>2, <2>1 DEF UploadsApart, ReportIsTrue, Plan, Whole
<1>12. QED
  BY <1>8, <1>9, <1>10, <1>11 DEF UploadsApart

LEMMA QuietAcknowledged ==
  ASSUME TypeOK, TypeOK', UploadsApart, ~PublishFaults, ReceiveAck
  PROVE  UploadsApart'
<1>1. /\ pc = "ack" /\ pc' = "idle" /\ up # <<>> /\ up' = Tail(up) /\ Head(up).t = "ACK"
      /\ report' = [report EXCEPT ![upload] =
                      IF Head(up).type = Accepted THEN "uploaded" ELSE "failed"]
      /\ UNCHANGED <<upload, plans, sent, down, apVars>>
  BY DEF ReceiveAck, Awaited, Finish
<1>2. /\ Len(up) \in Nat /\ Len(up') = Len(up) - 1
      /\ Head(up) = up[1] /\ 1 \in 1 .. Len(up)
      /\ \A i \in 1 .. Len(up') : i + 1 \in 1 .. Len(up) /\ up'[i] = up[i + 1]
  <2>1. PICK q, t : q = up /\ t = up'
    OBVIOUS
  <2>2. /\ Len(q) \in Nat \ {0} /\ Len(t) = Len(q) - 1
        /\ Head(q) = q[1] /\ 1 \in 1 .. Len(q)
        /\ \A i \in 1 .. Len(t) : i + 1 \in 1 .. Len(q) /\ t[i] = q[i + 1]
    BY SMTT(30), <1>1, <2>1, TailShift DEF TypeOK
  <2>3. QED
    BY <2>1, <2>2
<1>3. sent # {} /\ upload \in Uploads /\ Len(Plan) > 0
  BY <1>1, BoundsAssumption DEF UploadsApart, ReportIsTrue, TypeOK, Uploads
<1>4. /\ ~rx.on
      /\ up[1].type = Accepted => onboard = Whole(upload)
      /\ \A i \in 2 .. Len(up) : up[i] = AckMsg(Refused)
  <2>1. AskedBefore(1) /\ 1 + 1 = 2
    BY <1>3 DEF AskedBefore
  <2>2. QED
    BY <1>1, <1>2, <2>1 DEF UploadsApart, AnswerIsLast
<1>5. \A i \in 1 .. Len(down') : down'[i].t = "ITEM"
  BY <1>1, <1>3 DEF UploadsApart, AnnouncedLast
<1>6. \A i \in 1 .. Len(up') : up'[i] = AckMsg(Refused)
  <2>1. \A i \in 1 .. Len(up') : i + 1 \in 2 .. Len(up)
    BY <1>2
  <2>2. QED
    BY <1>2, <1>4, <2>1
<1>7. ReportIsTrue'
  <2>1. /\ report'[upload] # "uploading"
        /\ report'[upload] = "uploaded" => onboard = Whole(upload)
    BY <1>1, <1>2, <1>3, <1>4 DEF TypeOK
  <2>2. QED
    BY <1>1, <1>3, <2>1 DEF UploadsApart, ReportIsTrue, Plan, Whole, apVars
<1>8. QED
  BY <1>1, <1>4, <1>5, <1>6, <1>7, FewerStayApart

\* What an answer adds to what was on its way to the agent.
LEMMA AnswerAdded ==
  ASSUME TypeOK, NEW m \in UpMsg, up' = Append(up, m)
  PROVE  \A j \in 1 .. Len(up') : up'[j] = m \/ \E i \in 1 .. Len(up) : up'[j] = up[i]
<1>1. PICK q, a : q = up /\ a = up'
  OBVIOUS
<1>2. /\ \A i \in 1 .. Len(q) : a[i] = q[i]
      /\ a[Len(q) + 1] = m
      /\ \A i \in 1 .. Len(a) : i \in 1 .. Len(q) \/ i = Len(q) + 1
  BY <1>1, AppendShift DEF TypeOK
<1>3. QED
  BY <1>1, <1>2

\* The autopilot takes a message off the link.
LEMMA OneLessGoesDown ==
  ASSUME TypeOK, down # <<>>, down' = Tail(down)
  PROVE  /\ Head(down) = down[1] /\ 1 \in 1 .. Len(down) /\ Head(down) \in DownMsg
         /\ Len(down) \in Nat /\ Len(down') = Len(down) - 1
         /\ Len(down) = 1 => down' = <<>>
<1>1. PICK q, t : q = down /\ t = down'
  OBVIOUS
<1>2. q \in Seq(DownMsg) /\ q # <<>> /\ t = Tail(q)
  BY <1>1 DEF TypeOK
<1>3. /\ Head(q) = q[1] /\ 1 \in 1 .. Len(q) /\ Head(q) \in DownMsg
      /\ Len(q) \in Nat /\ Len(t) = Len(q) - 1
  BY <1>2, TailShift
<1>4. Len(q) = 1 => t = <<>>
  BY <1>2, <1>3
<1>5. QED
  BY <1>1, <1>3, <1>4

\* A refusal that ends a transfer, or answers a message outside of one.
LEMMA QuietRefusal ==
  ASSUME TypeOK, UploadsApart, UNCHANGED <<agentVars, onboard>>, ~rx'.on,
         up' = Append(up, AckMsg(Refused)),
         down' = down \/ (down # <<>> /\ down' = Tail(down))
  PROVE  UploadsApart'
<1>1. AckMsg(Refused) \in UpMsg /\ AckMsg(Refused).t = "ACK" /\ AckMsg(Refused).type # Accepted
  BY MessageTypes, KindsOfMessages
<1>2. AnswerIsLast'
  <2>1. UNCHANGED <<sent, upload, plans>>
    BY DEF agentVars
  <2>2. CASE rx.on
    BY <1>1, <2>1, <2>2, OneMoreComesUp DEF UploadsApart
  <2>3. CASE ~rx.on
    BY <1>1, <2>1, <2>3, OneMoreComesUp DEF UploadsApart
  <2>4. QED
    BY <2>2, <2>3
<1>3. AnnouncedLast'
  BY <1>1, AnswerAdded, FewerGoDown DEF UploadsApart, agentVars
<1>4. TransferIsCurrent'
  BY DEF TransferIsCurrent
<1>5. ReportIsTrue'
  BY DEF UploadsApart, ReportIsTrue, Plan, Whole, agentVars
<1>6. QED
  BY <1>1, <1>2, <1>3, <1>4, <1>5, AnswersStayApart

LEMMA QuietClear ==
  ASSUME TypeOK, TypeOK', UploadsApart, ApReceiveClear
  PROVE  UploadsApart'
<1>1. /\ down # <<>> /\ Head(down).t = "CLEAR" /\ down' = Tail(down)
      /\ up' = Append(up, AckMsg(Accepted)) /\ ~rx'.on /\ onboard' = <<>>
      /\ UNCHANGED agentVars
  BY DEF ApReceiveClear, NoTransfer
<1>2. /\ sent = {} /\ ~rx.on /\ pc \notin {"idle", "announce"}
      /\ \A j \in 1 .. Len(up) : up[j].t = "ACK"
  BY <1>1, OneLessGoesDown DEF UploadsApart, AnnouncedLast, BetweenUploads
<1>3. AckMsg(Accepted) \in UpMsg /\ AckMsg(Accepted).t = "ACK"
  BY MessageTypes, KindsOfMessages
<1>4. AnswerIsLast'
  BY <1>1, <1>2, <1>3, OneMoreComesUp DEF UploadsApart, agentVars
<1>5. AnnouncedLast'
  BY <1>1, <1>2, <1>3, AnswerAdded, FewerGoDown DEF UploadsApart, agentVars
<1>6. TransferIsCurrent'
  BY <1>1 DEF TransferIsCurrent
<1>7. ReportIsTrue'
  <2>1. upload > 0 => report[upload] # "uploaded"
    BY <1>2 DEF UploadsApart, ReportIsTrue
  <2>2. \A i \in 1 .. Len(onboard') : onboard'[i] <= upload
    BY <1>1
  <2>3. QED
    BY <1>1, <2>1, <2>2 DEF UploadsApart, ReportIsTrue, Plan, Whole, agentVars
<1>8. QED
  BY <1>1, <1>2, <1>3, <1>4, <1>5, <1>6, <1>7, AnswersStayApart

LEMMA QuietCount ==
  ASSUME TypeOK, TypeOK', UploadsApart, ApReceiveCount
  PROVE  UploadsApart'
<1>1. /\ down # <<>> /\ Head(down).t = "COUNT" /\ down' = Tail(down)
      /\ UNCHANGED <<agentVars, onboard>>
  BY DEF ApReceiveCount
<1>2. /\ sent = {} /\ ~rx.on /\ pc \notin {"idle", "announce"}
      /\ \A j \in 1 .. Len(up) : up[j].t = "ACK"
      /\ Head(down).n = Len(Plan) /\ down' = <<>>
  BY <1>1, OneLessGoesDown DEF UploadsApart, AnnouncedLast, BetweenUploads
<1>3. CASE /\ rx' = [on |-> TRUE, count |-> Head(down).n, items |-> <<>>]
           /\ up' = Append(up, RequestMsg(0))
  <2>1. RequestMsg(0) \in UpMsg /\ RequestMsg(0).t = "REQUEST" /\ RequestMsg(0).seq = 0
    BY MessageTypes, KindsOfMessages
  <2>2. AnswerIsLast'
    BY <1>1, <1>2, <1>3, <2>1, OneMoreComesUp DEF UploadsApart, agentVars
  <2>3. AnnouncedLast'
    BY <1>2 DEF AnnouncedLast
  <2>4. TransferIsCurrent'
    <3>1. \A j \in 1 .. Len(up') : up'[j].t = "REQUEST" => up'[j].seq <= 0
      BY <1>2, <1>3, <2>1, AnswerAdded
    <3>2. rx'.count = Len(Plan) /\ rx'.items = <<>> /\ Len(rx'.items) = 0
      BY <1>2, <1>3
    <3>3. sent' = {}
      BY <1>1, <1>2 DEF agentVars
    <3>4. 0 .. 0 - 1 = {}
      OBVIOUS
    <3>5. \A i \in 1 .. 0 : FALSE
      OBVIOUS
    <3>6. QED
      BY <1>1, <1>2, <3>1, <3>2, <3>3, <3>4, <3>5 DEF TransferIsCurrent, Plan, agentVars
  <2>5. ReportIsTrue'
    BY <1>1 DEF UploadsApart, ReportIsTrue, Plan, Whole, agentVars
  <2>6. QED
    BY <1>1, <1>2, <1>3, <2>1, <2>2, <2>3, <2>4, <2>5, AnswersStayApart
<1>4. CASE rx' = NoTransfer /\ up' = Append(up, AckMsg(Refused))
  <2>1. ~rx'.on
    BY <1>4 DEF NoTransfer
  <2>2. QED
    BY <1>1, <1>4, <2>1, QuietRefusal
<1>5. QED
  BY <1>3, <1>4 DEF ApReceiveCount

\* While a transfer is on, an item on the link is the one asked for.
LEMMA QuietItem ==
  ASSUME TypeOK, TypeOK', UploadsApart, ApReceiveItem
  PROVE  UploadsApart'
<1>1. /\ down # <<>> /\ Head(down).t = "ITEM" /\ down' = Tail(down)
      /\ UNCHANGED agentVars
  BY DEF ApReceiveItem
<1> DEFINE items == Append(rx.items, Head(down).of)
           L == Len(rx.items)
<1>2. CASE ~rx.on
  <2>1. up' = Append(up, AckMsg(Refused)) /\ UNCHANGED <<rx, onboard>>
    BY <1>2 DEF ApReceiveItem
  <2>2. QED
    BY <1>1, <1>2, <2>1, QuietRefusal
<1>3. CASE rx.on
  <2>1. /\ upload \in Uploads /\ pc \notin {"idle", "announce"}
        /\ Plan \in Seq(Nat) /\ L \in Nat
    <3>1. pc \notin {"idle", "announce"}
      BY <1>3 DEF UploadsApart, BetweenUploads
    <3>2. upload \in Uploads
      BY <3>1, BoundsAssumption DEF TypeOK, Uploads
    <3>3. QED
      BY <3>1, <3>2 DEF TypeOK, Plan
  <2>2. /\ rx.count = Len(Plan)
        /\ \A i \in 1 .. L : rx.items[i] = upload
        /\ 0 .. L - 1 \subseteq sent /\ sent \subseteq 0 .. L /\ L \in sent
        /\ \A i \in 1 .. Len(up) : up[i].t = "REQUEST" => up[i].seq <= L
        /\ down = <<ItemMsg(L, upload)>>
    BY <1>1, <1>3 DEF UploadsApart, TransferIsCurrent
  <2>3. /\ down' = <<>> /\ Head(down) = ItemMsg(L, upload)
        /\ Head(down).seq = L /\ Head(down).of = upload
    BY <1>1, <2>1, <2>2, KindsOfMessages
  <2>4. /\ items \in Seq(Uploads) /\ Len(items) = L + 1
        /\ \A i \in 1 .. Len(items) : items[i] = upload
    <3>1. PICK q, a : q = rx.items /\ a = items
      OBVIOUS
    <3>2. q \in Seq(Uploads) /\ a = Append(q, upload)
      BY <2>3, <3>1 DEF TypeOK
    <3>3. /\ a \in Seq(Uploads) /\ Len(a) = Len(q) + 1
          /\ \A i \in 1 .. Len(q) : a[i] = q[i]
          /\ a[Len(q) + 1] = upload
          /\ \A i \in 1 .. Len(a) : i \in 1 .. Len(q) \/ i = Len(q) + 1
      BY <2>1, <3>2, AppendShift
    <3>4. QED
      BY <2>2, <3>1, <3>3
  <2>5. AnnouncedLast'
    BY <2>3 DEF AnnouncedLast
  <2>6. CASE /\ Len(items) = rx.count /\ onboard' = items
             /\ rx' = NoTransfer /\ up' = Append(up, AckMsg(Accepted))
    <3>1. onboard' = Whole(upload) /\ ~rx'.on
      <4>1. Len(items) = Len(plans[upload])
        BY <2>2, <2>6 DEF Plan
      <4>2. items = Whole(upload)
        BY <2>1, <2>4, <4>1, OwnItemsAreWhole
      <4>3. QED
        BY <2>6, <4>2 DEF NoTransfer
    <3>2. AckMsg(Accepted) \in UpMsg
      BY MessageTypes
    <3>3. AnswerIsLast'
      BY <1>1, <1>3, <2>6, <3>1, <3>2, OneMoreComesUp DEF UploadsApart, agentVars
    <3>4. TransferIsCurrent'
      BY <3>1 DEF TransferIsCurrent
    <3>5. ReportIsTrue'
      <4>1. report[upload] # "uploaded" /\ upload > 0
        BY <2>1 DEF UploadsApart, ReportIsTrue, Uploads
      <4>2. \A i \in 1 .. Len(onboard') : onboard'[i] <= upload
        <5>1. upload \in Nat
          BY BoundsAssumption DEF TypeOK
        <5>2. \A i \in 1 .. Len(onboard') : onboard'[i] = upload
          BY <2>4, <2>6
        <5>3. QED
          BY <5>1, <5>2
      <4>3. QED
        BY <1>1, <4>1, <4>2 DEF UploadsApart, ReportIsTrue, Plan, Whole, agentVars
    <3>6. QED
      BY <1>1, <2>1, <2>5, <2>6, <3>2, <3>3, <3>4, <3>5, AnswersStayApart
  <2>7. CASE /\ rx' = [rx EXCEPT !.items = items]
             /\ up' = Append(up, RequestMsg(Len(items))) /\ UNCHANGED onboard
    <3>1. /\ Len(items) \in Nat /\ RequestMsg(Len(items)) \in UpMsg
          /\ RequestMsg(Len(items)).t = "REQUEST" /\ RequestMsg(Len(items)).seq = Len(items)
      BY <2>1, <2>4, MessageTypes, KindsOfMessages
    <3>2. rx'.on /\ rx'.count = rx.count /\ rx'.items = items
      BY <1>3, <2>7 DEF TypeOK
    <3>3. AnswerIsLast'
      BY <1>1, <1>3, <2>7, <3>1, OneMoreComesUp DEF UploadsApart, agentVars
    <3>4. TransferIsCurrent'
      <4>1. \A j \in 1 .. Len(up') : up'[j].t = "REQUEST" => up'[j].seq <= Len(items)
        <5>1. \A i \in 1 .. Len(up) : up[i].t = "REQUEST" => up[i].seq \in Nat
          BY SMTT(30), KindsOfMessages DEF TypeOK
        <5>2. \A i \in 1 .. Len(up) : up[i].t = "REQUEST" => up[i].seq <= Len(items)
          BY <2>1, <2>2, <2>4, <5>1
        <5>3. \A j \in 1 .. Len(up') : up'[j] = RequestMsg(Len(items))
                                         \/ \E i \in 1 .. Len(up) : up'[j] = up[i]
          BY <2>7, <3>1, AnswerAdded
        <5>4. QED
          BY <3>1, <5>2, <5>3
      <4>2. 0 .. Len(items) - 1 \subseteq sent /\ sent \subseteq 0 .. Len(items)
        <5>1. \A n \in 0 .. Len(items) - 1 : n \in 0 .. L - 1 \/ n = L
          BY <2>1, <2>4
        <5>2. \A n \in 0 .. L : n \in 0 .. Len(items)
          BY <2>1, <2>4
        <5>3. QED
          BY <2>2, <5>1, <5>2
      <4>3. UNCHANGED <<upload, plans, sent>>
        BY <1>1 DEF agentVars
      <4>4. QED
        BY <2>2, <2>3, <2>4, <3>2, <4>1, <4>2, <4>3 DEF TransferIsCurrent, Plan
    <3>5. ReportIsTrue'
      BY <1>1, <2>7 DEF UploadsApart, ReportIsTrue, Plan, Whole, agentVars
    <3>6. QED
      BY <1>1, <2>1, <2>5, <2>7, <3>1, <3>3, <3>4, <3>5, AnswersStayApart
  <2>8. CASE rx' = NoTransfer /\ up' = Append(up, AckMsg(Refused)) /\ UNCHANGED onboard
    <3>1. ~rx'.on
      BY <2>8 DEF NoTransfer
    <3>2. QED
      BY <1>1, <2>8, <3>1, QuietRefusal
  <2>9. QED
    BY <1>3, <2>3, <2>6, <2>7, <2>8 DEF ApReceiveItem
<1>4. QED
  BY <1>2, <1>3

LEMMA QuietRepeat ==
  ASSUME TypeOK, TypeOK', UploadsApart, ApRepeatRequest
  PROVE  UploadsApart'
<1>1. /\ rx.on /\ up' = Append(up, RequestMsg(Len(rx.items)))
      /\ UNCHANGED <<agentVars, down, rx, onboard>>
  BY DEF ApRepeatRequest
<1>2. Len(rx.items) \in Nat /\ pc \notin {"idle", "announce"}
  BY <1>1 DEF UploadsApart, BetweenUploads, TypeOK
<1>3. /\ RequestMsg(Len(rx.items)) \in UpMsg
      /\ RequestMsg(Len(rx.items)).t = "REQUEST"
      /\ RequestMsg(Len(rx.items)).seq = Len(rx.items)
  BY <1>2, MessageTypes, KindsOfMessages
<1>4. AnswerIsLast'
  BY <1>1, <1>3, OneMoreComesUp DEF UploadsApart, agentVars
<1>5. AnnouncedLast'
  BY <1>1 DEF UploadsApart, AnnouncedLast
<1>6. TransferIsCurrent'
  <2>1. \A j \in 1 .. Len(up') : up'[j].t = "REQUEST" => up'[j].seq <= Len(rx.items)
    BY <1>1, <1>2, <1>3, AnswerAdded DEF UploadsApart, TransferIsCurrent
  <2>2. QED
    BY <1>1, <2>1 DEF UploadsApart, TransferIsCurrent, Plan, agentVars
<1>7. ReportIsTrue'
  BY <1>1 DEF UploadsApart, ReportIsTrue, Plan, Whole, agentVars
<1>8. QED
  BY <1>1, <1>2, <1>3, <1>4, <1>5, <1>6, <1>7, AnswersStayApart

LEMMA QuietNext ==
  ASSUME QuietLink, TypeOK, TypeOK', UploadsApart, [Next]_vars
  PROVE  UploadsApart'
<1>1. ASSUME NEW p \in Plans, TakeUp(p)
      PROVE  UploadsApart'
  BY <1>1, QuietTakeUp DEF QuietLink
<1>2. CASE Announce
  BY <1>2, QuietAnnounce DEF QuietLink
<1>3. CASE AnswerRequest
  BY <1>3, QuietAnswer DEF QuietLink
\* The steps that tell nothing new and leave mission and autopilot alone.
<1>a. ASSUME UNCHANGED <<upload, plans, sent, report, apVars>>,
             down' = down \/ (down # <<>> /\ down' = Tail(down)),
             up' = up \/ (up # <<>> /\ up' = Tail(up)),
             pc' = pc \/ (pc = "progress" /\ pc' \in {"request", "ack"})
      PROVE  UploadsApart'
  <2>1. ReportIsTrue'
    BY <1>a DEF UploadsApart, ReportIsTrue, Plan, Whole, apVars
  <2>2. QED
    BY <1>a, <2>1, FewerStayApart
<1>4. CASE ProgressPublished
  BY <1>4, <1>a DEF ProgressPublished
<1>5. CASE PublishFails
  BY <1>5 DEF PublishFails, QuietLink
<1>6. CASE ReceiveAck
  BY <1>6, QuietAcknowledged DEF QuietLink
<1>7. CASE DropUnawaited
  BY <1>7, <1>a DEF DropUnawaited, agentVars
<1>8. CASE Timeout
  <2>1. /\ pc \in {"request", "ack"} /\ pc' = "idle" /\ down = <<>> /\ up = <<>> /\ ~rx.on
        /\ report' = [report EXCEPT ![upload] = "failed"]
        /\ UNCHANGED <<upload, plans, sent, down, up, apVars>>
    BY <1>8 DEF Timeout, Quiet, QuietLink, Finish
  <2>2. upload \in Uploads
    BY <2>1, BoundsAssumption DEF TypeOK, Uploads
  <2>3. ReportIsTrue'
    BY <2>1, <2>2 DEF UploadsApart, ReportIsTrue, Plan, Whole, apVars, TypeOK
  <2>4. QED
    BY <2>1, <2>3, FewerStayApart
<1>9. CASE ApReceiveClear
  BY <1>9, QuietClear
<1>10. CASE ApReceiveCount
  BY <1>10, QuietCount
<1>11. CASE ApReceiveItem
  BY <1>11, QuietItem
<1>12. CASE ApRepeatRequest
  BY <1>12, QuietRepeat
<1>13. CASE ApGiveUp
  <2>1. ~rx'.on
    BY <1>13 DEF ApGiveUp, NoTransfer
  <2>2. QED
    BY <1>13, <2>1, QuietRefusal DEF ApGiveUp
<1>14. CASE Lose
  BY <1>14, <1>a DEF Lose, agentVars
<1>15. CASE UNCHANGED vars
  BY <1>15, <1>a DEF vars, agentVars
<1>16. QED
  BY <1>1, <1>2, <1>3, <1>4, <1>5, <1>6, <1>7, <1>8, <1>9, <1>10, <1>11,
     <1>12, <1>13, <1>14, <1>15 DEF Next, Agent, Autopilot

\* Where nothing fails and 30 s are enough, uploads do not mix, however many
\* there are and however many messages are lost or requests repeated: no item,
\* request or consent of one is taken for one of the next
\* (mission_uploader.py:113-225, mavlink_reader.py).
THEOREM QuietUploadsApart ==
  ASSUME QuietLink
  PROVE  Spec => []UploadsApart
<1>1. Init => UploadsApart
  BY QuietInit
<1>2. TypeOK /\ TypeOK' /\ UploadsApart /\ [Next]_vars => UploadsApart'
  BY QuietNext
<1>3. QED
  BY <1>1, <1>2, TypeCorrect, PTL DEF Spec

\* And so every UPLOADED is true, not only the first.
THEOREM QuietUploadsAreOnboard ==
  ASSUME QuietLink
  PROVE  Spec => []UploadedIsOnboard
<1>1. UploadsApart => UploadedIsOnboard
  BY DEF UploadsApart, ReportIsTrue, UploadedIsOnboard
<1>2. QED
  BY <1>1, QuietUploadsApart, PTL

-----------------------------------------------------------------------------
(* Refinement, for any number of uploads.                                  *)

LEMMA HeldIsKnown ==
  ASSUME TypeOK, UploadsApart
  PROVE  /\ Held \in 0 .. upload
         /\ \A u \in 1 .. upload : onboard = Whole(u) /\ onboard # <<>> => Held = u
<1>1. onboard # <<>> => onboard[1] \in Uploads /\ 1 \in 1 .. Len(onboard)
  BY DEF TypeOK
<1>2. onboard # <<>> => onboard[1] \in 1 .. upload
  BY <1>1, BoundsAssumption DEF UploadsApart, ReportIsTrue, Uploads, TypeOK
<1>3. upload \in Nat
  BY BoundsAssumption DEF TypeOK
<1>4. ASSUME NEW u \in 1 .. upload, onboard = Whole(u), onboard # <<>>
      PROVE  Held = u
  <2>1. onboard[1] = u
    <3>1. 1 \in 1 .. Len(plans[u])
      BY <1>1, <1>3, <1>4 DEF Whole, Uploads, TypeOK
    <3>2. QED
      BY <1>4, <3>1 DEF Whole
  <2>2. QED
    BY <1>4, <2>1 DEF Held
<1>5. Held \in 0 .. upload
  BY <1>2, <1>3 DEF Held
<1>6. QED
  BY <1>4, <1>5

LEMMA HeldIsKnownNext ==
  ASSUME TypeOK', UploadsApart'
  PROVE  Held' \in 0 .. upload'
<1>1. onboard' # <<>> => onboard'[1] \in Uploads /\ 1 \in 1 .. Len(onboard')
  BY DEF TypeOK
<1>2. onboard' # <<>> => onboard'[1] \in 1 .. upload'
  BY <1>1, BoundsAssumption DEF UploadsApart, ReportIsTrue, Uploads, TypeOK
<1>3. upload' \in Nat
  BY BoundsAssumption DEF TypeOK
<1>4. QED
  BY <1>2, <1>3 DEF Held

LEMMA QuietContractStep ==
  ASSUME QuietLink, TypeOK, TypeOK', UploadsApart, UploadsApart', [Next]_vars
  PROVE  [Contract!Next]_(Contract!vars)
<1>a. /\ upload \in Nat
      /\ pc # "idle" => upload \in Uploads /\ upload > 0 /\ Contract!UnderWay /\ Len(Plan) > 0
      /\ pc = "idle" => ~Contract!UnderWay
  <2>1. upload \in Nat
    BY BoundsAssumption DEF TypeOK
  <2>2. pc # "idle" => upload > 0 /\ upload \in Uploads
    BY <2>1 DEF TypeOK, Uploads
  <2>3. pc # "idle" => report[upload] = "uploading" /\ Len(Plan) > 0
    BY <2>2 DEF UploadsApart, ReportIsTrue
  <2>4. pc = "idle" => ~(upload > 0 /\ report[upload] = "uploading")
    BY DEF UploadsApart, ReportIsTrue
  <2>5. QED
    BY <2>1, <2>2, <2>3, <2>4 DEF Contract!UnderWay
<1>b. ASSUME UNCHANGED <<upload, plans, onboard>>
      PROVE  Held' = Held
  BY <1>b DEF Held, Whole
\* The agent's steps after which the cloud has been told nothing new.
<1>c. ASSUME UNCHANGED <<upload, plans, report, onboard>>
      PROVE  [Contract!Next]_(Contract!vars)
  BY <1>b, <1>c DEF Contract!vars
\* The steps that end the upload.
<1>d. ASSUME UNCHANGED <<upload, plans, onboard>>, pc # "idle", NEW status,
             status = "failed" \/ (status = "uploaded" /\ onboard = Whole(upload)),
             report' = [report EXCEPT ![upload] = status]
      PROVE  Contract!Next
  <2>1. status = "uploaded" => Held = upload
    <3> SUFFICES ASSUME onboard = Whole(upload)
                 PROVE  Held = upload
      BY <1>d
    <3>1. upload \in 1 .. upload /\ plans[upload] \in Seq(Nat) /\ Len(plans[upload]) > 0
      BY <1>a, <1>d DEF Plan, TypeOK
    <3>2. 1 \in DOMAIN Whole(upload)
      BY <3>1 DEF Whole
    <3>3. onboard # <<>>
      BY <3>2
    <3>4. QED
      BY <3>1, <3>3, HeldIsKnown
  <2>2. Contract!Conclude
    BY <1>a, <1>b, <1>d, <2>1 DEF Contract!Conclude
  <2>3. QED
    BY <2>2 DEF Contract!Next
\* The autopilot's steps.
<1>e. ASSUME UNCHANGED agentVars
      PROVE  [Contract!Next]_(Contract!vars)
  <2>1. CASE upload = 0
    <3>1. Held = 0 /\ Held' = 0
      BY <1>e, <2>1, HeldIsKnown, HeldIsKnownNext DEF agentVars
    <3>2. QED
      BY <1>e, <3>1 DEF agentVars, Contract!vars
  <2>2. CASE upload > 0 /\ report[upload] = "uploaded"
    <3>1. onboard = Whole(upload) /\ onboard' = Whole(upload)
      BY <1>e, <2>2 DEF agentVars, UploadsApart, ReportIsTrue, Whole
    <3>2. QED
      BY <1>c, <1>e, <3>1 DEF agentVars
  <2>3. CASE upload > 0 /\ report[upload] # "uploaded"
    <3>1. Held' \in 0 .. upload
      BY <1>e, HeldIsKnownNext DEF agentVars
    <3>2. Contract!VehicleChanges
      BY <1>e, <2>3, <3>1 DEF agentVars, Contract!VehicleChanges
    <3>3. QED
      BY <3>2 DEF Contract!Next
  <2>4. QED
    BY <1>a, <2>1, <2>2, <2>3
<1>1. ASSUME NEW p \in Plans, TakeUp(p)
      PROVE  Contract!Next
  <2>1. /\ pc = "idle" /\ upload < MaxUploads /\ upload' = upload + 1
        /\ plans' = [plans EXCEPT ![upload + 1] = p] /\ UNCHANGED onboard
    BY <1>1 DEF TakeUp
  <2>2. \E r \in {"uploading", "failed", "abandoned"} :
           report' = [report EXCEPT ![upload + 1] = r]
    BY <1>1 DEF TakeUp, Finish
  <2>3. Held' = Held
    <3>1. \A u \in 1 .. upload : Whole(u)' = Whole(u)
      <4>1. \A u \in 1 .. upload : plans'[u] = plans[u]
        BY <1>a, <2>1, BoundsAssumption DEF TypeOK, Uploads
      <4>2. QED
        BY <4>1 DEF Whole
    <3>2. ASSUME NEW n, n = upload + 1, onboard # <<>>
          PROVE  onboard # Whole(n)'
      <4> SUFFICES ASSUME onboard = Whole(n)'
                   PROVE  FALSE
        OBVIOUS
      <4>1. onboard \in Seq(Uploads)
        BY DEF TypeOK
      <4>a. 1 \in 1 .. Len(onboard) /\ 1 \in DOMAIN onboard
        BY <3>2, <4>1
      <4>2. onboard[1] = upload + 1
        BY <3>2, <4>a DEF Whole
      <4>3. onboard[1] <= upload
        BY <4>a DEF UploadsApart, ReportIsTrue
      <4>4. QED
        BY <1>a, <4>2, <4>3
    <3>3. \A u \in 1 .. upload + 1 : u \in 1 .. upload \/ u = upload + 1
      BY <1>a
    <3>4. \A u \in 1 .. upload : u \in 1 .. upload + 1
      BY <1>a
    <3>5. onboard # <<>> => ((\E u \in 1 .. upload + 1 : onboard = Whole(u)')
                              <=> \E u \in 1 .. upload : onboard = Whole(u))
      BY <3>1, <3>2, <3>3, <3>4
    <3>6. QED
      BY <2>1, <3>5 DEF Held
  <2>4. Contract!TakeUp
    BY <1>a, <2>1, <2>2, <2>3 DEF Contract!TakeUp
  <2>5. QED
    BY <2>4 DEF Contract!Next
<1>2. CASE Announce
  BY <1>2, <1>c DEF Announce, apVars, QuietLink
<1>3. CASE AnswerRequest
  BY <1>3, <1>c DEF AnswerRequest, apVars, QuietLink
<1>4. CASE ProgressPublished
  BY <1>4, <1>c DEF ProgressPublished, apVars
<1>5. CASE PublishFails
  BY <1>5 DEF PublishFails, QuietLink
<1>6. CASE ReceiveAck
  <2>1. PICK status : /\ status \in {"uploaded", "failed"}
                      /\ report' = [report EXCEPT ![upload] = status]
    BY <1>6 DEF ReceiveAck, Finish, QuietLink
  <2>2. pc # "idle" /\ UNCHANGED <<upload, plans, onboard>>
    BY <1>6 DEF ReceiveAck, apVars
  <2>3. report'[upload] = status
    BY <1>a, <2>1, <2>2 DEF TypeOK
  <2>4. status = "uploaded" => onboard = Whole(upload)
    BY <1>a, <2>2, <2>3 DEF UploadsApart, ReportIsTrue, Whole
  <2>5. QED
    BY <1>d, <2>1, <2>2, <2>4
<1>7. CASE DropUnawaited
  BY <1>7, <1>c DEF DropUnawaited, agentVars, apVars
<1>8. CASE Timeout
  BY <1>8, <1>d DEF Timeout, Finish, QuietLink, apVars
<1>9. CASE Autopilot
  BY <1>9, <1>e DEF Autopilot, ApReceiveClear, ApReceiveCount, ApReceiveItem,
                    ApRepeatRequest, ApGiveUp
<1>10. CASE Lose
  BY <1>10, <1>c DEF Lose, agentVars, apVars
<1>11. CASE UNCHANGED vars
  BY <1>11, <1>c DEF vars, agentVars, apVars
<1>12. QED
  BY <1>1, <1>2, <1>3, <1>4, <1>5, <1>6, <1>7, <1>8, <1>9, <1>10, <1>11 DEF Next, Agent

\* Under the same conditions the agent implements UploadContract for any
\* number of uploads: statuses come in order, and from UPLOADED on the vehicle
\* holds that mission until the next upload is taken up.
THEOREM QuietUploadsKeepContract ==
  ASSUME QuietLink
  PROVE  Spec => ImplementsContract
<1>1. Init => Contract!Init
  <2>1. Init => Held = 0
    BY DEF Init, Held
  <2>2. QED
    BY <2>1 DEF Init, Contract!Init, Contract!Uploads, Uploads
<1>2. TypeOK /\ TypeOK' /\ UploadsApart /\ UploadsApart' /\ [Next]_vars
        => [Contract!Next]_(Contract!vars)
  BY QuietContractStep
<1>3. QED
  BY <1>1, <1>2, TypeCorrect, QuietUploadsApart, PTL
     DEF Spec, ImplementsContract, Contract!Spec
=============================================================================
