--------------------------- MODULE PlannerProofs ----------------------------
(***************************************************************************)
(* What holds of the mission planner: the list of missions is what the     *)
(* database has, the route on the screen is the selected mission's, and    *)
(* there is one transfer at a time, for any number of missions, vehicles,  *)
(* handlers and clicks, any order of the answers and any of them lost.     *)
(*                                                                         *)
(* The induction rests on what is on its way: every request of the stage a *)
(* handler is at is asked or answered, once, and nothing else is.  Who     *)
(* changes the selection or the screen is one handler at a time, unless    *)
(* the behaviour strayed, and until its last stage the screen fits what is *)
(* selected.  And the list, once the answers under way are taken in, is    *)
(* the database's, or will be read again.                                  *)
(***************************************************************************)
EXTENDS MissionPlanner, StoreProofs
LOCAL INSTANCE SequencesExt

-----------------------------------------------------------------------------
(* Plans.                                                                  *)

IsGet(q) == q.op = "get" /\ \E m : q.of = {m}
IsList(q) == q.op = "list"
IsEdit(q) == q.op \notin {"get", "list", "upload", "download"} /\ (q.op = "delete" => q.route = 0 /\ q.to = {})
Transfers(S) ==
  S # {} /\ ((\A q \in S : q.op = "upload") \/ \E q : S = {q} /\ q.op = "download")

\* One request; or a transfer, the list, and the mission that was transferred.
PlanShape(p) ==
  \/ \E q : p = <<{q}>> /\ (IsEdit(q) \/ IsGet(q))
  \/ \E l, g : p = <<{l}, {g}>> /\ IsList(l) /\ IsGet(g)
  \/ \E S, l, g : p = <<S, {l}, {g}>> /\ Transfers(S) /\ IsList(l) /\ IsGet(g)

JobFields == {"state", "plan", "closes", "flag", "selects", "clears"}

JobShape(j) ==
  /\ JobFields \subseteq DOMAIN j
  /\ j.state = "running" => PlanShape(j.plan)
  /\ j.state # "running" => j.flag = {}
  /\ j.selects = {} \/ \E m : j.selects = {m}

LEMMA Stages1 == ASSUME NEW a PROVE Head(<<a>>) = a /\ Len(<<a>>) = 1 /\ <<a>>[1] = a
OBVIOUS

LEMMA Stages2 == ASSUME NEW a, NEW b
                 PROVE  Head(<<a, b>>) = a /\ Tail(<<a, b>>) = <<b>> /\ Len(<<a, b>>) = 2
OBVIOUS

LEMMA Stages3 == ASSUME NEW a, NEW b, NEW c
                 PROVE  /\ Head(<<a, b, c>>) = a /\ Len(<<a, b, c>>) = 3
                        /\ Tail(<<a, b, c>>) = <<b, c>>
<1>1. Head(<<a, b, c>>) = a /\ Len(<<a, b, c>>) = 3
  OBVIOUS
<1>2. PICK p : p = <<a, b, c>>
  OBVIOUS
<1>3. PICK V : V = {a, b, c}
  OBVIOUS
<1>4. p \in Seq(V) /\ Len(p) = 3 /\ p[2] = b /\ p[3] = c
  BY <1>2, <1>3
<1>5. p # <<>>
  BY <1>4
<1>6. PICK r : r = Tail(p)
  OBVIOUS
<1>7. r \in Seq(V) /\ Len(r) = 2 /\ r[1] = b /\ r[2] = c
  <2>1. r \in Seq(V) /\ Len(r) = Len(p) - 1 /\ \A i \in 1..Len(r) : r[i] = p[i + 1]
    BY <1>4, <1>5, <1>6, HeadTailProperties, Zenon
  <2>2. Len(r) = 2 /\ r[1] = p[2] /\ r[2] = p[3]
    BY <1>4, <2>1
  <2>3. QED
    BY <1>4, <2>1, <2>2
<1>8. r = <<b, c>>
  BY <1>7
<1>9. QED
  BY <1>1, <1>2, <1>6, <1>8

LEMMA FirstStage == ASSUME NEW a, NEW b, NEW c, NEW d
                    PROVE  [<<a, b, c>> EXCEPT ![1] = d] = <<d, b, c>>
OBVIOUS

\* A stage that gets a mission is among the stages to come.
GetsAny(p) == \E i \in DOMAIN p : \E q \in p[i] : q.op = "get"

LEMMA GetsOne == ASSUME NEW q PROVE GetsAny(<<{q}>>) <=> q.op = "get"
<1>1. DOMAIN <<{q}>> = {1} /\ <<{q}>>[1] = {q}
  OBVIOUS
<1>2. QED
  BY <1>1 DEF GetsAny

LEMMA GetsTwo == ASSUME NEW S, NEW g, g.op = "get" PROVE GetsAny(<<S, {g}>>)
<1>1. 2 \in DOMAIN <<S, {g}>> /\ <<S, {g}>>[2] = {g}
  OBVIOUS
<1>2. QED
  BY <1>1 DEF GetsAny

LEMMA GetsThree == ASSUME NEW R, NEW S, NEW g, g.op = "get" PROVE GetsAny(<<R, S, {g}>>)
<1>1. 3 \in DOMAIN <<R, S, {g}>> /\ <<R, S, {g}>>[3] = {g}
  OBVIOUS
<1>2. QED
  BY <1>1 DEF GetsAny

\* The plan of a request that is awaited.
LEMMA PlanOfRequest ==
  ASSUME NEW p, PlanShape(p), NEW q \in Head(p)
  PROVE  \/ p = <<{q}>> /\ IsEdit(q)
         \/ p = <<{q}>> /\ IsGet(q)
         \/ \E g : p = <<{q}, {g}>> /\ IsList(q) /\ IsGet(g)
         \/ \E S, l, g : p = <<S, {l}, {g}>> /\ q \in S /\ Transfers(S) /\ IsList(l) /\ IsGet(g)
<1>1. CASE \E e : p = <<{e}>> /\ (IsEdit(e) \/ IsGet(e))
  BY <1>1, Stages1
<1>2. CASE \E l, g : p = <<{l}, {g}>> /\ IsList(l) /\ IsGet(g)
  BY <1>2, Stages2
<1>3. CASE \E S, l, g : p = <<S, {l}, {g}>> /\ Transfers(S) /\ IsList(l) /\ IsGet(g)
  BY <1>3, Stages3
<1>4. QED
  BY <1>1, <1>2, <1>3 DEF PlanShape

LEMMA HeadNotEmpty == ASSUME NEW p, PlanShape(p) PROVE Head(p) # {}
<1>1. CASE \E e : p = <<{e}>>
  BY <1>1, Stages1
<1>2. CASE \E l, g : p = <<{l}, {g}>>
  BY <1>2, Stages2
<1>3. CASE \E S, l, g : p = <<S, {l}, {g}>> /\ Transfers(S)
  BY <1>3, Stages3 DEF Transfers
<1>4. QED
  BY <1>1, <1>2, <1>3 DEF PlanShape

LEMMA EndedFields ==
  ASSUME NEW s
  PROVE  /\ JobFields \subseteq DOMAIN Ended(s)
         /\ Ended(s).state = s /\ Ended(s).plan = <<>> /\ Ended(s).flag = {}
         /\ Ended(s).selects = {} /\ Ended(s).clears = FALSE
BY DEF Ended, JobFields

LEMMA PlannedFields ==
  ASSUME NEW p, PlanShape(p)
  PROVE  /\ JobShape(Planned(p)) /\ Planned(p).state = "running" /\ Planned(p).plan = p
         /\ Planned(p).flag = {} /\ Planned(p).selects = {} /\ Planned(p).clears = FALSE
<1>1. PICK e : e = Ended("running")
  OBVIOUS
<1>2. Planned(p) = [e EXCEPT !.plan = p]
  BY <1>1 DEF Planned
<1>3. JobFields \subseteq DOMAIN e /\ e.state = "running" /\ e.flag = {} /\ e.selects = {} /\ e.clears = FALSE
  BY <1>1, EndedFields
<1>4. QED
  BY <1>2, <1>3 DEF JobFields, JobShape

LEMMA EndedShape == ASSUME NEW s, s # "running" PROVE JobShape(Ended(s)) /\ ~ Moves(Ended(s))
BY EndedFields DEF JobShape, Moves

-----------------------------------------------------------------------------
(* The invariant.                                                          *)

PlannerShape ==
  /\ DOMAIN job = Jobs /\ \A r \in Jobs : JobShape(job[r])
  /\ JobShape(question) /\ question.state \in {"idle", "running"}
  /\ question.state = "running" => dialog.shown = "none"
  /\ IsSeq(replies)
  /\ selectedMissionId = {} \/ \E m : selectedMissionId = {m}

\* Who asked awaits the answer; a list of the page itself, nobody.
Awaited(jobs, c) ==
  \/ c.by = 0 /\ c.q.op = "list"
  \/ c.by \in Jobs /\ jobs[c.by].state = "running" /\ c.q \in Head(jobs[c.by].plan)

Same(c, d) == c.by = d.by /\ c.q = d.q

\* What is awaited is on its way, once.
OnItsWay ==
  /\ \A c \in asked : Awaited(job, c)
  /\ \A i \in 1..Len(replies) : Awaited(job, replies[i].call)
  /\ \A c, d \in asked : Same(c, d) => c = d \/ c.by = 0
  /\ \A i, j \in 1..Len(replies) :
       Same(replies[i].call, replies[j].call) => i = j \/ replies[i].call.by = 0
  /\ \A c \in asked, i \in 1..Len(replies) : Same(c, replies[i].call) => c.by = 0
  /\ \A r \in Jobs : job[r].state = "running" =>
       \A q \in Head(job[r].plan) :
         \/ \E c \in asked : c.by = r /\ c.q = q
         \/ \E i \in 1..Len(replies) : replies[i].call.by = r /\ replies[i].call.q = q

\* The upload that is to be confirmed is none of those under way.
TransfersApart == OneTransfer /\ question.flag \cap busy = {}

\* The mission that will be selected when its mission is got.
Destination(j, sel) == IF j.selects = {} THEN sel ELSE j.selects

\* The screen fits the selection until the last stage, which gets what is selected.
GoodMove(j, sel, b) ==
  \/ \E g : j.plan = <<{g}>> /\ g.op = "get" /\ g.of = sel
  \/ b = sel /\ \E q : j.plan = <<{q}>> /\ q.op # "get"
  \/ b = sel /\ \E S, g : j.plan = <<S, {g}>> /\ g.of = Destination(j, sel)
  \/ b = sel /\ \E R, S, g : j.plan = <<R, S, {g}>> /\ g.of = Destination(j, sel)

OneMover == ~ strayed =>
  /\ \A r, s \in Jobs : Moves(job[r]) /\ Moves(job[s]) => r = s
  /\ Moves(question) =>
       GoodMove(question, selectedMissionId, base) /\ \A r \in Jobs : ~ Moves(job[r])
  /\ \A r \in Jobs : Moves(job[r]) => GoodMove(job[r], selectedMissionId, base)
  /\ (\A r \in Jobs : ~ Moves(job[r])) => base = selectedMissionId

-----------------------------------------------------------------------------
(* What the answer to a handler makes of it.                               *)

HandlerEnds(r, s) ==
  /\ s # "running" /\ job' = [job EXCEPT ![r] = Ended(s)]
  /\ busy' = busy \ job[r].flag /\ asked' = asked

Proceeding(r, plan, selects) ==
  /\ busy' = busy
  /\ \E j : /\ job' = [job EXCEPT ![r] = j] /\ JobShape(j) /\ j.state = "running"
            /\ j.plan = plan /\ j.selects = selects
            /\ j.flag = job[r].flag /\ j.clears = job[r].clears

Still == selectedMissionId' = selectedMissionId /\ base' = base

Finishing(r) ==
  IF job[r].clears THEN selectedMissionId' = {} /\ base' = {}
  ELSE IF job[r].selects # {} THEN selectedMissionId' = job[r].selects /\ base' = job[r].selects
  ELSE Still

Outcome(r, q, p, ok) ==
  \/ /\ p = <<{q}>> /\ IsGet(q)
     /\ HandlerEnds(r, "done") /\ selectedMissionId' = selectedMissionId
     /\ IF ok THEN base' = q.of ELSE strayed'
  \/ /\ ~ ok /\ HandlerEnds(r, "failed") /\ Still
     /\ \/ p = <<{q}>> /\ IsEdit(q)
        \/ q.op = "download" /\ \E l, g : p = <<{q}, {l}, {g}>>
  \/ /\ ok /\ p = <<{q}>> /\ IsEdit(q) /\ HandlerEnds(r, "done") /\ Finishing(r)
  \/ \E S, R, l, g :
       /\ p = <<S, {l}, {g}>> /\ R = S \ {q} /\ R # {} /\ g.op = "get" /\ q.op = "upload"
       /\ Proceeding(r, <<R, {l}, {g}>>, job[r].selects) /\ asked' = asked /\ Still
  \/ \E l, g :
       /\ p = <<{q}, {l}, {g}>> /\ g.op = "get" /\ l.op = "list"
       /\ q.op \in {"upload", "download"} /\ (q.op = "download" => ok)
       /\ Proceeding(r, <<{l}, {g}>>, job[r].selects)
       /\ asked' = asked \cup {[by |-> r, q |-> l]} /\ Still
  \/ \E g :
       /\ p = <<{q}, {g}>> /\ g.op = "get" /\ q.op = "list"
       /\ Proceeding(r, <<{g}>>, {})
       /\ asked' = asked \cup {[by |-> r, q |-> g]}
       /\ selectedMissionId' = Destination(job[r], selectedMissionId) /\ base' = base

LEMMA TakeOutcome ==
  ASSUME PlannerShape, OnItsWay, NEW i \in 1..Len(replies), Takes(i),
         NEW a, a = replies[i], NEW r, r = a.call.by, NEW q, q = a.call.q, r # 0
  PROVE  /\ r \in Jobs /\ job[r].state = "running" /\ q \in Head(job[r].plan)
         /\ Outcome(r, q, job[r].plan, a.ok)
<1>1. r \in Jobs /\ job[r].state = "running" /\ q \in Head(job[r].plan)
  BY DEF OnItsWay, Awaited
<1>2. PICK p : p = job[r].plan
  OBVIOUS
<1>3. PICK j : j = job[r]
  OBVIOUS
<1>4. PlanShape(p) /\ q \in Head(p) /\ JobShape(j)
  BY <1>1, <1>2, <1>3 DEF PlannerShape, JobShape
<1>5. /\ q.op = "get" => fetchMission(a)
      /\ q.op # "get" => GoesOn(a)
      /\ strayed' = (strayed \/ (q.op = "get" /\ ~ a.ok))
  BY DEF Takes
<1>6. CASE p = <<{q}>> /\ IsGet(q)
  <2>1. HandlerEnds(r, "done") /\ selectedMissionId' = selectedMissionId
    BY <1>5, <1>6 DEF fetchMission, IsGet, HandlerEnds
  <2>2. a.ok => base' = q.of
    <3>1. PICK m : q.of = {m}
      BY <1>6 DEF IsGet
    <3>2. QED
      BY <1>5, <1>6, <3>1 DEF fetchMission, IsGet
  <2>3. ~ a.ok => strayed'
    BY <1>5, <1>6 DEF IsGet
  <2>4. QED
    BY <1>1, <1>2, <1>6, <2>1, <2>2, <2>3 DEF Outcome
<1>7. CASE p = <<{q}>> /\ IsEdit(q)
  <2>1. Head(p) \ {q} = {} /\ Len(p) = 1
    BY <1>7, Stages1
  <2>2. CASE ~ a.ok
    <3>1. Stops(r)
      BY <1>5, <1>7, <2>2 DEF GoesOn, IsEdit
    <3>2. HandlerEnds(r, "failed") /\ Still
      BY <3>1 DEF Stops, HandlerEnds, Still
    <3>3. QED
      BY SMTT(30), <1>1, <1>2, <1>7, <2>2, <3>2 DEF Outcome
  <2>3. CASE a.ok
    <3>1. Finishes(r)
      BY <1>2, <1>5, <1>7, <2>1, <2>3 DEF GoesOn, IsEdit
    <3>2. HandlerEnds(r, "done") /\ Finishing(r)
      BY <3>1 DEF Finishes, HandlerEnds, Finishing, Still
    <3>3. QED
      BY <1>1, <1>2, <1>7, <2>3, <3>2 DEF Outcome
  <2>4. QED
    BY <2>2, <2>3
<1>8. CASE \E g : p = <<{q}, {g}>> /\ IsList(q) /\ IsGet(g)
  <2>1. PICK g : p = <<{q}, {g}>> /\ IsList(q) /\ IsGet(g)
    BY <1>8
  <2>2. Head(p) \ {q} = {} /\ Len(p) = 2 /\ Tail(p) = <<{g}>> /\ Len(<<{g}>>) = 1 /\ Head(<<{g}>>) = {g}
    BY <2>1, Stages1, Stages2
  <2>3. Advances(r, <<{g}>>)
    BY <1>2, <1>5, <2>1, <2>2 DEF GoesOn, IsList
  <2>4. PICK k : k = [j EXCEPT !.plan = <<{g}>>, !.selects = {}]
    OBVIOUS
  <2>5. JobFields \subseteq DOMAIN k /\ k.state = j.state /\ k.plan = <<{g}>> /\ k.selects = {}
        /\ k.flag = j.flag /\ k.clears = j.clears
    BY <1>4, <2>4 DEF JobShape, JobFields
  <2>6. JobShape(k) /\ k.state = "running"
    BY <1>1, <1>3, <1>4, <2>1, <2>5 DEF JobShape, PlanShape
  <2>7. Proceeding(r, <<{g}>>, {})
    BY <1>3, <2>2, <2>3, <2>4, <2>5, <2>6 DEF Advances, Proceeding
  <2>8. asked' = asked \cup {[by |-> r, q |-> g]}
    BY <2>2, <2>3 DEF Advances
  <2>9. selectedMissionId' = Destination(job[r], selectedMissionId) /\ base' = base
    BY <2>2, <2>3 DEF Advances, Destination
  <2>10. QED
    BY <1>1, <1>2, <2>1, <2>7, <2>8, <2>9 DEF Outcome, IsGet, IsList
<1>9. CASE \E S, l, g : p = <<S, {l}, {g}>> /\ q \in S /\ Transfers(S) /\ IsList(l) /\ IsGet(g)
  <2>1. PICK S, l, g : p = <<S, {l}, {g}>> /\ q \in S /\ Transfers(S) /\ IsList(l) /\ IsGet(g)
    BY <1>9
  <2>2. Head(p) = S /\ Len(p) = 3 /\ Tail(p) = <<{l}, {g}>> /\ Len(<<{l}, {g}>>) = 2 /\ Head(<<{l}, {g}>>) = {l}
    BY <2>1, Stages2, Stages3
  <2>3. q.op = "upload" \/ (S = {q} /\ q.op = "download")
    BY <2>1 DEF Transfers
  <2>4. CASE ~ a.ok /\ q.op = "download"
    <3>1. Stops(r) /\ S = {q}
      BY <1>5, <2>3, <2>4 DEF GoesOn
    <3>2. HandlerEnds(r, "failed") /\ Still
      BY <3>1 DEF Stops, HandlerEnds, Still
    <3>3. QED
      BY <1>1, <1>2, <2>1, <2>4, <3>1, <3>2 DEF Outcome
  <2>5. CASE S \ {q} # {}
    <3>1. q.op = "upload"
      BY SMTT(30), <2>3, <2>5
    <3>2. job' = [job EXCEPT ![r] = [j EXCEPT !.plan = [@ EXCEPT ![1] = S \ {q}]]] /\ busy' = busy /\ asked' = asked /\ Still
      BY <1>2, <1>3, <1>5, <2>2, <2>5, <3>1 DEF GoesOn, Still
    <3>3. [p EXCEPT ![1] = S \ {q}] = <<S \ {q}, {l}, {g}>>
      BY <2>1, FirstStage
    <3>4. PICK k : k = [j EXCEPT !.plan = [@ EXCEPT ![1] = S \ {q}]]
      OBVIOUS
    <3>5. JobFields \subseteq DOMAIN k /\ k.state = j.state /\ k.plan = [j.plan EXCEPT ![1] = S \ {q}] /\ k.selects = j.selects
          /\ k.flag = j.flag /\ k.clears = j.clears
      BY <1>4, <3>4 DEF JobShape, JobFields
    <3>6. Transfers(S \ {q})
      BY <2>1, <2>5, <3>1 DEF Transfers
    <3>61. k.state = "running" /\ k.plan = <<S \ {q}, {l}, {g}>>
      BY <1>1, <1>2, <1>3, <3>3, <3>5
    <3>62. PlanShape(k.plan)
      BY <2>1, <3>6, <3>61, Zenon DEF PlanShape
    <3>7. JobShape(k)
      BY <1>4, <3>5, <3>61, <3>62 DEF JobShape
    <3>8. Proceeding(r, <<S \ {q}, {l}, {g}>>, job[r].selects)
      BY <1>3, <3>2, <3>4, <3>5, <3>61, <3>7 DEF Proceeding
    <3>9. QED
      BY <1>1, <1>2, <2>1, <2>5, <3>1, <3>2, <3>8 DEF Outcome, IsGet
  <2>6. CASE ~ (~ a.ok /\ q.op = "download") /\ S \ {q} = {}
    <3>1. S = {q} /\ q.op \in {"upload", "download"}
      BY <2>1, <2>3, <2>6
    <3>11. ~ (~ a.ok /\ q.op \notin {"list", "get", "upload"}) /\ q.op # "get"
      BY <2>6, <3>1
    <3>12. Head(job[r].plan) \ {q} = {} /\ Len(job[r].plan) # 1 /\ Tail(job[r].plan) = <<{l}, {g}>>
      BY SMTT(30), <1>2, <2>2, <2>6
    <3>2. Advances(r, <<{l}, {g}>>)
      BY <1>5, <3>11, <3>12 DEF GoesOn
    <3>3. PICK k : k = [j EXCEPT !.plan = <<{l}, {g}>>, !.selects = j.selects]
      OBVIOUS
    <3>4. JobFields \subseteq DOMAIN k /\ k.state = j.state /\ k.plan = <<{l}, {g}>> /\ k.selects = j.selects
          /\ k.flag = j.flag /\ k.clears = j.clears
      BY <1>4, <3>3 DEF JobShape, JobFields
    <3>5. JobShape(k) /\ k.state = "running"
      BY <1>1, <1>3, <1>4, <2>1, <3>4 DEF JobShape, PlanShape
    <3>6. job' = [job EXCEPT ![r] = k] /\ busy' = busy
      BY <1>3, <2>2, <3>2, <3>3 DEF Advances
    <3>7. Proceeding(r, <<{l}, {g}>>, job[r].selects)
      BY <1>3, <3>4, <3>5, <3>6 DEF Proceeding
    <3>8. asked' = asked \cup {[by |-> r, q |-> l]} /\ Still
      BY <2>2, <3>2 DEF Advances, Still
    <3>9. QED
      <4>1. p = <<{q}, {l}, {g}>> /\ g.op = "get" /\ l.op = "list" /\ (q.op = "download" => a.ok)
        BY <2>1, <2>6, <3>1 DEF IsGet, IsList
      <4>2. QED
        BY <1>1, <1>2, <3>1, <3>7, <3>8, <4>1, Zenon DEF Outcome
  <2>7. QED
    BY <2>4, <2>5, <2>6
<1>10. QED
  BY <1>4, <1>6, <1>7, <1>8, <1>9, PlanOfRequest

\* A list the page asked for itself changes the list alone.
LEMMA TakeOwn ==
  ASSUME PlannerShape, OnItsWay, NEW i \in 1..Len(replies), Takes(i), replies[i].call.by = 0
  PROVE  /\ job' = job /\ busy' = busy /\ asked' = asked /\ Still
         /\ strayed' => strayed
<1>1. replies[i].call.q.op = "list"
  BY DEF OnItsWay, Awaited, Jobs
<1>2. GoesOn(replies[i])
  BY <1>1 DEF Takes
<1>3. strayed' => strayed
  BY <1>1 DEF Takes
<1>4. QED
  BY <1>2, <1>3 DEF GoesOn, Still

LEMMA TakeDialog ==
  ASSUME NEW i, Takes(i)
  PROVE  (dialog' = dialog \/ dialog' = NoDialog) /\ question' = question
<1>1. fetchMission(replies[i]) \/ GoesOn(replies[i])
  BY DEF Takes
<1>2. QED
  BY <1>1 DEF Takes, fetchMission, GoesOn, Stops, Finishes, Advances

\* One handler at most goes on, and it keeps its flag or gives it back.
LEMMA OneJobGoesOn ==
  ASSUME PlannerShape, NEW r \in Jobs, job[r].state = "running", NEW q, NEW ok, Outcome(r, q, job[r].plan, ok)
  PROVE  \E j :
    /\ job' = [job EXCEPT ![r] = j] /\ JobShape(j)
    /\ \/ j = Ended(j.state) /\ j.state # "running" /\ busy' = busy \ job[r].flag /\ asked' = asked
       \/ j.state = "running" /\ j.flag = job[r].flag /\ j.clears = job[r].clears /\ busy' = busy
<1>1. ASSUME NEW s, HandlerEnds(r, s)
      PROVE  /\ job' = [job EXCEPT ![r] = Ended(s)] /\ JobShape(Ended(s)) /\ Ended(s).state = s
             /\ s # "running" /\ busy' = busy \ job[r].flag /\ asked' = asked
  BY <1>1, EndedFields, EndedShape DEF HandlerEnds
<1>2. CASE HandlerEnds(r, "done") \/ HandlerEnds(r, "failed")
  BY <1>1, <1>2, Zenon
<1>3. ASSUME NEW plan, NEW sel, Proceeding(r, plan, sel)
      PROVE  \E j :
        /\ job' = [job EXCEPT ![r] = j] /\ JobShape(j)
        /\ j.state = "running" /\ j.flag = job[r].flag /\ j.clears = job[r].clears /\ busy' = busy
  BY <1>3 DEF Proceeding
<1>4. CASE \E plan, sel : Proceeding(r, plan, sel)
  BY <1>3, <1>4, Zenon
<1>5. QED
  BY <1>2, <1>4, Zenon DEF Outcome

LEMMA TakesShape ==
  ASSUME PlannerShape, OnItsWay, NEW i \in 1..Len(replies), Takes(i)
  PROVE  PlannerShape'
<1>1. PICK a : a = replies[i]
  OBVIOUS
<1>2. PICK r : r = a.call.by
  OBVIOUS
<1>3. PICK q : q = a.call.q
  OBVIOUS
<1>4. IsSeq(replies')
  BY RemainingElements DEF PlannerShape, Takes
<1>5. question' = question /\ (question.state = "running" => dialog'.shown = "none")
  BY TakeDialog DEF PlannerShape, NoDialog
<1>6. CASE r = 0
  BY <1>1, <1>2, <1>4, <1>5, <1>6, TakeOwn DEF PlannerShape, Still
<1>7. CASE r # 0
  <2>1. r \in Jobs /\ job[r].state = "running" /\ Outcome(r, q, job[r].plan, a.ok)
    BY <1>1, <1>2, <1>3, <1>7, TakeOutcome
  <2>2. PICK j : job' = [job EXCEPT ![r] = j] /\ JobShape(j)
    BY <2>1, OneJobGoesOn
  <2>3. DOMAIN job' = Jobs /\ \A s \in Jobs : JobShape(job'[s])
    BY <2>1, <2>2 DEF PlannerShape
  <2>4. JobShape(job[r])
    BY <2>1 DEF PlannerShape
  <2>5. selectedMissionId' \in {selectedMissionId, {}, job[r].selects}
    BY <2>1 DEF Outcome, Still, Finishing, Destination
  <2>6. selectedMissionId' = {} \/ \E m : selectedMissionId' = {m}
    BY <2>4, <2>5 DEF JobShape, PlannerShape
  <2>7. QED
    BY <1>4, <1>5, <2>3, <2>6 DEF PlannerShape
<1>8. QED
  BY <1>6, <1>7

LEMMA OthersRemain ==
  ASSUME NEW s, IsSeq(s), NEW i \in 1..Len(s), NEW r, r = RemoveAt(s, i)
  PROVE  /\ \A k \in 1..Len(r) : \E n \in 1..Len(s) :
              n # i /\ r[k] = s[n] /\ n = IF k < i THEN k ELSE k + 1
         /\ \A n \in 1..Len(s) : n # i => \E k \in 1..Len(r) : r[k] = s[n]
<1>1. /\ Len(s) \in Nat /\ Len(r) = Len(s) - 1
      /\ \A j \in 1..Len(r) : r[j] = IF j < i THEN s[j] ELSE s[j + 1]
  BY RemainingElements
<1>2. ASSUME NEW k \in 1..Len(r)
      PROVE  \E n \in 1..Len(s) : n # i /\ r[k] = s[n] /\ n = IF k < i THEN k ELSE k + 1
  <2>1. CASE k < i
    BY <1>1, <2>1
  <2>2. CASE ~ (k < i)
    <3>1. k + 1 \in 1..Len(s) /\ k + 1 # i /\ r[k] = s[k + 1]
      BY <1>1, <2>2
    <3>2. QED
      BY <2>2, <3>1
  <2>3. QED
    BY <2>1, <2>2
<1>3. ASSUME NEW n \in 1..Len(s), n # i
      PROVE  \E k \in 1..Len(r) : r[k] = s[n]
  <2>1. CASE n < i
    <3>1. n \in 1..Len(r) /\ r[n] = s[n]
      BY <1>1, <2>1
    <3>2. QED
      BY <3>1
  <2>2. CASE ~ (n < i)
    <3>1. n - 1 \in 1..Len(r) /\ ~ (n - 1 < i) /\ (n - 1) + 1 = n
      BY <1>1, <1>3, <2>2
    <3>2. r[n - 1] = s[n]
      BY <1>1, <3>1
    <3>3. QED
      BY <3>1, <3>2
  <2>3. QED
    BY <2>1, <2>2
<1>4. QED
  BY <1>2, <1>3

\* Its handler awaits what is left of the stage, or what it asks for then.
StageGoesOn(r, left, j, N) ==
  /\ job' = [job EXCEPT ![r] = j]
  /\ asked' = asked \cup {[by |-> r, q |-> e] : e \in N}
  /\ left = {} \/ N = {}
  /\ IF j.state = "running" THEN Head(j.plan) = left \cup N ELSE left \cup N = {}

LEMMA StageFollows ==
  ASSUME NEW r \in Jobs, NEW q, NEW ok, NEW H, H = Head(job[r].plan), Outcome(r, q, job[r].plan, ok)
  PROVE  \E j, N : StageGoesOn(r, H \ {q}, j, N)
<1>1. ASSUME H = {q}, NEW s, HandlerEnds(r, s)
      PROVE  \E j, N : StageGoesOn(r, H \ {q}, j, N)
  <2>1. Ended(s).state # "running"
    BY <1>1, EndedFields DEF HandlerEnds
  <2>2. StageGoesOn(r, H \ {q}, Ended(s), {})
    BY <1>1, <2>1 DEF HandlerEnds, StageGoesOn
  <2>3. QED
    BY <2>2
<1>2. CASE job[r].plan = <<{q}>> /\ (HandlerEnds(r, "done") \/ HandlerEnds(r, "failed"))
  BY <1>1, <1>2, Stages1
<1>3. CASE (\E l, g : job[r].plan = <<{q}, {l}, {g}>>) /\ HandlerEnds(r, "failed")
  BY <1>1, <1>3, Stages3
<1>4. ASSUME NEW S, NEW R, NEW l, NEW g, job[r].plan = <<S, {l}, {g}>>, R = S \ {q}, R # {},
             Proceeding(r, <<R, {l}, {g}>>, job[r].selects), asked' = asked
      PROVE  \E j, N : StageGoesOn(r, H \ {q}, j, N)
  <2>1. H = S /\ Head(<<R, {l}, {g}>>) = R
    BY <1>4, Stages3
  <2>2. PICK j : job' = [job EXCEPT ![r] = j] /\ j.state = "running" /\ j.plan = <<R, {l}, {g}>>
    BY <1>4 DEF Proceeding
  <2>3. StageGoesOn(r, H \ {q}, j, {})
    BY <1>4, <2>1, <2>2 DEF StageGoesOn
  <2>4. QED
    BY <2>3
<1>5. ASSUME NEW plan, NEW sel, NEW x, H = {q}, Proceeding(r, plan, sel), Head(plan) = {x},
             asked' = asked \cup {[by |-> r, q |-> x]}
      PROVE  \E j, N : StageGoesOn(r, H \ {q}, j, N)
  <2>1. PICK j : job' = [job EXCEPT ![r] = j] /\ j.state = "running" /\ j.plan = plan
    BY <1>5 DEF Proceeding
  <2>2. StageGoesOn(r, H \ {q}, j, {x})
    BY <1>5, <2>1 DEF StageGoesOn
  <2>3. QED
    BY <2>2
<1>6. CASE \E l, g : /\ job[r].plan = <<{q}, {l}, {g}>>
                     /\ Proceeding(r, <<{l}, {g}>>, job[r].selects)
                     /\ asked' = asked \cup {[by |-> r, q |-> l]}
  <2>1. PICK l, g : /\ job[r].plan = <<{q}, {l}, {g}>>
                    /\ Proceeding(r, <<{l}, {g}>>, job[r].selects)
                    /\ asked' = asked \cup {[by |-> r, q |-> l]}
    BY <1>6
  <2>2. H = {q} /\ Head(<<{l}, {g}>>) = {l}
    BY <2>1, Stages2, Stages3
  <2>3. QED
    BY <1>5, <2>1, <2>2
<1>7. CASE \E g : /\ job[r].plan = <<{q}, {g}>> /\ Proceeding(r, <<{g}>>, {})
                  /\ asked' = asked \cup {[by |-> r, q |-> g]}
  BY SMTT(30), <1>5, <1>7, Stages1, Stages2
<1>8. CASE \E S, R, l, g : /\ job[r].plan = <<S, {l}, {g}>> /\ R = S \ {q} /\ R # {}
                           /\ Proceeding(r, <<R, {l}, {g}>>, job[r].selects) /\ asked' = asked
  BY <1>4, <1>8
<1>9. QED
  BY <1>2, <1>3, <1>6, <1>7, <1>8 DEF Outcome

\* The answer that is taken leaves those of others, and the other ones its handler awaits.
LEMMA TakesOnTheWay ==
  ASSUME PlannerShape, OnItsWay, NEW i \in 1..Len(replies), Takes(i)
  PROVE  OnItsWay'
<1>1. PICK a : a = replies[i]
  OBVIOUS
<1>2. PICK r : r = a.call.by
  OBVIOUS
<1>3. PICK q : q = a.call.q
  OBVIOUS
<1>0. replies' = RemoveAt(replies, i) /\ IsSeq(replies)
  BY DEF PlannerShape, Takes
<1>00. PICK u, w : u = replies /\ w = replies'
  OBVIOUS
<1>01. IsSeq(u) /\ i \in 1..Len(u) /\ w = RemoveAt(u, i)
  BY <1>0, <1>00
<1>02. /\ \A k \in 1..Len(w) : \E n \in 1..Len(u) :
            n # i /\ w[k] = u[n] /\ n = IF k < i THEN k ELSE k + 1
       /\ \A n \in 1..Len(u) : n # i => \E k \in 1..Len(w) : w[k] = u[n]
  BY <1>01, OthersRemain
<1>4. \A k \in 1..Len(replies') : \E n \in 1..Len(replies) :
        n # i /\ replies'[k] = replies[n] /\ n = IF k < i THEN k ELSE k + 1
  BY <1>00, <1>02
<1>5. \A n \in 1..Len(replies) : n # i => \E k \in 1..Len(replies') : replies'[k] = replies[n]
  BY <1>00, <1>02
<1>6. \A k, l \in 1..Len(replies') :
        Same(replies'[k].call, replies'[l].call) => k = l \/ replies'[k].call.by = 0
  <2>1. ASSUME NEW k \in 1..Len(replies'), NEW l \in 1..Len(replies'),
               Same(replies'[k].call, replies'[l].call), replies'[k].call.by # 0
        PROVE  k = l
    <3>1. PICK m \in 1..Len(replies) : replies'[k] = replies[m] /\ m = IF k < i THEN k ELSE k + 1
      BY <1>4
    <3>2. PICK n \in 1..Len(replies) : replies'[l] = replies[n] /\ n = IF l < i THEN l ELSE l + 1
      BY <1>4
    <3>3. m = n
      BY <2>1, <3>1, <3>2 DEF OnItsWay
    <3>4. k \in Nat /\ l \in Nat /\ i \in Nat
      BY <2>1, RemainingElements DEF PlannerShape, Takes
    <3>5. QED
      BY <3>1, <3>2, <3>3, <3>4
  <2>2. QED
    BY <2>1
<1>7. CASE r = 0
  <2>1. job' = job /\ asked' = asked
    BY <1>1, <1>2, <1>7, TakeOwn
  <2>2. \A k \in 1..Len(replies') : Awaited(job', replies'[k].call)
    BY <1>4, <2>1 DEF OnItsWay, Awaited
  <2>3. \A c \in asked : Awaited(job', c)
    BY <2>1 DEF OnItsWay, Awaited
  <2>4. \A c \in asked, k \in 1..Len(replies') : Same(c, replies'[k].call) => c.by = 0
    BY <1>4 DEF OnItsWay
  <2>5. ASSUME NEW s \in Jobs, job[s].state = "running", NEW e \in Head(job[s].plan),
               ~ \E c \in asked : c.by = s /\ c.q = e
        PROVE  \E k \in 1..Len(replies') : replies'[k].call.by = s /\ replies'[k].call.q = e
    <3>1. PICK n \in 1..Len(replies) : replies[n].call.by = s /\ replies[n].call.q = e
      BY <2>5 DEF OnItsWay
    <3>2. n # i
      <4>1. 0 \notin Jobs
        BY DEF Jobs
      <4>2. QED
        BY <1>1, <1>2, <1>7, <2>5, <3>1, <4>1
    <3>3. QED
      BY <1>5, <3>1, <3>2
  <2>6. QED
    BY <1>6, <2>1, <2>2, <2>3, <2>4, <2>5 DEF OnItsWay
<1>8. CASE r # 0
  <2>1. r \in Jobs /\ job[r].state = "running" /\ q \in Head(job[r].plan) /\ Outcome(r, q, job[r].plan, a.ok)
    BY <1>1, <1>2, <1>3, <1>8, TakeOutcome
  <2>2. /\ \A c \in asked : c.by = r => c.q # q
        /\ \A n \in 1..Len(replies) : n # i /\ replies[n].call.by = r => replies[n].call.q # q
    BY <1>1, <1>2, <1>3, <1>8 DEF OnItsWay, Same
  <2>3. PICK H : H = Head(job[r].plan)
    OBVIOUS
  <2>4. /\ \A c \in asked : c.by = r => c.q \in H \ {q}
        /\ \A n \in 1..Len(replies) : n # i /\ replies[n].call.by = r => replies[n].call.q \in H \ {q}
    BY <1>8, <2>2, <2>3 DEF OnItsWay, Awaited
  <2>5. PICK j, N : StageGoesOn(r, H \ {q}, j, N)
    BY <2>1, <2>3, StageFollows
  <2>6. DOMAIN job = Jobs /\ job'[r] = j /\ \A s \in Jobs : s # r => job'[s] = job[s]
    BY <2>1, <2>5 DEF StageGoesOn, PlannerShape
  <2>7. ASSUME NEW c, c.by = r => c.q \in H \ {q}, Awaited(job, c)
        PROVE  Awaited(job', c)
    <3>1. CASE c.by = r
      BY <1>8, <2>1, <2>5, <2>6, <2>7, <3>1 DEF StageGoesOn, Awaited
    <3>2. CASE c.by # r
      BY <2>6, <2>7, <3>2 DEF Awaited
    <3>3. QED
      BY <3>1, <3>2
  <2>8. \A k \in 1..Len(replies') : Awaited(job', replies'[k].call)
    BY <1>4, <2>4, <2>7 DEF OnItsWay
  <2>9. ASSUME NEW e \in N
        PROVE  Awaited(job', [by |-> r, q |-> e])
    <3>1. j.state = "running" /\ e \in Head(j.plan)
      BY <2>5 DEF StageGoesOn
    <3>2. QED
      BY <2>1, <2>6, <3>1 DEF Awaited
  <2>10. \A c \in asked' : Awaited(job', c)
    <3>1. \A c \in asked : Awaited(job', c)
      BY <2>4, <2>7 DEF OnItsWay
    <3>2. QED
      BY <2>5, <2>9, <3>1 DEF StageGoesOn
  <2>11. ASSUME NEW e \in N
         PROVE  /\ \A c \in asked : c.by # r
                /\ \A k \in 1..Len(replies') : replies'[k].call.by # r
    BY <1>4, <2>4, <2>5 DEF StageGoesOn
  <2>12. \A c, d \in asked' : Same(c, d) => c = d \/ c.by = 0
    <3>1. ASSUME NEW c \in asked', NEW d \in asked', Same(c, d)
          PROVE  c = d \/ c.by = 0
      <4>1. CASE c \in asked /\ d \in asked
        BY <3>1, <4>1 DEF OnItsWay
      <4>2. CASE c \notin asked \/ d \notin asked
        BY <2>5, <2>11, <3>1, <4>2 DEF StageGoesOn, Same
      <4>3. QED
        BY <4>1, <4>2
    <3>2. QED
      BY <3>1
  <2>13. ASSUME NEW c \in asked', NEW k \in 1..Len(replies'), Same(c, replies'[k].call)
         PROVE  c.by = 0
    <3>1. CASE c \in asked
      BY <1>4, <2>13, <3>1 DEF OnItsWay
    <3>2. CASE c \notin asked
      BY <2>5, <2>11, <2>13, <3>2 DEF StageGoesOn, Same
    <3>3. QED
      BY <3>1, <3>2
  <2>14. ASSUME NEW s \in Jobs, job'[s].state = "running", NEW e \in Head(job'[s].plan)
         PROVE  \/ \E c \in asked' : c.by = s /\ c.q = e
                \/ \E k \in 1..Len(replies') : replies'[k].call.by = s /\ replies'[k].call.q = e
    <3>1. CASE s = r /\ e \in N
      <4>1. [by |-> r, q |-> e] \in asked'
        BY <2>5, <3>1 DEF StageGoesOn
      <4>2. QED
        BY <3>1, <4>1
    <3>2. CASE ~ (s = r /\ e \in N)
      <4>1. job[s].state = "running" /\ e \in Head(job[s].plan) /\ (s = r => e # q)
        BY <2>1, <2>3, <2>5, <2>6, <2>14, <3>2 DEF StageGoesOn
      <4>2. CASE \E c \in asked : c.by = s /\ c.q = e
        BY <2>5, <4>2 DEF StageGoesOn
      <4>3. CASE \E n \in 1..Len(replies) : replies[n].call.by = s /\ replies[n].call.q = e
        <5>1. PICK n \in 1..Len(replies) : replies[n].call.by = s /\ replies[n].call.q = e
          BY <4>3
        <5>2. n # i
          BY <1>1, <1>2, <1>3, <4>1, <5>1
        <5>3. QED
          BY <1>5, <5>1, <5>2
      <4>4. QED
        BY <4>1, <4>2, <4>3 DEF OnItsWay
    <3>3. QED
      BY <3>1, <3>2
  <2>15. QED
    BY <1>6, <2>8, <2>10, <2>12, <2>13, <2>14 DEF OnItsWay
<1>9. QED
  BY <1>7, <1>8

-----------------------------------------------------------------------------
(* The buttons and the movers.                                             *)

LEMMA TakesTransfers ==
  ASSUME PlannerShape, OnItsWay, TransfersApart, NEW i \in 1..Len(replies), Takes(i)
  PROVE  TransfersApart'
<1>1. PICK a : a = replies[i]
  OBVIOUS
<1>2. PICK r : r = a.call.by
  OBVIOUS
<1>3. question' = question
  BY TakeDialog
<1>4. CASE r = 0
  BY <1>1, <1>2, <1>3, <1>4, TakeOwn DEF TransfersApart, OneTransfer
<1>5. CASE r # 0
  <2>1. PICK q : q = a.call.q
    OBVIOUS
  <2>2. r \in Jobs /\ job[r].state = "running" /\ Outcome(r, q, job[r].plan, a.ok)
    BY <1>1, <1>2, <1>5, <2>1, TakeOutcome
  <2>3. PICK j :
          /\ job' = [job EXCEPT ![r] = j]
          /\ \/ j = Ended(j.state) /\ j.state # "running" /\ busy' = busy \ job[r].flag
             \/ j.flag = job[r].flag /\ busy' = busy
    BY <2>2, OneJobGoesOn
  <2>4. job'[r] = j /\ \A s \in Jobs : s # r => job'[s] = job[s]
    BY <2>2, <2>3 DEF PlannerShape
  <2>5. CASE j = Ended(j.state) /\ busy' = busy \ job[r].flag
    <3>1. j.flag = {}
      BY <2>5, EndedFields
    <3>2. \A s, t \in Jobs : job'[s].flag \cap job'[t].flag # {} => s = t
      BY <2>4, <3>1 DEF TransfersApart, OneTransfer
    <3>3. busy' = UNION {job'[s].flag : s \in Jobs}
      <4>1. ASSUME NEW f \in busy' PROVE \E s \in Jobs : f \in job'[s].flag
        BY <2>4, <2>5, <4>1 DEF TransfersApart, OneTransfer
      <4>2. ASSUME NEW s \in Jobs, NEW f \in job'[s].flag PROVE f \in busy'
        <5>1. s # r /\ f \in job[s].flag
          BY <2>4, <3>1, <4>2
        <5>2. f \notin job[r].flag /\ f \in busy
          BY <2>2, <5>1 DEF TransfersApart, OneTransfer
        <5>3. QED
          BY <2>5, <5>2
      <4>3. QED
        BY <4>1, <4>2
    <3>4. QED
      BY <1>3, <2>5, <3>2, <3>3 DEF TransfersApart, OneTransfer
  <2>6. CASE j.flag = job[r].flag /\ busy' = busy
    <3>1. \A s \in Jobs : job'[s].flag = job[s].flag
      BY <2>4, <2>6
    <3>2. {job'[s].flag : s \in Jobs} = {job[s].flag : s \in Jobs}
      BY <3>1
    <3>3. QED
      BY <1>3, <2>6, <3>1, <3>2 DEF TransfersApart, OneTransfer
  <2>7. QED
    BY <2>3, <2>5, <2>6
<1>6. QED
  BY <1>4, <1>5

\* A handler that goes on, or begins, changes no one else's move.
LEMMA MoverGoesOn ==
  ASSUME OneMover, ~ strayed, DOMAIN job = Jobs, NEW r \in Jobs, NEW j, job' = [job EXCEPT ![r] = j],
         Moves(j) \/ ~ Still => \A s \in Jobs : Moves(job[s]) => s = r,
         Moves(j) => GoodMove(j, selectedMissionId', base'),
         ~ Moves(j) => IF Moves(job[r]) THEN base' = selectedMissionId' ELSE Still,
         Moves(question') => Moves(question) /\ question' = question /\ Still /\ ~ Moves(j)
  PROVE  OneMover'
<1>1. job'[r] = j /\ \A s \in Jobs : s # r => job'[s] = job[s]
  OBVIOUS
<1>2. \A s, t \in Jobs : Moves(job'[s]) /\ Moves(job'[t]) => s = t
  BY <1>1 DEF OneMover
<1>3. Moves(question') =>
        GoodMove(question', selectedMissionId', base') /\ \A s \in Jobs : ~ Moves(job'[s])
  BY <1>1 DEF OneMover, Still
<1>4. \A s \in Jobs : Moves(job'[s]) => GoodMove(job'[s], selectedMissionId', base')
  BY <1>1 DEF OneMover, Still
<1>5. (\A s \in Jobs : ~ Moves(job'[s])) => base' = selectedMissionId'
  BY <1>1 DEF OneMover, Still
<1>6. QED
  BY <1>2, <1>3, <1>4, <1>5 DEF OneMover

LEMMA Lengths ==
  ASSUME NEW a, NEW b, NEW c, NEW d, NEW e, NEW f
  PROVE  /\ <<a>> = <<d>> => a = d
         /\ <<a, b>> = <<d, e>> => a = d /\ b = e
         /\ <<a, b, c>> = <<d, e, f>> => a = d /\ b = e /\ c = f
         /\ <<a>> # <<d, e>> /\ <<a>> # <<d, e, f>> /\ <<a, b>> # <<d, e, f>>
<1>1. <<a>> # <<d, e>> /\ <<a>> # <<d, e, f>> /\ <<a, b>> # <<d, e, f>>
  BY Stages1, Stages2, Stages3
<1>2. QED
  BY <1>1

\* What a handler's last stages tell of its move.
LEMMA MoveOfOne ==
  ASSUME NEW j, NEW q, j.plan = <<{q}>>, NEW sel, NEW b
  PROVE  /\ GoodMove(j, sel, b) <=> IF q.op = "get" THEN q.of = sel ELSE b = sel
         /\ j.state = "running" => (Moves(j) <=> j.selects # {} \/ j.clears \/ q.op = "get")
<1>1. GoodMove(j, sel, b) =>
        (\E g : <<{q}>> = <<{g}>> /\ g.op = "get" /\ g.of = sel) \/ (b = sel /\ \E g : <<{q}>> = <<{g}>> /\ g.op # "get")
  BY Lengths DEF GoodMove
<1>2. GoodMove(j, sel, b) => IF q.op = "get" THEN q.of = sel ELSE b = sel
  BY <1>1
<1>3. (IF q.op = "get" THEN q.of = sel ELSE b = sel) => GoodMove(j, sel, b)
  BY DEF GoodMove
<1>4. GetsAny(j.plan) <=> q.op = "get"
  BY GetsOne
<1>5. j.state = "running" => (Moves(j) <=> j.selects # {} \/ j.clears \/ q.op = "get")
  BY <1>4 DEF Moves, GetsAny
<1>6. QED
  BY <1>2, <1>3, <1>5

LEMMA MoveOfTwo ==
  ASSUME NEW j, NEW S, NEW g, j.plan = <<S, {g}>>, g.op = "get", NEW sel, NEW b
  PROVE  /\ GoodMove(j, sel, b) <=> b = sel /\ g.of = Destination(j, sel)
         /\ j.state = "running" => Moves(j)
<1>1. GoodMove(j, sel, b) => b = sel /\ \E R, h : <<S, {g}>> = <<R, {h}>> /\ h.of = Destination(j, sel)
  BY Lengths DEF GoodMove
<1>2. GoodMove(j, sel, b) => b = sel /\ g.of = Destination(j, sel)
  BY <1>1
<1>3. b = sel /\ g.of = Destination(j, sel) => GoodMove(j, sel, b)
  BY DEF GoodMove
<1>4. GetsAny(j.plan)
  BY GetsTwo
<1>5. QED
  BY <1>2, <1>3, <1>4 DEF Moves, GetsAny

LEMMA MoveOfThree ==
  ASSUME NEW j, NEW R, NEW S, NEW g, j.plan = <<R, S, {g}>>, g.op = "get", NEW sel, NEW b
  PROVE  /\ GoodMove(j, sel, b) <=> b = sel /\ g.of = Destination(j, sel)
         /\ j.state = "running" => Moves(j)
<1>1. GoodMove(j, sel, b) => b = sel /\ \E P, Q, h : <<R, S, {g}>> = <<P, Q, {h}>> /\ h.of = Destination(j, sel)
  BY Lengths DEF GoodMove
<1>2. GoodMove(j, sel, b) => b = sel /\ g.of = Destination(j, sel)
  <2>1. SUFFICES ASSUME GoodMove(j, sel, b) PROVE b = sel /\ g.of = Destination(j, sel)
    OBVIOUS
  <2>2. PICK P, Q, h : <<R, S, {g}>> = <<P, Q, {h}>> /\ h.of = Destination(j, sel)
    BY <1>1, <2>1
  <2>3. {g} = {h}
    BY <2>2, Lengths
  <2>4. QED
    BY <1>1, <2>1, <2>2, <2>3
<1>3. b = sel /\ g.of = Destination(j, sel) => GoodMove(j, sel, b)
  BY DEF GoodMove
<1>4. GetsAny(j.plan)
  BY GetsThree
<1>5. QED
  BY <1>2, <1>3, <1>4 DEF Moves, GetsAny

LEMMA OutcomeMoves ==
  ASSUME PlannerShape, OneMover, question' = question, NEW r \in Jobs, job[r].state = "running",
         NEW q, NEW ok, Outcome(r, q, job[r].plan, ok), ~ strayed, ~ strayed'
  PROVE  OneMover'
<1>1. DOMAIN job = Jobs
  BY DEF PlannerShape
<1>2. /\ Moves(job[r]) => GoodMove(job[r], selectedMissionId, base)
      /\ Moves(job[r]) => \A s \in Jobs : Moves(job[s]) => s = r
      /\ Moves(job[r]) => ~ Moves(question)
  BY DEF OneMover
<1>3. PICK k : k = job[r]
  OBVIOUS
<1>4. ASSUME NEW s, HandlerEnds(r, s),
             IF Moves(k) THEN base' = selectedMissionId' ELSE Still
      PROVE  OneMover'
  <2>1. job' = [job EXCEPT ![r] = Ended(s)] /\ ~ Moves(Ended(s))
    BY <1>4, EndedShape DEF HandlerEnds
  <2>2. QED
    BY <1>1, <1>2, <1>3, <1>4, <2>1, MoverGoesOn
<1>5. ASSUME NEW plan, NEW sel, Proceeding(r, plan, sel), Moves(k),
             \A j : j.state = "running" /\ j.plan = plan /\ j.selects = sel =>
                      Moves(j) /\ GoodMove(j, selectedMissionId', base')
      PROVE  OneMover'
  <2>1. PICK j : job' = [job EXCEPT ![r] = j] /\ j.state = "running" /\ j.plan = plan /\ j.selects = sel
    BY <1>5 DEF Proceeding
  <2>2. Moves(j) /\ GoodMove(j, selectedMissionId', base')
    BY <1>5, <2>1
  <2>3. QED
    BY <1>1, <1>2, <1>3, <1>5, <2>1, <2>2, MoverGoesOn
<1>6. CASE /\ k.plan = <<{q}>> /\ IsGet(q)
           /\ HandlerEnds(r, "done") /\ selectedMissionId' = selectedMissionId
           /\ IF ok THEN base' = q.of ELSE strayed'
  <2>1. Moves(k) /\ q.of = selectedMissionId
    BY <1>2, <1>3, <1>6, MoveOfOne DEF IsGet
  <2>2. QED
    BY <1>4, <1>6, <2>1
<1>7. CASE /\ HandlerEnds(r, "failed") /\ Still
           /\ \/ k.plan = <<{q}>> /\ IsEdit(q)
              \/ q.op = "download" /\ \E l, g : k.plan = <<{q}, {l}, {g}>>
  <2>1. Moves(k) => base = selectedMissionId
    <3>1. CASE k.plan = <<{q}>> /\ IsEdit(q)
      BY <1>2, <1>3, <3>1, MoveOfOne DEF IsEdit
    <3>2. CASE \E l, g : k.plan = <<{q}, {l}, {g}>>
      <4>1. PICK l, g : k.plan = <<{q}, {l}, {g}>>
        BY <3>2
      <4>2. Moves(k) /\ base # selectedMissionId => \E h : <<{q}, {l}, {g}>> = <<{h}>>
        BY <1>2, <1>3, <4>1 DEF GoodMove
      <4>3. QED
        BY <4>2, Lengths
    <3>3. QED
      BY <1>7, <3>1, <3>2
  <2>2. QED
    BY <1>4, <1>7, <2>1 DEF Still
<1>8. CASE k.plan = <<{q}>> /\ IsEdit(q) /\ HandlerEnds(r, "done") /\ Finishing(r)
  <2>1. Moves(k) => base = selectedMissionId /\ (k.clears \/ k.selects # {})
    BY <1>2, <1>3, <1>8, MoveOfOne DEF IsEdit
  <2>2. ~ Moves(k) => ~ k.clears /\ k.selects = {}
    BY <1>3, <1>8 DEF Moves
  <2>3. IF Moves(k) THEN base' = selectedMissionId' ELSE Still
    BY <1>3, <1>8, <2>1, <2>2 DEF Finishing
  <2>4. QED
    BY <1>4, <1>8, <2>3
<1>9. CASE \E S, R, l, g :
       /\ k.plan = <<S, {l}, {g}>> /\ g.op = "get"
       /\ Proceeding(r, <<R, {l}, {g}>>, k.selects) /\ Still
  <2>1. PICK S, R, l, g : /\ k.plan = <<S, {l}, {g}>> /\ g.op = "get"
                          /\ Proceeding(r, <<R, {l}, {g}>>, k.selects) /\ Still
    BY <1>9
  <2>2. Moves(k) /\ base = selectedMissionId /\ g.of = Destination(k, selectedMissionId)
    BY <1>2, <1>3, <2>1, MoveOfThree
  <2>3. ASSUME NEW j, j.state = "running", j.plan = <<R, {l}, {g}>>, j.selects = k.selects
        PROVE  Moves(j) /\ GoodMove(j, selectedMissionId', base')
    <3>1. Destination(j, selectedMissionId') = Destination(k, selectedMissionId)
      BY <2>1, <2>3 DEF Destination, Still
    <3>2. QED
      BY <2>1, <2>2, <2>3, <3>1, MoveOfThree DEF Still
  <2>4. QED
    BY <1>5, <2>1, <2>2, <2>3
<1>10. CASE \E l, g :
       /\ k.plan = <<{q}, {l}, {g}>> /\ g.op = "get"
       /\ Proceeding(r, <<{l}, {g}>>, k.selects) /\ Still
  <2>1. PICK l, g : /\ k.plan = <<{q}, {l}, {g}>> /\ g.op = "get"
                    /\ Proceeding(r, <<{l}, {g}>>, k.selects) /\ Still
    BY <1>10
  <2>2. Moves(k) /\ base = selectedMissionId /\ g.of = Destination(k, selectedMissionId)
    BY <1>2, <1>3, <2>1, MoveOfThree
  <2>3. ASSUME NEW j, j.state = "running", j.plan = <<{l}, {g}>>, j.selects = k.selects
        PROVE  Moves(j) /\ GoodMove(j, selectedMissionId', base')
    <3>1. Destination(j, selectedMissionId') = Destination(k, selectedMissionId)
      BY <2>1, <2>3 DEF Destination, Still
    <3>2. QED
      BY <2>1, <2>2, <2>3, <3>1, MoveOfTwo DEF Still
  <2>4. QED
    BY <1>5, <2>1, <2>2, <2>3
<1>11. CASE \E g :
       /\ k.plan = <<{q}, {g}>> /\ g.op = "get"
       /\ Proceeding(r, <<{g}>>, {})
       /\ selectedMissionId' = Destination(k, selectedMissionId) /\ base' = base
  <2>1. PICK g : /\ k.plan = <<{q}, {g}>> /\ g.op = "get"
                 /\ Proceeding(r, <<{g}>>, {})
                 /\ selectedMissionId' = Destination(k, selectedMissionId) /\ base' = base
    BY <1>11
  <2>10. /\ k.state = "running" => Moves(k)
         /\ GoodMove(k, selectedMissionId, base) => g.of = Destination(k, selectedMissionId)
    BY <2>1, MoveOfTwo
  <2>11. Moves(k) /\ g.of = Destination(k, selectedMissionId)
    BY <1>2, <1>3, <2>10
  <2>2. Moves(k) /\ g.of = selectedMissionId'
    BY <2>1, <2>11
  <2>3. ASSUME NEW j, j.state = "running", j.plan = <<{g}>>, j.selects = {}
        PROVE  Moves(j) /\ GoodMove(j, selectedMissionId', base')
    BY <2>1, <2>2, <2>3, MoveOfOne
  <2>4. QED
    BY <1>5, <2>1, <2>2, <2>3
<1>12. QED
  <2>1. Outcome(r, q, k.plan, ok) /\ k = job[r]
    BY <1>3
  <2>2. QED
    BY <1>6, <1>7, <1>8, <1>9, <1>10, <1>11, <2>1, Zenon DEF Outcome

LEMMA TakesMover ==
  ASSUME PlannerShape, OnItsWay, OneMover, NEW i \in 1..Len(replies), Takes(i)
  PROVE  OneMover'
<1>1. PICK a : a = replies[i]
  OBVIOUS
<1>2. PICK r : r = a.call.by
  OBVIOUS
<1>3. question' = question
  BY TakeDialog
<1>4. strayed => strayed'
  BY DEF Takes
<1>5. CASE r = 0
  <2>1. job' = job /\ Still /\ (strayed' => strayed)
    BY <1>1, <1>2, <1>5, TakeOwn
  <2>2. QED
    BY <1>3, <1>4, <2>1 DEF OneMover, Still
<1>6. CASE r # 0
  <2>1. PICK q : q = a.call.q
    OBVIOUS
  <2>2. r \in Jobs /\ job[r].state = "running" /\ Outcome(r, q, job[r].plan, a.ok)
    BY <1>1, <1>2, <1>6, <2>1, TakeOutcome
  <2>3. CASE strayed'
    BY <2>3 DEF OneMover
  <2>4. CASE ~ strayed'
    BY <1>3, <1>4, <2>2, <2>4, OutcomeMoves
  <2>5. QED
    BY <2>3, <2>4
<1>7. QED
  BY <1>5, <1>6

-----------------------------------------------------------------------------
(* The server and the clicks.                                              *)

ControlInv == PlannerShape /\ OnItsWay /\ TransfersApart /\ OneMover

LEMMA AnswersKeep ==
  ASSUME ControlInv, NEW c \in asked, NEW ok, Answers(c, ok)
  PROVE  ControlInv'
<1>0. PlannerShape /\ OnItsWay /\ TransfersApart /\ OneMover
  BY DEF ControlInv
<1>1. UNCHANGED <<selectedMissionId, base, dialog, question, busy, job, strayed>>
  BY DEF Answers
<1>2. PICK a : a.call = c /\ replies' = Append(replies, a)
  BY DEF Answers
<1>3. PICK n : n = Len(replies)
  OBVIOUS
<1>4. /\ IsSeq(replies') /\ n \in Nat /\ Len(replies') = n + 1 /\ replies'[n + 1] = a
      /\ \A i \in 1..n : replies'[i] = replies[i]
  <2>1. PICK u, w : u = replies /\ w = replies'
    OBVIOUS
  <2>2. IsSeq(u) /\ w = Append(u, a)
    BY <1>0, <1>2, <2>1 DEF PlannerShape
  <2>3. IsSeq(w) /\ Len(u) \in Nat /\ Len(w) = Len(u) + 1 /\ w[Len(u) + 1] = a
    BY <2>2, AppendedElements
  <2>4. \A i \in 1..Len(u) : w[i] = u[i]
    BY <2>2, AppendedElements
  <2>5. QED
    BY <1>3, <2>1, <2>3, <2>4
<1>5. asked' = asked \ {c}
  BY DEF Answers
<1>6. PlannerShape'
  BY <1>0, <1>1, <1>4 DEF PlannerShape
<1>7. TransfersApart' /\ OneMover'
  BY <1>0, <1>1 DEF TransfersApart, OneTransfer, OneMover
<1>8. OnItsWay'
  <2>1. \A x \in asked' : Awaited(job', x)
    BY <1>0, <1>1, <1>5 DEF OnItsWay
  <2>2. \A i \in 1..Len(replies') : Awaited(job', replies'[i].call)
    BY <1>0, <1>1, <1>2, <1>3, <1>4 DEF OnItsWay
  <2>3. \A x, y \in asked' : Same(x, y) => x = y \/ x.by = 0
    BY <1>0, <1>5 DEF OnItsWay
  <2>4. \A i, j \in 1..Len(replies') :
          Same(replies'[i].call, replies'[j].call) => i = j \/ replies'[i].call.by = 0
    <3>1. ASSUME NEW i \in 1..Len(replies'), NEW j \in 1..Len(replies'),
                 Same(replies'[i].call, replies'[j].call), i # j
          PROVE  replies'[i].call.by = 0
      <4>1. CASE i \in 1..n /\ j \in 1..n
        BY <1>0, <1>3, <1>4, <3>1, <4>1 DEF OnItsWay
      <4>2. CASE i = n + 1 /\ j \in 1..n
        BY <1>0, <1>2, <1>3, <1>4, <3>1, <4>2 DEF OnItsWay
      <4>3. CASE j = n + 1 /\ i \in 1..n
        <5>1. Same(c, replies[i].call) /\ replies[i].call.by = c.by
          BY <1>2, <1>4, <3>1, <4>3 DEF Same
        <5>2. QED
          BY <1>0, <1>3, <1>4, <4>3, <5>1 DEF OnItsWay
      <4>4. QED
        BY <1>4, <3>1, <4>1, <4>2, <4>3
    <3>2. QED
      BY <3>1
  <2>5. \A x \in asked', i \in 1..Len(replies') : Same(x, replies'[i].call) => x.by = 0
    <3>1. ASSUME NEW x \in asked', NEW i \in 1..Len(replies'), Same(x, replies'[i].call)
          PROVE  x.by = 0
      <4>1. CASE i \in 1..n
        BY <1>0, <1>3, <1>4, <1>5, <3>1, <4>1 DEF OnItsWay
      <4>2. CASE i = n + 1
        BY <1>0, <1>2, <1>4, <1>5, <3>1, <4>2 DEF OnItsWay
      <4>3. QED
        BY <1>4, <3>1, <4>1, <4>2
    <3>2. QED
      BY <3>1
  <2>6. ASSUME NEW r \in Jobs, job'[r].state = "running", NEW q \in Head(job'[r].plan)
        PROVE  \/ \E x \in asked' : x.by = r /\ x.q = q
               \/ \E i \in 1..Len(replies') : replies'[i].call.by = r /\ replies'[i].call.q = q
    <3>1. CASE \E x \in asked : x.by = r /\ x.q = q
      <4>1. PICK x \in asked : x.by = r /\ x.q = q
        BY <3>1
      <4>2. CASE x = c
        <5>1. n + 1 \in 1..Len(replies') /\ replies'[n + 1].call.by = r /\ replies'[n + 1].call.q = q
          BY <1>2, <1>4, <4>1, <4>2
        <5>2. QED
          BY <5>1
      <4>3. CASE x # c
        BY <1>5, <4>1, <4>3
      <4>4. QED
        BY <4>2, <4>3
    <3>2. CASE \E i \in 1..n : replies[i].call.by = r /\ replies[i].call.q = q
      <4>1. PICK i \in 1..n : replies[i].call.by = r /\ replies[i].call.q = q
        BY <3>2
      <4>2. i \in 1..Len(replies')
        BY <1>4, <4>1
      <4>3. QED
        BY <1>4, <4>1, <4>2
    <3>3. QED
      BY <1>0, <1>1, <1>3, <2>6, <3>1, <3>2 DEF OnItsWay
  <2>7. QED
    BY <2>1, <2>2, <2>3, <2>4, <2>5, <2>6 DEF OnItsWay
<1>9. QED
  BY <1>6, <1>7, <1>8 DEF ControlInv

LEMMA HandledKeeps == ASSUME ControlInv, NEW c \in asked, Handled(c) PROVE ControlInv'
<1>1. \E ok : Answers(c, ok)
  BY Zenon DEF Handled, Accepts, Rejects, TimesOut
<1>2. QED
  BY <1>1, AnswersKeep

LEMMA TakesKeeps == ASSUME ControlInv, NEW i \in DOMAIN replies, Takes(i) PROVE ControlInv'
<1>1. i \in 1..Len(replies)
  BY SeqLength DEF ControlInv, PlannerShape
<1>2. QED
  BY <1>1, TakesShape, TakesOnTheWay, TakesTransfers, TakesMover DEF ControlInv

\* A handler that begins awaits what it asked for.
LEMMA HandlerBegins ==
  ASSUME ControlInv, NEW r \in Jobs, NEW j, Begins(r, j), JobShape(j), j.state = "running",
         j.flag \cap busy = {},
         \/ question' = question /\ question.state = "idle"
         \/ question' = Ended("idle"),
         selectedMissionId' = selectedMissionId \/ \E m : selectedMissionId' = {m},
         ~ strayed /\ Moves(j) /\ base = selectedMissionId => GoodMove(j, selectedMissionId', base),
         ~ Moves(j) => selectedMissionId' = selectedMissionId
  PROVE  ControlInv'
<1>0. PlannerShape /\ OnItsWay /\ TransfersApart /\ OneMover
  BY DEF ControlInv
<1>1. /\ job[r].state = "idle" /\ job' = [job EXCEPT ![r] = j] /\ busy' = busy \cup j.flag
      /\ asked' = asked \cup {[by |-> r, q |-> q] : q \in Head(j.plan)}
      /\ strayed' = (strayed \/ Crosses(j))
      /\ base' = base /\ dialog' = dialog /\ replies' = replies
  BY DEF Begins
<1>2. job'[r] = j /\ DOMAIN job = Jobs /\ (\A s \in Jobs : s # r => job'[s] = job[s]) /\ job[r].flag = {}
  BY <1>0, <1>1 DEF PlannerShape, JobShape
<1>3. JobShape(question') /\ question'.state = "idle" /\ question'.flag = {} /\ ~ Moves(question')
  <2>1. CASE question' = question /\ question.state = "idle"
    BY <1>0, <2>1 DEF PlannerShape, JobShape, Moves
  <2>2. CASE question' = Ended("idle")
    BY <2>2, EndedShape, EndedFields
  <2>3. QED
    BY <2>1, <2>2
<1>4. PlannerShape'
  <2>1. DOMAIN job' = Jobs /\ \A s \in Jobs : JobShape(job'[s])
    BY <1>0, <1>1, <1>2 DEF PlannerShape
  <2>2. QED
    BY <1>0, <1>1, <1>3, <2>1 DEF PlannerShape
<1>5. TransfersApart'
  <2>1. \A s, t \in Jobs : job'[s].flag \cap job'[t].flag # {} => s = t
    <3>1. \A s \in Jobs : job[s].flag \subseteq busy
      BY <1>0 DEF TransfersApart, OneTransfer
    <3>2. QED
      BY <1>0, <1>2, <3>1 DEF TransfersApart, OneTransfer
  <2>2. busy' = UNION {job'[s].flag : s \in Jobs}
    <3>1. ASSUME NEW f \in busy' PROVE \E s \in Jobs : f \in job'[s].flag
      <4>1. CASE f \in j.flag
        BY <1>2, <4>1
      <4>2. CASE f \in busy
        <5>1. PICK s \in Jobs : f \in job[s].flag
          BY <1>0, <4>2 DEF TransfersApart, OneTransfer
        <5>2. QED
          BY <1>2, <5>1
      <4>3. QED
        BY <1>1, <3>1, <4>1, <4>2
    <3>2. ASSUME NEW s \in Jobs, NEW f \in job'[s].flag PROVE f \in busy'
      <4>1. CASE s = r
        BY <1>1, <1>2, <3>2, <4>1
      <4>2. CASE s # r
        BY <1>0, <1>1, <1>2, <3>2, <4>2 DEF TransfersApart, OneTransfer
      <4>3. QED
        BY <4>1, <4>2
    <3>3. QED
      BY <3>1, <3>2
  <2>3. QED
    BY <1>3, <2>1, <2>2 DEF TransfersApart, OneTransfer
<1>6. OneMover'
  <2>1. CASE strayed'
    BY <2>1 DEF OneMover
  <2>2. CASE ~ strayed'
    <3>1. ~ strayed /\ (Moves(j) => \A s \in Jobs : ~ Moves(job[s]))
      BY <1>1, <2>2 DEF Crosses
    <3>2. ~ Moves(job[r])
      BY <1>1 DEF Moves
    <3>3. Moves(j) => base = selectedMissionId
      BY <1>0, <3>1 DEF OneMover
    <3>4. QED
      BY <1>0, <1>1, <1>2, <1>3, <2>2, <3>1, <3>2, <3>3, MoverGoesOn DEF Still
  <2>3. QED
    BY <2>1, <2>2
<1>7. OnItsWay'
  <2>0. /\ \A c \in asked : c.by # r
        /\ \A i \in 1..Len(replies) : replies[i].call.by # r
    <3>1. r # 0
      BY DEF Jobs
    <3>2. QED
      BY <1>0, <1>1, <3>1 DEF OnItsWay, Awaited
  <2>1. ASSUME NEW c, c.by # r, Awaited(job, c) PROVE Awaited(job', c)
    BY <1>2, <2>1 DEF Awaited
  <2>2. ASSUME NEW q \in Head(j.plan) PROVE Awaited(job', [by |-> r, q |-> q])
    BY <1>2, <2>2 DEF Awaited
  <2>3. \A c \in asked' : Awaited(job', c)
    <3>1. \A c \in asked : Awaited(job', c)
      BY <1>0, <2>0, <2>1 DEF OnItsWay
    <3>2. QED
      BY <1>1, <2>2, <3>1
  <2>4. \A i \in 1..Len(replies') : Awaited(job', replies'[i].call)
    BY <1>0, <1>1, <2>0, <2>1 DEF OnItsWay
  <2>5. \A c, d \in asked' : Same(c, d) => c = d \/ c.by = 0
    <3>1. ASSUME NEW c \in asked', NEW d \in asked', Same(c, d) PROVE c = d \/ c.by = 0
      <4>1. CASE c \in asked /\ d \in asked
        BY <1>0, <3>1, <4>1 DEF OnItsWay
      <4>2. CASE c \notin asked \/ d \notin asked
        BY <1>1, <2>0, <3>1, <4>2 DEF Same
      <4>3. QED
        BY <4>1, <4>2
    <3>2. QED
      BY <3>1
  <2>6. \A i, k \in 1..Len(replies') :
          Same(replies'[i].call, replies'[k].call) => i = k \/ replies'[i].call.by = 0
    BY <1>0, <1>1 DEF OnItsWay
  <2>7. \A c \in asked', i \in 1..Len(replies') : Same(c, replies'[i].call) => c.by = 0
    <3>1. ASSUME NEW c \in asked', NEW i \in 1..Len(replies), Same(c, replies[i].call)
          PROVE  c.by = 0
      <4>1. c \in asked
        BY <1>1, <2>0, <3>1 DEF Same
      <4>2. QED
        BY <1>0, <3>1, <4>1 DEF OnItsWay
    <3>2. QED
      BY <1>1, <3>1
  <2>8. ASSUME NEW s \in Jobs, job'[s].state = "running", NEW q \in Head(job'[s].plan)
        PROVE  \/ \E x \in asked' : x.by = s /\ x.q = q
               \/ \E i \in 1..Len(replies') : replies'[i].call.by = s /\ replies'[i].call.q = q
    <3>1. CASE s = r
      <4>1. [by |-> r, q |-> q] \in asked'
        BY <1>1, <1>2, <2>8, <3>1
      <4>2. QED
        BY <3>1, <4>1
    <3>2. CASE s # r
      BY <1>0, <1>1, <1>2, <2>8, <3>2 DEF OnItsWay
    <3>3. QED
      BY <3>1, <3>2
  <2>9. QED
    BY <2>3, <2>4, <2>5, <2>6, <2>7, <2>8 DEF OnItsWay
<1>8. QED
  BY <1>4, <1>5, <1>6, <1>7 DEF ControlInv

\* One request, whose handler moves nothing else than it says.
LEMMA RequestBegins ==
  ASSUME ControlInv, NEW r \in Jobs, NEW q, IsEdit(q), NEW j, Begins(r, j),
         JobShape(j), j.state = "running", j.plan = <<{q}>>, j.flag = {},
         question' = question, question.state = "idle", selectedMissionId' = selectedMissionId
  PROVE  ControlInv'
<1>1. Moves(j) /\ base = selectedMissionId => GoodMove(j, selectedMissionId', base)
  BY MoveOfOne DEF IsEdit
<1>2. QED
  BY <1>1, HandlerBegins

LEMMA RequestPlanned ==
  ASSUME NEW q, IsEdit(q) \/ IsGet(q), NEW j, j = Planned(<<{q}>>)
  PROVE  JobFields \subseteq DOMAIN j /\ JobShape(j) /\ j.state = "running" /\ j.plan = <<{q}>>
         /\ j.flag = {} /\ j.selects = {} /\ j.clears = FALSE
<1>1. PlanShape(<<{q}>>)
  BY DEF PlanShape
<1>2. QED
  BY <1>1, PlannedFields DEF JobShape

LEMMA AskedFields ==
  ASSUME NEW o, NEW m, NEW vs, NEW x
  PROVE  /\ Asked(o, m, vs, x).op = o /\ Asked(o, m, vs, x).of = m /\ Asked(o, m, vs, x).to = vs
         /\ Asked(o, m, vs, x).route = x
BY DEF Asked

LEMMA ReadsFields ==
  ASSUME NEW o, NEW m
  PROVE  Reads(o, m).op = o /\ Reads(o, m).of = m /\ Reads(o, m).to = {} /\ Reads(o, m).route = 0
BY DEF Asked, Reads

LEMMA SelectKeeps == ASSUME ControlInv, NEW r \in Jobs, handleSelectMission(r) PROVE ControlInv'
<1>1. PICK m : Begins(r, Planned(<<{Reads("get", {m})}>>)) /\ selectedMissionId' = {m} /\ question' = question
  BY Zenon DEF handleSelectMission
<1>2. PICK q, j : q = Reads("get", {m}) /\ j = Planned(<<{q}>>)
  OBVIOUS
<1>3. IsGet(q)
  BY <1>2, ReadsFields DEF IsGet
<1>4. /\ JobShape(j) /\ j.state = "running" /\ j.plan = <<{q}>> /\ j.flag = {}
      /\ GoodMove(j, selectedMissionId', base) /\ Moves(j)
  <2>1. JobShape(j) /\ j.state = "running" /\ j.plan = <<{q}>> /\ j.flag = {}
    BY <1>2, <1>3, RequestPlanned
  <2>2. q.of = {m}
    BY <1>2, ReadsFields
  <2>3. QED
    BY <1>1, <1>3, <2>1, <2>2, MoveOfOne DEF IsGet
<1>5. question.state = "idle"
  BY DEF handleSelectMission, PageFree
<1>6. QED
  BY <1>1, <1>2, <1>4, <1>5, HandlerBegins

LEMMA EditBegins ==
  ASSUME ControlInv, NEW r \in Jobs, NEW q, IsEdit(q), NEW j, Begins(r, j),
         \/ j = Planned(<<{q}>>)
         \/ \E d : j = [Planned(<<{q}>>) EXCEPT !.closes = d]
         \/ \E d, m : j = [Planned(<<{q}>>) EXCEPT !.closes = d, !.selects = {m}],
         question' = question, question.state = "idle", selectedMissionId' = selectedMissionId
  PROVE  ControlInv'
<1>1. PICK k : k = Planned(<<{q}>>)
  OBVIOUS
<1>2. /\ JobFields \subseteq DOMAIN k /\ JobShape(k) /\ k.state = "running" /\ k.plan = <<{q}>>
      /\ k.flag = {} /\ k.selects = {}
  BY <1>1, RequestPlanned
<1>3. j = k \/ (\E d : j = [k EXCEPT !.closes = d]) \/ \E d, m : j = [k EXCEPT !.closes = d, !.selects = {m}]
  BY <1>1
<1>4. /\ DOMAIN j = DOMAIN k /\ j.state = "running" /\ j.plan = <<{q}>> /\ j.flag = {}
      /\ j.selects = {} \/ \E m : j.selects = {m}
  BY <1>2, <1>3 DEF JobFields
<1>5. JobShape(j)
  BY <1>2, <1>4 DEF JobShape
<1>6. QED
  BY <1>4, <1>5, RequestBegins

LEMMA RequestsKeep ==
  ASSUME ControlInv, NEW r \in Jobs,
         \/ handleSaveDraft(r) \/ handleSaveMission(r) \/ handleDuplicateMission(r)
         \/ handleAssignMission(r) \/ handleAssignFleet(r)
  PROVE  ControlInv'
<1>1. question' = question /\ selectedMissionId' = selectedMissionId
  BY Zenon DEF handleSaveDraft, handleSaveMission, handleDuplicateMission, handleAssignMission, handleAssignFleet
<1>2. question.state = "idle"
  <2>1. PageFree \/ dialog.shown = "edit" \/ dialog.shown = "new" \/ dialog.shown = "assign"
    BY Zenon DEF handleSaveDraft, handleSaveMission, handleDuplicateMission, handleAssignMission, handleAssignFleet
  <2>2. QED
    BY <2>1 DEF PageFree, ControlInv, PlannerShape
<1>3. \A o, m, vs, x : o \in {"create", "update", "assign", "unassign"} => IsEdit(Asked(o, m, vs, x))
  BY AskedFields DEF IsEdit
<1>4. CASE handleSaveDraft(r)
  <2>1. PICK q : q = Asked("update", selectedMissionId, {}, waypoints) /\ Begins(r, Planned(<<{q}>>))
    BY <1>4 DEF handleSaveDraft
  <2>2. IsEdit(q)
    BY <1>3, <2>1
  <2>3. QED
    BY <1>1, <1>2, <2>1, <2>2, EditBegins
<1>5. CASE handleSaveMission(r)
  <2>1. CASE Begins(r, [Planned(<<{Asked("update", dialog.of, {}, waypoints)}>>) EXCEPT !.closes = "edit"])
    <3>1. PICK q : q = Asked("update", dialog.of, {}, waypoints)
      OBVIOUS
    <3>2. IsEdit(q) /\ Begins(r, [Planned(<<{q}>>) EXCEPT !.closes = "edit"])
      BY <1>3, <2>1, <3>1
    <3>3. QED
      BY <1>1, <1>2, <3>2, EditBegins
  <2>2. CASE \E m : Begins(r, [Planned(<<{Asked("create", {m}, {}, waypoints)}>>) EXCEPT !.closes = "new", !.selects = {m}])
    <3>1. PICK q, m : q = Asked("create", {m}, {}, waypoints)
                      /\ Begins(r, [Planned(<<{q}>>) EXCEPT !.closes = "new", !.selects = {m}])
      BY <2>2
    <3>2. IsEdit(q)
      BY <1>3, <3>1
    <3>3. QED
      BY <1>1, <1>2, <3>1, <3>2, EditBegins
  <2>3. QED
    BY <1>5, <2>1, <2>2, Zenon DEF handleSaveMission
<1>6. CASE handleDuplicateMission(r)
  <2>1. PICK m, n : Begins(r, Planned(<<{Asked("create", {n}, {}, missionList.route[m])}>>))
    BY <1>6, Zenon DEF handleDuplicateMission
  <2>2. PICK q : q = Asked("create", {n}, {}, missionList.route[m])
    OBVIOUS
  <2>3. IsEdit(q) /\ Begins(r, Planned(<<{q}>>))
    BY <1>3, <2>1, <2>2
  <2>4. QED
    BY <1>1, <1>2, <2>3, EditBegins
<1>7. CASE handleAssignMission(r)
  <2>1. PICK q : /\ q = IF dialog.ticks = {} THEN Asked("unassign", dialog.of, dialog.had, 0)
                        ELSE Asked("assign", dialog.of, dialog.ticks, 0)
                 /\ Begins(r, [Planned(<<{q}>>) EXCEPT !.closes = "assign"])
    BY <1>7 DEF handleAssignMission
  <2>2. IsEdit(q)
    BY <1>3, <2>1
  <2>3. QED
    BY <1>1, <1>2, <2>1, <2>2, EditBegins
<1>8. CASE handleAssignFleet(r)
  <2>1. PICK q : q = Asked("assign", selectedMissionId, Uavs, 0) /\ Begins(r, Planned(<<{q}>>))
    BY <1>8 DEF handleAssignFleet
  <2>2. IsEdit(q)
    BY <1>3, <2>1
  <2>3. QED
    BY <1>1, <1>2, <2>1, <2>2, EditBegins
<1>9. QED
  BY <1>4, <1>5, <1>6, <1>7, <1>8

LEMMA ConfirmedKeeps == ASSUME ControlInv, NEW r \in Jobs, Confirm(r) PROVE ControlInv'
<1>1. /\ Begins(r, question) /\ question.state = "running" /\ question' = Ended("idle")
      /\ selectedMissionId' = selectedMissionId
  BY DEF Confirm
<1>2. JobShape(question) /\ question.flag \cap busy = {}
  BY DEF ControlInv, PlannerShape, TransfersApart
<1>3. CASE Moves(question) => GoodMove(question, selectedMissionId', base)
  BY <1>1, <1>2, <1>3, HandlerBegins
<1>4. CASE strayed
  BY <1>1, <1>2, <1>4, HandlerBegins
<1>5. QED
  BY <1>1, <1>3, <1>4 DEF ControlInv, OneMover

LEMMA TransferPlanned ==
  ASSUME NEW S, NEW l, NEW g, Transfers(S), IsList(l), IsGet(g), NEW k, k = Planned(<<S, {l}, {g}>>)
  PROVE  /\ JobShape(k) /\ k.state = "running" /\ k.plan = <<S, {l}, {g}>> /\ k.selects = {}
         /\ PlanShape(<<S, {l}, {g}>>)
<1>1. PlanShape(<<S, {l}, {g}>>)
  BY Zenon DEF PlanShape
<1>2. QED
  BY <1>1, PlannedFields

LEMMA QuestionFrame ==
  ASSUME ControlInv, UNCHANGED <<selectedMissionId, base, busy, job, asked, replies, strayed>>,
         JobShape(question'), question'.state \in {"idle", "running"},
         question'.state = "running" => dialog'.shown = "none",
         question'.flag \cap busy = {}, Moves(question') => question' = question
  PROVE  ControlInv'
<1>1. PlannerShape'
  BY DEF ControlInv, PlannerShape
<1>2. OnItsWay'
  BY DEF ControlInv, OnItsWay
<1>3. TransfersApart'
  BY DEF ControlInv, TransfersApart, OneTransfer
<1>4. OneMover'
  BY DEF ControlInv, OneMover
<1>5. QED
  BY <1>1, <1>2, <1>3, <1>4 DEF ControlInv

LEMMA DownloadKeeps == ASSUME ControlInv, NEW r \in Jobs, handleDownloadMission(r) PROVE ControlInv'
<1>1. PICK vs, m : /\ "download" \notin busy
                   /\ Begins(r, [Planned(<<{Asked("download", {m}, vs, 2)}, {Reads("list", {})}, {Reads("get", {m})}>>)
                                 EXCEPT !.flag = {"download"}, !.selects = {m}])
  BY Zenon DEF handleDownloadMission
<1>2. question' = question /\ question.state = "idle" /\ selectedMissionId' = selectedMissionId
  BY Zenon DEF handleDownloadMission, PageFree
<1>3. PICK d, l, g : d = Asked("download", {m}, vs, 2) /\ l = Reads("list", {}) /\ g = Reads("get", {m})
  OBVIOUS
<1>4. PICK S, j : S = {d} /\ j = [Planned(<<S, {l}, {g}>>) EXCEPT !.flag = {"download"}, !.selects = {m}]
  OBVIOUS
<1>5. d.op = "download" /\ IsList(l) /\ g.op = "get" /\ g.of = {m}
  BY <1>3, AskedFields, ReadsFields DEF IsList
<1>6. Transfers(S) /\ IsGet(g)
  BY <1>4, <1>5 DEF Transfers, IsGet
<1>7. /\ JobShape(j) /\ j.state = "running" /\ j.plan = <<S, {l}, {g}>> /\ j.flag = {"download"}
      /\ j.selects = {m}
  <2>1. PICK k : k = Planned(<<S, {l}, {g}>>)
    OBVIOUS
  <2>2. /\ JobShape(k) /\ k.state = "running" /\ k.plan = <<S, {l}, {g}>>
        /\ PlanShape(<<S, {l}, {g}>>)
    BY <1>5, <1>6, <2>1, TransferPlanned
  <2>3. j = [k EXCEPT !.flag = {"download"}, !.selects = {m}] /\ JobFields \subseteq DOMAIN k
    BY <1>4, <2>1, <2>2 DEF JobShape
  <2>4. /\ JobFields \subseteq DOMAIN j /\ j.state = "running" /\ j.plan = k.plan
        /\ j.flag = {"download"} /\ j.selects = {m}
    BY <2>2, <2>3 DEF JobFields
  <2>5. QED
    BY <2>2, <2>4 DEF JobShape
<1>8. Moves(j) /\ (base = selectedMissionId => GoodMove(j, selectedMissionId, base))
  <2>1. Destination(j, selectedMissionId) = {m}
    BY <1>7 DEF Destination
  <2>2. j.plan = <<S, {l}, {g}>> /\ g.op = "get"
    BY <1>5, <1>7
  <2>3. /\ GoodMove(j, selectedMissionId, base) <=> base = selectedMissionId /\ g.of = Destination(j, selectedMissionId)
        /\ j.state = "running" => Moves(j)
    BY <2>2, MoveOfThree
  <2>4. QED
    BY <1>5, <1>7, <2>1, <2>3
<1>9. Begins(r, j) /\ j.flag \cap busy = {}
  BY <1>1, <1>3, <1>4, <1>7
<1>10. QED
  BY <1>2, <1>7, <1>8, <1>9, HandlerBegins

\* A handler that is to be confirmed.
LEMMA QuestionAsked ==
  ASSUME ControlInv, PageFree, NEW j, AsksFirst(j), JobShape(j), j.state = "running", j.flag \cap busy = {},
         Moves(j) /\ base = selectedMissionId => GoodMove(j, selectedMissionId, base)
  PROVE  ControlInv'
<1>0. PlannerShape /\ OnItsWay /\ TransfersApart /\ OneMover
  BY DEF ControlInv
<1>1. question' = j /\ strayed' = (strayed \/ Crosses(j)) /\ dialog.shown = "none"
      /\ UNCHANGED <<selectedMissionId, base, dialog, busy, job, asked, replies>>
  BY DEF AsksFirst, PageFree
<1>2. PlannerShape' /\ OnItsWay' /\ TransfersApart'
  <2>1. PlannerShape'
    BY <1>0, <1>1 DEF PlannerShape
  <2>2. OnItsWay'
    BY <1>0, <1>1 DEF OnItsWay
  <2>3. TransfersApart'
    BY <1>0, <1>1 DEF TransfersApart, OneTransfer
  <2>4. QED
    BY <2>1, <2>2, <2>3
<1>3. OneMover'
  <2>1. ~ strayed' /\ Moves(j) => ~ strayed /\ \A s \in Jobs : ~ Moves(job[s])
    BY <1>1 DEF Crosses
  <2>2. QED
    BY <1>0, <1>1, <2>1 DEF OneMover
<1>4. QED
  BY <1>2, <1>3 DEF ControlInv

LEMMA DeleteKeeps == ASSUME ControlInv, handleDeleteMission PROVE ControlInv'
<1>1. PICK m : AsksFirst([Planned(<<{Reads("delete", {m})}>>) EXCEPT !.clears = selectedMissionId = {m}])
  BY Zenon DEF handleDeleteMission
<1>2. PageFree
  BY DEF handleDeleteMission
<1>3. PICK q, k : q = Reads("delete", {m}) /\ k = Planned(<<{q}>>)
  OBVIOUS
<1>4. PICK j : j = [k EXCEPT !.clears = selectedMissionId = {m}]
  OBVIOUS
<1>5. q.op = "delete" /\ q.route = 0 /\ q.to = {}
  BY <1>3, ReadsFields
<1>6. IsEdit(q)
  BY <1>5 DEF IsEdit
<1>7. /\ JobFields \subseteq DOMAIN k /\ JobShape(k) /\ k.state = "running" /\ k.plan = <<{q}>>
      /\ k.flag = {} /\ k.selects = {}
  BY <1>3, <1>6, RequestPlanned
<1>8. /\ JobFields \subseteq DOMAIN j /\ j.state = "running" /\ j.plan = k.plan /\ j.flag = {}
      /\ j.selects = {}
  BY <1>4, <1>7 DEF JobFields
<1>9. JobShape(j)
  BY <1>7, <1>8 DEF JobShape
<1>10. base = selectedMissionId => GoodMove(j, selectedMissionId, base)
  BY <1>5, <1>7, <1>8, MoveOfOne
<1>11. AsksFirst(j)
  BY <1>1, <1>3, <1>4
<1>12. QED
  BY <1>2, <1>8, <1>9, <1>10, <1>11, QuestionAsked

LEMMA UploadKeeps == ASSUME ControlInv, handleUploadMission PROVE ControlInv'
<1>1. PICK vs \in launchVehicles :
        /\ selectedMissionId # {} /\ "upload" \notin busy
        /\ AsksFirst([Planned(<<{Asked("upload", selectedMissionId, {v}, 0) : v \in vs},
                               {Reads("list", {})}, {Reads("get", selectedMissionId)}>>)
                      EXCEPT !.flag = {"upload"}])
  BY Zenon DEF handleUploadMission
<1>2. PageFree
  BY DEF handleUploadMission
<1>3. PICK S : S = {Asked("upload", selectedMissionId, {v}, 0) : v \in vs}
  OBVIOUS
<1>4. PICK l, g : l = Reads("list", {}) /\ g = Reads("get", selectedMissionId)
  OBVIOUS
<1>5. PICK j : j = [Planned(<<S, {l}, {g}>>) EXCEPT !.flag = {"upload"}]
  OBVIOUS
<1>6. IsList(l) /\ g.op = "get" /\ g.of = selectedMissionId
  BY <1>4, ReadsFields DEF IsList
<1>7. IsGet(g)
  BY <1>1, <1>6 DEF IsGet, ControlInv, PlannerShape
<1>8. Transfers(S)
  <2>1. vs # {}
    BY <1>1 DEF launchVehicles
  <2>2. S # {}
    BY <1>3, <2>1
  <2>3. \A q \in S : q.op = "upload"
    BY <1>3 DEF Asked
  <2>4. QED
    BY <2>2, <2>3 DEF Transfers
<1>9. /\ JobShape(j) /\ j.state = "running" /\ j.plan = <<S, {l}, {g}>> /\ j.flag = {"upload"}
      /\ j.selects = {}
  <2>1. PICK k : k = Planned(<<S, {l}, {g}>>)
    OBVIOUS
  <2>2. /\ JobShape(k) /\ k.state = "running" /\ k.plan = <<S, {l}, {g}>> /\ k.selects = {}
        /\ PlanShape(<<S, {l}, {g}>>)
    BY <1>6, <1>7, <1>8, <2>1, TransferPlanned
  <2>3. j = [k EXCEPT !.flag = {"upload"}] /\ JobFields \subseteq DOMAIN k
    BY <1>5, <2>1, <2>2 DEF JobShape
  <2>4. /\ JobFields \subseteq DOMAIN j /\ j.state = "running" /\ j.plan = k.plan
        /\ j.flag = {"upload"} /\ j.selects = {}
    BY <2>2, <2>3 DEF JobFields
  <2>5. QED
    BY <2>2, <2>4 DEF JobShape
<1>10. base = selectedMissionId => GoodMove(j, selectedMissionId, base)
  BY <1>6, <1>9, MoveOfThree DEF Destination
<1>11. AsksFirst(j) /\ j.flag \cap busy = {}
  BY <1>1, <1>3, <1>4, <1>5, <1>9
<1>12. QED
  BY <1>2, <1>9, <1>10, <1>11, QuestionAsked

LEMMA DialogsKeep ==
  ASSUME ControlInv, OpenDialog \/ CancelDialog \/ EditRoute \/ \E v \in Uavs : Tick(v)
  PROVE  ControlInv'
<1>1. UNCHANGED <<selectedMissionId, base, question, busy, job, asked, replies, strayed>>
  BY Zenon DEF OpenDialog, CancelDialog, EditRoute, Tick, Shows
<1>2. question.state = "running" => dialog'.shown = "none"
  <2>1. CASE EditRoute
    BY <2>1 DEF EditRoute, ControlInv, PlannerShape
  <2>2. CASE CancelDialog
    BY <2>2 DEF CancelDialog, Shows, NoDialog
  <2>3. CASE OpenDialog
    BY <2>3 DEF OpenDialog, PageFree
  <2>4. CASE \E v \in Uavs : Tick(v)
    BY <2>4 DEF Tick, ControlInv, PlannerShape
  <2>5. QED
    BY <2>1, <2>2, <2>3, <2>4
<1>3. QED
  BY <1>1, <1>2, QuestionFrame DEF ControlInv, PlannerShape, TransfersApart

LEMMA DismissKeeps == ASSUME ControlInv, Dismiss PROVE ControlInv'
<1>1. /\ UNCHANGED <<selectedMissionId, base, dialog, busy, job, asked, replies, strayed>>
      /\ question' = Ended("idle")
  BY DEF Dismiss
<1>2. JobShape(question') /\ question'.state = "idle" /\ question'.flag = {} /\ ~ Moves(question')
  BY <1>1, EndedShape, EndedFields
<1>3. QED
  BY <1>1, <1>2, QuestionFrame

LEMMA RemountKeeps == ASSUME ControlInv, Remount PROVE ControlInv'
<1>0. PlannerShape /\ OnItsWay /\ TransfersApart /\ OneMover
  BY DEF ControlInv
<1>1. PICK own : asked' = asked \cup {own} /\ own.by = 0 /\ own.q.op = "list"
  <2>1. PICK own : own = [by |-> 0, q |-> Reads("list", {})]
    OBVIOUS
  <2>2. own.by = 0 /\ own.q.op = "list"
    BY <2>1, ReadsFields
  <2>3. asked' = asked \cup {own}
    BY <2>1 DEF Remount
  <2>4. QED
    BY <2>2, <2>3
<1>2. /\ UNCHANGED <<selectedMissionId, base, dialog, question, replies, strayed>> /\ busy' = {}
      /\ job' = [r \in Jobs |-> [job[r] EXCEPT !.closes = "none", !.flag = {}]]
      /\ question.state = "idle"
  BY DEF Remount, PageFree
<1>3. ASSUME NEW r \in Jobs
      PROVE  /\ JobShape(job'[r]) /\ job'[r].flag = {} /\ job'[r].state = job[r].state
             /\ job'[r].plan = job[r].plan /\ job'[r].selects = job[r].selects
             /\ job'[r].clears = job[r].clears
  <2>1. PICK j, k : j = job[r] /\ k = job'[r]
    OBVIOUS
  <2>2. JobShape(j) /\ k = [j EXCEPT !.closes = "none", !.flag = {}]
    BY <1>0, <1>2, <2>1 DEF PlannerShape
  <2>3. /\ DOMAIN k = DOMAIN j /\ k.flag = {} /\ k.state = j.state /\ k.plan = j.plan
        /\ k.selects = j.selects /\ k.clears = j.clears
    BY <2>2 DEF JobShape, JobFields
  <2>4. JobShape(k)
    BY <2>2, <2>3 DEF JobShape
  <2>5. QED
    BY <2>1, <2>3, <2>4
<1>4. PlannerShape'
  BY <1>0, <1>2, <1>3 DEF PlannerShape
<1>5. TransfersApart'
  BY <1>2, <1>3 DEF TransfersApart, OneTransfer
<1>6. \A r \in Jobs : /\ Moves(job'[r]) <=> Moves(job[r])
                      /\ GoodMove(job'[r], selectedMissionId, base) <=> GoodMove(job[r], selectedMissionId, base)
  BY SMTT(30), <1>3 DEF Moves, GoodMove, Destination
<1>7. OneMover'
  BY <1>0, <1>2, <1>6 DEF OneMover
<1>8. OnItsWay'
  <2>1. \A c : Awaited(job, c) => Awaited(job', c)
    BY <1>3 DEF Awaited
  <2>2. \A c \in asked' : Awaited(job', c)
    BY <1>0, <1>1, <2>1 DEF OnItsWay, Awaited
  <2>3. \A i \in 1..Len(replies') : Awaited(job', replies'[i].call)
    BY <1>0, <1>2, <2>1 DEF OnItsWay
  <2>4. \A c, d \in asked' : Same(c, d) => c = d \/ c.by = 0
    BY <1>0, <1>1 DEF OnItsWay, Same
  <2>5. \A c \in asked', i \in 1..Len(replies') : Same(c, replies'[i].call) => c.by = 0
    BY <1>0, <1>1, <1>2 DEF OnItsWay, Same
  <2>6. \A r \in Jobs : job'[r].state = "running" =>
          \A q \in Head(job'[r].plan) :
            \/ \E c \in asked' : c.by = r /\ c.q = q
            \/ \E i \in 1..Len(replies') : replies'[i].call.by = r /\ replies'[i].call.q = q
    <3>1. ASSUME NEW r \in Jobs, job[r].state = "running", NEW q \in Head(job[r].plan)
          PROVE  \/ \E c \in asked' : c.by = r /\ c.q = q
                 \/ \E i \in 1..Len(replies) : replies[i].call.by = r /\ replies[i].call.q = q
      BY <1>0, <1>1, <3>1 DEF OnItsWay
    <3>2. QED
      <4>1. replies' = replies /\ \A r \in Jobs : job'[r].state = job[r].state /\ job'[r].plan = job[r].plan
        BY <1>2, <1>3
      <4>2. QED
        BY <3>1, <4>1
  <2>7. \A i, k \in 1..Len(replies') :
          Same(replies'[i].call, replies'[k].call) => i = k \/ replies'[i].call.by = 0
    BY <1>0, <1>2 DEF OnItsWay
  <2>8. QED
    BY <2>2, <2>3, <2>4, <2>5, <2>6, <2>7 DEF OnItsWay
<1>9. QED
  BY <1>4, <1>5, <1>7, <1>8 DEF ControlInv

LEMMA ControlStarts == PlannerInit => ControlInv
<1>1. SUFFICES ASSUME PlannerInit PROVE ControlInv
  OBVIOUS
<1>2. /\ job = [r \in Jobs |-> Ended("idle")] /\ question = Ended("idle") /\ replies = <<>> /\ asked = {}
      /\ busy = {} /\ base = {} /\ selectedMissionId = {}
  BY <1>1, Zenon DEF PlannerInit
<1>3. DOMAIN job = Jobs /\ \A r \in Jobs : job[r] = Ended("idle")
  BY <1>2
<1>4. JobShape(Ended("idle")) /\ ~ Moves(Ended("idle")) /\ Ended("idle").state = "idle" /\ Ended("idle").flag = {}
  BY EndedShape, EndedFields
<1>5. PlannerShape
  BY <1>2, <1>3, <1>4, EmptyIsSeq DEF PlannerShape
<1>6. OnItsWay
  BY <1>2, <1>3, <1>4, EmptyIsSeq DEF OnItsWay
<1>7. TransfersApart
  BY <1>2, <1>3, <1>4 DEF TransfersApart, OneTransfer
<1>8. OneMover
  BY <1>2, <1>3, <1>4 DEF OneMover
<1>9. QED
  BY <1>5, <1>6, <1>7, <1>8 DEF ControlInv

LEMMA ControlStepKeeps == ControlInv /\ [PlannerNext]_plannerVars => ControlInv'
<1>1. SUFFICES ASSUME ControlInv, [PlannerNext]_plannerVars PROVE ControlInv'
  OBVIOUS
<1>2. CASE UNCHANGED plannerVars
  <2>1. UNCHANGED <<selectedMissionId, base, dialog, question, busy, job, asked, replies, strayed>>
    BY <1>2 DEF plannerVars
  <2>2. QED
    BY <1>1, <2>1, QuestionFrame DEF ControlInv, PlannerShape, TransfersApart
<1>3. CASE \E c \in asked : Handled(c)
  BY <1>1, <1>3, HandledKeeps
<1>4. CASE \E i \in DOMAIN replies : Takes(i)
  BY <1>1, <1>4, TakesKeeps
<1>5. CASE OpenDialog \/ CancelDialog \/ EditRoute \/ \E v \in Uavs : Tick(v)
  BY <1>1, <1>5, DialogsKeep
<1>6. CASE Remount \/ Dismiss \/ handleDeleteMission \/ handleUploadMission
  BY <1>1, <1>6, RemountKeeps, DismissKeeps, DeleteKeeps, UploadKeeps
<1>7. ASSUME NEW r \in Jobs,
             \/ Confirm(r) \/ handleSelectMission(r) \/ handleSaveDraft(r) \/ handleSaveMission(r)
             \/ handleDuplicateMission(r) \/ handleAssignMission(r) \/ handleAssignFleet(r)
             \/ handleDownloadMission(r)
      PROVE  ControlInv'
  BY <1>1, <1>7, ConfirmedKeeps, SelectKeeps, RequestsKeep, DownloadKeeps
<1>8. QED
  BY <1>1, <1>2, <1>3, <1>4, <1>5, <1>6, <1>7, Zenon DEF PlannerNext

LEMMA ControlIsSafe == ControlInv => BelongTogether /\ OneTransfer
<1>1. SUFFICES ASSUME ControlInv PROVE BelongTogether /\ OneTransfer
  OBVIOUS
<1>2. ASSUME ~ strayed, asked = {}, replies = <<>> PROVE base = selectedMissionId
  <2>1. ASSUME NEW r \in Jobs PROVE job[r].state # "running"
    <3>1. SUFFICES ASSUME job[r].state = "running" PROVE FALSE
      OBVIOUS
    <3>2. Head(job[r].plan) # {}
      BY <1>1, <3>1, HeadNotEmpty DEF ControlInv, PlannerShape, JobShape
    <3>3. 1..Len(replies) = {}
      BY <1>2, EmptyIsSeq
    <3>4. QED
      BY <1>1, <1>2, <3>1, <3>2, <3>3 DEF ControlInv, OnItsWay
  <2>2. \A r \in Jobs : ~ Moves(job[r])
    BY <2>1 DEF Moves
  <2>3. QED
    BY <1>1, <1>2, <2>2 DEF ControlInv, OneMover
<1>3. QED
  BY <1>1, <1>2 DEF BelongTogether, ControlInv, TransfersApart

-----------------------------------------------------------------------------
(* The list.                                                               *)

OnMissions(s) == s.route = [m \in Missions |-> s.route[m]]

\* A list that is what the database has, but for vehicles that were taken away.
Matches(s, d) ==
  /\ s.ids = d.ids /\ OnMissions(s)
  /\ \A m \in Missions : s.route[m] = d.route[m] /\ d.assigned[m] \subseteq s.assigned[m]

Heard(s, a) == IF a.ok THEN Taken(s, a.call.q, a.now) ELSE s

\* A list that is on its way makes up for what the others leave out.
WillList ==
  \/ \E c \in asked : c.q.op = "list"
  \/ \E i \in 1..Len(replies) : replies[i].ok /\ replies[i].call.q.op = "download"

\* With the answers under way taken in, the list is the database's, or will be read.
ListsCatchUp ==
  /\ OnMissions(db)
  /\ orderly => \E T :
       /\ T[0] = missionList
       /\ \A i \in 1..Len(replies) : T[i] = Heard(T[i - 1], replies[i])
       /\ WillList \/ Matches(T[Len(replies)], db)

LEMMA AppliedOnMissions == ASSUME NEW q, Applied(q) PROVE OnMissions(db)'
<1>1. PICK f : db'.route = [m \in Missions |-> f[m]]
  <2>1. PICK f : f = [m \in Missions |->
      IF m \in q.of /\ q.op \in {"create", "download", "update", "delete"} THEN q.route ELSE db.route[m]]
    OBVIOUS
  <2>2. db'.route = f
    BY <2>1 DEF Applied
  <2>3. f = [m \in Missions |-> f[m]]
    BY <2>1
  <2>4. QED
    BY <2>2, <2>3
<1>2. QED
  BY <1>1 DEF OnMissions

\* What the server did to the database and the store to the list is the same.
LEMMA TakenMatches ==
  ASSUME NEW q, Accepted(q), Applied(q), NEW s, NEW now,
         now = [ids |-> db'.ids, route |-> db'.route, assigned |-> db'.assigned],
         q.op = "list" \/ (Matches(s, db) /\ q.op # "download"),
         q.op = "delete" => q.route = 0 /\ q.to = {}
  PROVE  Matches(Taken(s, q, now), db')
<1>0. OnMissions(db)'
  BY AppliedOnMissions
<1>1. PICK e : e = db'
  OBVIOUS
<1>2. /\ now.ids = e.ids /\ now.route = e.route /\ now.assigned = e.assigned
  BY <1>1
<1>3. /\ e.ids = CASE q.op \in {"create", "download"} -> db.ids \cup q.of
                   [] q.op = "delete" -> db.ids \ q.of
                   [] OTHER -> db.ids
      /\ \A m \in Missions : e.route[m] =
           IF m \in q.of /\ q.op \in {"create", "download", "update", "delete"} THEN q.route ELSE db.route[m]
      /\ \A m \in Missions : e.assigned[m] =
           CASE q.op = "assign" -> IF m \in q.of THEN db.assigned[m] \cup q.to ELSE db.assigned[m] \ q.to
             [] q.op = "unassign" /\ m \in q.of -> db.assigned[m] \ q.to
             [] q.op \in {"create", "download", "delete"} /\ m \in q.of -> q.to
             [] OTHER -> db.assigned[m]
  BY <1>1 DEF Applied
<1>4. PICK t : t = Taken(s, q, now)
  OBVIOUS
<1>5. CASE q.op = "list"
  <2>1. t = now
    BY <1>4, <1>5 DEF Taken
  <2>2. OnMissions(now)
    BY <1>0, <1>1, <1>2 DEF OnMissions
  <2>3. Matches(t, e)
    BY <1>2, <2>1, <2>2 DEF Matches
  <2>4. QED
    BY <1>1, <1>4, <2>3
<1>6. CASE q.op # "list"
  <2>0. Matches(s, db) /\ q.op # "download"
    BY <1>6
  <2>1. \A ids, S, x : /\ Replaced(s, ids, S, x).ids = ids /\ OnMissions(Replaced(s, ids, S, x))
                       /\ \A m \in Missions :
                            /\ Replaced(s, ids, S, x).route[m] = IF m \in S THEN x.route[m] ELSE s.route[m]
                            /\ Replaced(s, ids, S, x).assigned[m] = IF m \in S THEN x.assigned[m] ELSE s.assigned[m]
    BY DEF Replaced, OnMissions
  <2>2. CASE q.op = "create"
    <3>1. t = Replaced(s, s.ids \cup q.of, q.of, now)
      BY <1>4, <2>2 DEF Taken, createMission
    <3>2. Matches(t, e)
      BY <1>2, <1>3, <2>0, <2>1, <2>2, <3>1 DEF Matches
    <3>3. QED
      BY <1>1, <1>4, <3>2
  <2>3. CASE q.op = "update"
    <3>1. t = Replaced(s, s.ids, q.of \cap s.ids, now)
      BY <1>4, <2>3 DEF Taken, updateMission
    <3>2. q.of \subseteq s.ids
      BY <2>0, <2>3 DEF Accepted, Matches
    <3>3. Matches(t, e)
      BY <1>2, <1>3, <2>0, <2>1, <2>3, <3>1, <3>2 DEF Matches
    <3>4. QED
      BY <1>1, <1>4, <3>3
  <2>4. CASE q.op = "delete"
    <3>1. PICK x : x = [route |-> [m \in Missions |-> 0], assigned |-> [m \in Missions |-> {}]]
      OBVIOUS
    <3>2. t = Replaced(s, s.ids \ q.of, q.of, x)
      BY <1>4, <2>4, <3>1 DEF Taken, deleteMission
    <3>3. \A m \in Missions : x.route[m] = 0 /\ x.assigned[m] = {}
      BY <3>1
    <3>4. Matches(t, e)
      BY <1>3, <2>0, <2>1, <2>4, <3>2, <3>3 DEF Matches
    <3>5. QED
      BY <1>1, <1>4, <3>4
  <2>5. CASE q.op = "assign"
    <3>1. /\ t.ids = s.ids /\ t.route = s.route
          /\ \A m \in Missions : t.assigned[m] = IF m \in q.of \cap s.ids THEN s.assigned[m] \cup q.to ELSE s.assigned[m]
      BY <1>4, <2>5 DEF Taken, assignMission
    <3>2. q.of \subseteq s.ids
      BY <2>0, <2>5 DEF Accepted, Matches
    <3>3. Matches(t, e)
      BY <1>3, <2>0, <2>5, <3>1, <3>2 DEF Matches, OnMissions
    <3>4. QED
      BY <1>1, <1>4, <3>3
  <2>6. CASE q.op = "unassign"
    <3>1. /\ t.ids = s.ids /\ t.route = s.route
          /\ \A m \in Missions : t.assigned[m] = IF m \in q.of THEN s.assigned[m] \ q.to ELSE s.assigned[m]
      BY <1>4, <2>6 DEF Taken, unassignMission
    <3>2. Matches(t, e)
      BY <1>3, <2>0, <2>6, <3>1 DEF Matches, OnMissions
    <3>3. QED
      BY <1>1, <1>4, <3>2
  <2>7. CASE q.op \notin {"create", "update", "delete", "assign", "unassign"}
    <3>1. t = s
      BY <1>4, <1>6, <2>7 DEF Taken
    <3>2. Matches(t, e)
      BY <1>3, <2>0, <2>7, <3>1 DEF Matches
    <3>3. QED
      BY <1>1, <1>4, <3>2
  <2>8. QED
    BY <2>2, <2>3, <2>4, <2>5, <2>6, <2>7
<1>7. QED
  BY <1>5, <1>6

\* A step of the page that receives nothing.
LEMMA ListsFrame ==
  ASSUME ListsCatchUp, db' = db, missionList' = missionList, replies' = replies, orderly' = orderly,
         asked \subseteq asked'
  PROVE  ListsCatchUp'
<1>1. WillList => WillList'
  BY DEF WillList
<1>2. QED
  BY <1>1 DEF ListsCatchUp, OnMissions

LEMMA AnswerIsHeard ==
  ASSUME ControlInv, ListsCatchUp, NEW c \in asked, NEW ok, Answers(c, ok),
         OnMissions(db)', orderly' => orderly, ~ ok /\ orderly' => db' = db /\ c.q.op # "list",
         ok => Accepted(c.q) /\ Applied(c.q)
  PROVE  ListsCatchUp'
<1>0. /\ missionList' = missionList /\ asked' = asked \ {c} /\ PlannerShape /\ OnItsWay
  BY DEF Answers, ControlInv
<1>1. PICK a : /\ a.call = c /\ a.ok = ok /\ replies' = Append(replies, a)
               /\ a.now = [ids |-> db'.ids, route |-> db'.route, assigned |-> db'.assigned]
  BY DEF Answers
<1>2. PICK n : n = Len(replies)
  OBVIOUS
<1>3. /\ n \in Nat /\ Len(replies') = n + 1 /\ replies'[n + 1] = a
      /\ \A i \in 1..n : replies'[i] = replies[i]
  <2>1. PICK u, w : u = replies /\ w = replies'
    OBVIOUS
  <2>2. IsSeq(u) /\ w = Append(u, a)
    BY <1>0, <1>1, <2>1 DEF PlannerShape
  <2>3. IsSeq(w) /\ Len(u) \in Nat /\ Len(w) = Len(u) + 1 /\ w[Len(u) + 1] = a
    BY <2>2, AppendedElements
  <2>4. \A i \in 1..Len(u) : w[i] = u[i]
    BY <2>2, AppendedElements
  <2>5. QED
    BY <1>2, <2>1, <2>3, <2>4
<1>4. ASSUME orderly'
      PROVE  \E T : /\ T[0] = missionList'
                    /\ \A i \in 1..Len(replies') : T[i] = Heard(T[i - 1], replies'[i])
                    /\ WillList' \/ Matches(T[Len(replies')], db')
  <2>1. PICK T : /\ T[0] = missionList
                 /\ \A i \in 1..n : T[i] = Heard(T[i - 1], replies[i])
                 /\ WillList \/ Matches(T[n], db)
    BY <1>2, <1>4 DEF ListsCatchUp
  <2>2. PICK U : U = [i \in 0..(n + 1) |-> IF i = n + 1 THEN Heard(T[n], a) ELSE T[i]]
    OBVIOUS
  <2>3. U[0] = missionList' /\ U[n + 1] = Heard(T[n], a)
    BY <1>0, <1>3, <2>1, <2>2
  <2>4. ASSUME NEW i \in 1..(n + 1) PROVE U[i] = Heard(U[i - 1], replies'[i])
    <3>1. CASE i = n + 1
      BY <1>3, <2>2, <3>1
    <3>2. CASE i \in 1..n
      <4>1. i # n + 1 /\ i - 1 # n + 1 /\ i \in 0..(n + 1) /\ i - 1 \in 0..(n + 1)
        BY <1>3, <3>2
      <4>2. U[i] = T[i] /\ U[i - 1] = T[i - 1]
        BY <2>2, <4>1
      <4>3. QED
        BY <1>3, <2>1, <3>2, <4>2
    <3>3. QED
      BY <1>3, <2>4, <3>1, <3>2
  <2>5. WillList' \/ Matches(Heard(T[n], a), db')
    <3>1. (\E i \in 1..n : replies[i].ok /\ replies[i].call.q.op = "download") => WillList'
      BY <1>3 DEF WillList
    <3>2. (\E d \in asked : d.q.op = "list") /\ c.q.op # "list" => WillList'
      BY <1>0 DEF WillList
    <3>3. ok /\ c.q.op = "download" => WillList'
      <4>1. n + 1 \in 1..Len(replies')
        BY <1>3
      <4>2. QED
        BY <1>1, <1>3, <4>1 DEF WillList
    <3>4. CASE ~ ok
      <4>1. Heard(T[n], a) = T[n] /\ db' = db /\ c.q.op # "list"
        BY <1>1, <1>4, <3>4 DEF Heard
      <4>2. QED
        BY <1>2, <2>1, <3>1, <3>2, <4>1 DEF WillList
    <3>5. CASE ok
      <4>1. Heard(T[n], a) = Taken(T[n], c.q, a.now) /\ Accepted(c.q) /\ Applied(c.q)
        BY <1>1, <3>5 DEF Heard
      <4>2. c.q.op = "list" \/ WillList' \/ (Matches(T[n], db) /\ c.q.op # "download")
        BY <1>2, <2>1, <3>1, <3>2, <3>3, <3>5 DEF WillList
      <4>3. c.q.op = "delete" => c.q.route = 0 /\ c.q.to = {}
        <5>1. SUFFICES ASSUME c.q.op = "delete" PROVE c.q.route = 0 /\ c.q.to = {}
          OBVIOUS
        <5>2. PICK p : PlanShape(p) /\ c.q \in Head(p)
          BY <1>0, <5>1 DEF OnItsWay, Awaited, PlannerShape, JobShape
        <5>3. QED
          BY <5>1, <5>2, PlanOfRequest DEF IsEdit, IsGet, IsList, Transfers
      <4>4. QED
        BY <1>1, <4>1, <4>2, <4>3, TakenMatches
    <3>6. QED
      BY <3>4, <3>5
  <2>6. QED
    BY <1>3, <2>3, <2>4, <2>5
<1>5. QED
  BY <1>4 DEF ListsCatchUp

LEMMA HandledLists == ASSUME ControlInv, ListsCatchUp, NEW c \in asked, Handled(c) PROVE ListsCatchUp'
<1>1. CASE Accepts(c)
  <2>1. Accepted(c.q) /\ Applied(c.q) /\ Answers(c, TRUE) /\ orderly' = orderly
    BY <1>1 DEF Accepts
  <2>2. QED
    BY <2>1, AnswerIsHeard, AppliedOnMissions
<1>2. CASE Rejects(c)
  <2>1. Answers(c, FALSE) /\ db' = db /\ orderly' = (orderly /\ c.q.op # "list")
    BY <1>2 DEF Rejects
  <2>2. OnMissions(db)'
    BY <2>1 DEF ListsCatchUp, OnMissions
  <2>3. QED
    BY <2>1, <2>2, AnswerIsHeard
<1>3. CASE TimesOut(c)
  <2>1. Applied(c.q) /\ ~ orderly'
    BY <1>3 DEF TimesOut
  <2>2. QED
    BY <2>1, AppliedOnMissions DEF ListsCatchUp
<1>4. QED
  BY <1>1, <1>2, <1>3 DEF Handled

LEMMA TakesLists ==
  ASSUME ControlInv, ListsCatchUp, NEW i \in DOMAIN replies, Takes(i)
  PROVE  ListsCatchUp'
<1>0. /\ PlannerShape /\ OnItsWay /\ i \in 1..Len(replies) /\ Len(replies) \in Nat
  BY SeqLength DEF ControlInv, PlannerShape
<1>1. /\ db' = db /\ (orderly' => orderly /\ i = 1) /\ replies' = RemoveAt(replies, i)
      /\ missionList' = Heard(missionList, replies[i])
  BY DEF Takes, Heard
<1>2. CASE ~ orderly'
  BY <1>1, <1>2 DEF ListsCatchUp, OnMissions
<1>3. CASE orderly'
  <2>1. PICK n : n = Len(replies)
    OBVIOUS
  <2>2. i = 1 /\ n \in Nat /\ n >= 1
    BY <1>0, <1>1, <1>3, <2>1
  <2>3. /\ Len(replies') = n - 1
        /\ \A k \in 1..(n - 1) : replies'[k] = replies[k + 1]
    <3>1. PICK u, w : u = replies /\ w = replies'
      OBVIOUS
    <3>2. IsSeq(u) /\ 1 \in 1..Len(u) /\ w = RemoveAt(u, 1)
      BY <1>0, <1>1, <2>2, <3>1 DEF PlannerShape
    <3>3. Len(w) = Len(u) - 1
      BY <3>2, RemainingElements
    <3>4. \A k \in 1..Len(w) : w[k] = IF k < 1 THEN u[k] ELSE u[k + 1]
      BY <3>2, RemainingElements
    <3>5. QED
      BY <2>1, <2>2, <3>1, <3>3, <3>4
  <2>4. PICK T : /\ T[0] = missionList
                 /\ \A k \in 1..n : T[k] = Heard(T[k - 1], replies[k])
                 /\ WillList \/ Matches(T[n], db)
    BY <1>1, <1>3, <2>1 DEF ListsCatchUp
  <2>5. PICK U : U = [k \in 0..(n - 1) |-> T[k + 1]]
    OBVIOUS
  <2>6. U[0] = missionList' /\ U[n - 1] = T[n]
    <3>1. T[1] = Heard(T[0], replies[1])
      BY <2>2, <2>4
    <3>2. QED
      BY <1>1, <2>2, <2>4, <2>5, <3>1
  <2>7. ASSUME NEW k \in 1..(n - 1) PROVE U[k] = Heard(U[k - 1], replies'[k])
    <3>1. k + 1 \in 1..n /\ k \in 0..(n - 1) /\ k - 1 \in 0..(n - 1) /\ (k + 1) - 1 = k /\ (k - 1) + 1 = k
      BY <2>2
    <3>2. U[k] = T[k + 1] /\ U[k - 1] = T[k]
      BY <2>5, <3>1
    <3>3. QED
      BY <2>3, <2>4, <3>1, <3>2
  <2>8. WillList => WillList'
    <3>1. CASE \E c \in asked : c.q.op = "list"
      <4>1. asked \subseteq asked'
        <5>1. fetchMission(replies[i]) \/ GoesOn(replies[i])
          BY DEF Takes
        <5>2. QED
          BY <5>1 DEF fetchMission, GoesOn, Stops, Finishes, Advances
      <4>2. QED
        BY <3>1, <4>1 DEF WillList
    <3>2. CASE \E k \in 2..n : replies[k].ok /\ replies[k].call.q.op = "download"
      <4>1. PICK k \in 2..n : replies[k].ok /\ replies[k].call.q.op = "download"
        BY <3>2
      <4>2. k - 1 \in 1..(n - 1) /\ (k - 1) + 1 = k
        BY <2>2, <4>1
      <4>3. replies'[k - 1] = replies[k]
        BY <2>3, <4>2
      <4>4. QED
        BY <2>3, <4>1, <4>2, <4>3 DEF WillList
    <3>3. CASE replies[1].ok /\ replies[1].call.q.op = "download"
      <4>1. PICK a : a = replies[1]
        OBVIOUS
      <4>2. PICK r, q : r = a.call.by /\ q = a.call.q
        OBVIOUS
      <4>3. r # 0
        BY <1>0, <2>2, <3>3, <4>1, <4>2 DEF OnItsWay, Awaited, Jobs
      <4>4. Outcome(r, q, job[r].plan, a.ok)
        BY <1>0, <2>2, <4>1, <4>2, <4>3, TakeOutcome
      <4>5. a.ok /\ q.op = "download"
        BY <3>3, <4>1, <4>2
      <4>6. \E l : l.op = "list" /\ asked' = asked \cup {[by |-> r, q |-> l]}
        BY <4>4, <4>5 DEF Outcome, IsGet, IsEdit
      <4>7. PICK l, d : l.op = "list" /\ d = [by |-> r, q |-> l] /\ d \in asked'
        BY <4>6
      <4>8. d.q.op = "list"
        BY <4>7
      <4>9. QED
        BY <4>7, <4>8 DEF WillList
    <3>4. QED
      BY <2>1, <2>2, <3>1, <3>2, <3>3 DEF WillList
  <2>9. QED
    BY <1>1, <2>3, <2>4, <2>6, <2>7, <2>8 DEF ListsCatchUp, OnMissions
<1>4. QED
  BY <1>2, <1>3

PlannerInv == ControlInv /\ ListsCatchUp

LEMMA PlannerStarts == PlannerInit => PlannerInv
<1>1. SUFFICES ASSUME PlannerInit PROVE PlannerInv
  OBVIOUS
<1>2. PICK f : f = [m \in Missions |-> IF m \in OldMissions THEN 1 ELSE 0]
  OBVIOUS
<1>3. /\ db.route = f /\ replies = <<>>
      /\ missionList = [ids |-> db.ids, route |-> db.route, assigned |-> db.assigned]
  BY <1>1, <1>2 DEF PlannerInit
<1>4. f = [m \in Missions |-> f[m]]
  BY <1>2
<1>5. OnMissions(db) /\ Matches(missionList, db)
  BY <1>3, <1>4 DEF OnMissions, Matches
<1>6. PICK T : T = [i \in {0} |-> missionList]
  OBVIOUS
<1>7. T[0] = missionList /\ Len(replies) = 0 /\ 1..Len(replies) = {}
  BY <1>3, <1>6, EmptyIsSeq
<1>8. ListsCatchUp
  BY <1>5, <1>7 DEF ListsCatchUp
<1>9. QED
  BY <1>1, <1>8, ControlStarts DEF PlannerInv

LEMMA PlannerStepKeeps == PlannerInv /\ [PlannerNext]_plannerVars => PlannerInv'
<1>1. SUFFICES ASSUME PlannerInv, [PlannerNext]_plannerVars PROVE PlannerInv'
  OBVIOUS
<1>2. ControlInv /\ ListsCatchUp
  BY <1>1 DEF PlannerInv
<1>3. ASSUME NEW c \in asked, Handled(c) PROVE ListsCatchUp'
  BY <1>2, <1>3, HandledLists
<1>4. ASSUME NEW i \in DOMAIN replies, Takes(i) PROVE ListsCatchUp'
  BY <1>2, <1>4, TakesLists
<1>5. ASSUME UNCHANGED plannerVars PROVE ListsCatchUp'
  <2>1. db' = db /\ missionList' = missionList /\ replies' = replies /\ orderly' = orderly /\ asked' = asked
    BY <1>5 DEF plannerVars
  <2>2. QED
    BY <1>2, <2>1, ListsFrame
<1>6. ASSUME \/ OpenDialog \/ CancelDialog \/ EditRoute \/ Remount \/ Dismiss
             \/ handleDeleteMission \/ handleUploadMission \/ \E v \in Uavs : Tick(v)
      PROVE  ListsCatchUp'
  <2>1. db' = db /\ missionList' = missionList /\ replies' = replies /\ orderly' = orderly
    BY <1>6, Zenon DEF OpenDialog, CancelDialog, EditRoute, Remount, Dismiss, handleDeleteMission,
                       handleUploadMission, Tick, Shows, AsksFirst
  <2>2. asked' = asked \/ Remount
    BY <1>6, Zenon DEF OpenDialog, CancelDialog, EditRoute, Remount, Dismiss, handleDeleteMission,
                       handleUploadMission, Tick, Shows, AsksFirst
  <2>3. asked \subseteq asked'
    BY <2>2 DEF Remount
  <2>4. QED
    BY <1>2, <2>1, <2>3, ListsFrame
<1>7. ASSUME NEW r \in Jobs,
             \/ Confirm(r) \/ handleSelectMission(r) \/ handleSaveDraft(r) \/ handleSaveMission(r)
             \/ handleDuplicateMission(r) \/ handleAssignMission(r) \/ handleAssignFleet(r)
             \/ handleDownloadMission(r)
      PROVE  ListsCatchUp'
  <2>1. \E j : Begins(r, j)
    BY <1>7, Zenon DEF Confirm, handleSelectMission, handleSaveDraft, handleSaveMission,
      handleDuplicateMission, handleAssignMission, handleAssignFleet, handleDownloadMission
  <2>2. db' = db /\ missionList' = missionList /\ replies' = replies /\ orderly' = orderly /\ asked \subseteq asked'
    BY <2>1 DEF Begins
  <2>3. QED
    BY <1>2, <2>2, ListsFrame
<1>8. ListsCatchUp'
  <2>1. ASSUME PlannerNext PROVE ListsCatchUp'
    BY <1>3, <1>4, <1>6, <1>7, <2>1, Zenon DEF PlannerNext
  <2>2. QED
    BY <1>1, <1>5, <2>1
<1>9. QED
  BY <1>1, <1>2, <1>8, ControlStepKeeps DEF PlannerInv

LEMMA PlannerIsSafe == PlannerInv => ListIsTrue /\ BelongTogether /\ OneTransfer
<1>1. SUFFICES ASSUME PlannerInv PROVE ListIsTrue
  BY ControlIsSafe DEF PlannerInv
<1>2. SUFFICES ASSUME orderly, asked = {}, replies = <<>>
               PROVE  /\ missionList.ids = db.ids /\ missionList.route = db.route
                      /\ \A m \in Missions : db.assigned[m] \subseteq missionList.assigned[m]
  BY DEF ListIsTrue
<1>3. Len(replies) = 0
  BY <1>2, EmptyIsSeq
<1>4. ~ WillList
  BY <1>2, <1>3 DEF WillList
<1>5. Matches(missionList, db) /\ OnMissions(db)
  BY <1>1, <1>2, <1>3, <1>4 DEF PlannerInv, ListsCatchUp
<1>6. PICK f, g : f = missionList.route /\ g = db.route
  OBVIOUS
<1>7. f = [m \in Missions |-> f[m]] /\ g = [m \in Missions |-> g[m]] /\ \A m \in Missions : f[m] = g[m]
  BY <1>5, <1>6 DEF Matches, OnMissions
<1>8. f = g
  BY <1>7
<1>9. QED
  BY <1>5, <1>6, <1>8 DEF Matches

-----------------------------------------------------------------------------
(* The theorem.                                                            *)

\* However the clicks, the requests, the answers and the timeouts of the planner are
\* interleaved, the list is the database's once all came in, the route is the selected
\* mission's, and one transfer is under way (missionStore.js:84-218,
\* MissionPlannerPage.jsx:642-736).
THEOREM PlannerIsTrue == PlannerSpec => [](ListIsTrue /\ BelongTogether /\ OneTransfer)
BY PlannerStarts, PlannerStepKeeps, PlannerIsSafe, PTL DEF PlannerSpec

-----------------------------------------------------------------------------
(* The types of the missions, the requests and the handlers.               *)

ListOf(d) == [ids |-> d.ids, route |-> d.route, assigned |-> d.assigned]
Received == [call : [by : 0..MaxJobs, q : Ask], ok : BOOLEAN, now : Listed]
RepliesAre == IsSeq(replies) /\ \A i \in 1..Len(replies) : replies[i] \in Received

MissionTypes ==
  /\ ListOf(db) \in Listed /\ db.uploaded \subseteq Missions
  /\ missionList \in Listed
  /\ waypoints \in Routes /\ selectedMissionId \subseteq Missions /\ base \subseteq Missions
  /\ usedMissions \subseteq Missions

HandlerTypes ==
  /\ job \in [Jobs -> Job] /\ \A r \in Jobs : job[r].state # "running" => job[r].plan = <<>>
  /\ busy \subseteq {"upload", "download"}
  /\ asked \subseteq [by : 0..MaxJobs, q : Ask]

PlannerTypes ==
  /\ MissionTypes /\ HandlerTypes /\ RepliesAre
  /\ dialog \in Dialog /\ question \in Job
  /\ deeds \in 0..MaxDeeds /\ orderly \in BOOLEAN /\ strayed \in BOOLEAN

LEMMA RouteNumbers ==
  /\ MaxJobs \in Nat /\ MaxDeeds \in Nat
  /\ 0 \in Routes /\ 1 \in Routes /\ 2 \in Routes
  /\ \A n \in 0..MaxDeeds : 2 + n \in Routes
BY PlannerAssumption DEF Routes

LEMMA AskedTypes ==
  ASSUME NEW o \in Writes \cup {"list", "get"}, NEW m \in SUBSET Missions, NEW vs \in SUBSET Uavs, NEW x \in Routes
  PROVE  Asked(o, m, vs, x) \in Ask /\ Reads(o, m) \in Ask
BY RouteNumbers DEF Asked, Reads, Ask

LEMMA ListTypes ==
  ASSUME NEW ids \in SUBSET Missions, NEW f, NEW g,
         \A m \in Missions : f[m] \in Routes, \A m \in Missions : g[m] \in SUBSET Uavs
  PROVE  [ids |-> ids, route |-> [m \in Missions |-> f[m]], assigned |-> [m \in Missions |-> g[m]]] \in Listed
BY DEF Listed

LEMMA ListFields ==
  ASSUME NEW s \in Listed
  PROVE  /\ s.ids \subseteq Missions /\ s.route \in [Missions -> Routes] /\ s.assigned \in [Missions -> SUBSET Uavs]
         /\ \A m \in Missions : s.route[m] \in Routes /\ s.assigned[m] \subseteq Uavs
BY DEF Listed

LEMMA ReplacedTypes ==
  ASSUME NEW s \in Listed, NEW ids \in SUBSET Missions, NEW S, NEW now,
         \A m \in Missions : now.route[m] \in Routes, \A m \in Missions : now.assigned[m] \in SUBSET Uavs
  PROVE  Replaced(s, ids, S, now) \in Listed
<1>1. PICK f : f = [m \in Missions |-> IF m \in S THEN now.route[m] ELSE s.route[m]]
  OBVIOUS
<1>2. PICK g : g = [m \in Missions |-> IF m \in S THEN now.assigned[m] ELSE s.assigned[m]]
  OBVIOUS
<1>3. f \in [Missions -> Routes]
  BY <1>1, ListFields
<1>4. g \in [Missions -> SUBSET Uavs]
  BY <1>2, ListFields
<1>5. Replaced(s, ids, S, now) = [ids |-> ids, route |-> f, assigned |-> g]
  BY <1>1, <1>2 DEF Replaced
<1>6. QED
  BY <1>3, <1>4, <1>5 DEF Listed

\* What the store makes of an answer is a list.
LEMMA TakenTypes ==
  ASSUME NEW s \in Listed, NEW q \in Ask, NEW now \in Listed
  PROVE  Taken(s, q, now) \in Listed
<1>1. q.of \subseteq Missions /\ q.to \subseteq Uavs
  BY DEF Ask
<1>2. \A m \in Missions : now.route[m] \in Routes /\ now.assigned[m] \in SUBSET Uavs
  BY ListFields
<1>3. s.ids \subseteq Missions
  BY ListFields
<1>4. createMission(s, q, now) \in Listed
  BY <1>1, <1>2, <1>3, ReplacedTypes DEF createMission
<1>5. updateMission(s, q, now) \in Listed
  BY <1>1, <1>2, <1>3, ReplacedTypes DEF updateMission
<1>6. deleteMission(s, q) \in Listed
  <2>1. PICK x : x = [route |-> [m \in Missions |-> 0], assigned |-> [m \in Missions |-> {}]]
    OBVIOUS
  <2>2. (\A m \in Missions : x.route[m] \in Routes) /\ (\A m \in Missions : x.assigned[m] \in SUBSET Uavs)
    BY <2>1, RouteNumbers
  <2>3. Replaced(s, s.ids \ q.of, q.of, x) \in Listed
    BY <1>3, <2>2, ReplacedTypes
  <2>4. QED
    BY <2>1, <2>3 DEF deleteMission
<1>7. assignMission(s, q) \in Listed
  <2>1. PICK g : g = [m \in Missions |-> IF m \in q.of \cap s.ids THEN s.assigned[m] \cup q.to ELSE s.assigned[m]]
    OBVIOUS
  <2>2. g \in [Missions -> SUBSET Uavs]
    BY <1>1, <2>1, ListFields
  <2>3. assignMission(s, q) = [ids |-> s.ids, route |-> s.route, assigned |-> g]
    BY <2>1 DEF assignMission
  <2>4. QED
    BY <2>2, <2>3, ListFields DEF Listed
<1>8. unassignMission(s, q) \in Listed
  <2>1. PICK g : g = [m \in Missions |-> IF m \in q.of THEN s.assigned[m] \ q.to ELSE s.assigned[m]]
    OBVIOUS
  <2>2. g \in [Missions -> SUBSET Uavs]
    BY <1>1, <2>1, ListFields
  <2>3. unassignMission(s, q) = [ids |-> s.ids, route |-> s.route, assigned |-> g]
    BY <2>1 DEF unassignMission
  <2>4. QED
    BY <2>2, <2>3, ListFields DEF Listed
<1>9. QED
  BY <1>4, <1>5, <1>6, <1>7, <1>8 DEF Taken

\* What the server makes of the database is a database.
LEMMA AppliedTypes ==
  ASSUME ListOf(db) \in Listed, db.uploaded \subseteq Missions, NEW q \in Ask, Applied(q)
  PROVE  ListOf(db') \in Listed /\ db'.uploaded \subseteq Missions
<1>1. q.of \subseteq Missions /\ q.to \subseteq Uavs /\ q.route \in Routes
  BY DEF Ask
<1>2. /\ db.ids \subseteq Missions
      /\ \A m \in Missions : db.route[m] \in Routes /\ db.assigned[m] \subseteq Uavs
  <2>1. PICK s : s = ListOf(db)
    OBVIOUS
  <2>2. s.ids = db.ids /\ s.route = db.route /\ s.assigned = db.assigned
    BY <2>1 DEF ListOf
  <2>3. QED
    BY <2>1, <2>2, ListFields
<1>3. PICK f : f = [m \in Missions |->
      IF m \in q.of /\ q.op \in {"create", "download", "update", "delete"} THEN q.route ELSE db.route[m]]
  OBVIOUS
<1>4. PICK g : g = [m \in Missions |->
        CASE q.op = "assign" -> IF m \in q.of THEN db.assigned[m] \cup q.to ELSE db.assigned[m] \ q.to
          [] q.op = "unassign" /\ m \in q.of -> db.assigned[m] \ q.to
          [] q.op \in {"create", "download", "delete"} /\ m \in q.of -> q.to
          [] OTHER -> db.assigned[m]]
  OBVIOUS
<1>5. f \in [Missions -> Routes]
  BY <1>1, <1>2, <1>3
<1>6. g \in [Missions -> SUBSET Uavs]
  <2>1. ASSUME NEW m \in Missions PROVE g[m] \subseteq Uavs
    BY <1>1, <1>2, <1>4, <2>1
  <2>2. QED
    BY <1>4, <2>1
<1>7. db'.route = f /\ db'.assigned = g
  BY <1>3, <1>4 DEF Applied
<1>8. db'.ids \subseteq Missions /\ db'.uploaded \subseteq Missions
  BY <1>1, <1>2 DEF Applied
<1>9. QED
  BY <1>5, <1>6, <1>7, <1>8 DEF ListOf, Listed

\* The server's step answers one request, and changes the database or not.
LEMMA HandledTypes ==
  ASSUME PlannerTypes, NEW c \in asked, Handled(c)
  PROVE  PlannerTypes'
<1>1. c \in [by : 0..MaxJobs, q : Ask] /\ c.q \in Ask
  BY DEF PlannerTypes, HandlerTypes
<1>2. PICK ok \in BOOLEAN : Answers(c, ok)
  BY Zenon DEF Handled, Accepts, Rejects, TimesOut
<1>3. ListOf(db') \in Listed /\ db'.uploaded \subseteq Missions
  <2>1. Applied(c.q) \/ db' = db
    BY Zenon DEF Handled, Accepts, Rejects, TimesOut
  <2>2. CASE Applied(c.q)
    BY <1>1, <2>2, AppliedTypes DEF PlannerTypes, MissionTypes
  <2>3. CASE db' = db
    BY <2>3 DEF PlannerTypes, MissionTypes
  <2>4. QED
    BY <2>1, <2>2, <2>3
<1>4. deeds' \in 0..MaxDeeds
  <2>1. deeds' = deeds \/ (deeds < MaxDeeds /\ deeds' = deeds + 1)
    BY DEF Handled, Accepts, Rejects, TimesOut, Deed
  <2>2. QED
    BY <2>1, RouteNumbers DEF PlannerTypes
<1>5. orderly' \in BOOLEAN
  BY DEF Handled, Accepts, Rejects, TimesOut, PlannerTypes
<1>6. PICK e : e = [call |-> c, ok |-> ok, now |-> ListOf(db')]
  OBVIOUS
<1>7. e \in Received
  BY <1>1, <1>2, <1>3, <1>6 DEF Received
<1>8. replies' = Append(replies, e)
  BY <1>2, <1>6 DEF Answers, ListOf
<1>9. RepliesAre'
  <2>1. PICK u, w : u = replies /\ w = replies'
    OBVIOUS
  <2>2. IsSeq(u) /\ w = Append(u, e)
    BY <1>8, <2>1 DEF PlannerTypes, RepliesAre
  <2>3. IsSeq(w) /\ Len(u) \in Nat /\ Len(w) = Len(u) + 1 /\ w[Len(u) + 1] = e
    BY <2>2, AppendedElements
  <2>4. \A i \in 1..Len(u) : w[i] = u[i]
    BY <2>2, AppendedElements
  <2>5. \A i \in 1..Len(w) : w[i] \in Received
    BY <1>7, <2>1, <2>3, <2>4 DEF PlannerTypes, RepliesAre
  <2>6. QED
    BY <2>1, <2>3, <2>5 DEF RepliesAre
<1>10. asked' \subseteq asked
  BY <1>2 DEF Answers
<1>11. UNCHANGED <<missionList, selectedMissionId, waypoints, base, dialog, question, busy, job,
                 usedMissions, strayed>>
  BY <1>2 DEF Answers
<1>12. MissionTypes' /\ HandlerTypes'
  BY <1>3, <1>10, <1>11 DEF PlannerTypes, MissionTypes, HandlerTypes
<1>13. dialog' \in Dialog /\ question' \in Job
  BY <1>11 DEF PlannerTypes
<1>14. strayed' \in BOOLEAN
  BY <1>11 DEF PlannerTypes
<1>15. QED
  BY <1>4, <1>5, <1>9, <1>12, <1>13, <1>14 DEF PlannerTypes

LEMMA PlannerTypesStart == PlannerInit => PlannerTypes
<1>1. SUFFICES ASSUME PlannerInit PROVE PlannerTypes
  OBVIOUS
<1>2. PICK f : f = [m \in Missions |-> IF m \in OldMissions THEN 1 ELSE 0]
  OBVIOUS
<1>3. PICK g : g = [m \in Missions |-> IF m \in Manned THEN Uavs ELSE {}]
  OBVIOUS
<1>4. /\ db = [ids |-> OldMissions, route |-> f, assigned |-> g, uploaded |-> {}]
      /\ missionList = ListOf(db)
  BY <1>1, <1>2, <1>3 DEF PlannerInit, ListOf
<1>5. f \in [Missions -> Routes] /\ g \in [Missions -> SUBSET Uavs]
  BY <1>2, <1>3, RouteNumbers
<1>6. ListOf(db) \in Listed /\ db.uploaded \subseteq Missions
  BY <1>4, <1>5, PlannerAssumption DEF ListOf, Listed
<1>7. /\ selectedMissionId = {} /\ waypoints = 0 /\ base = {} /\ usedMissions = OldMissions
      /\ busy = {} /\ asked = {} /\ replies = <<>> /\ deeds = 0
  BY <1>1 DEF PlannerInit
<1>8. MissionTypes
  BY <1>4, <1>6, <1>7, RouteNumbers, PlannerAssumption DEF MissionTypes
<1>9. PICK e : e = Ended("idle")
  OBVIOUS
<1>10. e \in Job /\ e.state = "idle" /\ e.plan = <<>>
  BY <1>9 DEF Ended, Job
<1>11. job = [r \in Jobs |-> e] /\ question = e
  BY <1>1, <1>9 DEF PlannerInit
<1>12. HandlerTypes
  BY <1>7, <1>10, <1>11 DEF HandlerTypes
<1>13. dialog \in Dialog
  BY <1>1 DEF PlannerInit, NoDialog, Dialog
<1>14. RepliesAre
  BY <1>7, EmptyIsSeq DEF RepliesAre
<1>15. orderly \in BOOLEAN
  BY <1>1 DEF PlannerInit
<1>16. strayed \in BOOLEAN
  BY <1>1 DEF PlannerInit
<1>17. QED
  BY <1>7, <1>8, <1>10, <1>11, <1>12, <1>13, <1>14, <1>15, <1>16, RouteNumbers DEF PlannerTypes


-----------------------------------------------------------------------------
(* The types after an answer.                                              *)

JobStates == {"idle", "running", "done", "failed"}

LEMMA EndedTypes == ASSUME NEW s \in JobStates PROVE Ended(s) \in Job /\ Ended(s).plan = <<>>
BY DEF Ended, Job, JobStates

LEMMA JobTypes ==
  ASSUME NEW j \in Job
  PROVE  /\ j.state \in JobStates /\ j.plan \in Seq(SUBSET Ask) /\ j.closes \in {"none", "new", "edit", "assign"}
         /\ j.flag \subseteq {"upload", "download"} /\ j.selects \subseteq Missions /\ j.clears \in BOOLEAN
         /\ \A p \in Seq(SUBSET Ask), m \in SUBSET Missions : [j EXCEPT !.plan = p, !.selects = m] \in Job
         /\ \A p \in Seq(SUBSET Ask) : [j EXCEPT !.plan = p] \in Job
BY DEF Job, JobStates

\* A plan that is under way, without what was answered.
LEMMA PlanTypes ==
  ASSUME NEW p \in Seq(SUBSET Ask), PlanShape(p)
  PROVE  /\ Len(p) \in Nat /\ p # <<>> /\ Head(p) \in SUBSET Ask /\ Tail(p) \in Seq(SUBSET Ask)
         /\ Len(p) # 1 => Head(Tail(p)) \in SUBSET Ask /\ Tail(p) # <<>>
         /\ \A S \in SUBSET Ask : [p EXCEPT ![1] = S] \in Seq(SUBSET Ask) /\ [p EXCEPT ![1] = S] # <<>>
<1>1. p # <<>>
  <2>1. \A q : <<q>> # <<>>
    OBVIOUS
  <2>2. \A q, r : <<q, r>> # <<>>
    OBVIOUS
  <2>3. \A q, r, s : <<q, r, s>> # <<>>
    OBVIOUS
  <2>4. QED
    BY <2>1, <2>2, <2>3 DEF PlanShape
<1>2. Len(p) \in Nat /\ Len(p) >= 1 /\ Head(p) \in SUBSET Ask /\ Tail(p) \in Seq(SUBSET Ask) /\ Len(Tail(p)) = Len(p) - 1
  BY <1>1, HeadTailProperties
<1>3. ASSUME Len(p) # 1 PROVE Head(Tail(p)) \in SUBSET Ask /\ Tail(p) # <<>>
  <2>1. PICK t : t = Tail(p)
    OBVIOUS
  <2>2. t \in Seq(SUBSET Ask) /\ Len(t) >= 1
    BY <1>2, <1>3, <2>1
  <2>3. t # <<>>
    BY <2>2
  <2>4. QED
    BY <2>1, <2>2, <2>3, HeadTailProperties
<1>4. ASSUME NEW S \in SUBSET Ask PROVE [p EXCEPT ![1] = S] \in Seq(SUBSET Ask) /\ [p EXCEPT ![1] = S] # <<>>
  <2>1. PICK t : t = [p EXCEPT ![1] = S]
    OBVIOUS
  <2>2. t \in Seq(SUBSET Ask) /\ Len(t) = Len(p)
    BY <1>2, <2>1
  <2>3. t # <<>>
    BY <1>2, <2>2
  <2>4. QED
    BY <2>1, <2>2, <2>3
<1>5. QED
  BY <1>1, <1>2, <1>3, <1>4

\* The types that an answer to handler r may disturb.
TakenBy(r) ==
  /\ job' \in [Jobs -> Job] /\ \A s \in Jobs : job'[s].state # "running" => job'[s].plan = <<>>
  /\ busy' \subseteq {"upload", "download"}
  /\ asked' \subseteq [by : 0..MaxJobs, q : Ask]
  /\ selectedMissionId' \subseteq Missions /\ base' \subseteq Missions /\ waypoints' \in Routes
  /\ dialog' \in Dialog

LEMMA JobGoesOnTypes ==
  ASSUME PlannerTypes, NEW r \in Jobs, NEW j \in Job, job' = [job EXCEPT ![r] = j],
         j.state # "running" => j.plan = <<>>
  PROVE  job' \in [Jobs -> Job] /\ \A s \in Jobs : job'[s].state # "running" => job'[s].plan = <<>>
BY DEF PlannerTypes, HandlerTypes

LEMMA AskingTypes ==
  ASSUME NEW r \in Jobs, NEW S \in SUBSET Ask
  PROVE  {[by |-> r, q |-> q] : q \in S} \subseteq [by : 0..MaxJobs, q : Ask]
BY RouteNumbers DEF Jobs

LEMMA EndsTypes ==
  ASSUME PlannerTypes, NEW r \in Jobs, NEW s \in {"done", "failed"}, job' = [job EXCEPT ![r] = Ended(s)],
         busy' = busy \ job[r].flag
  PROVE  /\ job' \in [Jobs -> Job] /\ \A t \in Jobs : job'[t].state # "running" => job'[t].plan = <<>>
         /\ busy' \subseteq {"upload", "download"}
<1>1. Ended(s) \in Job /\ Ended(s).plan = <<>>
  BY EndedTypes DEF JobStates
<1>2. busy' \subseteq {"upload", "download"}
  BY DEF PlannerTypes, HandlerTypes
<1>3. QED
  BY <1>1, <1>2, JobGoesOnTypes

LEMMA GoesOnTypes ==
  ASSUME PlannerTypes, NEW a \in Received, NEW r, r = a.call.by, GoesOn(a),
         r # 0 => r \in Jobs /\ job[r].state = "running" /\ PlanShape(job[r].plan)
  PROVE  TakenBy(r)
<1>1. /\ HandlerTypes /\ selectedMissionId \subseteq Missions /\ base \subseteq Missions /\ waypoints \in Routes
      /\ dialog \in Dialog /\ job \in [Jobs -> Job]
  BY DEF PlannerTypes, MissionTypes, HandlerTypes
<1>2. CASE r = 0
  <2>1. UNCHANGED <<job, selectedMissionId, waypoints, base, dialog, busy, asked>>
    BY <1>2 DEF GoesOn
  <2>2. QED
    BY <1>1, <2>1 DEF TakenBy, HandlerTypes
<1>3. ASSUME r # 0, Stops(r) PROVE TakenBy(r)
  <2>1. /\ job' = [job EXCEPT ![r] = Ended("failed")] /\ busy' = busy \ job[r].flag
        /\ UNCHANGED <<selectedMissionId, waypoints, base, dialog, asked>>
    BY <1>3 DEF Stops
  <2>2. /\ job' \in [Jobs -> Job] /\ \A t \in Jobs : job'[t].state # "running" => job'[t].plan = <<>>
        /\ busy' \subseteq {"upload", "download"}
    BY <1>3, <2>1, EndsTypes
  <2>3. QED
    BY <1>1, <2>1, <2>2 DEF TakenBy, HandlerTypes
<1>4. ASSUME r # 0, Finishes(r) PROVE TakenBy(r)
  <2>1. /\ job' = [job EXCEPT ![r] = Ended("done")] /\ busy' = busy \ job[r].flag /\ asked' = asked
        /\ dialog' \in {dialog, NoDialog}
    BY <1>4 DEF Finishes
  <2>2. /\ job' \in [Jobs -> Job] /\ \A t \in Jobs : job'[t].state # "running" => job'[t].plan = <<>>
        /\ busy' \subseteq {"upload", "download"}
    BY <1>4, <2>1, EndsTypes
  <2>3. job[r].selects \subseteq Missions
    BY <1>1, <1>4, JobTypes
  <2>4. selectedMissionId' \subseteq Missions /\ base' \subseteq Missions /\ waypoints' \in Routes
    BY <1>1, <1>4, <2>3, RouteNumbers DEF Finishes
  <2>5. NoDialog \in Dialog
    BY SMTT(30) DEF NoDialog, Dialog
  <2>6. QED
    BY <1>1, <2>1, <2>2, <2>4, <2>5 DEF TakenBy, HandlerTypes
<1>5. ASSUME r # 0, NEW rest, rest = Head(job[r].plan) \ {a.call.q},
             job' = [job EXCEPT ![r] = [job[r] EXCEPT !.plan = [@ EXCEPT ![1] = rest]]],
             UNCHANGED <<selectedMissionId, waypoints, base, dialog, busy, asked>>
      PROVE  TakenBy(r)
  <2>1. PICK j, p : j = job[r] /\ p = j.plan
    BY SMTT(30)
  <2>2. j \in Job /\ p \in Seq(SUBSET Ask) /\ PlanShape(p) /\ j.state = "running"
    BY <1>1, <1>5, <2>1, JobTypes
  <2>3. [p EXCEPT ![1] = rest] \in Seq(SUBSET Ask)
    BY <1>5, <2>1, <2>2, PlanTypes
  <2>4. PICK k : k = [j EXCEPT !.plan = [p EXCEPT ![1] = rest]]
    OBVIOUS
  <2>5. k \in Job /\ k.state = "running"
    <3>1. k \in Job
      BY <2>2, <2>3, <2>4, JobTypes
    <3>2. QED
      BY <2>2, <2>4, <3>1 DEF Job
  <2>6. job' = [job EXCEPT ![r] = k]
    BY SMTT(30), <1>5, <2>1, <2>4
  <2>7. job' \in [Jobs -> Job] /\ \A s \in Jobs : job'[s].state # "running" => job'[s].plan = <<>>
    BY <1>5, <2>5, <2>6, JobGoesOnTypes
  <2>8. QED
    BY <1>1, <1>5, <2>7 DEF TakenBy, HandlerTypes
<1>6. ASSUME r # 0, Len(job[r].plan) # 1, Advances(r, Tail(job[r].plan)) PROVE TakenBy(r)
  <2>1. PICK j, p : j = job[r] /\ p = j.plan
    OBVIOUS
  <2>2. j \in Job /\ p \in Seq(SUBSET Ask) /\ PlanShape(p) /\ j.state = "running" /\ j.selects \subseteq Missions
    BY <1>1, <1>6, <2>1, JobTypes
  <2>3. PICK left : left = Tail(p)
    OBVIOUS
  <2>4. left \in Seq(SUBSET Ask) /\ Head(left) \in SUBSET Ask
    BY <1>6, <2>1, <2>2, <2>3, PlanTypes
  <2>5. PICK k : k = [j EXCEPT !.plan = left, !.selects = IF Len(left) = 1 THEN {} ELSE @]
    OBVIOUS
  <2>6. k \in Job /\ k.state = "running"
    <3>1. PICK m : m = IF Len(left) = 1 THEN {} ELSE j.selects
      OBVIOUS
    <3>2. m \in SUBSET Missions
      BY <2>2, <3>1
    <3>3. k = [j EXCEPT !.plan = left, !.selects = m]
      BY <2>5, <3>1
    <3>4. k \in Job
      BY <2>2, <2>4, <3>2, <3>3, JobTypes
    <3>5. k.state = j.state
      BY <2>2, <3>3 DEF Job
    <3>6. QED
      BY <2>2, <3>4, <3>5
  <2>7. /\ job' = [job EXCEPT ![r] = k]
        /\ asked' = asked \cup {[by |-> r, q |-> q] : q \in Head(left)}
        /\ UNCHANGED <<waypoints, base, dialog, busy>>
        /\ selectedMissionId' \in {j.selects, selectedMissionId}
    BY <1>6, <2>1, <2>3, <2>5 DEF Advances
  <2>8. job' \in [Jobs -> Job] /\ \A s \in Jobs : job'[s].state # "running" => job'[s].plan = <<>>
    BY <1>6, <2>6, <2>7, JobGoesOnTypes
  <2>9. asked' \subseteq [by : 0..MaxJobs, q : Ask]
    BY <1>1, <1>6, <2>4, <2>7, AskingTypes DEF HandlerTypes
  <2>10. QED
    BY <1>1, <2>2, <2>7, <2>8, <2>9 DEF TakenBy, HandlerTypes
<1>7. QED
  BY <1>2, <1>3, <1>4, <1>5, <1>6, Zenon DEF GoesOn

LEMMA FetchTypes ==
  ASSUME PlannerTypes, NEW a \in Received, NEW r \in Jobs, r = a.call.by, fetchMission(a)
  PROVE  TakenBy(r)
<1>1. /\ HandlerTypes /\ selectedMissionId \subseteq Missions /\ base \subseteq Missions /\ waypoints \in Routes
      /\ dialog \in Dialog
  BY DEF PlannerTypes, MissionTypes, HandlerTypes
<1>2. /\ job' = [job EXCEPT ![r] = Ended("done")] /\ busy' = busy \ job[r].flag
      /\ UNCHANGED <<selectedMissionId, dialog, asked>>
  BY DEF fetchMission
<1>3. /\ job' \in [Jobs -> Job] /\ \A t \in Jobs : job'[t].state # "running" => job'[t].plan = <<>>
      /\ busy' \subseteq {"upload", "download"}
  BY <1>2, EndsTypes
<1>4. base' \subseteq Missions /\ waypoints' \in Routes
  <2>1. a.call.q.of \subseteq Missions /\ a.now \in Listed
    BY DEF Received, Ask
  <2>2. \A m \in Missions : a.now.route[m] \in Routes
    BY <2>1, ListFields
  <2>3. QED
    BY <1>1, <2>1, <2>2 DEF fetchMission
<1>5. QED
  BY <1>1, <1>2, <1>3, <1>4 DEF TakenBy, HandlerTypes

LEMMA TakesTypes ==
  ASSUME PlannerTypes, PlannerShape, OnItsWay, NEW i \in DOMAIN replies, Takes(i)
  PROVE  PlannerTypes'
<1>1. i \in 1..Len(replies) /\ IsSeq(replies)
  BY SeqLength DEF PlannerShape
<1>2. PICK a : a = replies[i]
  OBVIOUS
<1>3. PICK r : r = a.call.by
  OBVIOUS
<1>4. a \in Received /\ a.call.q \in Ask /\ a.now \in Listed /\ Awaited(job, a.call)
  BY <1>1, <1>2 DEF PlannerTypes, RepliesAre, Received, OnItsWay
<1>5. \/ r = 0 /\ a.call.q.op = "list"
      \/ r \in Jobs /\ job[r].state = "running" /\ PlanShape(job[r].plan)
  BY <1>3, <1>4 DEF Awaited, PlannerShape, JobShape
<1>6. TakenBy(r)
  <2>1. CASE a.call.q.op = "get"
    <3>1. fetchMission(a) /\ r \in Jobs
      BY <1>2, <1>5, <2>1 DEF Takes
    <3>2. QED
      BY <1>3, <1>4, <3>1, FetchTypes
  <2>2. CASE a.call.q.op # "get"
    <3>1. GoesOn(a)
      BY <1>2, <2>2 DEF Takes
    <3>2. QED
      BY <1>3, <1>4, <1>5, <3>1, GoesOnTypes
  <2>3. QED
    BY <2>1, <2>2
<1>7. missionList' \in Listed
  <2>1. missionList \in Listed
    BY DEF PlannerTypes, MissionTypes
  <2>2. Taken(missionList, a.call.q, a.now) \in Listed
    BY <1>4, <2>1, TakenTypes
  <2>3. missionList' \in {missionList, Taken(missionList, a.call.q, a.now)}
    BY <1>2 DEF Takes
  <2>4. QED
    BY <2>1, <2>2, <2>3
<1>8. RepliesAre'
  <2>1. PICK u, w : u = replies /\ w = replies'
    OBVIOUS
  <2>2. IsSeq(u) /\ w = RemoveAt(u, i) /\ i \in 1..Len(u)
    BY <1>1, <2>1 DEF Takes
  <2>3. IsSeq(w) /\ Len(u) \in Nat /\ Len(w) = Len(u) - 1
    BY <2>2, RemainingElements
  <2>4. \A k \in 1..Len(w) : w[k] = IF k < i THEN u[k] ELSE u[k + 1]
    BY <2>2, RemainingElements
  <2>5. \A k \in 1..Len(w) : w[k] \in Received
    BY <2>1, <2>3, <2>4 DEF PlannerTypes, RepliesAre
  <2>6. QED
    BY <2>1, <2>3, <2>5 DEF RepliesAre
<1>9. deeds' \in 0..MaxDeeds
  <2>1. deeds' = deeds \/ (deeds < MaxDeeds /\ deeds' = deeds + 1)
    BY DEF Takes, Deed
  <2>2. QED
    BY <2>1, RouteNumbers DEF PlannerTypes
<1>10. orderly' \in BOOLEAN
  BY DEF Takes
<1>11. strayed' \in BOOLEAN
  BY DEF Takes
<1>12. db' = db /\ question' = question /\ usedMissions' = usedMissions
  BY DEF Takes
<1>13. MissionTypes'
  BY <1>6, <1>7, <1>12 DEF PlannerTypes, MissionTypes, TakenBy
<1>14. HandlerTypes'
  BY <1>6 DEF HandlerTypes, TakenBy
<1>15. dialog' \in Dialog /\ question' \in Job
  BY <1>6, <1>12 DEF TakenBy, PlannerTypes
<1>16. QED
  BY <1>8, <1>9, <1>10, <1>11, <1>13, <1>14, <1>15 DEF PlannerTypes


-----------------------------------------------------------------------------
(* The types after a click.                                                *)

LEMMA DeedTypes == ASSUME PlannerTypes, Deed \/ deeds' = deeds PROVE deeds' \in 0..MaxDeeds
BY RouteNumbers DEF PlannerTypes, Deed

LEMMA FirstAsked ==
  ASSUME NEW j \in Job, j.plan # <<>>
  PROVE  Head(j.plan) \in SUBSET Ask
<1>1. PICK p : p = j.plan
  OBVIOUS
<1>2. p \in Seq(SUBSET Ask) /\ p # <<>>
  BY <1>1, JobTypes
<1>3. QED
  BY <1>1, <1>2, HeadTailProperties

\* A handler that begins, whatever it selects and makes.
LEMMA HandlerBeginsTypes ==
  ASSUME PlannerTypes, NEW r \in Jobs, NEW j \in Job, Begins(r, j), j.state = "running", j.plan # <<>>,
         question' \in Job, selectedMissionId' \subseteq Missions, usedMissions' \subseteq Missions
  PROVE  PlannerTypes'
<1>1. /\ job' = [job EXCEPT ![r] = j] /\ busy' = busy \cup j.flag
      /\ asked' = asked \cup {[by |-> r, q |-> q] : q \in Head(j.plan)}
      /\ UNCHANGED <<db, missionList, waypoints, base, dialog, replies, orderly>>
  BY DEF Begins
<1>2. /\ job' \in [Jobs -> Job] /\ \A s \in Jobs : job'[s].state # "running" => job'[s].plan = <<>>
  BY <1>1, JobGoesOnTypes
<1>3. Head(j.plan) \in SUBSET Ask /\ j.flag \subseteq {"upload", "download"}
  BY FirstAsked, JobTypes
<1>4. asked' \subseteq [by : 0..MaxJobs, q : Ask]
  BY <1>1, <1>3, AskingTypes DEF PlannerTypes, HandlerTypes
<1>5. HandlerTypes'
  BY <1>1, <1>2, <1>3, <1>4 DEF PlannerTypes, HandlerTypes
<1>6. MissionTypes'
  BY <1>1 DEF PlannerTypes, MissionTypes
<1>7. RepliesAre' /\ dialog' \in Dialog
  BY <1>1 DEF PlannerTypes, RepliesAre
<1>8. deeds' \in 0..MaxDeeds
  BY DeedTypes DEF Begins
<1>9. orderly' \in BOOLEAN
  BY <1>1 DEF PlannerTypes
<1>10. strayed' \in BOOLEAN
  BY DEF Begins
<1>11. QED
  BY <1>5, <1>6, <1>7, <1>8, <1>9, <1>10 DEF PlannerTypes

\* The handlers' plans are of their type.
LEMMA PlannedTypes ==
  ASSUME NEW p \in Seq(SUBSET Ask), p # <<>>
  PROVE  /\ Planned(p) \in Job
         /\ \A d \in {"none", "new", "edit", "assign"}, f \in SUBSET {"upload", "download"},
               m \in SUBSET Missions, c \in BOOLEAN :
              /\ [Planned(p) EXCEPT !.closes = d] \in Job
              /\ [Planned(p) EXCEPT !.closes = d, !.selects = m] \in Job
              /\ [Planned(p) EXCEPT !.flag = f, !.selects = m] \in Job
              /\ [Planned(p) EXCEPT !.flag = f] \in Job
              /\ [Planned(p) EXCEPT !.clears = c] \in Job
<1>1. PICK j : j = Planned(p)
  OBVIOUS
<1>2. j = [state |-> "running", plan |-> p, closes |-> "none", flag |-> {}, selects |-> {}, clears |-> FALSE]
  BY <1>1 DEF Planned, Ended
<1>3. j \in Job
  BY <1>2 DEF Job
<1>4. ASSUME NEW d \in {"none", "new", "edit", "assign"}, NEW f \in SUBSET {"upload", "download"},
             NEW m \in SUBSET Missions
      PROVE  /\ [j EXCEPT !.closes = d] \in Job
             /\ [j EXCEPT !.closes = d, !.selects = m] \in Job
             /\ [j EXCEPT !.flag = f, !.selects = m] \in Job
             /\ [j EXCEPT !.flag = f] \in Job
  BY <1>3 DEF Job
<1>5. ASSUME NEW c \in BOOLEAN PROVE [j EXCEPT !.clears = c] \in Job
  BY <1>3 DEF Job
<1>6. QED
  BY <1>1, <1>3, <1>4, <1>5

\* A transfer runs, and goes through the plan it was given.
LEMMA TransferRuns ==
  ASSUME NEW p, NEW j, NEW f, NEW m,
         j = [Planned(p) EXCEPT !.flag = f, !.selects = m]
  PROVE  j.state = "running" /\ j.plan = p
<1>1. PICK e : e = Planned(p)
  OBVIOUS
<1>2. e.state = "running" /\ e.plan = p /\ DOMAIN e = {"state", "plan", "closes", "flag", "selects", "clears"}
  BY <1>1 DEF Planned, Ended
<1>3. CASE j = [e EXCEPT !.flag = f, !.selects = m]
  BY <1>2, <1>3
<1>4. QED
  BY <1>1, <1>3

LEMMA OnlyStage == ASSUME NEW q \in Ask PROVE <<{q}>> \in Seq(SUBSET Ask) /\ <<{q}>> # <<>>
OBVIOUS

LEMMA ThreeStages ==
  ASSUME NEW S \in SUBSET Ask, NEW l \in Ask, NEW g \in Ask
  PROVE  <<S, {l}, {g}>> \in Seq(SUBSET Ask) /\ <<S, {l}, {g}>> # <<>>
OBVIOUS

LEMMA SelectTypes ==
  ASSUME PlannerTypes, NEW r \in Jobs, handleSelectMission(r) PROVE PlannerTypes'
<1>1. PICK m : /\ m \in missionList.ids /\ Begins(r, Planned(<<{Reads("get", {m})}>>)) /\ selectedMissionId' = {m}
               /\ question' = question /\ usedMissions' = usedMissions
  BY Zenon DEF handleSelectMission
<1>2. m \in Missions
  BY <1>1, ListFields DEF PlannerTypes, MissionTypes
<1>3. Reads("get", {m}) \in Ask
  BY <1>2, AskedTypes, RouteNumbers
<1>4. PICK p : p = <<{Reads("get", {m})}>>
  OBVIOUS
<1>5. p \in Seq(SUBSET Ask) /\ p # <<>>
  BY <1>3, <1>4, OnlyStage
<1>6. Planned(p) \in Job /\ Planned(p).state = "running" /\ Planned(p).plan = p
  BY <1>5, PlannedTypes DEF Planned, Ended
<1>7. question' \in Job /\ usedMissions' \subseteq Missions
  BY <1>1 DEF PlannerTypes, MissionTypes
<1>8. QED
  BY <1>1, <1>2, <1>4, <1>5, <1>6, <1>7, HandlerBeginsTypes

\* The handler of one request.
LEMMA RequestPlanTypes ==
  ASSUME NEW q \in Ask, NEW j, NEW d \in {"none", "new", "edit", "assign"}, NEW m \in SUBSET Missions,
         \/ j = Planned(<<{q}>>)
         \/ j = [Planned(<<{q}>>) EXCEPT !.closes = d]
         \/ j = [Planned(<<{q}>>) EXCEPT !.closes = d, !.selects = m]
  PROVE  j \in Job /\ j.state = "running" /\ j.plan # <<>>
<1>1. PICK p : p = <<{q}>>
  OBVIOUS
<1>2. p \in Seq(SUBSET Ask) /\ p # <<>>
  BY <1>1, OnlyStage
<1>3. PICK e : e = Planned(p)
  OBVIOUS
<1>4. e \in Job /\ e.state = "running" /\ e.plan = p
  <2>1. e \in Job
    BY <1>2, <1>3, PlannedTypes
  <2>2. e.state = "running" /\ e.plan = p
    BY <1>3 DEF Planned, Ended
  <2>3. QED
    BY <2>1, <2>2
<1>5. CASE j = e
  BY <1>2, <1>4, <1>5
<1>6. CASE j = [e EXCEPT !.closes = d]
  BY <1>2, <1>4, <1>6 DEF Job
<1>7. CASE j = [e EXCEPT !.closes = d, !.selects = m]
  BY <1>2, <1>4, <1>7 DEF Job
<1>8. j = e \/ j = [e EXCEPT !.closes = d] \/ j = [e EXCEPT !.closes = d, !.selects = m]
  BY <1>1, <1>3
<1>9. QED
  BY <1>5, <1>6, <1>7, <1>8

LEMMA RequestTypes ==
  ASSUME PlannerTypes, NEW r \in Jobs, NEW q \in Ask, NEW j, Begins(r, j),
         NEW d \in {"none", "new", "edit", "assign"}, NEW m \in SUBSET Missions,
         \/ j = Planned(<<{q}>>)
         \/ j = [Planned(<<{q}>>) EXCEPT !.closes = d]
         \/ j = [Planned(<<{q}>>) EXCEPT !.closes = d, !.selects = m],
         question' = question, selectedMissionId' = selectedMissionId, usedMissions' \subseteq Missions
  PROVE  PlannerTypes'
<1>1. j \in Job /\ j.state = "running" /\ j.plan # <<>>
  BY RequestPlanTypes
<1>2. question' \in Job /\ selectedMissionId' \subseteq Missions
  BY DEF PlannerTypes, MissionTypes
<1>3. QED
  BY SMTT(30), <1>1, <1>2, HandlerBeginsTypes

LEMMA RequestsTypes ==
  ASSUME PlannerTypes, NEW r \in Jobs,
         \/ handleSaveDraft(r) \/ handleSaveMission(r) \/ handleDuplicateMission(r)
         \/ handleAssignMission(r) \/ handleAssignFleet(r)
  PROVE  PlannerTypes'
<1>1. /\ selectedMissionId \subseteq Missions /\ waypoints \in Routes /\ usedMissions \subseteq Missions
      /\ dialog.of \subseteq Missions /\ dialog.ticks \subseteq Uavs /\ dialog.had \subseteq Uavs
      /\ \A m \in missionList.ids : m \in Missions /\ missionList.route[m] \in Routes
  BY ListFields DEF PlannerTypes, MissionTypes, Dialog
<1>2. CASE handleSaveDraft(r)
  <2>1. /\ Begins(r, Planned(<<{Asked("update", selectedMissionId, {}, waypoints)}>>))
        /\ UNCHANGED <<selectedMissionId, question, usedMissions>>
    BY <1>2 DEF handleSaveDraft
  <2>2. Asked("update", selectedMissionId, {}, waypoints) \in Ask
    BY <1>1, AskedTypes DEF Writes
  <2>3. QED
    BY <1>1, <2>1, <2>2, RequestTypes
<1>3. CASE handleSaveMission(r)
  <2>1. UNCHANGED <<selectedMissionId, question>>
    BY <1>3 DEF handleSaveMission
  <2>2. ASSUME Begins(r, [Planned(<<{Asked("update", dialog.of, {}, waypoints)}>>) EXCEPT !.closes = "edit"]),
               UNCHANGED usedMissions
        PROVE  PlannerTypes'
    <3>1. Asked("update", dialog.of, {}, waypoints) \in Ask
      BY <1>1, AskedTypes DEF Writes
    <3>2. QED
      BY <1>1, <2>1, <2>2, <3>1, RequestTypes
  <2>3. ASSUME NEW m \in Missions,
               Begins(r, [Planned(<<{Asked("create", {m}, {}, waypoints)}>>) EXCEPT !.closes = "new", !.selects = {m}]),
               usedMissions' = usedMissions \cup {m}
        PROVE  PlannerTypes'
    <3>1. Asked("create", {m}, {}, waypoints) \in Ask
      BY <1>1, AskedTypes DEF Writes
    <3>2. usedMissions' \subseteq Missions /\ {m} \in SUBSET Missions
      BY <1>1, <2>3
    <3>3. PICK q, M, d : q = Asked("create", {m}, {}, waypoints) /\ M = {m} /\ d = "new"
      OBVIOUS
    <3>4. PICK j : j = [Planned(<<{q}>>) EXCEPT !.closes = d, !.selects = M]
      OBVIOUS
    <3>5. Begins(r, j)
      BY <2>3, <3>3, <3>4
    <3>6. q \in Ask /\ M \in SUBSET Missions /\ d \in {"none", "new", "edit", "assign"}
      BY SMTT(30), <3>1, <3>2, <3>3
    <3>7. j \in Job /\ j.state = "running" /\ j.plan # <<>>
      <4>1. j = Planned(<<{q}>>) \/ j = [Planned(<<{q}>>) EXCEPT !.closes = d]
            \/ j = [Planned(<<{q}>>) EXCEPT !.closes = d, !.selects = M]
        BY <3>4
      <4>2. QED
        BY <3>6, <4>1, RequestPlanTypes
    <3>8. question' \in Job /\ selectedMissionId' \subseteq Missions
      BY SMTT(30), <2>1 DEF PlannerTypes, MissionTypes
    <3>9. QED
      BY <3>2, <3>5, <3>7, <3>8, HandlerBeginsTypes
  <2>4. QED
    BY <1>3, <2>2, <2>3, Zenon DEF handleSaveMission
<1>4. CASE handleDuplicateMission(r)
  <2>1. PICK m \in missionList.ids, n \in Missions :
          /\ Begins(r, Planned(<<{Asked("create", {n}, {}, missionList.route[m])}>>))
          /\ usedMissions' = usedMissions \cup {n} /\ UNCHANGED <<selectedMissionId, question>>
    BY <1>4 DEF handleDuplicateMission
  <2>2. Asked("create", {n}, {}, missionList.route[m]) \in Ask
    BY <1>1, AskedTypes DEF Writes
  <2>3. QED
    BY <1>1, <2>1, <2>2, RequestTypes
<1>5. CASE handleAssignMission(r)
  <2>1. PICK q : /\ q = IF dialog.ticks = {} THEN Asked("unassign", dialog.of, dialog.had, 0)
                        ELSE Asked("assign", dialog.of, dialog.ticks, 0)
    OBVIOUS
  <2>2. q \in Ask
    BY <1>1, <2>1, AskedTypes, RouteNumbers DEF Writes
  <2>3. /\ Begins(r, [Planned(<<{q}>>) EXCEPT !.closes = "assign"])
        /\ UNCHANGED <<selectedMissionId, question, usedMissions>>
    BY <1>5, <2>1 DEF handleAssignMission
  <2>4. QED
    BY <1>1, <2>2, <2>3, RequestTypes
<1>6. CASE handleAssignFleet(r)
  <2>1. /\ Begins(r, Planned(<<{Asked("assign", selectedMissionId, Uavs, 0)}>>))
        /\ UNCHANGED <<selectedMissionId, question, usedMissions>>
    BY <1>6 DEF handleAssignFleet
  <2>2. Asked("assign", selectedMissionId, Uavs, 0) \in Ask
    BY <1>1, AskedTypes, RouteNumbers DEF Writes
  <2>3. QED
    BY <1>1, <2>1, <2>2, RequestTypes
<1>7. QED
  BY <1>2, <1>3, <1>4, <1>5, <1>6

LEMMA ConfirmTypes ==
  ASSUME PlannerTypes, PlannerShape, NEW r \in Jobs, Confirm(r) PROVE PlannerTypes'
<1>1. /\ question.state = "running" /\ Begins(r, question) /\ question' = Ended("idle")
      /\ UNCHANGED <<selectedMissionId, usedMissions>>
  BY DEF Confirm
<1>2. question \in Job /\ selectedMissionId' \subseteq Missions /\ usedMissions' \subseteq Missions
  BY <1>1 DEF PlannerTypes, MissionTypes
<1>3. question.plan # <<>>
  <2>1. PICK p : p = question.plan
    OBVIOUS
  <2>2. PlanShape(p) /\ p \in Seq(SUBSET Ask)
    BY <1>1, <1>2, <2>1, JobTypes DEF PlannerShape, JobShape
  <2>3. QED
    BY <2>1, <2>2, PlanTypes
<1>4. question' \in Job
  BY <1>1, EndedTypes DEF JobStates
<1>5. QED
  BY <1>1, <1>2, <1>3, <1>4, HandlerBeginsTypes

LEMMA LaunchVehiclesAre ==
  ASSUME PlannerTypes, NEW vs \in launchVehicles PROVE vs \subseteq Uavs
<1>1. \A m \in missionList.ids : missionList.assigned[m] \subseteq Uavs
  BY ListFields DEF PlannerTypes, MissionTypes
<1>2. QED
  BY <1>1 DEF launchVehicles

LEMMA DownloadTypes ==
  ASSUME PlannerTypes, NEW r \in Jobs, handleDownloadMission(r) PROVE PlannerTypes'
<1>1. PICK vs \in launchVehicles, m \in Missions :
        /\ Begins(r, [Planned(<<{Asked("download", {m}, vs, 2)}, {Reads("list", {})}, {Reads("get", {m})}>>)
                       EXCEPT !.flag = {"download"}, !.selects = {m}])
        /\ usedMissions' = usedMissions \cup {m} /\ UNCHANGED <<selectedMissionId, question>>
  BY DEF handleDownloadMission
<1>2. PICK d, l, g : d = Asked("download", {m}, vs, 2) /\ l = Reads("list", {}) /\ g = Reads("get", {m})
  OBVIOUS
<1>3. d \in Ask /\ l \in Ask /\ g \in Ask
  BY <1>1, <1>2, AskedTypes, RouteNumbers, LaunchVehiclesAre DEF Writes
<1>4. PICK p : p = <<{d}, {l}, {g}>>
  OBVIOUS
<1>5. p \in Seq(SUBSET Ask) /\ p # <<>>
  BY <1>3, <1>4, ThreeStages
<1>6. PICK j : j = [Planned(p) EXCEPT !.flag = {"download"}, !.selects = {m}]
  OBVIOUS
<1>7. j \in Job /\ j.state = "running" /\ j.plan = p
  <2>1. {"download"} \in SUBSET {"upload", "download"} /\ {m} \in SUBSET Missions
    OBVIOUS
  <2>2. j \in Job
    BY <1>5, <1>6, <2>1, PlannedTypes
  <2>3. j.state = "running" /\ j.plan = p
    BY <1>6, TransferRuns
  <2>4. QED
    BY <2>2, <2>3
<1>8. Begins(r, j)
  BY <1>1, <1>2, <1>4, <1>6
<1>9. question' \in Job /\ selectedMissionId' \subseteq Missions /\ usedMissions' \subseteq Missions
  BY <1>1 DEF PlannerTypes, MissionTypes
<1>10. QED
  BY <1>5, <1>7, <1>8, <1>9, HandlerBeginsTypes

\* A step of the page that begins no handler.
LEMMA QuietTypes ==
  ASSUME PlannerTypes, question' \in Job, dialog' \in Dialog, waypoints' \in Routes, HandlerTypes',
         deeds' \in 0..MaxDeeds, strayed' \in BOOLEAN,
         UNCHANGED <<db, missionList, selectedMissionId, base, replies, usedMissions, orderly>>
  PROVE  PlannerTypes'
<1>1. MissionTypes'
  BY DEF PlannerTypes, MissionTypes
<1>2. RepliesAre'
  BY DEF PlannerTypes, RepliesAre
<1>3. orderly' \in BOOLEAN
  BY DEF PlannerTypes
<1>4. QED
  BY <1>1, <1>2, <1>3 DEF PlannerTypes

LEMMA AsksTypes ==
  ASSUME PlannerTypes, NEW j \in Job, AsksFirst(j) PROVE PlannerTypes'
<1>1. HandlerTypes'
  BY DEF AsksFirst, PlannerTypes, HandlerTypes
<1>2. deeds' \in 0..MaxDeeds
  BY DeedTypes DEF AsksFirst
<1>3. strayed' \in BOOLEAN
  BY DEF AsksFirst
<1>4. dialog' \in Dialog /\ waypoints' \in Routes /\ question' \in Job
  BY DEF AsksFirst, PlannerTypes, MissionTypes
<1>5. QED
  BY <1>1, <1>2, <1>3, <1>4, QuietTypes DEF AsksFirst

LEMMA AskingFirstTypes ==
  ASSUME PlannerTypes, handleDeleteMission \/ handleUploadMission PROVE PlannerTypes'
<1>1. CASE handleDeleteMission
  <2>1. PICK m \in missionList.ids :
          AsksFirst([Planned(<<{Reads("delete", {m})}>>) EXCEPT !.clears = selectedMissionId = {m}])
    BY <1>1 DEF handleDeleteMission
  <2>2. PICK p : p = <<{Reads("delete", {m})}>>
    OBVIOUS
  <2>3. m \in Missions
    BY ListFields DEF PlannerTypes, MissionTypes
  <2>4. Reads("delete", {m}) \in Ask
    BY <2>3, AskedTypes, RouteNumbers DEF Writes
  <2>5. p \in Seq(SUBSET Ask) /\ p # <<>>
    BY <2>2, <2>4, OnlyStage
  <2>6. (selectedMissionId = {m}) \in BOOLEAN
    OBVIOUS
  <2>7. [Planned(p) EXCEPT !.clears = selectedMissionId = {m}] \in Job
    BY <2>5, <2>6, PlannedTypes
  <2>8. QED
    BY <2>1, <2>2, <2>7, AsksTypes
<1>2. CASE handleUploadMission
  <2>1. PICK vs \in launchVehicles :
          AsksFirst([Planned(<<{Asked("upload", selectedMissionId, {v}, 0) : v \in vs},
                               {Reads("list", {})}, {Reads("get", selectedMissionId)}>>)
                     EXCEPT !.flag = {"upload"}])
    BY <1>2 DEF handleUploadMission
  <2>2. PICK S, l, g : /\ S = {Asked("upload", selectedMissionId, {v}, 0) : v \in vs}
                       /\ l = Reads("list", {}) /\ g = Reads("get", selectedMissionId)
    OBVIOUS
  <2>3. selectedMissionId \subseteq Missions
    BY DEF PlannerTypes, MissionTypes
  <2>4. S \in SUBSET Ask
    <3>1. ASSUME NEW v \in vs PROVE Asked("upload", selectedMissionId, {v}, 0) \in Ask
      <4>1. {v} \in SUBSET Uavs
        BY LaunchVehiclesAre
      <4>2. QED
        BY <2>3, <4>1, AskedTypes, RouteNumbers DEF Writes
    <3>2. QED
      BY <2>2, <3>1
  <2>5. l \in Ask /\ g \in Ask
    BY <2>2, <2>3, AskedTypes, RouteNumbers
  <2>6. PICK p : p = <<S, {l}, {g}>>
    OBVIOUS
  <2>7. p \in Seq(SUBSET Ask) /\ p # <<>>
    BY <2>4, <2>5, <2>6, ThreeStages
  <2>8. [Planned(p) EXCEPT !.flag = {"upload"}] \in Job
    BY <2>7, PlannedTypes
  <2>9. QED
    BY <2>1, <2>2, <2>6, <2>8, AsksTypes
<1>3. QED
  BY <1>1, <1>2

LEMMA ShowsTypes ==
  ASSUME PlannerTypes, NEW d \in Dialog, Shows(d) PROVE PlannerTypes'
<1>1. HandlerTypes'
  BY DEF Shows, PlannerTypes, HandlerTypes
<1>2. deeds' \in 0..MaxDeeds
  BY DeedTypes DEF Shows
<1>3. strayed' \in BOOLEAN
  BY DEF Shows, PlannerTypes
<1>4. dialog' \in Dialog /\ waypoints' \in Routes /\ question' \in Job
  BY DEF Shows, PlannerTypes, MissionTypes
<1>5. QED
  BY <1>1, <1>2, <1>3, <1>4, QuietTypes DEF Shows

LEMMA DialogTypes ==
  ASSUME PlannerTypes, OpenDialog \/ CancelDialog \/ \E v \in Uavs : Tick(v) PROVE PlannerTypes'
<1>1. dialog \in Dialog /\ NoDialog \in Dialog /\ [NoDialog EXCEPT !.shown = "new"] \in Dialog
  BY DEF PlannerTypes, NoDialog, Dialog
<1>2. ASSUME NEW m \in missionList.ids
      PROVE  /\ [NoDialog EXCEPT !.shown = "edit", !.of = {m}] \in Dialog
             /\ [shown |-> "assign", of |-> {m}, ticks |-> missionList.assigned[m],
                 had |-> missionList.assigned[m]] \in Dialog
  <2>1. m \in Missions /\ missionList.assigned[m] \subseteq Uavs
    BY ListFields DEF PlannerTypes, MissionTypes
  <2>2. QED
    BY <2>1 DEF NoDialog, Dialog
<1>3. ASSUME NEW v \in Uavs
      PROVE  [dialog EXCEPT !.ticks = IF v \in @ THEN @ \ {v} ELSE @ \cup {v}] \in Dialog
  BY <1>1 DEF Dialog
<1>4. \E d \in Dialog : Shows(d)
  BY <1>1, <1>2, <1>3, Zenon DEF OpenDialog, CancelDialog, Tick
<1>5. QED
  BY <1>4, ShowsTypes

LEMMA OtherTypes ==
  ASSUME PlannerTypes, EditRoute \/ Dismiss \/ Remount \/ UNCHANGED plannerVars PROVE PlannerTypes'
<1>1. CASE EditRoute
  <2>1. HandlerTypes'
    BY <1>1 DEF EditRoute, PlannerTypes, HandlerTypes
  <2>2. deeds' \in 0..MaxDeeds
    BY <1>1, DeedTypes DEF EditRoute
  <2>3. strayed' \in BOOLEAN
    BY <1>1 DEF EditRoute, PlannerTypes
  <2>4. waypoints' \in Routes
    BY <1>1, <2>2, RouteNumbers DEF EditRoute
  <2>5. dialog' \in Dialog /\ question' \in Job
    BY <1>1 DEF EditRoute, PlannerTypes
  <2>6. QED
    BY <1>1, <2>1, <2>2, <2>3, <2>4, <2>5, QuietTypes DEF EditRoute
<1>2. CASE Dismiss
  <2>1. HandlerTypes'
    BY <1>2 DEF Dismiss, PlannerTypes, HandlerTypes
  <2>2. deeds' \in 0..MaxDeeds
    BY <1>2, DeedTypes DEF Dismiss
  <2>3. strayed' \in BOOLEAN
    BY <1>2 DEF Dismiss, PlannerTypes
  <2>4. question' \in Job
    BY <1>2, EndedTypes DEF Dismiss, JobStates
  <2>5. dialog' \in Dialog /\ waypoints' \in Routes
    BY <1>2 DEF Dismiss, PlannerTypes, MissionTypes
  <2>6. QED
    BY <1>2, <2>1, <2>2, <2>3, <2>4, <2>5, QuietTypes DEF Dismiss
<1>3. CASE Remount
  <2>1. ASSUME NEW j \in Job
        PROVE  /\ [j EXCEPT !.closes = "none", !.flag = {}] \in Job
               /\ [j EXCEPT !.closes = "none", !.flag = {}].state = j.state
               /\ [j EXCEPT !.closes = "none", !.flag = {}].plan = j.plan
    BY DEF Job
  <2>2. job' = [r \in Jobs |-> [job[r] EXCEPT !.closes = "none", !.flag = {}]]
    BY <1>3 DEF Remount
  <2>3. job' \in [Jobs -> Job] /\ \A r \in Jobs : job'[r].state # "running" => job'[r].plan = <<>>
    BY <2>1, <2>2 DEF PlannerTypes, HandlerTypes
  <2>4. Reads("list", {}) \in Ask
    BY AskedTypes, RouteNumbers
  <2>5. asked' \subseteq [by : 0..MaxJobs, q : Ask]
    <3>1. PICK e : e = [by |-> 0, q |-> Reads("list", {})]
      OBVIOUS
    <3>2. e \in [by : 0..MaxJobs, q : Ask]
      BY <2>4, <3>1, RouteNumbers
    <3>3. asked' = asked \cup {e}
      BY <1>3, <3>1 DEF Remount
    <3>4. QED
      BY <3>2, <3>3 DEF PlannerTypes, HandlerTypes
  <2>6. HandlerTypes'
    BY <1>3, <2>3, <2>5 DEF Remount, HandlerTypes
  <2>7. deeds' \in 0..MaxDeeds
    BY <1>3, DeedTypes DEF Remount
  <2>8. strayed' \in BOOLEAN
    BY <1>3 DEF Remount, PlannerTypes
  <2>9. dialog' \in Dialog /\ waypoints' \in Routes /\ question' \in Job
    BY <1>3 DEF Remount, PlannerTypes, MissionTypes
  <2>10. QED
    BY <1>3, <2>6, <2>7, <2>8, <2>9, QuietTypes DEF Remount
<1>4. CASE UNCHANGED plannerVars
  <2>1. UNCHANGED <<db, missionList, selectedMissionId, waypoints, base, dialog, question, busy, job,
                    asked, replies, deeds, usedMissions, orderly>>
    BY <1>4 DEF plannerVars
  <2>2. HandlerTypes'
    BY <2>1 DEF PlannerTypes, HandlerTypes
  <2>3. strayed' \in BOOLEAN
    BY <1>4 DEF plannerVars, PlannerTypes
  <2>4. dialog' \in Dialog /\ waypoints' \in Routes /\ question' \in Job /\ deeds' \in 0..MaxDeeds
    BY <2>1 DEF PlannerTypes, MissionTypes
  <2>5. QED
    BY <2>1, <2>2, <2>3, <2>4, QuietTypes
<1>5. QED
  BY <1>1, <1>2, <1>3, <1>4

LEMMA PlannerTypesKept == PlannerInv /\ PlannerTypes /\ [PlannerNext]_plannerVars => PlannerTypes'
<1>1. SUFFICES ASSUME PlannerInv, PlannerTypes, [PlannerNext]_plannerVars PROVE PlannerTypes'
  OBVIOUS
<1>2. PlannerShape /\ OnItsWay
  BY <1>1 DEF PlannerInv, ControlInv
<1>3. CASE \E c \in asked : Handled(c)
  BY <1>1, <1>3, HandledTypes
<1>4. CASE \E i \in DOMAIN replies : Takes(i)
  BY <1>1, <1>2, <1>4, TakesTypes
<1>5. CASE OpenDialog \/ CancelDialog \/ \E v \in Uavs : Tick(v)
  BY <1>1, <1>5, DialogTypes
<1>6. CASE EditRoute \/ Dismiss \/ Remount \/ UNCHANGED plannerVars
  BY <1>1, <1>6, OtherTypes
<1>7. CASE handleDeleteMission \/ handleUploadMission
  BY <1>1, <1>7, AskingFirstTypes
<1>8. ASSUME NEW r \in Jobs,
             \/ Confirm(r) \/ handleSelectMission(r) \/ handleSaveDraft(r) \/ handleSaveMission(r)
             \/ handleDuplicateMission(r) \/ handleAssignMission(r) \/ handleAssignFleet(r)
             \/ handleDownloadMission(r)
      PROVE  PlannerTypes'
  BY <1>1, <1>2, <1>8, ConfirmTypes, SelectTypes, RequestsTypes, DownloadTypes
<1>9. QED
  BY <1>1, <1>3, <1>4, <1>5, <1>6, <1>7, <1>8, Zenon DEF PlannerNext

LEMMA PlannerIsTyped == PlannerInv /\ PlannerTypes => PlannerTypeOK
<1>1. SUFFICES ASSUME PlannerInv, PlannerTypes PROVE PlannerTypeOK
  OBVIOUS
<1>2. PlannerShape /\ IsSeq(replies)
  BY <1>1 DEF PlannerInv, ControlInv, PlannerShape
<1>3. [ids |-> db.ids, route |-> db.route, assigned |-> db.assigned] \in Listed /\ db.uploaded \subseteq Missions
  BY <1>1 DEF PlannerTypes, MissionTypes, ListOf
<1>4. selectedMissionId \in SUBSET Missions /\ Cardinality(selectedMissionId) <= 1
  <2>1. CASE selectedMissionId = {}
    BY <2>1, FS_EmptySet
  <2>2. CASE \E m : selectedMissionId = {m}
    <3>1. PICK m : selectedMissionId = {m}
      BY <2>2
    <3>2. Cardinality({m}) = 1
      BY FS_Singleton
    <3>3. selectedMissionId \in SUBSET Missions
      BY <1>1 DEF PlannerTypes, MissionTypes
    <3>4. QED
      BY <3>1, <3>2, <3>3
  <2>3. QED
    BY <1>1, <1>2, <2>1, <2>2 DEF PlannerShape, PlannerTypes, MissionTypes
<1>5. \A r \in Jobs : job[r] \in Job /\ (job[r].state = "running" <=> job[r].plan # <<>>)
  <2>1. SUFFICES ASSUME NEW r \in Jobs PROVE job[r] \in Job /\ (job[r].state = "running" <=> job[r].plan # <<>>)
    OBVIOUS
  <2>2. PICK j, p : j = job[r] /\ p = j.plan
    OBVIOUS
  <2>3. j \in Job /\ (j.state # "running" => p = <<>>) /\ (j.state = "running" => PlanShape(p))
    BY <1>1, <1>2, <2>2 DEF PlannerTypes, HandlerTypes, PlannerShape, JobShape
  <2>4. j.state = "running" => p # <<>>
    BY <2>2, <2>3, JobTypes, PlanTypes
  <2>5. QED
    BY <2>2, <2>3, <2>4
<1>6. \A i \in DOMAIN replies : replies[i].call.q \in Ask /\ replies[i].ok \in BOOLEAN
  BY <1>1, <1>2, SeqLength DEF PlannerTypes, RepliesAre, Received
<1>7. /\ missionList \in Listed /\ waypoints \in Routes /\ base \in SUBSET Missions /\ dialog \in Dialog
      /\ question \in Job /\ question.state \in {"idle", "running"} /\ busy \subseteq {"upload", "download"}
      /\ asked \subseteq [by : 0..MaxJobs, q : Ask] /\ deeds \in 0..MaxDeeds /\ usedMissions \subseteq Missions
  BY <1>1, <1>2 DEF PlannerTypes, MissionTypes, HandlerTypes, PlannerShape
<1>8. orderly \in BOOLEAN /\ strayed \in BOOLEAN
  BY <1>1 DEF PlannerTypes
<1>9. QED
  BY <1>3, <1>4, <1>5, <1>6, <1>7, <1>8 DEF PlannerTypeOK
=============================================================================
