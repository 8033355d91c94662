--------------------------- MODULE MissionPlanner ---------------------------
(***************************************************************************)
(* The missions of the mission planner: the list of missions, the one that *)
(* is selected, and the route on the screen, in the mission store          *)
(* (missionStore.js), and the handlers of the page that load, save,        *)
(* create, copy, delete, assign, upload and download them                  *)
(* (MissionPlannerPage.jsx).  The selection and the route are two          *)
(* variables, and what fills one is not always what fills the other.       *)
(*                                                                         *)
(* A handler is its plan: the stages to come, each a set of requests it    *)
(* awaits together.  It keeps the selection and the route of the moment it *)
(* was clicked.  A request is carried out by the server, and its answer    *)
(* waits in the network until the page receives it.  A route is a number   *)
(* that tells it from the others; 0 has no waypoints.                      *)
(***************************************************************************)
EXTENDS Integers, Sequences, FiniteSets
LOCAL INSTANCE SequencesExt

CONSTANTS
  Missions,   \* all there may ever be
  OldMissions,  \* those in the database when the page is mounted,
  Manned,       \* and of these, the ones that all the vehicles are assigned to
  Uavs,       \* the vehicles that are assigned
  MaxJobs,    \* bounds the handlers that make requests
  MaxDeeds    \* bounds these, the other clicks, and the answers that are errors, lost or
              \* overtaken, together

VARIABLES
  db,                 \* the database: missions, their routes and vehicles, those uploaded
  missionList,        \* the same in the store, without the last
  selectedMissionId,
  waypoints,          \* the route on the screen
  base,               \* the mission it was loaded from or made for
  dialog,             \* the dialog, the mission it is about, the vehicles ticked, now and at first
  question,           \* the handler that waits for a confirmation
  busy,               \* isUploadingMission, isDownloadingMission
  job,                \* the handlers under way
  asked,              \* the requests the server has not seen
  replies,            \* its answers, in the order it gave them
  deeds,              \* counts what MaxDeeds bounds
  usedMissions,       \* an id is given once
  orderly,            \* so far no answer was lost or overtaken, and every list was read
  strayed             \* a mission could not be loaded, or two handlers were changing the
                      \* selection or the screen at a time

plannerVars == <<db, missionList, selectedMissionId, waypoints, base, dialog, question, busy, job,
                 asked, replies, deeds, usedMissions, orderly, strayed>>

ASSUME PlannerAssumption ==
  /\ OldMissions \subseteq Missions /\ Manned \subseteq OldMissions
  /\ MaxJobs \in Nat /\ MaxDeeds \in Nat

Jobs == 1..MaxJobs
\* 1 is the route the missions had, 2 what a vehicle holds, the others are edits.
Routes == 0..(MaxDeeds + 2)

Writes == {"create", "update", "delete", "assign", "unassign", "upload", "download"}
Ask == [op : Writes \cup {"list", "get"}, of : SUBSET Missions, to : SUBSET Uavs, route : Routes]
Asked(o, m, vs, route) == [op |-> o, of |-> m, to |-> vs, route |-> route]
Reads(o, m) == Asked(o, m, {}, 0)

\* A handler: what it closes, which flag it resets, whether it selects the mission of its
\* last stage, or that it made, and whether it clears the screen in the end.
Job == [state : {"idle", "running", "done", "failed"}, plan : Seq(SUBSET Ask),
        closes : {"none", "new", "edit", "assign"}, flag : SUBSET {"upload", "download"},
        selects : SUBSET Missions, clears : BOOLEAN]
Ended(state) == [state |-> state, plan |-> <<>>, closes |-> "none", flag |-> {},
                 selects |-> {}, clears |-> FALSE]
Planned(plan) == [Ended("running") EXCEPT !.plan = plan]

Dialog == [shown : {"none", "new", "edit", "assign"}, of : SUBSET Missions,
           ticks : SUBSET Uavs, had : SUBSET Uavs]
NoDialog == [shown |-> "none", of |-> {}, ticks |-> {}, had |-> {}]

Listed == [ids : SUBSET Missions, route : [Missions -> Routes], assigned : [Missions -> SUBSET Uavs]]

PlannerTypeOK ==
  /\ [ids |-> db.ids, route |-> db.route, assigned |-> db.assigned] \in Listed
  /\ db.uploaded \subseteq Missions
  /\ missionList \in Listed
  /\ selectedMissionId \in SUBSET Missions /\ Cardinality(selectedMissionId) <= 1
  /\ waypoints \in Routes
  /\ base \in SUBSET Missions
  /\ dialog \in Dialog
  /\ question \in Job /\ question.state \in {"idle", "running"}
  /\ busy \subseteq {"upload", "download"}
  /\ \A r \in Jobs : job[r] \in Job /\ (job[r].state = "running" <=> job[r].plan # <<>>)
  /\ asked \subseteq [by : 0..MaxJobs, q : Ask]
  /\ \A i \in DOMAIN replies : replies[i].call.q \in Ask /\ replies[i].ok \in BOOLEAN
  /\ deeds \in 0..MaxDeeds
  /\ usedMissions \subseteq Missions
  /\ orderly \in BOOLEAN /\ strayed \in BOOLEAN

Deed == deeds < MaxDeeds /\ deeds' = deeds + 1

\* The page was mounted and has read the list; nothing is selected.
PlannerInit ==
  /\ db = [ids |-> OldMissions,
           route |-> [m \in Missions |-> IF m \in OldMissions THEN 1 ELSE 0],
           assigned |-> [m \in Missions |-> IF m \in Manned THEN Uavs ELSE {}], uploaded |-> {}]
  /\ missionList = [ids |-> db.ids, route |-> db.route, assigned |-> db.assigned]
  /\ selectedMissionId = {} /\ waypoints = 0 /\ base = {}
  /\ dialog = NoDialog /\ question = Ended("idle")
  /\ busy = {} /\ job = [r \in Jobs |-> Ended("idle")]
  /\ asked = {} /\ replies = <<>>
  /\ deeds = 0 /\ usedMissions = OldMissions /\ orderly = TRUE /\ strayed = FALSE

-----------------------------------------------------------------------------
(* The mission service, for one who may use every vehicle.                 *)

\* A mission that was uploaded is neither changed nor deleted again; one without
\* waypoints is not uploaded; a vehicle has a mission to download.
Accepted(q) ==
  /\ q.op \in {"get", "update", "delete", "assign", "unassign", "upload"} => q.of \subseteq db.ids
  /\ q.op \in {"update", "delete"} => q.of \cap db.uploaded = {}
  /\ q.op = "upload" => \A m \in q.of : db.route[m] # 0

\* Assigning takes the vehicles from every other mission.
Applied(q) ==
  LET assigned(m) ==
        CASE q.op = "assign" -> IF m \in q.of THEN db.assigned[m] \cup q.to ELSE db.assigned[m] \ q.to
          [] q.op = "unassign" /\ m \in q.of -> db.assigned[m] \ q.to
          [] q.op \in {"create", "download", "delete"} /\ m \in q.of -> q.to
          [] OTHER -> db.assigned[m]
  IN db' = [
    ids |-> CASE q.op \in {"create", "download"} -> db.ids \cup q.of
              [] q.op = "delete" -> db.ids \ q.of
              [] OTHER -> db.ids,
    route |-> [m \in Missions |->
      IF m \in q.of /\ q.op \in {"create", "download", "update", "delete"} THEN q.route ELSE db.route[m]],
    assigned |-> [m \in Missions |-> assigned(m)],
    uploaded |-> IF q.op = "upload" THEN db.uploaded \cup q.of ELSE db.uploaded]

Answers(c, ok) ==
  /\ asked' = asked \ {c}
  /\ replies' = Append(replies, [call |-> c, ok |-> ok,
       now |-> [ids |-> db'.ids, route |-> db'.route, assigned |-> db'.assigned]])
  /\ UNCHANGED <<missionList, selectedMissionId, waypoints, base, dialog, question, busy, job,
                 usedMissions, strayed>>

Accepts(c) ==
  /\ c \in asked /\ Accepted(c.q)
  /\ Applied(c.q)
  /\ Answers(c, TRUE)
  /\ UNCHANGED <<deeds, orderly>>

Rejects(c) ==
  /\ c \in asked
  /\ IF Accepted(c.q) THEN Deed ELSE UNCHANGED deeds
  /\ UNCHANGED db
  /\ Answers(c, FALSE)
  /\ orderly' = (orderly /\ c.q.op # "list")

\* Carried out, and not answered within the client's 15 s; a download may take 30 s.
TimesOut(c) ==
  /\ c \in asked /\ c.q.op \in Writes /\ Accepted(c.q)
  /\ Deed
  /\ Applied(c.q)
  /\ Answers(c, FALSE)
  /\ orderly' = FALSE

-----------------------------------------------------------------------------
(* The store takes an answer in.                                           *)

\* A list with the missions of S as an answer has them.
Replaced(s, ids, S, now) == [ids |-> ids,
  route |-> [m \in Missions |-> IF m \in S THEN now.route[m] ELSE s.route[m]],
  assigned |-> [m \in Missions |-> IF m \in S THEN now.assigned[m] ELSE s.assigned[m]]]

createMission(s, q, now) == Replaced(s, s.ids \cup q.of, q.of, now)

updateMission(s, q, now) == Replaced(s, s.ids, q.of \cap s.ids, now)

deleteMission(s, q) == Replaced(s, s.ids \ q.of, q.of,
  [route |-> [m \in Missions |-> 0], assigned |-> [m \in Missions |-> {}]])

\* The other missions keep the vehicles the server took from them.
assignMission(s, q) == [ids |-> s.ids, route |-> s.route, assigned |-> [m \in Missions |->
  IF m \in q.of \cap s.ids THEN s.assigned[m] \cup q.to ELSE s.assigned[m]]]

unassignMission(s, q) == [ids |-> s.ids, route |-> s.route, assigned |-> [m \in Missions |->
  IF m \in q.of THEN s.assigned[m] \ q.to ELSE s.assigned[m]]]

Taken(s, q, now) ==
  CASE q.op = "list" -> now
    [] q.op = "create" -> createMission(s, q, now)
    [] q.op = "update" -> updateMission(s, q, now)
    [] q.op = "delete" -> deleteMission(s, q)
    [] q.op = "assign" -> assignMission(s, q)
    [] q.op = "unassign" -> unassignMission(s, q)
    [] OTHER -> s

-----------------------------------------------------------------------------
(* The page takes an answer in.                                            *)

\* The flag is reset, and the dialog stays.
Stops(r) ==
  /\ job' = [job EXCEPT ![r] = Ended("failed")]
  /\ busy' = busy \ job[r].flag
  /\ UNCHANGED <<selectedMissionId, waypoints, base, dialog, asked>>

\* Mutant: the mission that was deleted stays on the screen.
FinishesDirty(r) ==
  /\ job' = [job EXCEPT ![r] = Ended("done")]
  /\ busy' = busy \ job[r].flag
  /\ dialog' = IF dialog.shown = job[r].closes THEN NoDialog ELSE dialog
  /\ selectedMissionId' = IF job[r].clears THEN {} ELSE IF job[r].selects = {} THEN selectedMissionId ELSE job[r].selects
  /\ base' = IF job[r].selects = {} THEN base ELSE job[r].selects
  /\ UNCHANGED <<waypoints, asked>>

\* The mission that was made is selected, its route is the one on the screen; the one
\* that was deleted is cleared away.  A dialog that was opened meanwhile is closed too.
Finishes(r) ==
  /\ job' = [job EXCEPT ![r] = Ended("done")]
  /\ busy' = busy \ job[r].flag
  /\ dialog' = IF dialog.shown = job[r].closes THEN NoDialog ELSE dialog
  /\ IF job[r].clears THEN selectedMissionId' = {} /\ waypoints' = 0 /\ base' = {}
     ELSE IF job[r].selects # {} THEN
       selectedMissionId' = job[r].selects /\ base' = job[r].selects /\ UNCHANGED waypoints
     ELSE UNCHANGED <<selectedMissionId, waypoints, base>>
  /\ UNCHANGED asked

\* The next stage; a download selects its mission just before it is loaded.
Advances(r, left) ==
  /\ job' = [job EXCEPT ![r] = [job[r] EXCEPT
       !.plan = left, !.selects = IF Len(left) = 1 THEN {} ELSE @]]
  /\ selectedMissionId' = IF Len(left) = 1 /\ job[r].selects # {} THEN job[r].selects ELSE selectedMissionId
  /\ asked' = asked \cup {[by |-> r, q |-> q] : q \in Head(left)}
  /\ UNCHANGED <<waypoints, base, dialog, busy>>

\* Those that are asked together are awaited together; nobody minds a list, a mission or
\* an upload that fails.
GoesOn(a) ==
  LET r == a.call.by
      rest == Head(job[r].plan) \ {a.call.q}
  IN IF r = 0 THEN UNCHANGED <<job, selectedMissionId, waypoints, base, dialog, busy, asked>>
     ELSE IF ~ a.ok /\ a.call.q.op \notin {"list", "get", "upload"} THEN Stops(r)
     ELSE IF rest # {} THEN
       /\ job' = [job EXCEPT ![r] = [job[r] EXCEPT !.plan = [@ EXCEPT ![1] = rest]]]
       /\ UNCHANGED <<selectedMissionId, waypoints, base, dialog, busy, asked>>
     ELSE IF Len(job[r].plan) = 1 THEN Finishes(r) ELSE Advances(r, Tail(job[r].plan))

\* fetchMission: what is loaded is shown, whatever is selected by now; what cannot be
\* loaded leaves the screen as it is.  No handler does more after it.
fetchMission(a) ==
  /\ job' = [job EXCEPT ![a.call.by] = Ended("done")]
  /\ busy' = busy \ job[a.call.by].flag
  /\ IF a.ok THEN \E m \in a.call.q.of : waypoints' = a.now.route[m] /\ base' = {m}
             ELSE UNCHANGED <<waypoints, base>>
  /\ UNCHANGED <<selectedMissionId, dialog, asked>>

Takes(i) ==
  /\ i \in DOMAIN replies
  /\ IF i = 1 THEN UNCHANGED deeds ELSE Deed
  /\ orderly' = (orderly /\ i = 1)
  /\ replies' = RemoveAt(replies, i)
  /\ missionList' = IF replies[i].ok THEN Taken(missionList, replies[i].call.q, replies[i].now) ELSE missionList
  /\ strayed' = (strayed \/ (replies[i].call.q.op = "get" /\ ~ replies[i].ok))
  /\ IF replies[i].call.q.op = "get" THEN fetchMission(replies[i]) ELSE GoesOn(replies[i])
  /\ UNCHANGED <<db, question, usedMissions>>

-----------------------------------------------------------------------------
(* The clicks.                                                             *)

PageFree == dialog.shown = "none" /\ question.state = "idle"

Moves(j) == j.state = "running" /\
  (j.selects # {} \/ j.clears \/ \E i \in DOMAIN j.plan : \E q \in j.plan[i] : q.op = "get")

\* Another handler is changing the selection or the screen.
Crosses(j) == Moves(j) /\ \E r \in Jobs : Moves(job[r])

\* Handlers are numbered as they come.
Begins(r, j) ==
  /\ IF j = question THEN UNCHANGED deeds ELSE Deed
  /\ job[r].state = "idle" /\ \A s \in 1..(r - 1) : job[s].state # "idle"
  /\ job' = [job EXCEPT ![r] = j]
  /\ busy' = busy \cup j.flag
  /\ asked' = asked \cup {[by |-> r, q |-> q] : q \in Head(j.plan)}
  /\ strayed' = (strayed \/ Crosses(j))
  /\ UNCHANGED <<db, missionList, waypoints, base, dialog, replies, orderly>>

\* Its handler waits for the confirmation, and keeps what it knew.
AsksFirst(j) ==
  /\ Deed
  /\ question' = j
  /\ strayed' = (strayed \/ Crosses(j))
  /\ UNCHANGED <<db, missionList, selectedMissionId, waypoints, base, dialog, busy, job, asked,
                 replies, usedMissions, orderly>>

Confirm(r) ==
  /\ question.state = "running"
  /\ Begins(r, question)
  /\ question' = Ended("idle")
  /\ UNCHANGED <<selectedMissionId, usedMissions>>

Dismiss ==
  /\ question.state = "running"
  /\ question' = Ended("idle")
  /\ UNCHANGED <<db, missionList, selectedMissionId, waypoints, base, dialog, busy, job, asked,
                 replies, deeds, usedMissions, orderly, strayed>>

\* The mission is selected before it is there.
handleSelectMission(r) == PageFree /\ \E m \in missionList.ids :
  /\ Begins(r, Planned(<<{Reads("get", {m})}>>))
  /\ selectedMissionId' = {m}
  /\ UNCHANGED <<question, usedMissions>>

handleSaveDraft(r) ==
  /\ PageFree /\ selectedMissionId # {}
  /\ Begins(r, Planned(<<{Asked("update", selectedMissionId, {}, waypoints)}>>))
  /\ UNCHANGED <<selectedMissionId, question, usedMissions>>

\* The route on the screen is saved with the name, whichever mission is being renamed.
handleSaveMission(r) ==
  /\ \/ /\ dialog.shown = "edit"
        /\ Begins(r, [Planned(<<{Asked("update", dialog.of, {}, waypoints)}>>) EXCEPT !.closes = "edit"])
        /\ UNCHANGED usedMissions
     \/ /\ dialog.shown = "new"
        /\ \E m \in Missions \ usedMissions :
             /\ Begins(r, [Planned(<<{Asked("create", {m}, {}, waypoints)}>>)
                            EXCEPT !.closes = "new", !.selects = {m}])
             /\ usedMissions' = usedMissions \cup {m}
  /\ UNCHANGED <<selectedMissionId, question>>

handleDuplicateMission(r) == PageFree /\ \E m \in missionList.ids, n \in Missions \ usedMissions :
  /\ Begins(r, Planned(<<{Asked("create", {n}, {}, missionList.route[m])}>>))
  /\ usedMissions' = usedMissions \cup {n}
  /\ UNCHANGED <<selectedMissionId, question>>

handleDeleteMission == PageFree /\ \E m \in missionList.ids :
  AsksFirst([Planned(<<{Reads("delete", {m})}>>) EXCEPT !.clears = selectedMissionId = {m}])

\* Nothing ticked means nobody: those of the moment the dialog was opened are taken off.
handleAssignMission(r) ==
  /\ dialog.shown = "assign"
  /\ Begins(r, [Planned(<<{IF dialog.ticks = {} THEN Asked("unassign", dialog.of, dialog.had, 0)
                          ELSE Asked("assign", dialog.of, dialog.ticks, 0)}>>) EXCEPT !.closes = "assign"])
  /\ UNCHANGED <<selectedMissionId, question, usedMissions>>

\* A fleet of all vehicles.
handleAssignFleet(r) ==
  /\ PageFree /\ selectedMissionId # {}
  /\ Begins(r, Planned(<<{Asked("assign", selectedMissionId, Uavs, 0)}>>))
  /\ UNCHANGED <<selectedMissionId, question, usedMissions>>

\* Those of a fleet, or those assigned to the mission.
launchVehicles ==
  {Uavs, UNION {missionList.assigned[m] : m \in selectedMissionId \cap missionList.ids}} \ {{}}

handleUploadMission == PageFree /\ \E vs \in launchVehicles :
  /\ selectedMissionId # {} /\ waypoints # 0 /\ "upload" \notin busy
  /\ AsksFirst([Planned(<<{Asked("upload", selectedMissionId, {v}, 0) : v \in vs},
                          {Reads("list", {})}, {Reads("get", selectedMissionId)}>>)
                EXCEPT !.flag = {"upload"}])

handleDownloadMission(r) == PageFree /\ \E vs \in launchVehicles, m \in Missions \ usedMissions :
  /\ Cardinality(vs) = 1 /\ "download" \notin busy
  /\ Begins(r, [Planned(<<{Asked("download", {m}, vs, 2)}, {Reads("list", {})}, {Reads("get", {m})}>>)
                EXCEPT !.flag = {"download"}, !.selects = {m}])
  /\ usedMissions' = usedMissions \cup {m}
  /\ UNCHANGED <<selectedMissionId, question>>

-----------------------------------------------------------------------------
(* The dialogs, the screen and the page.                                   *)

Shows(d) ==
  /\ Deed
  /\ dialog' = d
  /\ UNCHANGED <<db, missionList, selectedMissionId, waypoints, base, question, busy, job, asked,
                 replies, usedMissions, orderly, strayed>>

OpenDialog ==
  /\ PageFree
  /\ \/ Shows([NoDialog EXCEPT !.shown = "new"])
     \/ \E m \in missionList.ids :
          \/ Shows([NoDialog EXCEPT !.shown = "edit", !.of = {m}])
          \/ Shows([shown |-> "assign", of |-> {m}, ticks |-> missionList.assigned[m],
                    had |-> missionList.assigned[m]])

Tick(v) ==
  /\ dialog.shown = "assign"
  /\ Shows([dialog EXCEPT !.ticks = IF v \in @ THEN @ \ {v} ELSE @ \cup {v}])

CancelDialog == dialog.shown # "none" /\ Shows(NoDialog)

\* The route is edited, or cleared.
EditRoute ==
  /\ PageFree
  /\ Deed
  /\ waypoints' \in {0, 2 + deeds'} /\ waypoints' # waypoints
  /\ UNCHANGED <<db, missionList, selectedMissionId, base, dialog, question, busy, job, asked,
                 replies, usedMissions, orderly, strayed>>

\* The page is left and comes back: the store and the requests remain, the rest is new.
Remount ==
  /\ PageFree
  /\ Deed
  /\ busy' = {}
  /\ job' = [r \in Jobs |-> [job[r] EXCEPT !.closes = "none", !.flag = {}]]
  /\ asked' = asked \cup {[by |-> 0, q |-> Reads("list", {})]}
  /\ UNCHANGED <<db, missionList, selectedMissionId, waypoints, base, dialog, question, replies,
                 usedMissions, orderly, strayed>>

-----------------------------------------------------------------------------
Handled(c) == Accepts(c) \/ Rejects(c) \/ TimesOut(c)

PlannerNext ==
  \/ \E c \in asked : Handled(c)
  \/ \E i \in DOMAIN replies : Takes(i)
  \/ OpenDialog \/ CancelDialog \/ EditRoute \/ Remount \/ Dismiss
  \/ handleDeleteMission \/ handleUploadMission
  \/ \E v \in Uavs : Tick(v)
  \/ \E r \in Jobs :
       \/ Confirm(r) \/ handleSelectMission(r) \/ handleSaveDraft(r) \/ handleSaveMission(r)
       \/ handleDuplicateMission(r) \/ handleAssignMission(r) \/ handleAssignFleet(r)
       \/ handleDownloadMission(r)

PlannerSpec == PlannerInit /\ [][PlannerNext]_plannerVars

\* Every request is answered, or ends with the client's timeout of 15 s.
PlannerFairness ==
  /\ WF_plannerVars(\E c \in asked : Handled(c))
  /\ WF_plannerVars(Takes(1))

-----------------------------------------------------------------------------
(* Properties.                                                             *)

\* However handlers are interleaved, the list is what is in the database when nothing is
\* under way and no answer was lost or overtaken; only the vehicles a mission lost to
\* another may still be shown with it (missionStore.js:84-218).
ListIsTrue ==
  orderly /\ asked = {} /\ replies = <<>> =>
    /\ missionList.ids = db.ids
    /\ missionList.route = db.route
    /\ \A m \in Missions : db.assigned[m] \subseteq missionList.assigned[m]

\* The route on the screen is the selected mission's, edited or not, unless a mission
\* could not be loaded or two handlers crossed: then "Save" stores it in a mission it
\* was not made for (MissionPlannerPage.jsx:642-736).
BelongTogether ==
  ~ strayed /\ asked = {} /\ replies = <<>> => base = selectedMissionId

\* One upload and one download of the page at a time, whatever is cancelled, confirmed
\* and selected meanwhile, and the buttons know (MissionPlannerPage.jsx:681-718, 1111-1123).
OneTransfer ==
  /\ \A r, s \in Jobs : job[r].flag \cap job[s].flag # {} => r = s
  /\ busy = UNION {job[r].flag : r \in Jobs}

\* No button stays disabled because a request of its handler failed or timed out
\* (MissionPlannerPage.jsx:690-692, 716-718).
TransfersOver == busy = {}
=============================================================================
