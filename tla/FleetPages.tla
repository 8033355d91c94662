----------------------------- MODULE FleetPages ------------------------------
(***************************************************************************)
(* The fleet page of the dashboard (FleetPage.jsx) and the store behind it *)
(* (fleetStore.js): vehicles, fleets and the members of a fleet.  Saving a *)
(* fleet is a series of requests, some of them side by side, made from     *)
(* what the form held when the button was clicked; lists and the members   *)
(* of a fleet are read meanwhile; and no button waits for what was clicked *)
(* before.                                                                 *)
(*                                                                         *)
(* A handler of the page is its plan: the stages to come, each a set of    *)
(* requests it awaits together.  A request is carried out by the server,   *)
(* and its answer waits in the network until the page receives it.         *)
(***************************************************************************)
EXTENDS Integers, Sequences, FiniteSets
LOCAL INSTANCE SequencesExt

CONSTANTS
  Fleets, Craft, Members,  \* all there may ever be: fleets, vehicles, users
  Worlds,                  \* what may be in the database when the page is mounted
  PageSize,                \* so many vehicles are listed, no matter how many there are
  MaxRuns,                 \* bounds the clicks that write
  MaxActs                  \* bounds these clicks, the dialogs opened and cancelled, the boxes
                           \* ticked, and the answers that are errors, lost or overtaken, together

VARIABLES
  srv,            \* the database: fleets, vehicles, where each is, members of each fleet
  store,          \* the same in the store, without the members
  whole,          \* the list of vehicles that was read last was not cut
  modal,          \* the dialog that is shown
  form,           \* what the dialogs hold
  loadingUsers,   \* the list of members shows a spinner instead
  run,            \* the clicks
  pending,        \* the requests the server has not seen
  answers,        \* its answers, in the order it gave them
  acts,           \* counts what MaxActs bounds
  usedIds,        \* an id is given once
  smooth          \* so far no answer was lost or overtaken, and every list was read

fleetVars == <<srv, store, whole, modal, form, loadingUsers, run, pending, answers, acts, usedIds, smooth>>

Runs == 1..MaxRuns
Modals == {"fleet", "members", "vehicle"}

Operations == {"createFleet", "updateFleet", "deleteFleet", "createVehicle", "updateVehicle",
               "deleteVehicle", "assignUsers", "removeUser"}
Lists == {"listVehicles", "listFleets"}
Op == [op : Operations \cup Lists \cup Modals, of : SUBSET (Fleets \cup Craft),
       to : SUBSET (Fleets \cup Members)]
Call == [by : 1..(MaxRuns + MaxActs), q : Op]

Form == [of : SUBSET (Fleets \cup Craft), at : SUBSET Fleets,
         vehicles : SUBSET Craft, hadVehicles : SUBSET Craft,
         members : SUBSET Members, hadMembers : SUBSET Members]
Blank == [of |-> {}, at |-> {}, vehicles |-> {}, hadVehicles |-> {}, members |-> {}, hadMembers |-> {}]

Over(state) == [state |-> state, plan |-> <<>>, closes |-> "none", clean |-> FALSE, fleet |-> {}, form |-> Blank]

Stored == [fleets : SUBSET Fleets, vehicles : SUBSET Craft, at : [Craft -> SUBSET Fleets]]
Database == [fleets : SUBSET Fleets, vehicles : SUBSET Craft, at : [Craft -> SUBSET Fleets],
             members : [Fleets -> SUBSET Members]]

\* What is not there is in no fleet, and what is there is in one at most.
OneAtMost(S) == \A f, g \in S : f = g
Placed(s) == \A v \in Craft : OneAtMost(s.at[v]) /\ (v \notin s.vehicles => s.at[v] = {})

ASSUME WorldAssumption ==
  /\ Worlds \subseteq Database /\ \A s \in Worlds : Placed(s)
  /\ IsFiniteSet(Members) /\ PageSize \in Nat \ {0} /\ MaxRuns \in Nat /\ MaxActs \in Nat

FleetTypeOK ==
  /\ srv \in Database /\ Placed(srv)
  /\ store \in Stored /\ Placed(store) /\ whole \in BOOLEAN
  /\ modal \in Modals \cup {"none"}
  /\ form \in [Modals -> Form]
  /\ loadingUsers \in [Modals -> BOOLEAN]
  /\ \A r \in Runs :
       /\ run[r].state \in {"idle", "running", "done", "failed"}
       /\ run[r].plan \in Seq(SUBSET Op) /\ (run[r].plan # <<>> <=> run[r].state = "running")
       /\ run[r].closes \in Modals \cup {"none"}
       /\ run[r].fleet \in SUBSET Fleets
       /\ run[r].form \in Form /\ run[r].clean \in BOOLEAN
  /\ pending \subseteq Call
  /\ \A i \in DOMAIN answers : answers[i].call \in Call /\ answers[i].ok \in BOOLEAN
  /\ acts \in 0..MaxActs
  /\ usedIds \subseteq Fleets \cup Craft
  /\ smooth \in BOOLEAN

Acts == acts < MaxActs /\ acts' = acts + 1

Get(o) == [op |-> o, of |-> {}, to |-> {}]

\* The page of vehicles an administrator is given who asks for no other: the first, in no
\* order (others are given less, see the README).
FirstPages(S) == {P \in SUBSET S :
  Cardinality(P) = IF Cardinality(S) <= PageSize THEN Cardinality(S) ELSE PageSize}

Located(P, at) == [v \in Craft |-> IF v \in P THEN at[v] ELSE {}]

\* The page was mounted, and has read both lists.
FleetInit ==
  /\ srv \in Worlds
  /\ usedIds = srv.fleets \cup srv.vehicles
  /\ \E P \in FirstPages(srv.vehicles) :
       /\ store = [fleets |-> srv.fleets, vehicles |-> P, at |-> Located(P, srv.at)]
       /\ whole = (P = srv.vehicles)
  /\ modal = "none"
  /\ form = [m \in Modals |-> Blank]
  /\ loadingUsers = [m \in Modals |-> FALSE]
  /\ run = [r \in Runs |-> Over("idle")]
  /\ pending = {} /\ answers = <<>> /\ acts = 0 /\ smooth = TRUE

-----------------------------------------------------------------------------
(* The server.                                                             *)

In(f) == {v \in Craft : srv.at[v] = f}

\* What is changed is there; a vehicle is put in a fleet that is there; one who is not a
\* member cannot be removed.
Possible(q) ==
  /\ q.op \in {"updateFleet", "deleteFleet", "assignUsers", "removeUser"} => q.of \subseteq srv.fleets
  /\ q.op \in {"updateVehicle", "deleteVehicle"} => q.of \subseteq srv.vehicles
  /\ q.op \in {"createVehicle", "updateVehicle"} => q.to \subseteq srv.fleets
  /\ q.op = "removeUser" => \A f \in q.of : q.to \subseteq srv.members[f]

\* A fleet that is deleted leaves its vehicles; a member is not made one again.
Carried(q) ==
  LET put == [v \in Craft |-> IF v \in q.of THEN q.to ELSE srv.at[v]]
      members(with(_)) == [f \in Fleets |-> IF f \in q.of THEN with(srv.members[f]) ELSE srv.members[f]]
  IN srv' =
    CASE q.op = "createFleet" -> [srv EXCEPT !.fleets = @ \cup q.of]
      [] q.op = "deleteFleet" -> [srv EXCEPT
           !.fleets = @ \ q.of, !.at = [v \in Craft |-> srv.at[v] \ q.of], !.members = members(LAMBDA S : {})]
      [] q.op = "createVehicle" -> [srv EXCEPT !.vehicles = @ \cup q.of, !.at = put]
      [] q.op = "updateVehicle" -> [srv EXCEPT !.at = put]
      [] q.op = "deleteVehicle" -> [srv EXCEPT !.vehicles = @ \ q.of, !.at = put]
      [] q.op = "assignUsers" -> [srv EXCEPT !.members = members(LAMBDA S : S \cup q.to)]
      [] q.op = "removeUser" -> [srv EXCEPT !.members = members(LAMBDA S : S \ q.to)]
      [] OTHER -> srv

\* The answer tells what there is by then.
Responds(c, ok) ==
  /\ pending' = pending \ {c}
  /\ \E P \in IF ok /\ c.q.op = "listVehicles" THEN FirstPages(srv'.vehicles) ELSE {{}} :
       answers' = Append(answers, [call |-> c, ok |-> ok, now |-> srv', page |-> P])
  /\ UNCHANGED <<store, whole, modal, form, loadingUsers, run, usedIds>>

Serve(c) ==
  /\ c \in pending /\ Possible(c.q)
  /\ Carried(c.q)
  /\ Responds(c, TRUE)
  /\ UNCHANGED <<acts, smooth>>

NotFound(c) ==
  /\ c \in pending /\ ~ Possible(c.q)
  /\ UNCHANGED srv
  /\ Responds(c, FALSE)
  /\ UNCHANGED <<acts, smooth>>

\* 403, 500, no network, or a request that is not heard of within 15 s.
Refuse(c) ==
  /\ c \in pending
  /\ Acts
  /\ UNCHANGED srv
  /\ Responds(c, FALSE)
  /\ smooth' = (smooth /\ c.q.op \notin Lists)

LoseAnswer(c) ==
  /\ c \in pending /\ c.q.op \in Operations /\ Possible(c.q)
  /\ Acts
  /\ Carried(c.q)
  /\ Responds(c, FALSE)
  /\ smooth' = FALSE

-----------------------------------------------------------------------------
(* The store takes an answer in: a list replaces the list, an operation   *)
(* changes it in place.                                                    *)

\* Mutant: the vehicles of a fleet that is deleted are forgotten.
DeleteFleetOnly(s, q) == [s EXCEPT !.fleets = @ \ q.of]

deleteFleet(s, q) ==
  [fleets |-> s.fleets \ q.of, vehicles |-> s.vehicles, at |-> [v \in Craft |-> s.at[v] \ q.of]]

updateVehicle(s, q, now) ==
  [s EXCEPT !.at = [v \in Craft |-> IF v \in q.of \cap s.vehicles THEN now.at[v] ELSE s.at[v]]]

createVehicle(s, q, now) ==
  [fleets |-> s.fleets, vehicles |-> s.vehicles \cup q.of,
   at |-> [v \in Craft |-> IF v \in q.of THEN now.at[v] ELSE s.at[v]]]

deleteVehicle(s, q) ==
  [fleets |-> s.fleets, vehicles |-> s.vehicles \ q.of,
   at |-> [v \in Craft |-> IF v \in q.of THEN {} ELSE s.at[v]]]

Merged(s, q, now, page) ==
  CASE q.op = "listVehicles" -> [fleets |-> s.fleets, vehicles |-> page, at |-> Located(page, now.at)]
    [] q.op = "listFleets" -> [s EXCEPT !.fleets = now.fleets]
    [] q.op = "createFleet" -> [s EXCEPT !.fleets = @ \cup q.of]
    [] q.op = "deleteFleet" -> deleteFleet(s, q)
    [] q.op = "createVehicle" -> createVehicle(s, q, now)
    [] q.op = "updateVehicle" -> updateVehicle(s, q, now)
    [] q.op = "deleteVehicle" -> deleteVehicle(s, q)
    [] OTHER -> s

-----------------------------------------------------------------------------
(* The page takes an answer in.                                            *)

\* The members of a fleet, for the form that asked for them, whatever it is about by
\* now.  The dialog of the members keeps what it had when they cannot be read, the one
\* of the fleet shows none.
Loaded(a) ==
  LET m == a.call.q.op
      now == IF a.ok THEN UNION {a.now.members[f] : f \in a.call.q.of} ELSE {}
  IN IF m \notin Modals \/ (m = "members" /\ ~ a.ok) THEN form
     ELSE [form EXCEPT ![m].members = now, ![m].hadMembers = now]

\* Of a dialog that is not shown, only the members matter: opening it fills in the rest.
Kept(f, shown) == [m \in Modals |->
  IF m = shown THEN f[m]
  ELSE [Blank EXCEPT !.members = f[m].members, !.hadMembers = f[m].hadMembers]]

\* The toast tells the error, and the dialog stays as it is.
Fails(r) ==
  /\ run' = [run EXCEPT ![r] = Over("failed")]
  /\ UNCHANGED <<modal, pending>>

\* What is left of the plan; its next stage is asked for.  A dialog that was opened
\* meanwhile is closed all the same.
Proceeds(r, left) ==
  IF left = <<>>
  THEN /\ run' = [run EXCEPT ![r] = Over("done")]
       /\ modal' = IF modal = run[r].closes THEN "none" ELSE modal
       /\ UNCHANGED pending
  ELSE /\ run' = [run EXCEPT ![r].plan = left]
       /\ pending' = IF Len(left) < Len(run[r].plan)
                     THEN pending \cup {[by |-> r, q |-> q] : q \in Head(left)} ELSE pending
       /\ UNCHANGED modal

\* Those that are asked together are awaited together; the lists catch their errors.
Continues(a) ==
  LET r == a.call.by
      rest == Head(run[r].plan) \ {a.call.q}
  IN IF r \notin Runs THEN UNCHANGED <<run, modal, pending>>
     ELSE IF run[r].state # "running" THEN UNCHANGED <<run, modal, pending>>
     ELSE IF ~ a.ok /\ a.call.q.op \notin Lists THEN Fails(r)
     ELSE Proceeds(r, IF rest = {} THEN Tail(run[r].plan) ELSE <<rest>> \o Tail(run[r].plan))

Receive(i) ==
  /\ i \in DOMAIN answers
  /\ IF i = 1 THEN UNCHANGED acts ELSE Acts
  /\ smooth' = (smooth /\ i = 1)
  /\ answers' = RemoveAt(answers, i)
  /\ LET a == answers[i] IN
       /\ store' = IF a.ok THEN Merged(store, a.call.q, a.now, a.page) ELSE store
       /\ whole' = IF a.ok /\ a.call.q.op = "listVehicles" THEN a.page = a.now.vehicles ELSE whole
  /\ loadingUsers' = [m \in Modals |-> loadingUsers[m] /\ answers[i].call.q.op # m]
  /\ Continues(answers[i])
  /\ form' = Kept(Loaded(answers[i]), modal')
  /\ UNCHANGED <<srv, usedIds>>

-----------------------------------------------------------------------------
(* The dialogs.                                                            *)

Opens(m, f) ==
  /\ modal = "none" /\ modal' = m
  /\ Acts
  /\ form' = [form EXCEPT ![m] = f]

\* The members of the fleet are asked for.
LoadsMembers(m, f) ==
  /\ loadingUsers' = [loadingUsers EXCEPT ![m] = TRUE]
  /\ pending' = pending \cup {[by |-> MaxRuns + acts', q |-> [op |-> m, of |-> {f}, to |-> {}]]}

openFleetCreate ==
  /\ Opens("fleet", Blank)
  /\ UNCHANGED <<srv, store, whole, loadingUsers, run, pending, answers, usedIds, smooth>>

\* The members of the fleet that was edited before stay until the answer comes.
openFleetEdit(f) ==
  /\ f \in store.fleets
  /\ LET its == {v \in Craft : store.at[v] = {f}} IN
       Opens("fleet", [form["fleet"] EXCEPT !.of = {f}, !.vehicles = its, !.hadVehicles = its])
  /\ LoadsMembers("fleet", f)
  /\ UNCHANGED <<srv, store, whole, run, answers, usedIds, smooth>>

openMembersModal(f) ==
  /\ f \in store.fleets
  /\ Opens("members", [form["members"] EXCEPT !.of = {f}])
  /\ LoadsMembers("members", f)
  /\ UNCHANGED <<srv, store, whole, run, answers, usedIds, smooth>>

\* For a new vehicle, or one of the list.
openVehicle(of) ==
  /\ of = {} \/ of \subseteq store.vehicles
  /\ Opens("vehicle", [Blank EXCEPT !.of = of, !.at = UNION {store.at[v] : v \in of}])
  /\ UNCHANGED <<srv, store, whole, loadingUsers, run, pending, answers, usedIds, smooth>>

Cancel ==
  /\ Acts
  /\ modal # "none" /\ modal' = "none"
  /\ form' = Kept(form, "none")
  /\ UNCHANGED <<srv, store, whole, loadingUsers, run, pending, answers, usedIds, smooth>>

Flipped(S, x) == IF x \in S THEN S \ {x} ELSE S \cup {x}

\* Vehicles in no fleet and in this one can be ticked.
eligibleFleetVehicles ==
  {v \in store.vehicles : store.at[v] = {} \/ store.at[v] = form["fleet"].of}

Edit ==
  /\ Acts
  /\ \/ \E v \in eligibleFleetVehicles :
          modal = "fleet" /\ form' = [form EXCEPT !["fleet"].vehicles = Flipped(@, v)]
     \/ \E u \in Members :
          /\ modal \in {"fleet", "members"} /\ ~ loadingUsers[modal]
          /\ form' = [form EXCEPT ![modal].members = Flipped(@, u)]
     \/ \E at \in {{}} \cup {{f} : f \in store.fleets} :
          modal = "vehicle" /\ form' = [form EXCEPT !["vehicle"].at = at]
  /\ UNCHANGED <<srv, store, whole, modal, loadingUsers, run, pending, answers, usedIds, smooth>>

-----------------------------------------------------------------------------
(* What a click sets out to do.                                            *)

Unless(S) == IF S = {} THEN <<>> ELSE <<S>>

\* Mutant: who is ticked is added, and nobody leaves.
MembersJoin(f, fm, leave) ==
  IF fm.members = fm.hadMembers THEN <<>>
  ELSE << {[op |-> "assignUsers", of |-> {f}, to |-> fm.members]} >>

\* First those who are new, together, then one after the other those who leave.
MemberStages(f, fm, leave) ==
  LET join == fm.members \ fm.hadMembers
  IN (IF join = {} THEN <<>> ELSE << {[op |-> "assignUsers", of |-> {f}, to |-> join]} >>)
     \o [i \in DOMAIN leave |-> {[op |-> "removeUser", of |-> {f}, to |-> {leave[i]}]}]

VehicleStage(f, fm) == Unless(
  {[op |-> "updateVehicle", of |-> {v}, to |-> {f}] : v \in fm.vehicles \ fm.hadVehicles} \cup
  {[op |-> "updateVehicle", of |-> {v}, to |-> {}] : v \in fm.hadVehicles \ fm.vehicles})

\* Nothing else is being written, and the form holds what is in the database.
Quiet == \A r \in Runs : run[r].state # "running" /\ \A c \in pending : c.by # r

Clean(f, fm) ==
  /\ Quiet
  /\ fm.hadVehicles = In({f}) /\ fm.hadMembers = srv.members[f]

\* Clicks are numbered as they come.  One that comes between disturbs another's.
Starts(r, plan, closes, f, fm, clean) ==
  /\ Acts
  /\ run[r].state = "idle" /\ \A s \in 1..(r - 1) : run[s].state # "idle"
  /\ run' = [s \in Runs |->
       IF s = r
       THEN IF plan = <<>> THEN Over("done")
            ELSE [state |-> "running", plan |-> plan, closes |-> closes, clean |-> clean,
                  fleet |-> f, form |-> IF clean THEN fm ELSE Blank]
       ELSE [run[s] EXCEPT !.clean = @ /\ run[s].state # "running"]]
  /\ modal' = IF plan = <<>> THEN "none" ELSE modal
  /\ pending' = pending \cup
       (IF plan = <<>> THEN {} ELSE {[by |-> r, q |-> q] : q \in Head(plan)})
  /\ UNCHANGED <<srv, store, whole, form, loadingUsers, answers, smooth>>

\* Once the fleet is there: its vehicles, its members, and both lists anew.
handleFleetSave(r) == modal = "fleet" /\
  LET fm == form["fleet"] IN
  \E f \in IF fm.of = {} THEN Fleets \ usedIds ELSE fm.of, leave \in SetToSeqs(fm.hadMembers \ fm.members) :
    LET put == [op |-> IF fm.of = {} THEN "createFleet" ELSE "updateFleet", of |-> {f}, to |-> {}] IN
    /\ Starts(r, <<{put}>> \o VehicleStage(f, fm) \o MemberStages(f, fm, leave) \o <<{Get(o) : o \in Lists}>>,
              "fleet", {f}, fm, Clean(f, fm))
    /\ usedIds' = usedIds \cup {f}

handleFleetDelete(r) == \E f \in store.fleets :
  /\ modal = "none"
  /\ Starts(r, <<{[op |-> "deleteFleet", of |-> {f}, to |-> {}]}>>, "none", {}, Blank, FALSE)
  /\ UNCHANGED usedIds

handleSaveMembers(r) == modal = "members" /\
  LET fm == form["members"] IN \E f \in fm.of, leave \in SetToSeqs(fm.hadMembers \ fm.members) :
    /\ Starts(r, MemberStages(f, fm, leave), "members", {f}, fm,
              Quiet /\ fm.hadMembers = srv.members[f])
    /\ UNCHANGED usedIds

handleSave(r) == modal = "vehicle" /\
  LET fm == form["vehicle"] IN
  \E v \in IF fm.of = {} THEN Craft \ usedIds ELSE fm.of :
    /\ Starts(r, <<{[op |-> IF fm.of = {} THEN "createVehicle" ELSE "updateVehicle",
                     of |-> {v}, to |-> fm.at]}>>, "vehicle", {}, Blank, FALSE)
    /\ usedIds' = usedIds \cup {v}

handleDelete(r) == \E v \in store.vehicles :
  /\ modal = "none"
  /\ Starts(r, <<{[op |-> "deleteVehicle", of |-> {v}, to |-> {}]}, {Get("listVehicles")}>>,
            "none", {}, Blank, FALSE)
  /\ UNCHANGED usedIds

-----------------------------------------------------------------------------
Served(c) == Serve(c) \/ NotFound(c) \/ Refuse(c) \/ LoseAnswer(c)

FleetNext ==
  \/ \E c \in pending : Served(c)
  \/ \E i \in DOMAIN answers : Receive(i)
  \/ openFleetCreate \/ Cancel \/ Edit
  \/ \E f \in Fleets : openFleetEdit(f) \/ openMembersModal(f)
  \/ \E of \in {{}} \cup {{v} : v \in Craft} : openVehicle(of)
  \/ \E r \in Runs :
       \/ handleFleetSave(r) \/ handleFleetDelete(r) \/ handleSaveMembers(r)
       \/ handleSave(r) \/ handleDelete(r)

FleetSpec == FleetInit /\ [][FleetNext]_fleetVars

\* Every request is answered, or ends with the client's timeout of 15 s.
FleetFairness ==
  /\ WF_fleetVars(\E c \in pending : Served(c))
  /\ WF_fleetVars(Receive(1))

-----------------------------------------------------------------------------
(* Properties.                                                             *)

\* However reads and writes, those of a save side by side, are interleaved: as long as
\* no answer was lost or overtaken, the page shows what is in the database when nothing
\* is under way: the fleets, and of the vehicles no one that is gone, each where it is;
\* and all of them, unless the list that was read last was cut.  Only saving a fleet and
\* deleting a vehicle read the list again; what is created or changed is patched into
\* the list there is (fleetStore.js:191-318, FleetPage.jsx:404-453).
StoreIsTrue ==
  smooth /\ pending = {} /\ answers = <<>> =>
    /\ store.fleets = srv.fleets
    /\ store.vehicles \subseteq srv.vehicles /\ \A v \in store.vehicles : store.at[v] = srv.at[v]
    /\ whole => store.vehicles = srv.vehicles

\* A save that tells success, that nothing was written beside, and whose form had been
\* filled with the fleet as it was, has made the fleet what the form showed: its
\* vehicles and its members (FleetPage.jsx:357-391, 476-485).
SaveDoesWhatItSays == [][\A r \in Runs, f \in Fleets :
  run[r].clean /\ run[r].state = "running" /\ run'[r].state = "done" /\ run[r].fleet = {f} =>
    /\ srv.members[f] = run[r].form.members
    /\ run[r].closes = "fleet" => In({f}) = run[r].form.vehicles]_fleetVars

\* Every click comes to a success or an error; no save waits for ever because one of the
\* requests it made side by side fails (FleetPage.jsx:354-397).
SavesOver == \A r \in Runs : run[r].state # "running"
=============================================================================
