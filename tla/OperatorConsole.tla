-------------------------- MODULE OperatorConsole ---------------------------
(***************************************************************************)
(* Commands to a vehicle from the dashboard: the buttons of the control    *)
(* panel and of a vehicle's page, the dialog that asks for confirmation,   *)
(* the command on its way and its entry in the audit trail.  The dialog    *)
(* lives in the layout around the pages, what it asks in a store that      *)
(* outlives even a sign-out, and a handler keeps the vehicle and the       *)
(* action of the moment it was made: each of them may be out of step with  *)
(* the others.                                                             *)
(*                                                                         *)
(* A vehicle is its place in the list of the fleet store.                  *)
(***************************************************************************)
EXTENDS ActionPolicy, FiniteSets

CONSTANTS
  NVehicles,
  Reports,      \* what telemetry and the stream may say of each vehicle
  MaxClicks,    \* bounds the clicks on command buttons
  Pressed,      \* the buttons the operator uses
  SignIns,      \* the roles of those who sign in
  MaxSessions   \* bounds the sign-ins of one page load

ASSUME ConsoleAssumption ==
  /\ NVehicles \in Nat /\ MaxClicks \in Nat /\ MaxSessions \in Nat \ {0}
  /\ SignIns \subseteq Roles

VARIABLES
  role,                 \* of the user signed in, or "nobody"
  session,              \* counts the sign-ins: the lives of the layout
  view,                 \* the page, and the vehicle chosen on it (0: none)
  report,               \* what is known of each vehicle
  actionConfirmation,   \* the click the dialog is about (0: no dialog)
  loading,              \* the dialog's button is disabled
  click,                \* what each click was on
  flight,               \* the commands sent and not answered
  sent,                 \* the commands ever sent
  done,                 \* the clicks whose command was acknowledged
  audit                 \* the outcomes in the audit trail, per click

consoleVars == <<role, session, view, report, actionConfirmation, loading, click,
                 flight, sent, done, audit>>

Vehicles == 1..NVehicles
Clicks == 1..MaxClicks
Commands == DOMAIN ArmingActions \cup DOMAIN FlightActions

KnownReports == {r \in [Vehicles -> UNION {Reports[v] : v \in Vehicles}] :
                   \A v \in Vehicles : r[v] \in Reports[v]}
Click == [by : Roles, action : Commands, vehicle : Vehicles]
NotYet == [by |-> "nobody"]
Flight == [click : Clicks, session : 1..MaxSessions, asked : BOOLEAN]

ConsoleTypeOK ==
  /\ role \in SignIns \cup {"nobody"}
  /\ session \in 1..MaxSessions
  /\ view \in [page : {"control", "detail", "other"}, id : 0..NVehicles]
  /\ report \in KnownReports
  /\ actionConfirmation \in 0..MaxClicks
  /\ loading \in BOOLEAN
  /\ click \in [Clicks -> Click \cup {NotYet}]
  /\ flight \subseteq Flight
  /\ sent \subseteq [click : Clicks, action : Commands, vehicle : Vehicles]
  /\ done \subseteq Clicks
  /\ audit \in [Clicks -> SUBSET {"success", "failure", "aborted"}]

ConsoleInit ==
  /\ role \in SignIns
  /\ session = 1
  /\ view = [page |-> "other", id |-> 0]
  /\ report \in KnownReports
  /\ actionConfirmation = 0
  /\ loading = FALSE
  /\ click = [c \in Clicks |-> NotYet]
  /\ flight = {} /\ sent = {} /\ done = {}
  /\ audit = [c \in Clicks |-> {}]

-----------------------------------------------------------------------------
(* What the pages show.                                                    *)

activeVehicles == {v \in Vehicles : report[v].online}

\* The control panel falls back to the first vehicle of those that are not
\* offline; the page of a vehicle shows that vehicle.
effectiveSelectedId ==
  IF view.page = "detail" \/ view.id \in activeVehicles THEN view.id
  ELSE IF activeVehicles = {} THEN 0
  ELSE CHOOSE v \in activeVehicles : \A w \in activeVehicles : v <= w

ControlButtons(v) ==
  {IF report[v].armed THEN "control.command.disarm" ELSE "control.command.arm",
   "control.command.takeoff", "control.command.land", "control.command.hold",
   "control.command.rtl", "control.command.emergency_stop"}

DetailButtons(v) == ControlButtons(v) \ {"control.command.hold"}

\* A button that can be clicked now.
Clickable(v, a) ==
  /\ v # 0 /\ v = effectiveSelectedId
  /\ report[v].connected
  /\ \/ view.page = "control" /\ a \in ControlButtons(v)
     \/ view.page = "detail" /\ a \in DetailButtons(v)
  /\ a \in Pressed
  /\ Visible(role, a)

-----------------------------------------------------------------------------
(* A click, with and without a question.                                   *)

\* Clicks are numbered as they come.
Fresh(c) == click[c] = NotYet /\ \A b \in 1..(c - 1) : click[b] # NotYet

Made(c, v, a) == click' = [click EXCEPT ![c] = [by |-> role, action |-> a, vehicle |-> v]]

\* A question that is still open is replaced.
AskConfirmation(c) == \E v \in Vehicles, a \in Commands :
  /\ Fresh(c) /\ Clickable(v, a)
  /\ getActionMeta(a).confirmation
  /\ Made(c, v, a)
  /\ actionConfirmation' = c
  /\ UNCHANGED <<role, session, view, report, loading, flight, sent, done, audit>>

ClickDirectly(c) == \E v \in Vehicles, a \in Commands :
  /\ Fresh(c) /\ Clickable(v, a)
  /\ ~ getActionMeta(a).confirmation
  /\ Made(c, v, a)
  /\ flight' = flight \cup {[click |-> c, session |-> session, asked |-> FALSE]}
  /\ sent' = sent \cup {[click |-> c, action |-> a, vehicle |-> v]}
  /\ UNCHANGED <<role, session, view, report, actionConfirmation, loading, done, audit>>

-----------------------------------------------------------------------------
(* The dialog.                                                             *)

Audited(c, outcome) ==
  audit' = IF getActionMeta(click[c].action).auditTrail
           THEN [audit EXCEPT ![c] = @ \cup {outcome}] ELSE audit

Asks(c) == actionConfirmation = c /\ role # "nobody"

\* Mutant: the command goes to the vehicle that is shown by then.
ConfirmShown(c) ==
  /\ Asks(c) /\ ~ loading
  /\ effectiveSelectedId # 0
  /\ loading' = TRUE
  /\ flight' = flight \cup {[click |-> c, session |-> session, asked |-> TRUE]}
  /\ sent' = sent \cup {[click |-> c, action |-> click[c].action, vehicle |-> effectiveSelectedId]}
  /\ UNCHANGED <<role, session, view, report, actionConfirmation, click, done, audit>>

\* The handler of the click: its vehicle and its action.
handleConfirm(c) ==
  /\ Asks(c) /\ ~ loading
  /\ loading' = TRUE
  /\ flight' = flight \cup {[click |-> c, session |-> session, asked |-> TRUE]}
  /\ sent' = sent \cup {[click |-> c, action |-> click[c].action, vehicle |-> click[c].vehicle]}
  /\ UNCHANGED <<role, session, view, report, actionConfirmation, click, done, audit>>

\* The command may be on its way already.
handleCancel(c) ==
  /\ Asks(c)
  /\ Audited(c, "aborted")
  /\ actionConfirmation' = 0
  /\ UNCHANGED <<role, session, view, report, loading, click, flight, sent, done>>

\* Escape, the cross, or a click beside the dialog: no trace of it.
CloseDialog(c) ==
  /\ Asks(c)
  /\ actionConfirmation' = 0
  /\ UNCHANGED <<role, session, view, report, loading, click, flight, sent, done, audit>>

-----------------------------------------------------------------------------
(* The answer.                                                             *)

\* The state of a dialog that was taken down is nobody's.
LoadingOver(f) ==
  loading' = IF f.asked /\ f.session = session THEN FALSE ELSE loading

\* Mutant: the dialog stays for the next command.
SucceedsOpen(f) ==
  /\ f \in flight
  /\ flight' = flight \ {f}
  /\ done' = done \cup {f.click}
  /\ Audited(f.click, "success")
  /\ LoadingOver(f)
  /\ UNCHANGED <<role, session, view, report, actionConfirmation, click, sent>>

\* The dialog is closed, whatever it asks by now.
CommandSucceeds(f) ==
  /\ f \in flight
  /\ flight' = flight \ {f}
  /\ done' = done \cup {f.click}
  /\ Audited(f.click, "success")
  /\ LoadingOver(f)
  /\ actionConfirmation' = IF f.asked THEN 0 ELSE actionConfirmation
  /\ UNCHANGED <<role, session, view, report, click, sent>>

\* The question stays: it may be confirmed once more.
CommandFails(f) ==
  /\ f \in flight
  /\ flight' = flight \ {f}
  /\ Audited(f.click, "failure")
  /\ LoadingOver(f)
  /\ UNCHANGED <<role, session, view, report, actionConfirmation, click, sent, done>>

Answered(f) == CommandSucceeds(f) \/ CommandFails(f)

-----------------------------------------------------------------------------
(* Around it: the user, the pages and the vehicles.                        *)

\* The layout goes, and the dialog's state with it; its question stays in the store.
logout ==
  /\ role # "nobody"
  /\ role' = "nobody"
  /\ loading' = FALSE
  /\ view' = [page |-> "other", id |-> 0]
  /\ UNCHANGED <<session, report, actionConfirmation, click, flight, sent, done, audit>>

SignIn(r) ==
  /\ role = "nobody"
  /\ session < MaxSessions
  /\ role' = r
  /\ session' = session + 1
  /\ UNCHANGED <<view, report, actionConfirmation, loading, click, flight, sent, done, audit>>

\* The routes of the two pages; both forget what was chosen.
GoTo(p, v) ==
  /\ role # "nobody"
  /\ \/ p = "control" /\ role \in Pilots /\ v = 0
     \/ p = "detail" /\ v # 0
  /\ view' = [page |-> p, id |-> v]
  /\ UNCHANGED <<role, session, report, actionConfirmation, loading, click, flight, sent, done, audit>>

setSelectedId(v) ==
  /\ role # "nobody"
  /\ view.page = "control" /\ v \in activeVehicles
  /\ view' = [view EXCEPT !.id = v]
  /\ UNCHANGED <<role, session, report, actionConfirmation, loading, click, flight, sent, done, audit>>

Reported(v, s) ==
  /\ report' = [report EXCEPT ![v] = s]
  /\ UNCHANGED <<role, session, view, actionConfirmation, loading, click, flight, sent, done, audit>>

-----------------------------------------------------------------------------
ConsoleNext ==
  \/ logout
  \/ \E r \in SignIns : SignIn(r)
  \/ \E p \in {"control", "detail"}, v \in 0..NVehicles : GoTo(p, v)
  \/ \E v \in Vehicles : setSelectedId(v)
  \/ \E v \in Vehicles : \E s \in Reports[v] : Reported(v, s)
  \/ \E c \in Clicks :
       \/ AskConfirmation(c) \/ ClickDirectly(c)
       \/ handleConfirm(c) \/ handleCancel(c) \/ CloseDialog(c)
  \/ \E f \in Flight : Answered(f)

ConsoleSpec == ConsoleInit /\ [][ConsoleNext]_consoleVars

\* A request is answered, or ends with the client's timeout of 15 s.
ConsoleFairness == WF_consoleVars(\E f \in flight : Answered(f))

-----------------------------------------------------------------------------
(* Properties.                                                             *)

\* However the dialog is cancelled, closed and opened again, one question at a
\* time is being carried out in it, and its button knows
\* (ActionConfirmModal.jsx:31-39: setLoading around the await).
OneAtATime ==
  /\ \A f, g \in flight : f.asked /\ g.asked /\ f.session = g.session => f = g
  /\ role # "nobody" =>
       (loading <=> \E f \in flight : f.asked /\ f.session = session)

\* What is sent is what the button said when it was clicked, though the page, the
\* vehicle chosen and the fallback to the first vehicle change before it is
\* confirmed (ActionButton.jsx:57-74, ControlPanelPage.jsx:50-75).
SentAsShown == \A s \in sent :
  click[s.click].action = s.action /\ click[s.click].vehicle = s.vehicle

\* Whoever clicked is one whom the registry names for the command, though the page, the
\* vehicle and the user change before it is sent.  Of those it names, the comparison of
\* policy.js lets the super administrators alone see the button (registry.js:83).
ClickedByNamed == \A s \in sent :
  click[s.click].by \in getActionMeta(s.action).permissionsRequired

\* A command that was acknowledged is not sent again, neither by confirming twice
\* nor by a later question (ActionConfirmModal.jsx:34-35).
NoResend == [][\A f \in flight' \ flight : f.click \notin done]_consoleVars

\* Once nothing of a click is under way any more, the audit trail says how it went
\* (ActionButton.jsx:61-69, 77-86).
OutcomeAudited == \A s \in sent :
  \/ \E f \in flight : f.click = s.click
  \/ audit[s.click] \cap {"success", "failure"} # {}

\* From the click to the audit trail, a command is the one that was asked for.
ConsoleSafe == OneAtATime /\ SentAsShown /\ ClickedByNamed /\ OutcomeAudited

\* The dialog's button is enabled, again and again: the next question can be answered
\* (ActionConfirmModal.jsx:36-38).
DialogReady == ~ loading
=============================================================================
