--------------------------- MODULE LaunchControl ----------------------------
(***************************************************************************)
(* The synchronized start of a mission (MissionPlannerPage.jsx): the       *)
(* pre-flight checks of each vehicle, the launch policy, and the start     *)
(* commands, sent side by side.  The checks are made at the click, with    *)
(* what the telemetry store knows by then; the button is disabled by the   *)
(* summary of the checks before.                                           *)
(***************************************************************************)
EXTENDS Integers, FiniteSets
LOCAL INSTANCE FiniteSetsExt

CONSTANTS
  Fliers,      \* the vehicles that may be launched
  Stands,      \* where they may be; that this is not known is one of them
  Facts,       \* what telemetry, the stream and the registry may say of each
  RoutePlans,  \* what may be planned: is a mission selected, is the route valid, does it follow
               \* the terrain, how far is it to fly from each of the stands and home
  MaxStarts    \* bounds the clicks on "Sync Start"

VARIABLES
  fact,               \* what is known of each vehicle
  planned,            \* the mission on the screen
  launchPolicy, terrainFallbackPolicy,
  crew,               \* launchVehicles: of the fleet chosen, or assigned to the mission
  readinessSummary,
  isStartingMission,
  starting,           \* the start commands in flight, with their click
  starts,             \* counts the clicks that sent some
  forgotten           \* those of them before the page was left and came back

launchVars == <<fact, planned, launchPolicy, terrainFallbackPolicy, crew, readinessSummary,
                isStartingMission, starting, starts, forgotten>>

Presses == 1..MaxStarts
Fact == [at : Stands, battery : 0..100, link_quality : 0..100, satellites : 0..30, ekf_ok : BOOLEAN,
         connected : BOOLEAN, terrain : BOOLEAN,
         status : {"idle", "offline", "critical", "warning", "in_mission", "armed"}]
RoutePlan == [selected : BOOLEAN, valid : BOOLEAN, terrain : BOOLEAN, km : [Stands -> Nat]]

ASSUME LaunchAssumption ==
  /\ Facts \in [Fliers -> SUBSET Fact] /\ IsFiniteSet(Fliers)
  /\ RoutePlans \subseteq RoutePlan /\ MaxStarts \in Nat

Told == {f \in [Fliers -> UNION {Facts[v] : v \in Fliers}] : \A v \in Fliers : f[v] \in Facts[v]}

LaunchTypeOK ==
  /\ fact \in Told
  /\ planned \in RoutePlans
  /\ launchPolicy \in {"all_or_none", "launch_ready_only"}
  /\ terrainFallbackPolicy \in {"use_relative", "block_start"}
  /\ crew \in SUBSET Fliers
  /\ readinessSummary \in [ready : 0..Cardinality(Fliers), total : 0..Cardinality(Fliers)]
  /\ isStartingMission \in BOOLEAN
  /\ starting \subseteq [click : Presses, on : Fliers]
  /\ starts \in 0..MaxStarts /\ forgotten \in 0..starts

Unchecked == [ready |-> 0, total |-> 0]

LaunchInit ==
  /\ fact \in Told
  /\ planned \in RoutePlans
  /\ launchPolicy = "all_or_none" /\ terrainFallbackPolicy = "use_relative"
  /\ crew = {}
  /\ readinessSummary = Unchecked
  /\ isStartingMission = FALSE
  /\ starting = {} /\ starts = 0 /\ forgotten = 0

-----------------------------------------------------------------------------
(* The checks.                                                             *)

\* Six percent a kilometre, and fifteen to come back; nothing asks for more than 95.
estimateBatteryThresholdPercent(km) == Min({95, 6 * km + 15})

getDroneStatus(f) ==
  IF f.status = "offline" \/ ~ f.connected THEN "offline"
  ELSE IF f.status = "critical" \/ f.battery < 15 \/ f.link_quality < 25 THEN "critical"
  ELSE IF f.status = "warning" \/ f.battery < 25 \/ f.link_quality < 45 THEN "warning"
  ELSE f.status

usesTerrainFollow == planned.terrain

\* Of every vehicle to launch; there must be one.
terrainAvailable == ~ usesTerrainFollow \/ (crew # {} /\ \A v \in crew : fact[v].terrain)

Level(blocks, warns) == IF blocks THEN "BLOCKER" ELSE IF warns THEN "WARNING" ELSE "INFO"

\* A route is valid only inside a fence: the check of the fence adds nothing to it.
Checks(f) == [
  validity |-> Level(~ planned.valid, FALSE),
  battery |-> Level(f.battery < estimateBatteryThresholdPercent(planned.km[f.at]), FALSE),
  gps |-> Level(~ f.ekf_ok \/ f.satellites < 6, f.satellites < 8),
  link |-> Level(~ f.connected \/ f.status = "offline" \/ f.link_quality < 30, f.link_quality < 55),
  health |-> Level(getDroneStatus(f) \in {"critical", "offline"}, getDroneStatus(f) = "warning"),
  terrain |-> Level(~ terrainAvailable /\ terrainFallbackPolicy = "block_start", ~ terrainAvailable)]

buildPreflightForDrone(v) == LET c == Checks(fact[v]) IN
  [blockers |-> Cardinality({n \in DOMAIN c : c[n] = "BLOCKER"}),
   warnings |-> Cardinality({n \in DOMAIN c : c[n] = "WARNING"})]

Ready == {v \in crew : buildPreflightForDrone(v).blockers = 0}

Checked == readinessSummary' = [ready |-> Cardinality(Ready), total |-> Cardinality(crew)]

runPreflightChecks ==
  /\ Checked
  /\ UNCHANGED <<fact, planned, launchPolicy, terrainFallbackPolicy, crew, isStartingMission,
                 starting, starts, forgotten>>

-----------------------------------------------------------------------------
(* The start.                                                              *)

\* Mutant: whoever is to launch is started, as the policy is checked already.
TargetsAll == crew

Targets == IF launchPolicy = "launch_ready_only" THEN Ready ELSE crew

\* The summary of the last check, whatever has changed since.
StartEnabled ==
  /\ ~ isStartingMission
  /\ ~ (/\ readinessSummary.total > 0 /\ launchPolicy = "all_or_none"
        /\ readinessSummary.ready < readinessSummary.total)

Launches ==
  /\ planned.valid
  /\ launchPolicy = "all_or_none" => Ready = crew
  /\ Ready # {}

\* A refusal says why, and disables the button.
handleStartFleetMission ==
  /\ starts < MaxStarts
  /\ StartEnabled
  /\ planned.selected /\ crew # {}
  /\ Checked
  /\ IF Launches
     THEN /\ isStartingMission' = TRUE
          /\ starts' = starts + 1
          /\ starting' = starting \cup {[click |-> starts', on |-> v] : v \in Targets}
     ELSE UNCHANGED <<isStartingMission, starting, starts>>
  /\ UNCHANGED <<fact, planned, launchPolicy, terrainFallbackPolicy, crew, forgotten>>

\* Done, refused or lost: all of them are waited for, by the page that sent them.
StartAnswered(s) ==
  /\ s \in starting
  /\ starting' = starting \ {s}
  /\ isStartingMission' = (\E t \in starting' : t.click > forgotten)
  /\ UNCHANGED <<fact, planned, launchPolicy, terrainFallbackPolicy, crew, readinessSummary, starts, forgotten>>

-----------------------------------------------------------------------------
(* Around it.                                                              *)

Tells(v, f) ==
  /\ fact' = [fact EXCEPT ![v] = f]
  /\ UNCHANGED <<planned, launchPolicy, terrainFallbackPolicy, crew, readinessSummary,
                 isStartingMission, starting, starts, forgotten>>

\* The route or the fence is edited, or the mission deleted.
Replan(p) ==
  /\ planned' = p
  /\ UNCHANGED <<fact, launchPolicy, terrainFallbackPolicy, crew, readinessSummary,
                 isStartingMission, starting, starts, forgotten>>

\* A fleet is chosen, or vehicles are assigned.
Choose(vs) ==
  /\ crew' = vs
  /\ UNCHANGED <<fact, planned, launchPolicy, terrainFallbackPolicy, readinessSummary,
                 isStartingMission, starting, starts, forgotten>>

setLaunchPolicy(policy) ==
  /\ launchPolicy' = policy
  /\ UNCHANGED <<fact, planned, terrainFallbackPolicy, crew, readinessSummary,
                 isStartingMission, starting, starts, forgotten>>

setTerrainFallbackPolicy(policy) ==
  /\ terrainFallbackPolicy' = policy
  /\ UNCHANGED <<fact, planned, launchPolicy, crew, readinessSummary,
                 isStartingMission, starting, starts, forgotten>>

\* Another mission is loaded.
hydrateMissionPlanningState(vs, p) ==
  /\ planned' = p /\ crew' = vs
  /\ launchPolicy' = "all_or_none" /\ terrainFallbackPolicy' = "use_relative"
  /\ readinessSummary' = Unchecked
  /\ UNCHANGED <<fact, isStartingMission, starting, starts, forgotten>>

\* The page is left and comes back: of its state nothing remains.
Reopen ==
  /\ forgotten' = starts
  /\ isStartingMission' = FALSE
  /\ readinessSummary' = Unchecked
  /\ launchPolicy' = "all_or_none" /\ terrainFallbackPolicy' = "use_relative"
  /\ UNCHANGED <<fact, planned, crew, starting, starts>>

-----------------------------------------------------------------------------
LaunchNext ==
  \/ runPreflightChecks \/ Reopen
  \/ handleStartFleetMission
  \/ \E s \in starting : StartAnswered(s)
  \/ \E v \in Fliers : \E f \in Facts[v] : Tells(v, f)
  \/ \E p \in RoutePlans : Replan(p)
  \/ \E vs \in SUBSET Fliers : Choose(vs)
  \/ \E policy \in {"all_or_none", "launch_ready_only"} : setLaunchPolicy(policy)
  \/ \E policy \in {"use_relative", "block_start"} : setTerrainFallbackPolicy(policy)
  \/ \E vs \in SUBSET Fliers, p \in RoutePlans : hydrateMissionPlanningState(vs, p)

LaunchSpec == LaunchInit /\ [][LaunchNext]_launchVars

-----------------------------------------------------------------------------
(* Properties.                                                             *)

\* As told by telemetry, without the levels and the labels of the checks.
Fit(f, p) ==
  /\ f.connected /\ f.status \notin {"offline", "critical"}
  /\ f.link_quality >= 30
  /\ f.ekf_ok /\ f.satellites >= 6
  /\ f.battery >= 15 /\ (f.battery >= 6 * p.km[f.at] + 15 \/ f.battery >= 95)

\* Whoever is started was fit at the click, for a valid route; with all-or-none
\* everybody was, and everybody is started; without terrain data nobody is, where that
\* blocks the start (MissionPlannerPage.jsx:822-974).
LaunchedAreFit == [][starts' > starts =>
  LET sent == {s.on : s \in starting' \ starting} IN
  /\ planned.valid
  /\ sent # {} /\ sent \subseteq crew
  /\ \A v \in sent : Fit(fact[v], planned)
  /\ launchPolicy = "all_or_none" => sent = crew
  /\ planned.terrain /\ terrainFallbackPolicy = "block_start" => \A v \in crew : fact[v].terrain
  /\ launchPolicy = "launch_ready_only" => \A v \in crew \ sent : ~ Fit(fact[v], planned)]_launchVars

\* The commands of one click at a time are on their way, until the page is left: it
\* forgets them (MissionPlannerPage.jsx:962-973).
OneLaunch == \A s, t \in starting : s.click > forgotten /\ t.click > forgotten => s.click = t.click
=============================================================================
