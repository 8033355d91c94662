# AeroCommand in TLA+

AeroCommand commands fleets of drones and ground robots: an edge agent on each
vehicle speaks MAVLink to the autopilot and MQTT to the cloud; a gateway process
hosts the services (FastAPI, PostgreSQL, Redis, MongoDB, MQTT); dashboards and a
mobile app talk to it over HTTP and WebSockets.  This directory models the parts of
it whose correctness depends on the order in which things happen - the way of a
mission from the planner's page to the vehicle and of its status back, and the pages
of the dashboard with the requests, streams and tabs behind them -, checks the
models with TLC on small instances, and proves what matters most of them with TLAPS.

Paths below are relative to the repository's root (`src/` here).

## 1. The system

| Component | State it keeps | Operations | Talks to |
|---|---|---|---|
| Edge agent, mission upload (`edge-agent/.../mission_uploader.py`, `mavlink_reader.py`) | items sent, what the coroutine awaits | one MAVLink upload per MQTT event, one after the other | autopilot (serial), cloud (MQTT) |
| Edge agent, mission download (`mission_downloader.py`) | items received | one task per MQTT request, beside an upload | same reader, same link |
| Edge agent, bridge and main loop (`mqtt_bridge.py`, `main.py`, `telemetry_state.py`) | last telemetry, subscriptions | message loop, telemetry and heartbeat loops | broker |
| MQTT client of the services (`backend/shared/mqtt_client.py`, `mqtt_runtime.py`) | handlers, publish queue, connection | subscribe, publish, connection loop, publish loop, dispatch | broker; every service |
| Mission service (`backend/services/mission/service.py`) | missions, waypoints, assignments in PostgreSQL | create, update, delete, assign, unassign, status, upload, download, graph | MQTT, WebSockets, fleet tables |
| Mission status listener (`mission/mqtt_listener.py`) | none | persist status and progress messages | MQTT, mission service |
| Command service (`backend/services/command`) | commands in PostgreSQL, status cache in Redis, timeout tasks | send, acknowledge, list | MQTT |
| Telemetry service (`backend/services/telemetry`) | MongoDB frames, Redis latest/heartbeat keys, vehicle rows, organisation cache | frames, heartbeats, history | MQTT, alert rules, WebSockets |
| WebSocket hub (`telemetry/websocket_manager.py`) | connections per channel | connect, disconnect, broadcast | dashboards, mobile |
| Fleet service (`backend/services/fleet`) | vehicles, fleets, memberships, serial numbers | CRUD, grants | mission assignments |
| Authentication (`backend/services/auth`) | users, sessions, token blacklist in Redis | login, refresh, logout, password reset | every route |
| Alert service (`backend/services/alert`) | rules, alerts, cooldowns | evaluate, acknowledge, resolve | telemetry |
| Gateway (`backend/services/gateway`) | rate-limit windows in Redis | start-up, middleware, proxy routes | all |
| Dashboard, API client (`dashboard/src/lib/api`) | tokens, refresh queue | request, refresh, redirect | gateway |
| Dashboard, session and routes (`stores/authStore.js`, `App.jsx`, `ProtectedRoute.jsx`) | user, stored copy of the user, tokens, per tab and per browser | sign in and out, load, follow a link | API client, other tabs |
| Dashboard, command buttons (`ActionButton.jsx`, `ActionConfirmModal.jsx`, `ControlPanelPage.jsx`, `actions/`) | open question, command in flight, audit trail | ask, confirm, cancel, send | command routes, session |
| Dashboard, streams (`lib/websocket`, `telemetryStore.js`) | a socket per channel, timers, connection status | connect, disconnect, reconnect | WebSocket hub |
| Dashboard, fleet page (`FleetPage.jsx`, `fleetStore.js`) | lists, dialogs, saves under way | create, edit, delete vehicles and fleets, members | fleet routes |
| Dashboard, mission planner (`MissionPlannerPage.jsx`, `missionStore.js`, `missionPlanning.js`) | missions, selection, route, fence, transfers, readiness | load, save, assign, upload, download, check, start; edit route and fence; grid | mission and command routes, telemetry |
| Dashboard, users page (`UsersPage.jsx`) | tables, drafts, dialogs | create, edit, deactivate users and organizations | authentication routes |
| Mobile client code (`mobile/.../lib/src`) | session, socket, reconnect timer | sign in, connect, disconnect | gateway |
| Simulators, user interfaces, schemas, deployment | - | test drivers, rendering, shapes, settings | - |

What is hard in it, and therefore what the models are about:

* *coroutines that act on what they read before an await* - the mission service's
  SELECTs and commits, the status listener, the command timeout, the WebSocket
  hub, the upload coroutine that publishes between two waits;
* *messages lost, repeated, delayed or left over* - the serial link, MQTT with
  clean sessions, a publish queue that puts back at the tail;
* *steps of which one fails* - publishing before the commit, emitting before the
  commit, a listener whose transaction never commits;
* *several processes* - four gateway workers (and three replicas) that share one MQTT
  client id, one Redis and one database;
* *pages that are clicked while they wait* - handlers of the dashboard that make
  several requests from what a form held at the click, beside other handlers, with
  answers that fail, overtake each other or never come; dialogs, pages and tabs that are
  closed and opened meanwhile; sockets whose close event comes after their successor is
  there.

PROJECT.json lists the hazards at their lines, with the properties that cover them;
section 7 names the others that were met.  What makes each component correct:

* upload: UPLOADED is only reported of a mission the autopilot holds; every upload
  ends with a report; uploads do not overlap;
* mission service: a vehicle has one active assignment per mission, a mission has
  one waypoint list, an active mission does not change under the vehicle, nothing
  outlives a deleted mission, a deactivated assignment stays so;
* status listener: what it is told is stored and shown, and its own messages neither
  multiply nor circulate for ever;
* command service: a command's status follows its life cycle whatever the order of
  send, acknowledgement and timeout, and cache and database agree in the end;
* MQTT client: what was asked for stays subscribed across lost connections, nothing is
  sent twice, the queue is worked off, answers reach the process that asked;
* hub and clients: one live stream per client, no update to a closed one, no
  reconnection after a disconnect;
* API client: many requests that find the token expired share one refresh, and each of
  them ends;
* session: a page is shown to those who have a role for it, in every tab, and no tab is
  sent round in a circle;
* command buttons: what is sent is what the button said, once, by those who may, and the
  audit trail tells how it went;
* pages: lists show what is stored, a save that tells success has saved its form, the
  route on the screen is the selected mission's, transfers and launches come one at a
  time, buttons come back;
* planning: waypoints are numbered by their place, the fence keeps in what is meant, and
  whoever is launched is fit;
* fleet: serial numbers are unique, access follows grants.

## 2. Plan

The order of work.  Steps 1 to 8 are done (section 3).

1. `MissionUpload`, `UploadContract` - the handshake that puts missions on vehicles.
2. `MissionService` - the database behind it, under concurrent requests.
3. `MissionReports` - the way back: status reports, listener, dashboards.
4. `MqttService` - connection, re-subscription, publish queue; several processes under
   one client id.
5. `ApiClient` - one token refresh for many requests, in the dashboard.
6. `ActionPolicy`, `OperatorConsole`, `Session` - who sees which button and page, and what
   becomes of a click.
7. `LiveStreams` - the stream that tells which vehicles are connected.
8. `FleetPages`, `MissionPlanner`, `RouteEditor`, `Geofence`, `LaunchControl`, `UserPages` -
   the pages that write, and `MCDashboard`, in which TLC checks steps 5 to 8.

Of the code that is not modelled (section 6) the command service - send, acknowledge and
time out over database and Redis, against an abstract life cycle - is worth a module most,
then the mission download across processes.

## 3. Modules

### MissionUpload, UploadContract

`MissionUpload` is `upload_mission_event_to_autopilot` with `MavlinkReader.notify` and
`wait_for` under it and `MqttBridge.handle_messages` above it.  `pc` says what the
coroutine awaits: the next event, the publish of UPLOADING (`announce`), a request,
the publish of a progress message, or the acknowledgement.  The code between two
awaits is one action.  The reader hands a message only to a coroutine that waits for it
(`Awaited`); any other is taken off the link and dropped (`DropUnawaited`).

| Definition | Code |
|---|---|
| `TakeUp` | the event arrives; an empty mission fails at once |
| `Announce` | MISSION_CLEAR_ALL (best effort) and MISSION_COUNT |
| `AnswerRequest`, `ProgressPublished` | send the item, then await the progress publish |
| `ReceiveAck`, `Timeout` | any MISSION_ACK ends the upload; 30 s without an answer fail it |
| `PublishFails`, `Finish` | a publish that raises ends the upload in `handle_messages`' except |
| `Ap...`, `Lose` | autopilot and serial link: external, modelled from what the uploader relies on |

Waypoints are reduced to their seq numbers, an item's payload to the upload it belongs to.
The uploader also takes an ACK without a type for consent (`mission_uploader.py:222`); a
decoded MISSION_ACK always has the field, so the model's ACKs consent or refuse.  The link
keeps the order and may lose messages; the autopilot may repeat requests, refuse, or give
up.

`UploadContract` says what the cloud may rely on: uploads one at a time, each ends in
one report, and "uploaded" only if the vehicle holds the whole mission and goes on
holding it until the next is taken up.  `MissionUpload` defines the refinement
mapping (`held`: the upload whose whole mission is on board) and is checked against it
as `ImplementsContract`.

### MissionService

Every request runs in its own session, a transaction at READ COMMITTED.  A request is
therefore one step for each SELECT its outcome depends on (`Load`, `FindReplaced`,
`PickVehicle`, `FindUnassigned`, `FindReported`), one that publishes the upload
(`Publish`), and one for flush and commit (`CommitEdit` ... `CommitUpload`); `Abort` is
any error.  `sess[s]` holds what the session has loaded.  A waypoint list is named by
the request that wrote it, an assignment row by the request and vehicle.

Left out: authorisation, names and settings, a row's own status and progress (no
guard reads them), and row locks, which delay but do not change an outcome at READ
COMMITTED; `Load` takes the mission, its waypoints and its rows as one snapshot.
`fleet/service.py: delete_vehicle` also deletes rows of mission_assignments and is not
part of the model.

### MissionReports

One mission on one vehicle: the vehicle reports its status on an MQTT topic, the
gateway's listener takes it, updates the row, tells the dashboards and publishes the
status - on the same topic.  HTTP requests do the same after their flush and before
their commit.  `row` is the committed assignment, `txn` what a request has flushed,
`queue` the publish queue, `topic` the messages the broker has for the gateway, `handler`
the message whose row the listener has found.  `Handle` does not change `row`: the
listener leaves `async for db in get_postgres_session()` by `break`, which closes the
generator at its yield, before the commit that follows it.  A status is named by the
report or request that brought it.  The connection lasts and there is one gateway
process; both are the subject of `MqttService`.

### MqttService

`MQTTService` in each of the processes that serve the gateway: the connection loop
(`conn`, and `link`, its connection as the broker sees it), the publish loop (`pub`,
`queue`), and the coroutines that subscribe (`task`).  `client` is `self._client`, which
is set and cleared by the loop only, later than the broker accepts or closes the connection;
`handlers` are the keys of `self._handlers` in the order of insertion, over which the
loop iterates (`at`, `upto`).

| Definition | Code |
|---|---|
| `Connect`, `ConnectFails` | `async with aiomqtt.Client(...)`: the connection is made or refused |
| `Resubscribe` | one turn of the loop over the handlers; raises if one was added since it began |
| `NoticeDrop`, `Wake` | the except clauses, `_client = None`, 5 s of sleep |
| `Register`, `Subscribed`, `SubscribeRaises` | `subscribe`, and what becomes of its caller if it raises |
| `Put`, `Take`, `Rested`, `Sent`, `SendRaises` | `publish` and the publish loop |
| `Drop`, `Closed` | network and broker: external |

The broker is external, modelled by the three rules of MQTT the code relies on: with
`clean_session` the subscriptions end with the connection; a client id has one
connection, and the older gives way; an acknowledgement does not come on a closed
connection, and its absence does not tell whether the message arrived.  The timeout of
`wait_for` on the queue changes nothing and is left out, as is `stop`, which ends the
process.  Two downloads that start their listener at the same time subscribe the same topic
twice; the model has one.

### ApiClient

The dashboard's axios instance in one page: `req[r]` is what became of a request and what
its configuration holds (`retry` is `_retry`), `isRefreshing` and `failedQueue` are the
module's variables, `tokens` whether localStorage holds the pair, `page` whether the page
is one of the sign-in pages, another, or on its way to /login.  A handler runs to its end, with
the promises it resolves, so it is one action.

| Definition | Code |
|---|---|
| `Send`, `SubmitLogin` | the request interceptor; the login form, disabled while a login is open |
| `Succeed`, `LoggedIn`, `Fail` | the answers other than 401 |
| `Wait`, `Refresh`, `GiveUp`, `RejectAgain` | a 401: while another refreshes; as the first; without a refresh token; after the refresh |
| `Refreshed`, `RefreshFails` | the answer to the refresh, with `processQueue` and the finally clause |
| `RedirectToLogin`, `Reload` | `redirectToLoginIfNeeded`; the browser loads /login and the page is gone |

The server may refuse any call with a token at any time (it does for an expired token, a
disabled user, and when it cannot look the user up), so a call may be refused again
right after a refresh; and it may refuse a login, as it does for a wrong password.  What that
does to the flag is `LoginUnauthorized`.  Several tabs over one localStorage are `Session`'s
subject.

### ActionPolicy

`actions/registry.js` as a table of who may use an action, whether it asks for
confirmation and whether it is audited (`getActionMeta`), and the comparison of roles
(`isRoleAllowed`).  A list of roles asks for the highest of its levels, and an action the
registry does not know is for everybody; both as in the code.  So the command buttons,
whose lists name pilots, admins and super admins, are shown to super admins alone: the code
and what is said of it differ here (section 7).

### OperatorConsole

A click on a command button (`AskConfirmation`, `ClickDirectly`), the dialog in the layout
around the pages (`handleConfirm`, `handleCancel`, `CloseDialog`), the answer
(`CommandSucceeds`, `CommandFails`) with its audit event, and the pages, sign-outs,
sign-ins and reports around them.  `actionConfirmation` is the ui store's, which
survives a sign-out; `loading` is the dialog's own, which does not; `click[c]` is what the
closure of the handler holds.  `effectiveSelectedId` is the fallback of the control panel
to the first vehicle that is not offline.

### LiveStreams

`WebSocketManager` on one channel, under the hook `useTelemetryStream`.  A socket that is
closed is `closing` (or `aborted`, if it never opened) until its event comes, as in a
browser; `connection` is the manager's entry, `timers` the timers that were set and
`registered` whether the last of them can be taken back.  `Breaks`, `ClosesUncleanly`,
`ClosesCleanly` and `ServerCloses` are the four ways a socket ends; the network is
external.

### FleetPages, MissionPlanner, UserPages

The three pages that write, with their stores.  A handler is its plan: the stages of
requests it awaits, made from what the form held at the click.  A request is carried out
by the server in one step (`Serve`, `Accepts`, `Grant`), refused, or carried out and not
heard of (`LoseAnswer`, `TimesOut`, `GrantUnheard`); answers wait in the network and may
overtake each other (`Receive`, `Takes`, `Take`), at the cost of a bounded number.
The server's part is modelled from its services, as far as its answers depend on it.

The list of vehicles comes in pages and the dashboard asks for the first, of fifty
(`fleet/routes.py:50`), without an order: `FirstPages` are all the pages of `PageSize` that
may come, `whole` says that the last one had all vehicles there are.  The answer's `total`,
which would tell, is not looked at.  The user of `FleetPages` is an administrator; others are
given the vehicles of their fleets only (`fleet/service.py:130`), and the store is then a part
of the database for one more reason.  Fleets, missions, users and organizations come without
pages.

| Module | Handlers |
|---|---|
| `FleetPages` | fleet save (create or update, vehicles, members), members save, vehicle save, deletions; dialogs and ticks; `Loaded`: members that arrive |
| `MissionPlanner` | select, save, save as, duplicate, delete, assign, unassign, assign fleet, upload, download; confirmation; leaving the page |
| `UserPages` | save a row, deactivate, edit dialog (name, then password), create; organizations: create, save, disable |

Some history variables say when a property promises something: `smooth`, `orderly` and
`even` - no answer was lost or overtaken so far, and every list was read; `clean` - a save
began from a form that held what was stored, and no other click came between; `strayed` - a
mission could not be loaded, or two handlers changed the selection at a time.  The
code really leaves lists and screen out of step in those cases, the models have them, and
no property says anything of them; section 7 names them.

### RouteEditor, LaunchControl, Geofence

`RouteEditor`: the waypoints with their numbers, the selected one and the fields of its
editor, the fence with the copy to go back to while it is drawn, and the grid that is
previewed and applied.  `RouteIs` is what every change of the list ends with: the effect
that keeps the selection in the list.  A route is loaded with the numbers it is stored under
(`ReadIn`), which need not be its places: a download keeps those of the vehicle, any client
may store any, and the database returns them in their order (`StoredRoutes`).  `numbered` says
that the present route came well numbered, or was numbered since, as `removeWaypoint` does.
`reorderWaypoints` (`missionStore.js:241`) has no caller and no action.

`LaunchControl`: the pre-flight checks as levels, the launch policy, and the start commands
of one click.  How far it is to fly is a number for each place a vehicle may stand at, so a
route may be in reach of one vehicle and out of reach of another.  The button looks at the
summary of the last check, the handler at a new one, and telemetry, crew, route and policy
may change between the two.

`Geofence`: `isPointInPolygon`, the fence test with its samples, and the survey grid, as
operators on whole coordinates; quotients are multiplied out, distances are squared.  What is
promised of a fence without dents is promised of `Convex` ones: all vertices but an edge's own
lie strictly on one side of it, the same for every edge.  A fence each of whose corners turns
the same way may still go round twice, like a pentagram, and is none of these.

### Session

The tabs of one browser: the store of each, the tokens and the persisted copy in the
localStorage they share, routes and roles, and what a token refresh writes and when.
`Settled` is where `ProtectedRoute` and `PublicRoute` let a user end up; `Restored` is what
`authStore.js` makes of the stored copy; `overtaken` says that a refresh has put back the
tokens of another session.

### MCDashboard

The dashboard's modules share no variables: what one page shows of another's state is an
input of its module.  `MCDashboard` checks them in one run.  Of a behaviour `part` says
which module it is of; the other modules stay in their initial states, from which nothing
of theirs is bound to happen, so that fairness of one part is never met, or missed, by
another's rest.

## 4. What TLC checks

| Run | Instance | Shows |
|---|---|---|
| `upload_safe` | two uploads, five missions (well and badly numbered, empty), two losses, two repeats, link drained by a timeout | UPLOADED only if on board; implements the contract; the invariant `UploadsApart`; every upload ends with a report |
| `upload_one` | one upload of three items, two losses, two repeats, slow link, failing sends and publishes | the same safety with every fault; the inductive invariant `FirstUpload` |
| `upload_stale_ack` | two uploads, one loss, failing sends | *violation*: after an upload abandoned by a send error, the ACK of MISSION_CLEAR_ALL passes for the next one's final ACK |
| `service_serial` | two missions, two vehicles, five requests, one at a time | the service's checks suffice for a single user, also beside rolled-back uploads and any reports, "uploading" among them |
| `service_concurrent` | two missions, two vehicles, four requests, two at a time | what survives every interleaving |
| `service_race_assign` | one mission and vehicle, two sessions | *violation*: two active rows, on which `scalar_one_or_none` raises from then on |
| `reports_loop` | four pieces of news, requests may fail after emitting | messages never multiply, and unassigning for good silences the topic |
| `reports_lost` | three pieces of news | *violation*: a report is shown but never stored |
| `mqtt_service` | one process, a start-up listener and the download listener, two drops, two messages | nothing asked for stays unsubscribed, nothing is sent twice, the queue is worked off |
| `mqtt_takeover` | two processes, a network that loses nothing | *violation*: no connection lasts, as each closes the other |
| `api_login` | three requests, wrong passwords | *violation*: the second wrong password is never answered |
| `dashboard` | the ten parts of the dashboard, see below | commands, lists, missions, launches, fences, sessions and streams are what they seem, and everything comes to rest |

`dashboard` has some 260,000 states, in which it checks:

| Property | Of | Says |
|---|---|---|
| `RefreshIsShared`, `NoRefreshLoop` | `ApiClient` | one refresh at a time, on which all who wait depend until a login is refused; one refresh per request |
| `ConsoleSafe` | `OperatorConsole` | `OneAtATime`: one question is carried out in the dialog at a time, and its button knows; `SentAsShown`; `ClickedByNamed`: whoever clicked has a role the registry names; `OutcomeAudited` |
| `NoResend` | `OperatorConsole` | an acknowledged command is not sent again |
| `StreamSafe` | `LiveStreams` | `OneStream`: one live socket, which the manager can close; `ConnectedIsTrue`: a vehicle shown as connected has a socket |
| `ListsAreTrue` | `FleetPages`, `UserPages` | once all answers came in, in order, the lists are the database's; of the vehicles a part, if the page was cut |
| `PlanningSafe` | `MissionPlanner`, `LaunchControl` | `ListIsTrue`; `BelongTogether`: the route on the screen is the selected mission's; `OneTransfer`; `OneLaunch` |
| `SavesDoWhatTheySay` | `FleetPages`, `UserPages` | a save that tells success has stored vehicles, members, name and password of its form |
| `LaunchedAreFit` | `LaunchControl` | whoever is started passed every check at the click, under the policy |
| `RouteSafe` | `RouteEditor` | `SeqIsIndex`: ids are one waypoint's, and numbers are places unless the route came with others; `SelectionExists`; `DrawingIsSafe` |
| `GeometryIsRight` | `Geofence` | ray cast against a fan of triangles; legs in convex fences; the grid keeps its margin |
| `SessionSafe`, `NoRedirectLoop` | `Session` | pages are for their roles in every tab; the stored copy fits the tokens; no loop over /login |
| `DashboardLive` | all with requests | again and again nothing is open: requests, dialog, saves, transfers, and the stream is up |

*Bounds.*  Two uploads are enough for everything one upload can leave behind for the
next; two losses and repeats let each kind of message be lost and be left over.  Two
missions and two vehicles distinguish "this" from "other" in every query of the mission
service, and two sessions give every pairwise interleaving; five requests are create,
assign, upload, report and one more.  Four pieces of news are an assignment, a report, the
unassignment and one more.  Two drops let a connection be lost while the client recovers
from the first, at every pair of moments; two messages can overtake each other; three
topics give an iteration with a turn before and after a registration.  With all three
listeners and one message the same properties hold in a million states.  Deadlock is not
checked: all of these systems really stop when no event, request, news or message comes any
more.

In `dashboard`, of four requests of a page, one refreshes, two wait for it and one is refused
after it.  Two vehicles, of which one may go offline, let the control panel fall back to
another; two clicks and two sign-ins let a question be replaced, confirmed by somebody else,
and answered late.  One drone, two lives of the layout and two sockets that are closing
or timers to come are a late event and a lost timer beside a new socket.  The pages have two
or three handlers at a time (two fleets, three missions, a user to be edited and one
to come), and three clicks, errors, losses or overtaken answers among them: each pair of
handlers crosses with one fault, and each handler alone with two.  Two crews, one fit at the
limits of every check and one not, three waypoints and three vertices (a removal in the
middle, a fence to close), four fences (without dents, with one, crossing itself) on a plane
of seven by seven, and two tabs with two users complete it.  A page has one vehicle, of
one or two there are; stored routes are empty, well numbered, or have two waypoints under one
number; one vehicle stands too far away for its battery.  The vehicles' reports and the
places of the fences are inputs; `MCDashboard` lists them.

*Fairness.*  In `upload_safe` the agent's own steps are weakly fair, because asyncio runs
every task that can run; so are the link's deliveries, and the autopilot does not stay in
a transfer for ever.  Uploads need not come.  In the `reports_*` runs the gateway's
tasks run and a request ends, by commit or rollback.  News need not come.  In the
`mqtt_*` runs the loops and the start-up listeners run and the broker answers or
closes the connection.  Connections need not drop, nothing need be published and
no download need be requested.  In `api_login`
and `dashboard` every request is answered or times out (15 s), a refresh is answered, if
only by the browser, since it has no timeout of its own, a navigation takes place, the oldest
answer is taken in, close events come and timers fire.  A socket that is tried again and
again opens some day (strong fairness of `onopen`).  Nothing need be clicked or sent.

*Symmetry* in `service_*` permutes missions, vehicles and sessions, which no definition
tells apart; those runs check no liveness.

Every property of a passing run has a mutant in PROJECT.json, a plausible slip in the code
modelled, under which TLC finds it violated.

## 5. What TLAPS proves

All theorems hold for every value of the constants that meets the assumptions of the
module.

| Theorem | Statement |
|---|---|
| `MissionUploadProofs!TypeCorrect` | `TypeOK`, any missions and bounds |
| `MissionUploadProofs!FirstUploadIsOnboard` | `MaxUploads = 1`: UPLOADED only of a mission on board |
| `MissionUploadProofs!FirstUploadContract` | `MaxUploads = 1`: implements `UploadContract` |
| `MissionUploadProofs!FirstUploadInvariant` | `MaxUploads = 1`: `FirstUpload`, on which these rest |
| `MissionUploadProofs!QuietUploadsAreOnboard` | no fault, no late message: UPLOADED only of a mission on board, any number of uploads |
| `MissionUploadProofs!QuietUploadsKeepContract` | likewise: implements `UploadContract` |
| `MissionUploadProofs!QuietUploadsApart` | likewise: `UploadsApart`, on which these rest |
| `MissionServiceProofs!TypeCorrect` | `TypeOK` |
| `MissionServiceProofs!DeletedLeavesNothing` | `NoOrphans`, any number of sessions |
| `MissionServiceProofs!DeactivatedForGood` | `DeactivationFinal`, any number of sessions |
| `MissionServiceProofs!SerialEditsReplace` | one session: `OneWaypointList` |
| `MissionServiceProofs!SerialActiveMissionKept` | one session: `ActiveMissionKept` |
| `MissionServiceProofs!SerialAssignsOnce` | one session: `NoDuplicateActive` |
| `MissionServiceProofs!UnassignsAll` | `UnassignIsComplete`, any number of sessions |
| `MissionServiceProofs!SerialAssignIsExclusive` | one session: `AssignIsExclusive` |
| `MissionServiceProofs!SerialUploadSendsStored` | one session: `UploadSendsStored` |
| `MissionReportsProofs!TypeCorrect` | `TypeOK` |
| `MissionReportsProofs!NeverMultiplies` | `OneCopy` |
| `MqttServiceProofs!TypeCorrect` | `TypeOK` |
| `MqttServiceProofs!NoRegistrationMissed` | `ReadyMeansSubscribed`, any number of processes, listeners and drops |
| `MqttServiceProofs!NoMessageTwice` | `AtMostOnce`, any number of processes, drops and messages |
| `PageProofs!TypeCorrect` | `TypeOK`, any number of requests, here and below |
| `PageProofs!RefreshesAlone` | `OneRefresh` |
| `PageProofs!RefreshesOnce` | `NoRefreshLoop` |
| `PageProofs!NobodyWaitsInVain` | `WaitersAreServed`, which speaks of the time until a login is refused with 401 |
| `PageProofs!RefreshesForAll` | `RefreshIsShared`: both |
| `PageProofs!SessionsAreSafe` | `SessionSafe`, any tabs, users and pages visited |
| `PageProofs!RedirectsEnd` | `NoRedirectLoop` |
| `PageProofs!CommandsAreSafe` | `ConsoleSafe`, any vehicles, reports, clicks and sign-ins |
| `PageProofs!NeverSentTwice` | `NoResend` |
| `PageProofs!OneStreamAtATime` | `StreamSafe`, any vehicles, sign-ins, closing sockets and timers |
| `PageProofs!EditingIsSafe` | `RouteSafe`, any places, ids, fences and grids, routes stored under any numbers |
| `PageProofs!OnlyFitVehiclesStart` | `LaunchedAreFit`, any vehicles, facts and routes |
| `PageProofs!LaunchesAlone` | `OneLaunch` |
| `StoreProofs!TablesAreTrue` | `AccountsAreTrue`, any users, organizations and requests |
| `StoreProofs!EditsAreTrue` | `EditDoesWhatItSays`, likewise |
| `StoreProofs!UsersTyped` | `UserTypeOK`, likewise |
| `StoreProofs!PageShowsTheFleets` | `StoreIsTrue`, any fleets, vehicles, members and requests, pages of any size |
| `StoreProofs!SavesAreTrue` | `SaveDoesWhatItSays`, likewise |
| `PlannerProofs!PlannerIsTrue` | `ListIsTrue`, `BelongTogether`, `OneTransfer`; any missions, vehicles, handlers and requests |
| `DashboardProofs!ListsStayTrue` | `ListsAreTrue` of the dashboard, whichever part is at work |
| `DashboardProofs!PlanningStaysSafe` | `PlanningSafe` of the dashboard, likewise |
| `DashboardProofs!SavesStayTrue` | `SavesDoWhatTheySay` of the dashboard, likewise |
| `DashboardProofs!FenceStaysRight` | `GeometryIsRight` of the dashboard; any polygons, places and options of a grid, on a plane of any size |
| `DashboardProofs!TypesStay` | `DashboardTypeOK`, any constants of all ten parts |

*The first upload.*  `UploadedIsOnboard` is not inductive: that an ACK means the mission is
on board depends on where MISSION_CLEAR_ALL is.  `FirstUpload` says why it does: nothing is
on the link before the mission is announced; MISSION_CLEAR_ALL travels ahead of everything
else, so its acknowledgement is the first message to come back and is gone once an item was
asked for; afterwards the autopilot only consents to a mission it took completely.  The
restriction to one upload is not an artefact: `upload_stale_ack` refutes the statement for
two, with a send that fails in the first.

*The uploads after it.*  They inherit what earlier ones left on the link.  `UploadsApart`
shows that it does no harm under `QuietLink`: no send or publish of the agent raises, and 30 s
are enough for all that is on the link - losses, repeated requests and refusals remain.
An upload then ends with the acknowledgement that ends its transfer or when nothing is
left, so all that stays behind are items nobody asked for and refusals
(`BetweenUploads`); the link keeps the order, so they are gone before the announcement
arrives (`AnnouncedLast`); an item is sent once, for the last request, so a transfer takes
items of its own only (`TransferIsCurrent`); and after a request no acknowledgement is an
old one (`AnswerIsLast`).  The last two hold each other up, which is why the invariant is
proved as a whole.  Together with `upload_stale_ack` this says what the code depends on:
one failed send is enough to break it.

*The mission service.*  `DeactivationFinal` needs that rows are named apart and that no row
comes back under an old name (`RowsNamed`).  `UnassignIsComplete` holds for any number of
sessions: no row inserted later has the name of one a request has loaded, and what is still
active of these is selected before the flush (`RowsAreLoaded`).  The serial theorems rest on
`LoadedIsCurrent` - with one session, what a request loaded is what is stored - and, for the
assignments, on `PickedAreFree`: a vehicle picked for a new row has no active one apart from
those being replaced. `service_race_assign` shows that the assumption is needed.
`AssignIsExclusive` needs that the rows found for replacement are all the active ones of the
request's vehicles (`ReplacesAll`), `UploadSendsStored` that an upload between its publish
and its commit has sent what it loaded (`UploadHasSent`).  The property speaks of the commit
of an upload and of no later time: a vehicle that reports "uploading" late
(`mission_uploader.py:86`, `:218`) may set the status of a mission that was edited
meanwhile, and what it then holds is not what is stored.

*Reports.*  `OneCopy` needs `Known`: a message goes back to news there was, so fresh news
is unlike everything on its way.

*Subscriptions.*  `ReadyMeansSubscribed` speaks of a process that listens; its invariant,
`Covered`, also of one that is still renewing: on a connection each registered topic is ahead
of the loop, or the broker has it, or its listener awaits the answer.  It holds because only
one process is connected under the client id (`OneIsUp`), so no other's closing
connection takes the subscriptions away, because `self._client` is set before the loop
begins (`UpIsClient`), so a listener that registers during the renewal subscribes by itself,
and because nobody awaits an answer on a closed connection (`AskedWhenUp`).

*Publishing.*  `AtMostOnce` looks at what was delivered; its invariant, `OnePlace`, follows a
message: it is in one queue, in the hands of one publish loop, or delivered, never in two of
these or twice in one, and its number is at most the count of those published, so the next
is new.  A send that raises hands the message back to nobody, one whose connection
closes may have arrived; neither leads to a second copy.

*Refreshes.*  `OneRefresh` is inductive; `NoRefreshLoop` follows from the types, which say
that a request that refreshes has `_retry` set.  `WaitersAreServed` needs two invariants:
`Served`, that the flag is only set while somebody refreshes or the page is about to go, and
`LoginsApart`, that on the sign-in pages there are logins only, one at a time, and
elsewhere none: so, as long as no login was refused, a 401 comes where the redirect does load
the page anew.  Both may end with the first login that is refused, and `api_login` shows that
they do; that the refusal is not forgotten (`RefusalStays`) is what is left.

*Sessions.*  `TabsAreGood` says of each tab that its page suits its user and that a form
under way is nobody's; the second is why an accepted login never leaves a user on a page
of the one before.  The assumptions are that users have roles and that the pages visited
are pages of the application.

*Commands.*  `ConsoleInv` adds to the properties that whatever is asked, in flight, sent or
done is a click that was made (`OnlyMade`), that an open question is of a command that asks
for one and was not carried out (`OpenQuestion`), that a flight knows whether it was asked
and comes from no later session (`FlightsFit`), and that without a user nothing is
loading (`NobodyLoads`): so a sign-in finds a dialog whose button is right, and a command
that was acknowledged cannot be confirmed again, since its own success closed the dialog.
`OnlySuperAdminsSee` computes who passes the policy from the registry's tables; since the tables
name super admins for every command, whoever clicked is named (`ClickedByNamed`).

*Streams.*  `OneStream` is inductive: whatever connects, an event or a timer that could not
be taken back, first closes what the manager holds.  `ConnectedIsTrue` is not: it needs
`WillBeTold`, that the socket of a vehicle shown as connected was made for a life of the
layout that knows the vehicle - only its handlers will say that it is gone -, also while
nobody is signed in, since the next life starts from the vehicles of the last.

*Waypoints.*  `RouteInv` says that every list is `WellNamed`, so that ids are one
waypoint's, and that the numbers are the places while `numbered` says so (`InPlace`).  What
is removed, moved and appended is followed through the sequence operators of the community
modules, with a lemma for each; a route that is read in has new ids, whatever its numbers
(`LoadedRoute`).

*Starts.*  `LaunchInv` adds to `OneLaunch` that while the button is free all orders under way
are of clicks that were forgotten, so what a click sends is new (`SentIsNew`), and the
vehicles it is sent to are those the handler's own checks let pass.

*Lists.*  Three pages read lists that others' writes make old.  The users page: of a task
that runs one request is under way or its answer (`OneEach`), and each table is the
database's, or the last answer on its way will make it so, or a task that has changed the
database has a reading before it (`WillReload`).  The fleet store changes its lists by the
answers themselves; `CatchesUp` therefore follows them: there is a sequence of stores that
list everything, the first of which the present store is a part of (`PartOf`), through every
answer under way, that ends with the database.  An answer that is taken in keeps the store a
part of its successor, whichever page it brings (`MergedIsPart`).  The planner does both
(`ListsCatchUp`), where an assignment that the list does not mention is made up for by a
list that is on its way (`WillList`).

*Saves.*  A save is a chain of requests, and success is told with its last answer; the
theorems say that nothing is left out of the chain.  While nobody else writes (`clean`),
`SaveInv` says of a save of a fleet that each request of its stage is asked or answered once
(`AskedOnce`), and that every member and vehicle that is not yet as the form says is ahead
of it: in a later stage, or asked, or answered well - unless an answer that failed is on its
way, with which it will tell an error.  So with the last answer nothing is ahead and nothing
failed.  That the members who leave are all in the plan is a counting argument: they are a
finite set, listed one by one. An edit of a user is followed in the same way (`EditGoesOn`);
it needs the types, because its later requests go to the account under the name that the
first one gave it.

*Handlers of the planner.*  `OnItsWay`: what the stage of a handler asked for is asked or
answered, once, so its stage ends when it should.  `OneMover` and `GoodMove` say, unless two
handlers changed the selection at a time, that one alone is about to, and what it will have
selected is what its last stage gets.

*The fence.*  `GeoInv` says of the mission what it was made of: places, one after the other, or
the grid of the options `surveyed` names.  The rest is geometry, in whole numbers.

* *Inside* (`CastIsRight`).  Vertex by vertex, the edges so far that the ray crosses,
  together with the one back to the first vertex, are odd in number exactly when the triangles
  of the fan so far around the point are; a vertex more adds one triangle and puts two
  edges in place of one (`TriangleParity`, by cases of the signs of the sides).  `FanParity`
  goes round the fence with it, of which nothing is assumed: it may be dented or cross itself.
* *Legs* (`WaypointsDecide`).  In a fence without dents one edge at most rises through the
  height of a ray and one falls (`RisesOnce`, `FallsOnce`), and both do or none (`RingTurns`),
  so inside is between the two (`InsideBetween`): on the same side of every edge, or on
  the edge where the ray cast counts that as inside (`InsideSides`).  That is kept by every
  tenth of a leg (`LegInside`).
* *Grid* (`GridsKeepClear`).  The code keeps its margin from the edges, the property asks for
  it from their lines.  Of the lines around a point inside, take the nearest: its own edge
  is where it is nearest (`NearerLine`, `NotCloser`, `NearestIsClear`), so the margin from the
  edges is one from all lines (`MarginKept`).  Every stop of a grid is one of `InsideXs`
  (`Flattened`, `Extremes`), wherever the line and its direction put it.

The inductions over vertices and over the lines of a grid are made as minimal counterexamples,
with the well-foundedness of the natural numbers from the library (`Smallest`, `StepByStep`).

*The dashboard.*  `OfOnePart` says that a step of the dashboard is one of a part and of the
others none, so `ListsAreTrue`, `PlanningSafe`, `SavesDoWhatTheySay`, `GeometryIsRight` and
the types follow from what holds of their parts.  The types are inductive only beside the
invariants: an answer is of the type its request asks for because of what is known of
requests under way (`FleetTypes`, `PlannerTypes`), and what a dialog, the manager or the
editor holds because of what it was opened with (`ConsoleRest`, `StreamRest`, `RouteRest`).

*Assumptions.*  `WorldAssumption`, `AccountsAssumption`, `PlannerAssumption`,
`LaunchAssumption`, `RouteAssumption`, `UsersAssumption`, `VisitedAssumption`,
`FenceAssumption`, `ConsoleAssumption` and `StreamAssumption` say of the constants what they
are: databases, missions, facts, routes in the order of their numbers, polygons, users with
a role, pages of the application, finitely many members, numbers for bounds and for the size
of a page.  None restricts what may happen, except that `FenceAssumption` asks for what the
plane of `Geofence` has: whole numbers, and headings of 0 or 90 degrees.

Only model-checked: the liveness properties (`UploadConcludes`, `UnassignSilences`,
`QueueDrains`, `AskedIsSubscribed`, `Settles`, `DashboardLive`), as TLAPS does not reason about
fairness and ENABLED.  Every other property of a passing run is a theorem, under the premises
the table names.  Of an upload after the first, with failing sends or late
messages, nothing is true that could be proved (`upload_stale_ack`).

## 6. What is not modelled

* *Backend*: the command, telemetry and alert services, the WebSocket hub, the gateway's
  middleware and routes, the mission graph, the download at the server's and the agent's end,
  the agent's telemetry loops.  They are within reach of TLC; sections 2 and 7 say what of
  them is worth it.  The fleet and authentication services are modelled only as what their
  answers tell a page.
* *Dashboard*: pages that only show what the stores hold (telemetry, map, alerts,
  analytics, camera, the overview), forms with one request (settings, registration,
  recovery, the admin page), the alert and mission streams and the lists of the telemetry
  store, `applyAssignmentUpdate`, and the demo mode, which replaces server and vehicles by made-up
  data.  The 3D simulation and the landing page are animations.
* *Mobile app, simulators, schemas and migrations, deployment*: other programs, test
  drivers, shapes and settings; what they decide for the program - workers, replicas, QoS -
  enters the models that depend on it.
* *Everywhere*: credentials and tokens as security mechanisms, rendering and wording,
  floating-point geometry (distances enter as inputs), drivers' connection pools, e-mail.

## 7. Further hazards

PROJECT.json lists the hazards the properties are for.  These were met too.

*Where the code and what is said of it differ.*  Five runs of section 4 end in a violation of
what a comment or message says.  These differ too, and no run is spent on them:

* the registry names pilots and admins for the commands (`dashboard/src/actions/registry.js:83`
  and the other `permissionsRequired`), `App.jsx` lets them on the control panel, and the
  README says "Direct command interface for pilots" (`README.md:95`); `isRoleAllowed` compares
  with the highest level of the list, as its own comment says (`policy.js:7`), so they see no
  command button (`OnlySuperAdminsSee` in `PageProofs` is the proof);
* "Replace all waypoints" (`backend/services/mission/service.py:179`): two edits that overlap
  delete what each loaded, and both lists stay (`OneWaypointList` needs one session);
* "Cannot edit active mission" (`service.py:175`): an edit that loaded the mission before an
  upload committed replaces its waypoints afterwards (`ActiveMissionKept` needs one session);
* an assignment writes the status it decided from the one it loaded, over a report that came
  between (`service.py:262`).

*In modelled code, where the model has the case and the code promises nothing to check:*

* a question that is open at a sign-out is there for the next user, who may confirm it
  (`dashboard/src/stores/uiStore.js:28`);
* members that arrive late fill the form of another fleet (`FleetPage.jsx:337`), a list that was
  overtaken brings back what was deleted (`fleetStore.js:80`), and of two missions selected one
  after the other the first may be shown under the name of the second
  (`MissionPlannerPage.jsx:721`, also after an upload, `:689`);
* a refresh under way puts its tokens back when another tab has signed out or in (`client.js:89`);
* of more than fifty vehicles the pages show fifty, without a sign of the others
  (`fleetStore.js:79`);
* a waypoint added to a route that came with numbers of its own gets the number of its place,
  which may be one there is, or come before others: saved and read again, it is elsewhere in
  the route (`missionStore.js:225`);

* a mission is published, and its update emitted, before the transaction that may still fail
  (`backend/services/mission/service.py:315`, `:395`); what is broadcast was read before other
  requests committed (`:358`); replaced assignments are not emitted (`:266`);
* a publish that raises loses its message (`backend/shared/mqtt_client.py:143`);
* the connection of a vehicle is looked at when the button is drawn, not when it is
  confirmed (`dashboard/src/pages/control/ControlPanelPage.jsx:62`);
* a stream the server closes cleanly is not opened again (`WebSocketManager.js:42`); the
  mission stream has no reconnection at all (`useMissionStream.js:14`);
* members that cannot be read are shown as none (`FleetPage.jsx:331`); a save of a new fleet
  that failed half way creates another one when it is clicked again (`:362`); editing a
  vehicle writes back the fleet its form was opened with (`:424`);
* renaming a mission stores the route on the screen with it (`MissionPlannerPage.jsx:646`); a
  download takes up to 30 s, the client waits 15 (`:709`); what is validated is the route on
  the screen, what is flown the one uploaded (`:946`);
* disabling an organization disables users whom the page does not read again
  (`UsersPage.jsx:303`).

*In code that is not modelled:*

* a command is published before it is cached as sent (`backend/services/command/service.py:95`);
* organisations are cached for ever, and nobody sets a silent vehicle offline
  (`backend/services/telemetry/service.py:27`, `:126`); a broadcast sends to a copy of the
  connections (`websocket_manager.py:54`);
* serial numbers that users give are checked without the lock, and two grants of one fleet both
  insert (`backend/services/fleet/service.py:37`, `:276`);
* a download's response arrives after its timeout or in another process
  (`backend/services/mission/service.py:408`);
* connect and disconnect of the mobile app overlap (`realtime_controller.dart:106`);
* the count of unread alerts (`telemetryStore.js:115`), and `expires_at`, shown as UTC and saved
  as local time (`UsersPage.jsx:68`).
