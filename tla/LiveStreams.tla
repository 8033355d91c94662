---------------------------- MODULE LiveStreams -----------------------------
(***************************************************************************)
(* The stream of an organisation's telemetry to one page of the dashboard: *)
(* the hook that opens it for the layout (useTelemetryStream.js), the      *)
(* manager that keeps one WebSocket per channel and opens it anew when it  *)
(* breaks (WebSocketManager.js), and the connection status that enables    *)
(* the command buttons (telemetryStore.js).                                *)
(*                                                                         *)
(* A browser says that a socket is closed in an event of its own: a socket *)
(* that is closed by the page, or by the other side, is closing until the  *)
(* event comes, while its successor may connect already.  Timers of the    *)
(* same delay fire in the order they were set.                             *)
(***************************************************************************)
EXTENDS Integers, Sequences, FiniteSets

CONSTANTS
  Drones,       \* the vehicles of the organisation
  MaxMounts,    \* bounds the lives of the layout: sign-ins of one page load
  MaxPending    \* bounds the sockets that are closing and the timers to come

ASSUME StreamAssumption == MaxMounts \in Nat \ {0} /\ MaxPending \in Nat

VARIABLES
  mount,            \* the life of the layout, odd: mounted, even: signed out after it
  vehicleIds,       \* the vehicles the hook of each life knows
  sock,             \* the sockets, and for which life of the layout each was made
  connection,       \* the entry of the channel in the manager's connections (0: none)
  timers,           \* the timers to come, each with the life whose options it holds
  registered,       \* is the last of them the one in reconnectTimers?
  connectionStatus

streamVars == <<mount, vehicleIds, sock, connection, timers, registered, connectionStatus>>

\* Slots for WebSockets, used again: those that are closing, and the last one.
Sockets == 1..(MaxPending + 1)
Mounts == 1..MaxMounts
Life(n) == (n + 1) \div 2
mounted == mount % 2 = 1
life == Life(mount)

Socket == [state : {"free", "connecting", "open", "closing", "aborted", "broken", "over"},
           life : Mounts]

StreamTypeOK ==
  /\ mount \in 0..(2 * MaxMounts)
  /\ vehicleIds \in [0..MaxMounts -> SUBSET Drones]
  /\ sock \in [Sockets -> Socket]
  /\ connection \in 0..(MaxPending + 1)
  /\ timers \in Seq(Mounts) /\ Len(timers) <= MaxPending
  /\ registered \in BOOLEAN /\ (registered => timers # <<>>)
  /\ connectionStatus \in [Drones -> {"unknown", "connected", "disconnected"}]

StreamInit ==
  /\ mount = 0
  /\ vehicleIds = [m \in 0..MaxMounts |-> {}]
  /\ sock = [i \in Sockets |-> [state |-> "free", life |-> 1]]
  /\ connection = 0
  /\ timers = <<>> /\ registered = FALSE
  /\ connectionStatus = [d \in Drones |-> "unknown"]

\* Room for one more event to come.
Room == Len(timers) + Cardinality({i \in Sockets : sock[i].state \in {"closing", "aborted"}}) < MaxPending

-----------------------------------------------------------------------------
(* The manager: connect and disconnect.  They are steps of the handlers    *)
(* below, on what the handler has made of the sockets so far.              *)

\* WebSocket.close(): an open one says good-bye, one that is connecting is given up.
Closed(s) ==
  IF s.state = "open" THEN [s EXCEPT !.state = "closing"]
  ELSE IF s.state = "connecting" THEN [s EXCEPT !.state = "aborted"]
  ELSE IF s.state \in {"broken", "over"} THEN [s EXCEPT !.state = "free"]
  ELSE s

\* Mutant: what is in the way is left alone.
ConnectBeside(socks, entry, m) ==
  IF entry # 0 /\ socks[entry].state = "open"
  THEN sock' = socks /\ connection' = entry
  ELSE \E i \in Sockets :
    /\ socks[i].state = "free"
    /\ connection' = i
    /\ sock' = [socks EXCEPT ![i] = [state |-> "connecting", life |-> m]]

\* The entry stays if it is open; else it is closed and replaced.
connect(socks, entry, m) ==
  IF entry # 0 /\ socks[entry].state = "open"
  THEN sock' = socks /\ connection' = entry
  ELSE \E i \in Sockets :
    /\ socks[i].state = "free"
    /\ connection' = i
    /\ sock' = [j \in Sockets |->
         IF j = i THEN [state |-> "connecting", life |-> m]
         ELSE IF j = entry THEN Closed(socks[j]) ELSE socks[j]]

Disconnected == [i \in Sockets |-> IF i = connection THEN Closed(sock[i]) ELSE sock[i]]

\* Only the timer that was set last can be taken back.
TimerCleared ==
  /\ timers' = IF registered THEN SubSeq(timers, 1, Len(timers) - 1) ELSE timers
  /\ registered' = FALSE

-----------------------------------------------------------------------------
(* The hook: it connects when the layout is mounted, disconnects when it   *)
(* is taken down, and does both when the list of vehicles changes.         *)

\* The fleet store still has the vehicles of before.
Mount ==
  /\ ~ mounted /\ life < MaxMounts /\ Room
  /\ mount' = mount + 1
  /\ vehicleIds' = [vehicleIds EXCEPT ![life + 1] = vehicleIds[life]]
  /\ connect(sock, connection, life + 1)
  /\ UNCHANGED <<timers, registered, connectionStatus>>

Unmount ==
  /\ mounted /\ Room
  /\ mount' = mount + 1
  /\ sock' = Disconnected /\ connection' = 0
  /\ TimerCleared
  /\ UNCHANGED <<vehicleIds, connectionStatus>>

\* Vehicles come and go; one that went does not come back under its id.
VehiclesChange ==
  /\ mounted /\ Room
  /\ \E ids \in SUBSET Drones :
       /\ ids # vehicleIds[life]
       /\ \A d \in ids \ vehicleIds[life] : connectionStatus[d] = "unknown"
       /\ vehicleIds' = [vehicleIds EXCEPT ![life] = ids]
  /\ connect(Disconnected, 0, life)
  /\ TimerCleared
  /\ UNCHANGED <<mount, connectionStatus>>

-----------------------------------------------------------------------------
(* The events of a socket.  Its handlers are those of the life it was made *)
(* for, and tell the status of the vehicles that life knows.               *)

Tell(i, status) ==
  connectionStatus' = [d \in Drones |->
    IF d \in vehicleIds[sock[i].life] THEN status ELSE connectionStatus[d]]

onopen(i) ==
  /\ sock[i].state = "connecting"
  /\ sock' = [sock EXCEPT ![i].state = "open"]
  /\ Tell(i, "connected")
  /\ UNCHANGED <<mount, vehicleIds, connection, timers, registered>>

\* The entry of a socket that is closed stays until it is replaced.
Gone(i, how) == sock' = [sock EXCEPT ![i].state = IF i = connection THEN how ELSE "free"]

\* A reconnection in a second.  reconnectAttempts is a variable of one socket, whose
\* closing is told once: it is 0 then, the delay never grows and ten is never reached.
Reconnecting(i) ==
  /\ timers' = Append(timers, sock[i].life)
  /\ registered' = TRUE

\* Mutant: a socket that never opened is not tried again.
BreaksOnce(i) ==
  /\ sock[i].state \in {"connecting", "open"} /\ Room
  /\ Gone(i, "broken")
  /\ Tell(i, "disconnected")
  /\ IF sock[i].state = "open" THEN Reconnecting(i) ELSE UNCHANGED <<timers, registered>>
  /\ UNCHANGED <<mount, vehicleIds, connection>>

\* The network or the server breaks off, or refuses.
Breaks(i) ==
  /\ sock[i].state \in {"connecting", "open"} /\ Room
  /\ Gone(i, "broken")
  /\ Tell(i, "disconnected")
  /\ Reconnecting(i)
  /\ UNCHANGED <<mount, vehicleIds, connection>>

\* The end of a socket that the page closed while it was connecting, or whose
\* good-bye was not answered.
ClosesUncleanly(i) ==
  /\ sock[i].state \in {"closing", "aborted"}
  /\ Gone(i, "broken")
  /\ Tell(i, "disconnected")
  /\ Reconnecting(i)
  /\ UNCHANGED <<mount, vehicleIds, connection>>

ClosesCleanly(i) ==
  /\ sock[i].state = "closing"
  /\ Gone(i, "over")
  /\ Tell(i, "disconnected")
  /\ UNCHANGED <<mount, vehicleIds, connection, timers, registered>>

\* The server says good-bye: it is shut down, or refuses the token.
ServerCloses(i) ==
  /\ sock[i].state = "open" /\ Room
  /\ sock' = [sock EXCEPT ![i].state = "closing"]
  /\ UNCHANGED <<mount, vehicleIds, connection, timers, registered, connectionStatus>>

TimerFires ==
  /\ timers # <<>>
  /\ timers' = Tail(timers)
  /\ registered' = (registered /\ Len(timers) > 1)
  /\ connect(sock, connection, Head(timers))
  /\ UNCHANGED <<mount, vehicleIds, connectionStatus>>

-----------------------------------------------------------------------------
Closes(i) == ClosesCleanly(i) \/ ClosesUncleanly(i)

StreamNext ==
  \/ Mount \/ Unmount \/ VehiclesChange \/ TimerFires
  \/ \E i \in Sockets : onopen(i) \/ Breaks(i) \/ ServerCloses(i) \/ Closes(i)

StreamSpec == StreamInit /\ [][StreamNext]_streamVars

\* A socket that is closing does not do so for ever, a timer fires, and a server
\* that is asked again and again lets a socket open some day.
StreamFairness ==
  /\ \A i \in Sockets : WF_streamVars(Closes(i))
  /\ WF_streamVars(TimerFires)
  /\ SF_streamVars(\E i \in Sockets : onopen(i))

-----------------------------------------------------------------------------
(* Properties.                                                             *)

Live(i) == sock[i].state \in {"connecting", "open"}

\* However sockets break, late events and timers that were overwritten connect
\* again, and the layout comes and goes: one socket at a time is open or on its
\* way, and the manager can find and close it (WebSocketManager.js:12-73).
OneStream == \A i \in Sockets : Live(i) => i = connection

\* A vehicle that is shown as connected has a socket, or one whose end the page
\* has not been told yet (useTelemetryStream.js:62-75).
ConnectedIsTrue ==
  mounted => \A d \in vehicleIds[life] :
    connectionStatus[d] = "connected" => \E i \in Sockets : sock[i].state \in {"open", "closing"}

\* The page has one stream, and says so.
StreamSafe == OneStream /\ ConnectedIsTrue

\* A stream that breaks comes back, as long as somebody is signed in and the
\* server did not say good-bye (WebSocketManager.js:40-51).
StreamUp == mounted =>
  \/ \E i \in Sockets : sock[i].state = "open"
  \/ connection # 0 /\ sock[connection].state \in {"closing", "over"} /\ timers = <<>>
=============================================================================
