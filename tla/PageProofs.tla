----------------------------- MODULE PageProofs -----------------------------
(***************************************************************************)
(* What holds of the pages of the dashboard, of what they keep and of the  *)
(* client that sends their requests: for any number of tabs, requests,     *)
(* vehicles, clicks and waypoints, any users and any answers of the        *)
(* backend.  The parts share nothing; each has an inductive invariant of   *)
(* its own, and the fence's is over the geometry of any drawn polygon.     *)
(***************************************************************************)
EXTENDS ApiClient, Session, RouteEditor, LaunchControl, LiveStreams, OperatorConsole, Geofence,
        SequenceTheorems, FiniteSetTheorems, TLAPS
LOCAL INSTANCE SequencesExt
LOCAL INSTANCE FiniteSetsExt
W == INSTANCE WellFoundedInduction

-----------------------------------------------------------------------------
(***************************************************************************)
(* The sessions of a browser: a page is shown to whom it is meant for.     *)
(***************************************************************************)

Tab == [user : Users \cup {Nobody}, path : Pages, from : Pages \cup {Nowhere},
        isLoading : BOOLEAN, refreshing : Users \cup {Nobody}]

\* The page suits who is looking at it.
Suits(user, p) == IF p \in PublicPages THEN user = Nobody ELSE user \in RequiredRoles(p)

-----------------------------------------------------------------------------
(* Pages.                                                                  *)

LEMMA NobodyIsNoUser == Nobody \notin Users
BY UsersAssumption DEF Nobody, Roles

LEMMA AppIsNotPublic == AppPages \cap PublicPages = {}
BY DEF AppPages, OpenPages, PublicPages

\* Wherever a tab is sent, it ends on a page for its user.
LEMMA SettledSuits ==
  ASSUME NEW u \in Users \cup {Nobody}, NEW p \in Pages
  PROVE  Settled(u, p) \in Pages /\ Suits(u, Settled(u, p))
<1>1. CASE u = Nobody
  <2>1. Settled(u, p) \in PublicPages
    BY <1>1 DEF Settled, PublicPages
  <2>2. QED
    BY <1>1, <2>1 DEF Suits, Pages
<1>2. CASE u # Nobody
  <2>1. u \in Roles
    BY <1>2, UsersAssumption
  <2>2. ASSUME NEW q \in {"/app", "/app/unauthorized"}
        PROVE  q \in Pages /\ Suits(u, q)
    <3>1. q \in OpenPages /\ q \in AppPages
      BY DEF OpenPages, AppPages
    <3>2. RequiredRoles(q) = Roles
      BY <3>1 DEF RequiredRoles, OpenPages
    <3>3. QED
      BY <2>1, <3>1, <3>2, AppIsNotPublic DEF Suits, Pages
  <2>3. CASE p \in PublicPages
    BY <1>2, <2>2, <2>3 DEF Settled
  <2>4. CASE p \notin PublicPages /\ u \in RequiredRoles(p)
    BY <1>2, <2>4 DEF Settled, Suits
  <2>5. CASE p \notin PublicPages /\ u \notin RequiredRoles(p)
    BY <1>2, <2>2, <2>5 DEF Settled
  <2>6. QED
    BY <2>3, <2>4, <2>5
<1>3. QED
  BY <1>1, <1>2

LEMMA OriginType ==
  ASSUME NEW u \in Users \cup {Nobody}, NEW p \in Pages, NEW from \in Pages \cup {Nowhere}
  PROVE  Origin(u, p, from) \in Pages \cup {Nowhere}
BY DEF Origin

\* A page that is loaded.
LEMMA OpenedSuits ==
  ASSUME NEW u \in Users \cup {Nobody}, NEW p \in Pages
  PROVE  /\ Opened(u, p) \in Tab
         /\ Opened(u, p).user = u /\ ~ Opened(u, p).isLoading
         /\ Suits(u, Opened(u, p).path)
<1>1. /\ Settled(u, p) \in Pages /\ Suits(u, Settled(u, p))
      /\ Origin(u, p, Nowhere) \in Pages \cup {Nowhere}
  BY SettledSuits, OriginType
<1>2. QED
  BY <1>1 DEF Opened, Tab

-----------------------------------------------------------------------------
(* The invariant: a form that is being sent is one of nobody's.            *)

Good(x) == x \in Tab /\ Suits(x.user, x.path) /\ (x.isLoading => x.user = Nobody)

TabsAreGood == tab \in [Tabs -> Tab] /\ \A t \in Tabs : Good(tab[t])

SessionInv == SessionTypeOK /\ TabsAreGood /\ StoredIsWhole

LEMMA SessionStarts == SessionInit => SessionInv
<1> SUFFICES ASSUME SessionInit
             PROVE  SessionInv
  OBVIOUS
<1>1. "/login" \in Pages
  BY DEF Pages, PublicPages
<1>2. Good(Opened(Nobody, "/login"))
  BY <1>1, OpenedSuits DEF Good
<1>3. TabsAreGood
  BY <1>2 DEF SessionInit, TabsAreGood, Good
<1>4. QED
  BY <1>3 DEF SessionInit, SessionInv, TabsAreGood, SessionTypeOK, Tab, StoredIsWhole

LEMMA OneTabChanges ==
  ASSUME TabsAreGood, NEW t \in Tabs, NEW x, Good(x), tab' = [tab EXCEPT ![t] = x]
  PROVE  TabsAreGood'
<1>1. tab' \in [Tabs -> Tab]
  BY DEF TabsAreGood, Good
<1>2. ASSUME NEW s \in Tabs
      PROVE  Good(tab'[s])
  BY DEF TabsAreGood
<1>3. QED
  BY <1>1, <1>2 DEF TabsAreGood

\* The page that is opened in a tab suits what is known of its user.
LEMMA OpensGood ==
  ASSUME NEW u \in Users \cup {Nobody}, NEW p \in Pages
  PROVE  Good(Opened(u, p))
BY OpenedSuits DEF Good

-----------------------------------------------------------------------------
(* One lemma for each kind of step.                                        *)

LEMMA LoadKeeps ==
  ASSUME SessionInv, NEW t \in Tabs, NEW p \in Pages, Load(t, p)
  PROVE  SessionInv'
<1>1. Restored \in Users \cup {Nobody}
  BY DEF SessionInv, SessionTypeOK, Restored
<1>2. TabsAreGood'
  BY <1>1, OpensGood, OneTabChanges DEF Load, SessionInv
<1>3. QED
  BY <1>2 DEF Load, SessionInv, SessionTypeOK, TabsAreGood, Tab, StoredIsWhole

LEMMA FollowKeeps ==
  ASSUME SessionInv, NEW t \in Tabs, NEW p \in Pages, Follow(t, p)
  PROVE  SessionInv'
<1> DEFINE x == [tab[t] EXCEPT !.path = p, !.from = IF tab[t].isLoading THEN @ ELSE Nowhere]
<1>1. tab[t] \in Tab /\ Good(tab[t]) /\ tab \in [Tabs -> Tab]
  BY DEF SessionInv, TabsAreGood
<1>2. tab' = [tab EXCEPT ![t] = x]
  BY <1>1 DEF Follow, Tab
<1>3. x \in Tab /\ x.user = tab[t].user /\ x.path = p /\ x.isLoading = tab[t].isLoading
  BY <1>1 DEF Tab
<1>4. Suits(tab[t].user, p)
  <2>1. CASE tab[t].user = Nobody
    BY <2>1 DEF Follow, Suits, PublicPages
  <2>2. CASE tab[t].user # Nobody
    BY <2>2, AppIsNotPublic DEF Follow, Suits
  <2>3. QED
    BY <2>1, <2>2
<1>5. Good(x)
  BY <1>1, <1>3, <1>4 DEF Good
<1> HIDE DEF x
<1>6. TabsAreGood'
  BY <1>2, <1>5, OneTabChanges DEF SessionInv
<1>7. QED
  BY <1>6 DEF Follow, SessionInv, SessionTypeOK, TabsAreGood, Tab, StoredIsWhole

LEMMA LoginKeeps ==
  ASSUME SessionInv, NEW t \in Tabs, Login(t) \/ LoginRefused(t)
  PROVE  SessionInv'
<1>1. tab[t] \in Tab /\ Good(tab[t]) /\ tab \in [Tabs -> Tab]
  BY DEF SessionInv, TabsAreGood
\* Only nobody is on /login, and only nobody's form is answered.
<1>2. tab[t].user = Nobody
  <2>1. CASE Login(t)
    BY <1>1, <2>1 DEF Login, Good, Suits, PublicPages
  <2>2. CASE LoginRefused(t)
    BY <1>1, <2>2 DEF LoginRefused, Good
  <2>3. QED
    BY <2>1, <2>2
<1>3. PICK b \in BOOLEAN : tab' = [tab EXCEPT ![t] = [tab[t] EXCEPT !.isLoading = b]]
  <2>1. CASE Login(t)
    BY <1>1, <2>1 DEF Login, Tab
  <2>2. CASE LoginRefused(t)
    BY <1>1, <2>2 DEF LoginRefused, Tab
  <2>3. QED
    BY <2>1, <2>2
<1>4. Good([tab[t] EXCEPT !.isLoading = b])
  BY <1>1, <1>2 DEF Good, Tab
<1>5. TabsAreGood'
  BY <1>3, <1>4, OneTabChanges DEF SessionInv
<1>6. jwt' = jwt /\ persisted' = Nobody /\ overtaken' = overtaken
  BY <1>2 DEF Login, LoginRefused
<1>7. QED
  BY <1>5, <1>6 DEF SessionInv, SessionTypeOK, TabsAreGood, Tab, StoredIsWhole

LEMMA LoginAcceptedKeeps ==
  ASSUME SessionInv, NEW t \in Tabs, NEW u \in Users, LoginAccepted(t, u)
  PROVE  SessionInv'
<1>1. tab[t] \in Tab /\ tab \in [Tabs -> Tab]
  BY DEF SessionInv, TabsAreGood
<1>2. PICK p \in Pages : tab' = [tab EXCEPT ![t] = [Opened(u, p) EXCEPT !.refreshing = tab[t].refreshing]]
  <2>1. "/app" \in Pages
    BY DEF Pages, AppPages, OpenPages
  <2>2. tab[t].from # Nowhere => tab[t].from \in Pages
    BY <1>1 DEF Tab
  <2>3. QED
    BY <2>1, <2>2 DEF LoginAccepted
<1>3. Good([Opened(u, p) EXCEPT !.refreshing = tab[t].refreshing])
  <2>1. Good(Opened(u, p)) /\ tab[t].refreshing \in Users \cup {Nobody}
    BY <1>1, OpensGood DEF Tab
  <2>2. QED
    BY <2>1 DEF Good, Tab
<1>4. TabsAreGood'
  BY <1>2, <1>3, OneTabChanges DEF SessionInv
<1>5. QED
  BY <1>4 DEF LoginAccepted, SessionInv, SessionTypeOK, TabsAreGood, Tab, StoredIsWhole

LEMMA SignOutKeeps ==
  ASSUME SessionInv, NEW t \in Tabs, Logout(t)
  PROVE  SessionInv'
<1> DEFINE x == [tab[t] EXCEPT !.user = Nobody, !.path = "/login", !.from = tab[t].path]
<1>1. tab[t] \in Tab /\ tab \in [Tabs -> Tab]
  BY DEF SessionInv, TabsAreGood
<1>2. tab' = [tab EXCEPT ![t] = x]
  BY <1>1 DEF Logout, Tab
<1>3. Good(x)
  BY <1>1 DEF Good, Tab, Suits, Pages, PublicPages
<1> HIDE DEF x
<1>4. TabsAreGood'
  BY <1>2, <1>3, OneTabChanges DEF SessionInv
<1>5. QED
  BY <1>4 DEF Logout, SessionInv, SessionTypeOK, TabsAreGood, Tab, StoredIsWhole

\* What a refresh changes of its tab; what it stores was in use when it began, or
\* `overtaken' tells.
LEMMA RefreshKeeps ==
  ASSUME SessionInv, NEW t \in Tabs, RefreshBegins(t) \/ RefreshStores(t)
  PROVE  SessionInv'
<1>1. tab[t] \in Tab /\ Good(tab[t]) /\ tab \in [Tabs -> Tab] /\ jwt \in Users \cup {Nobody}
  BY DEF SessionInv, TabsAreGood, SessionTypeOK
<1>2. PICK u \in Users \cup {Nobody} : tab' = [tab EXCEPT ![t] = [tab[t] EXCEPT !.refreshing = u]]
  <2>1. CASE RefreshBegins(t)
    BY <1>1, <2>1 DEF RefreshBegins, Tab
  <2>2. CASE RefreshStores(t)
    BY <1>1, <2>2 DEF RefreshStores, Tab
  <2>3. QED
    BY <2>1, <2>2
<1>3. Good([tab[t] EXCEPT !.refreshing = u])
  BY <1>1, <1>2 DEF Good, Tab
<1>4. TabsAreGood'
  BY <1>2, <1>3, OneTabChanges DEF SessionInv
<1>5. /\ jwt' \in Users \cup {Nobody} /\ overtaken' \in BOOLEAN
      /\ persisted' = persisted
      /\ ~ overtaken' => ~ overtaken /\ jwt' = jwt
  <2>1. CASE RefreshBegins(t)
    BY <1>1, <2>1 DEF RefreshBegins, SessionInv, SessionTypeOK
  <2>2. CASE RefreshStores(t)
    BY <1>1, <2>2 DEF RefreshStores, SessionInv, SessionTypeOK, Tab
  <2>3. QED
    BY <2>1, <2>2
<1>6. QED
  BY <1>4, <1>5 DEF SessionInv, SessionTypeOK, TabsAreGood, Tab, StoredIsWhole

LEMMA RefreshRefusedKeeps ==
  ASSUME SessionInv, NEW t \in Tabs, RefreshRefused(t)
  PROVE  SessionInv'
<1>1. tab[t] \in Tab /\ Good(tab[t]) /\ tab \in [Tabs -> Tab]
  BY DEF SessionInv, TabsAreGood
<1>2. PICK x : Good(x) /\ tab' = [tab EXCEPT ![t] = x]
  <2>1. CASE tab[t].path \in PublicPages \ {"/"}
    <3>1. tab' = [tab EXCEPT ![t] = [tab[t] EXCEPT !.refreshing = Nobody]]
      BY <1>1, <2>1 DEF RefreshRefused, Dismissed, Tab
    <3>2. Good([tab[t] EXCEPT !.refreshing = Nobody])
      BY <1>1 DEF Good, Tab
    <3>3. QED
      BY <3>1, <3>2
  <2>2. CASE tab[t].path \notin PublicPages \ {"/"}
    <3>1. tab' = [tab EXCEPT ![t] = Opened(Nobody, "/login")]
      BY <2>2 DEF RefreshRefused, Dismissed
    <3>2. "/login" \in Pages
      BY DEF Pages, PublicPages
    <3>3. Good(Opened(Nobody, "/login"))
      BY <3>2, OpensGood
    <3>4. QED
      BY <3>1, <3>3
  <2>3. QED
    BY <2>1, <2>2
<1>3. TabsAreGood'
  BY <1>2, OneTabChanges DEF SessionInv
<1>4. jwt' = Nobody /\ overtaken' = overtaken /\ persisted' \in {persisted, Nobody}
  BY DEF RefreshRefused, Dismissed
<1>5. QED
  BY <1>3, <1>4 DEF SessionInv, SessionTypeOK, TabsAreGood, Tab, StoredIsWhole

LEMMA SessionStepKeeps == SessionInv /\ [SessionNext]_sessionVars => SessionInv'
<1> SUFFICES ASSUME SessionInv, [SessionNext]_sessionVars
             PROVE  SessionInv'
  OBVIOUS
<1>1. CASE UNCHANGED sessionVars
  BY <1>1 DEF sessionVars, SessionInv, SessionTypeOK, TabsAreGood, StoredIsWhole
<1>2. ASSUME NEW t \in Tabs, NEW p \in Visited, Load(t, p) \/ Follow(t, p)
      PROVE  SessionInv'
  BY <1>2, LoadKeeps, FollowKeeps, VisitedAssumption
<1>3. ASSUME NEW t \in Tabs, NEW u \in Users, LoginAccepted(t, u)
      PROVE  SessionInv'
  BY <1>3, LoginAcceptedKeeps
<1>4. ASSUME NEW t \in Tabs, Login(t) \/ LoginRefused(t) \/ Logout(t) \/ RefreshBegins(t)
                             \/ RefreshStores(t) \/ RefreshRefused(t)
      PROVE  SessionInv'
  BY <1>4, LoginKeeps, SignOutKeeps, RefreshKeeps, RefreshRefusedKeeps
<1>5. QED
  BY <1>1, <1>2, <1>3, <1>4 DEF SessionNext

-----------------------------------------------------------------------------
(* The theorems.                                                           *)

\* However tabs are loaded, signed in and out and dismissed beside each other: the page
\* of each is one its user may see, and what the next tab starts from is whole
\* (ProtectedRoute.jsx:5-34, authStore.js:14-46, 76-86).
THEOREM SessionsAreSafe == SessionSpec => []SessionSafe
<1>1. SessionInv => SessionSafe
  BY DEF SessionInv, TabsAreGood, Good, Suits, SessionSafe, PagesForRoles
<1>2. QED
  BY <1>1, SessionStarts, SessionStepKeeps, PTL DEF SessionSpec

\* A tab comes to show a user's pages only with tokens stored beside
\* (authStore.js:79-84).
THEOREM RedirectsEnd == SessionSpec => NoRedirectLoop
<1>1. ASSUME SessionInv, [SessionNext]_sessionVars, NEW s \in Tabs, tab'[s].user # Nobody
      PROVE  tab'[s].user = tab[s].user \/ jwt' # Nobody
  <2>1. tab \in [Tabs -> Tab] /\ \A t \in Tabs : tab[t] \in Tab
    BY <1>1 DEF SessionInv, TabsAreGood
  <2>2. CASE UNCHANGED sessionVars
    BY <2>2 DEF sessionVars
  <2>3. ASSUME NEW t \in Tabs, NEW p \in Visited, Load(t, p)
        PROVE  tab'[s].user = tab[s].user \/ jwt' # Nobody
    <3>1. CASE s = t
      <4>1. tab'[s].user = Restored
        BY <2>1, <2>3, <3>1 DEF Load, Opened
      <4>2. QED
        BY <1>1, <2>3, <4>1 DEF Restored, Load
    <3>2. CASE s # t
      BY <2>1, <2>3, <3>2 DEF Load
    <3>3. QED
      BY <3>1, <3>2
  <2>4. ASSUME NEW t \in Tabs, NEW u \in Users, LoginAccepted(t, u)
        PROVE  tab'[s].user = tab[s].user \/ jwt' # Nobody
    BY <2>4, NobodyIsNoUser DEF LoginAccepted
  <2>5. ASSUME NEW t \in Tabs, NEW p \in Visited, Follow(t, p)
        PROVE  tab'[s].user = tab[s].user \/ jwt' # Nobody
    BY <2>1, <2>5 DEF Follow, Tab
  <2>6. ASSUME NEW t \in Tabs, Login(t) \/ LoginRefused(t) \/ RefreshBegins(t) \/ RefreshStores(t)
        PROVE  tab'[s].user = tab[s].user \/ jwt' # Nobody
    BY <2>1, <2>6 DEF Login, LoginRefused, RefreshBegins, RefreshStores, Tab
  <2>7. ASSUME NEW t \in Tabs, Logout(t)
        PROVE  tab'[s].user = tab[s].user \/ jwt' # Nobody
    BY <1>1, <2>1, <2>7 DEF Logout, Tab
  <2>8. ASSUME NEW t \in Tabs, RefreshRefused(t)
        PROVE  tab'[s].user = tab[s].user \/ jwt' # Nobody
    BY <1>1, <2>1, <2>8 DEF RefreshRefused, Dismissed, Opened, Tab
  <2>9. QED
    BY <1>1, <2>2, <2>3, <2>4, <2>5, <2>6, <2>7, <2>8 DEF SessionNext
<1>2. SessionInv /\ [SessionNext]_sessionVars =>
        \A t \in Tabs : tab'[t].user # Nobody => tab'[t].user = tab[t].user \/ jwt' # Nobody
  BY <1>1
<1>3. SessionSpec => []SessionInv
  BY SessionStarts, SessionStepKeeps, PTL DEF SessionSpec
<1>4. QED
  BY <1>2, <1>3, PTL DEF SessionSpec, NoRedirectLoop

-----------------------------------------------------------------------------
(***************************************************************************)
(* The telemetry stream of a page: one socket at a time, and none is       *)
(* forgotten.                                                              *)
(***************************************************************************)

(* The invariant.                                                          *)

StreamShape ==
  /\ mount \in 0..(2 * MaxMounts)
  /\ vehicleIds \in [0..MaxMounts -> SUBSET Drones]
  /\ sock \in [Sockets -> Socket]
  /\ timers \in Seq(Mounts)
  /\ connectionStatus \in [Drones -> {"unknown", "connected", "disconnected"}]

\* A vehicle that is shown as connected will hear of the end of a socket: one that is
\* open, or whose end is still to be told, was made for a life that knows it.
WillBeTold ==
  \A d \in vehicleIds[life] : connectionStatus[d] = "connected" =>
    \E i \in Sockets :
      sock[i].state \in {"open", "closing"} /\ d \in vehicleIds[sock[i].life]

StreamInv == StreamShape /\ OneStream /\ WillBeTold

LEMMA LifeIsOne ==
  ASSUME mount \in 0..(2 * MaxMounts)
  PROVE  /\ life \in 0..MaxMounts
         /\ mounted => life \in Mounts
BY StreamAssumption DEF life, Life, mounted, Mounts

LEMMA StreamStarts == StreamInit => StreamInv
<1> SUFFICES ASSUME StreamInit
             PROVE  StreamInv
  OBVIOUS
<1>1. StreamShape
  <2>1. 0 \in 0..(2 * MaxMounts)
    BY StreamAssumption
  <2>2. 1 \in Mounts
    BY StreamAssumption DEF Mounts
  <2>3. QED
    BY <2>1, <2>2 DEF StreamInit, StreamShape, Socket
<1>2. OneStream
  BY DEF StreamInit, OneStream, Live
<1>3. WillBeTold
  <2>1. life = 0
    BY DEF StreamInit, life, Life
  <2>2. 0 \in 0..MaxMounts
    BY StreamAssumption
  <2>3. QED
    BY <2>1, <2>2 DEF StreamInit, WillBeTold
<1>4. QED
  BY <1>1, <1>2, <1>3 DEF StreamInv

-----------------------------------------------------------------------------
(* The manager.                                                            *)

\* What closing does to a socket.
LEMMA ClosedSocket ==
  ASSUME NEW s \in Socket
  PROVE  /\ Closed(s) \in Socket
         /\ Closed(s).life = s.life
         /\ Closed(s).state \notin {"connecting", "open"}
         /\ s.state \in {"open", "closing"} => Closed(s).state = "closing"
BY DEF Closed, Socket

\* Of sockets among which only the entry is live, connecting leaves only the new entry
\* live, and nothing open or closing is lost.
LEMMA ConnectKeeps ==
  ASSUME NEW socks \in [Sockets -> Socket], NEW entry, NEW m \in Mounts,
         \A i \in Sockets : socks[i].state \in {"connecting", "open"} => i = entry,
         connect(socks, entry, m)
  PROVE  /\ sock' \in [Sockets -> Socket]
         /\ OneStream'
         /\ \A i \in Sockets : socks[i].state \in {"open", "closing"} =>
              sock'[i].state \in {"open", "closing"} /\ sock'[i].life = socks[i].life
<1>1. CASE entry # 0 /\ socks[entry].state = "open"
  BY <1>1 DEF connect, OneStream, Live
<1>2. CASE ~ (entry # 0 /\ socks[entry].state = "open")
  <2> DEFINE new == [state |-> "connecting", life |-> m]
  <2>1. PICK i \in Sockets :
          /\ socks[i].state = "free"
          /\ connection' = i
          /\ sock' = [j \in Sockets |->
               IF j = i THEN new ELSE IF j = entry THEN Closed(socks[j]) ELSE socks[j]]
    BY <1>2 DEF connect
  <2>2. new \in Socket /\ new.state = "connecting"
    BY DEF Socket
  <2> HIDE DEF new
  <2>3. \A j \in Sockets :
          /\ Closed(socks[j]) \in Socket
          /\ Closed(socks[j]).life = socks[j].life
          /\ Closed(socks[j]).state \notin {"connecting", "open"}
          /\ socks[j].state \in {"open", "closing"} => Closed(socks[j]).state = "closing"
    BY ClosedSocket
  <2>4. sock' \in [Sockets -> Socket]
    BY <2>1, <2>2, <2>3
  <2>5. OneStream'
    BY <2>1, <2>2, <2>3 DEF OneStream, Live
  <2>6. \A j \in Sockets : socks[j].state \in {"open", "closing"} =>
          sock'[j].state \in {"open", "closing"} /\ sock'[j].life = socks[j].life
    BY <2>1, <2>3
  <2>7. QED
    BY <2>4, <2>5, <2>6
<1>3. QED
  BY <1>1, <1>2

\* After a disconnect nothing is live, and nothing is lost.
LEMMA DisconnectKeeps ==
  ASSUME StreamInv
  PROVE  /\ Disconnected \in [Sockets -> Socket]
         /\ \A i \in Sockets : Disconnected[i].state \notin {"connecting", "open"}
         /\ \A i \in Sockets : sock[i].state \in {"open", "closing"} =>
              Disconnected[i].state \in {"open", "closing"} /\ Disconnected[i].life = sock[i].life
<1>1. \A j \in Sockets :
        /\ sock[j] \in Socket
        /\ Closed(sock[j]) \in Socket
        /\ Closed(sock[j]).life = sock[j].life
        /\ Closed(sock[j]).state \notin {"connecting", "open"}
        /\ sock[j].state \in {"open", "closing"} => Closed(sock[j]).state = "closing"
  BY ClosedSocket DEF StreamInv, StreamShape
<1>2. QED
  BY <1>1 DEF Disconnected, StreamInv, OneStream, Live

LEMMA TimersKept ==
  ASSUME timers \in Seq(Mounts), TimerCleared
  PROVE  timers' \in Seq(Mounts)
<1>1. CASE registered
  <2>1. timers' = SubSeq(timers, 1, Len(timers) - 1)
    BY <1>1 DEF TimerCleared
  <2>2. \A k \in 1..(Len(timers) - 1) : timers[k] \in Mounts
    OBVIOUS
  <2>3. QED
    BY <2>1, <2>2
<1>2. CASE ~ registered
  BY <1>2 DEF TimerCleared
<1>3. QED
  BY <1>1, <1>2

-----------------------------------------------------------------------------
(* The hook.                                                               *)

LEMMA MountKeeps ==
  ASSUME StreamInv, Mount
  PROVE  StreamInv'
<1>1. mount \in 0..(2 * MaxMounts) /\ life \in 0..MaxMounts
  BY LifeIsOne DEF StreamInv, StreamShape
<1>2. /\ life' = life + 1 /\ life' \in Mounts /\ life' \in 0..MaxMounts
      /\ mount' \in 0..(2 * MaxMounts)
  BY <1>1, StreamAssumption DEF Mount, life, Life, mounted, Mounts
<1>3. /\ sock' \in [Sockets -> Socket]
      /\ OneStream'
      /\ \A i \in Sockets : sock[i].state \in {"open", "closing"} =>
           sock'[i].state \in {"open", "closing"} /\ sock'[i].life = sock[i].life
  <2>1. connect(sock, connection, life + 1) /\ life + 1 \in Mounts
    BY <1>2 DEF Mount
  <2>2. QED
    BY <2>1, ConnectKeeps DEF StreamInv, StreamShape, OneStream, Live
<1>4. vehicleIds' = [vehicleIds EXCEPT ![life'] = vehicleIds[life]]
  BY <1>2 DEF Mount
<1>5. StreamShape'
  BY <1>1, <1>2, <1>3, <1>4 DEF StreamInv, StreamShape, Mount
<1>6. WillBeTold'
  <2> SUFFICES ASSUME NEW d \in vehicleIds'[life'], connectionStatus'[d] = "connected"
               PROVE  \E i \in Sockets :
                        sock'[i].state \in {"open", "closing"} /\ d \in vehicleIds'[sock'[i].life]
    BY DEF WillBeTold
  <2>1. d \in vehicleIds[life] /\ connectionStatus[d] = "connected"
    BY <1>2, <1>4 DEF StreamInv, StreamShape, Mount
  <2>2. PICK i \in Sockets :
          sock[i].state \in {"open", "closing"} /\ d \in vehicleIds[sock[i].life]
    BY <2>1 DEF StreamInv, WillBeTold
  <2>3. sock[i].life \in 0..MaxMounts
    BY DEF StreamInv, StreamShape, Socket, Mounts
  <2>4. d \in vehicleIds'[sock[i].life]
    BY <1>4, <2>1, <2>2, <2>3 DEF StreamInv, StreamShape
  <2>5. QED
    BY <1>3, <2>2, <2>4
<1>7. QED
  BY <1>3, <1>5, <1>6 DEF StreamInv

\* The life stays the one that was.
LEMMA UnmountKeeps ==
  ASSUME StreamInv, Unmount
  PROVE  StreamInv'
<1>1. mount \in 0..(2 * MaxMounts)
  BY DEF StreamInv, StreamShape
<1>2. life' = life /\ mount' \in 0..(2 * MaxMounts)
  BY <1>1, StreamAssumption DEF Unmount, life, Life, mounted
<1>3. /\ sock' \in [Sockets -> Socket]
      /\ \A i \in Sockets : sock'[i].state \notin {"connecting", "open"}
      /\ \A i \in Sockets : sock[i].state \in {"open", "closing"} =>
           sock'[i].state \in {"open", "closing"} /\ sock'[i].life = sock[i].life
  BY DisconnectKeeps DEF Unmount
<1>4. timers' \in Seq(Mounts)
  BY TimersKept DEF Unmount, StreamInv, StreamShape
<1>5. StreamShape'
  BY <1>2, <1>3, <1>4 DEF StreamInv, StreamShape, Unmount
<1>6. OneStream'
  BY <1>3 DEF OneStream, Live
<1>7. WillBeTold'
  BY <1>2, <1>3 DEF StreamInv, WillBeTold, Unmount
<1>8. QED
  BY <1>5, <1>6, <1>7 DEF StreamInv

\* A vehicle that is new is not shown as connected.
LEMMA VehiclesKeep ==
  ASSUME StreamInv, VehiclesChange
  PROVE  StreamInv'
<1>1. life \in Mounts /\ life \in 0..MaxMounts
  BY LifeIsOne DEF StreamInv, StreamShape, VehiclesChange
<1>2. PICK ids \in SUBSET Drones :
        /\ \A d \in ids \ vehicleIds[life] : connectionStatus[d] = "unknown"
        /\ vehicleIds' = [vehicleIds EXCEPT ![life] = ids]
  BY DEF VehiclesChange
<1>3. /\ mount' = mount /\ connectionStatus' = connectionStatus /\ life' = life
      /\ connect(Disconnected, 0, life) /\ TimerCleared
  BY DEF VehiclesChange, life
<1>4. /\ sock' \in [Sockets -> Socket]
      /\ OneStream'
      /\ \A i \in Sockets : sock[i].state \in {"open", "closing"} =>
           sock'[i].state \in {"open", "closing"} /\ sock'[i].life = sock[i].life
  <2>1. /\ Disconnected \in [Sockets -> Socket]
        /\ \A i \in Sockets : Disconnected[i].state \notin {"connecting", "open"}
        /\ \A i \in Sockets : sock[i].state \in {"open", "closing"} =>
             Disconnected[i].state \in {"open", "closing"} /\ Disconnected[i].life = sock[i].life
    BY DisconnectKeeps
  <2> DEFINE socks == Disconnected
  <2>2. socks \in [Sockets -> Socket] /\ connect(socks, 0, life)
    BY <1>3, <2>1
  <2>3. \A i \in Sockets : socks[i].state \in {"connecting", "open"} => i = 0
    BY <2>1
  <2> HIDE DEF socks
  <2>4. /\ sock' \in [Sockets -> Socket]
        /\ OneStream'
        /\ \A i \in Sockets : socks[i].state \in {"open", "closing"} =>
             sock'[i].state \in {"open", "closing"} /\ sock'[i].life = socks[i].life
    BY <1>1, <2>2, <2>3, ConnectKeeps
  <2>5. QED
    BY <2>1, <2>4 DEF socks
<1>5. timers' \in Seq(Mounts)
  BY <1>3, TimersKept DEF StreamInv, StreamShape
<1>6. StreamShape'
  BY <1>1, <1>2, <1>3, <1>4, <1>5 DEF StreamInv, StreamShape
<1>7. WillBeTold'
  <2> SUFFICES ASSUME NEW d \in vehicleIds'[life], connectionStatus[d] = "connected"
               PROVE  \E i \in Sockets :
                        sock'[i].state \in {"open", "closing"} /\ d \in vehicleIds'[sock'[i].life]
    BY <1>3 DEF WillBeTold
  <2>1. d \in ids /\ d \in vehicleIds[life]
    BY <1>1, <1>2 DEF StreamInv, StreamShape
  <2>2. PICK i \in Sockets :
          sock[i].state \in {"open", "closing"} /\ d \in vehicleIds[sock[i].life]
    BY <2>1 DEF StreamInv, WillBeTold
  <2>3. sock[i].life \in 0..MaxMounts
    BY DEF StreamInv, StreamShape, Socket, Mounts
  <2>4. d \in vehicleIds'[sock[i].life]
    BY <1>2, <2>1, <2>2, <2>3 DEF StreamInv, StreamShape
  <2>5. QED
    BY <1>4, <2>2, <2>4
<1>8. QED
  BY <1>4, <1>6, <1>7 DEF StreamInv

-----------------------------------------------------------------------------
(* The events of a socket, and the timers.                                 *)

LEMMA TimerKeeps ==
  ASSUME StreamInv, TimerFires
  PROVE  StreamInv'
<1>1. Head(timers) \in Mounts /\ timers' \in Seq(Mounts)
  BY DEF TimerFires, StreamInv, StreamShape
<1>2. /\ sock' \in [Sockets -> Socket]
      /\ OneStream'
      /\ \A i \in Sockets : sock[i].state \in {"open", "closing"} =>
           sock'[i].state \in {"open", "closing"} /\ sock'[i].life = sock[i].life
  <2>1. connect(sock, connection, Head(timers))
    BY DEF TimerFires
  <2>2. QED
    BY <1>1, <2>1, ConnectKeeps DEF StreamInv, StreamShape, OneStream, Live
<1>3. StreamShape'
  BY <1>1, <1>2 DEF StreamInv, StreamShape, TimerFires
<1>4. WillBeTold'
  BY <1>2 DEF StreamInv, WillBeTold, TimerFires, life
<1>5. QED
  BY <1>2, <1>3, <1>4 DEF StreamInv

LEMMA OpenKeeps ==
  ASSUME StreamInv, NEW i \in Sockets, onopen(i)
  PROVE  StreamInv'
<1>1. /\ sock' \in [Sockets -> Socket]
      /\ sock'[i].state = "open" /\ sock'[i].life = sock[i].life
      /\ \A j \in Sockets \ {i} : sock'[j] = sock[j]
  BY DEF onopen, StreamInv, StreamShape, Socket
<1>2. connectionStatus' \in [Drones -> {"unknown", "connected", "disconnected"}]
  BY DEF onopen, Tell, StreamInv, StreamShape
<1>3. StreamShape'
  BY <1>1, <1>2 DEF onopen, StreamInv, StreamShape
<1>4. OneStream'
  BY <1>1 DEF onopen, StreamInv, OneStream, Live
<1>5. WillBeTold'
  <2> SUFFICES ASSUME NEW d \in vehicleIds[life], connectionStatus'[d] = "connected"
               PROVE  \E j \in Sockets :
                        sock'[j].state \in {"open", "closing"} /\ d \in vehicleIds[sock'[j].life]
    BY DEF onopen, WillBeTold, life
  <2>1. d \in Drones
    BY LifeIsOne DEF StreamInv, StreamShape
  <2>2. CASE d \in vehicleIds[sock[i].life]
    BY <1>1, <2>2
  <2>3. CASE d \notin vehicleIds[sock[i].life]
    <3>1. connectionStatus[d] = "connected"
      BY <2>1, <2>3 DEF onopen, Tell
    <3>2. QED
      BY <1>1, <3>1 DEF onopen, StreamInv, WillBeTold
  <2>4. QED
    BY <2>2, <2>3
<1>6. QED
  BY <1>3, <1>4, <1>5 DEF StreamInv

\* A socket that is gone has told those who knew it.
LEMMA GoneKeeps ==
  ASSUME StreamInv, NEW i \in Sockets, NEW how \in {"broken", "over"},
         Gone(i, how), Tell(i, "disconnected"), timers' \in Seq(Mounts),
         UNCHANGED <<mount, vehicleIds, connection>>
  PROVE  StreamInv'
<1>1. /\ sock' \in [Sockets -> Socket]
      /\ sock'[i].state \in {"broken", "over", "free"}
      /\ \A j \in Sockets \ {i} : sock'[j] = sock[j]
  BY DEF Gone, StreamInv, StreamShape, Socket
<1>2. connectionStatus' \in [Drones -> {"unknown", "connected", "disconnected"}]
  BY DEF Tell, StreamInv, StreamShape
<1>3. StreamShape'
  BY <1>1, <1>2 DEF StreamInv, StreamShape
<1>4. OneStream'
  BY <1>1 DEF StreamInv, OneStream, Live
<1>5. WillBeTold'
  <2> SUFFICES ASSUME NEW d \in vehicleIds[life], connectionStatus'[d] = "connected"
               PROVE  \E j \in Sockets :
                        sock'[j].state \in {"open", "closing"} /\ d \in vehicleIds[sock'[j].life]
    BY DEF WillBeTold, life
  <2>1. d \in Drones
    BY LifeIsOne DEF StreamInv, StreamShape
  <2>2. d \notin vehicleIds[sock[i].life] /\ connectionStatus[d] = "connected"
    BY <2>1 DEF Tell
  <2>3. PICK j \in Sockets :
          sock[j].state \in {"open", "closing"} /\ d \in vehicleIds[sock[j].life]
    BY <2>2 DEF StreamInv, WillBeTold
  <2>4. QED
    BY <1>1, <2>2, <2>3
<1>6. QED
  BY <1>3, <1>4, <1>5 DEF StreamInv

LEMMA ReconnectingType ==
  ASSUME StreamInv, NEW i \in Sockets, Reconnecting(i)
  PROVE  timers' \in Seq(Mounts)
BY DEF Reconnecting, StreamInv, StreamShape, Socket

LEMMA ServerClosesKeeps ==
  ASSUME StreamInv, NEW i \in Sockets, ServerCloses(i)
  PROVE  StreamInv'
<1>1. /\ sock' \in [Sockets -> Socket]
      /\ sock'[i].state = "closing" /\ sock'[i].life = sock[i].life
      /\ \A j \in Sockets \ {i} : sock'[j] = sock[j]
  BY DEF ServerCloses, StreamInv, StreamShape, Socket
<1>2. StreamShape'
  BY <1>1 DEF ServerCloses, StreamInv, StreamShape
<1>3. OneStream'
  BY <1>1 DEF ServerCloses, StreamInv, OneStream, Live
<1>4. WillBeTold'
  BY <1>1 DEF ServerCloses, StreamInv, WillBeTold, life
<1>5. QED
  BY <1>2, <1>3, <1>4 DEF StreamInv

-----------------------------------------------------------------------------
(* Every step, and the theorem.                                            *)

LEMMA StreamStepKeeps ==
  ASSUME StreamInv, [StreamNext]_streamVars
  PROVE  StreamInv'
<1>1. ASSUME NEW i \in Sockets, Breaks(i) \/ ClosesUncleanly(i)
      PROVE  StreamInv'
  BY <1>1, ReconnectingType, GoneKeeps DEF Breaks, ClosesUncleanly
<1>2. ASSUME NEW i \in Sockets, ClosesCleanly(i)
      PROVE  StreamInv'
  <2>1. timers' \in Seq(Mounts)
    BY <1>2 DEF ClosesCleanly, StreamInv, StreamShape
  <2>2. QED
    BY <1>2, <2>1, GoneKeeps DEF ClosesCleanly
<1>3. CASE UNCHANGED streamVars
  BY <1>3 DEF streamVars, StreamInv, StreamShape, OneStream, Live, WillBeTold, life
<1>4. QED
  BY <1>1, <1>2, <1>3, MountKeeps, UnmountKeeps, VehiclesKeep, TimerKeeps, OpenKeeps,
     ServerClosesKeeps DEF StreamNext, Closes

\* However sockets break, late events and lost timers connect again, and the layout comes
\* and goes: one socket at a time is live and the manager holds it, and a vehicle that is
\* shown as connected has a socket whose end it will be told (WebSocketManager.js:12-73,
\* useTelemetryStream.js:62-75).
THEOREM OneStreamAtATime == StreamSpec => []StreamSafe
<1>1. StreamInv /\ [StreamNext]_streamVars => StreamInv'
  BY StreamStepKeeps
<1>2. StreamInv => StreamSafe
  BY DEF StreamInv, StreamSafe, WillBeTold, ConnectedIsTrue
<1>3. QED
  BY StreamStarts, <1>1, <1>2, PTL DEF StreamSpec

-----------------------------------------------------------------------------
(***************************************************************************)
(* The commands: who gives them, what is confirmed, what is audited.       *)
(***************************************************************************)

(* The registry and the policy, as far as commands go.                     *)

\* Every command is for the same roles, and is audited.
LEMMA CommandMeta ==
  ASSUME NEW a \in Commands
  PROVE  /\ getActionMeta(a).permissionsRequired = Pilots
         /\ getActionMeta(a).auditTrail = TRUE
<1>1. \A t \in ActionTables : a \in DOMAIN t => t \in {ArmingActions, FlightActions}
  <2>1. a \in {"control.command.arm", "control.command.disarm", "control.command.takeoff",
               "control.command.land", "control.command.rtl", "control.command.hold",
               "control.command.emergency_stop"}
    BY DEF Commands, ArmingActions, FlightActions
  <2>2. a \notin DOMAIN NavActions /\ a \notin DOMAIN MissionActions
    BY <2>1 DEF NavActions, MissionActions
  <2>3. a \notin DOMAIN VehicleActions /\ a \notin DOMAIN FleetActions
    BY <2>1 DEF VehicleActions, FleetActions
  <2>4. a \notin DOMAIN PlanActions /\ a \notin DOMAIN UploadActions
    BY <2>1 DEF PlanActions, UploadActions
  <2>5. QED
    BY <2>2, <2>3, <2>4 DEF ActionTables
<1>2. \E t \in ActionTables : a \in DOMAIN t
  BY DEF Commands, ActionTables
<1>3. a \in Registered
  BY <1>2 DEF Registered
<1>4. PICK t \in {ArmingActions, FlightActions} : a \in DOMAIN t /\ getActionMeta(a) = t[a]
  BY <1>1, <1>2, <1>3 DEF getActionMeta
<1>5. \E confirm : t[a] = Meta(Pilots, confirm, TRUE)
  <2>1. CASE t = ArmingActions
    BY <1>4, <2>1 DEF ArmingActions
  <2>2. CASE t = FlightActions
    BY <1>4, <2>2 DEF FlightActions
  <2>3. QED
    BY <2>1, <2>2
<1>6. QED
  BY <1>4, <1>5 DEF Meta

\* A list that names super_admin admits nobody else.
LEMMA OnlySuperAdminsSee ==
  ASSUME NEW a \in Commands, NEW r, Visible(r, a)
  PROVE  r = "super_admin"
<1>1. isRoleAllowed(r, Pilots)
  BY CommandMeta DEF Visible
<1>2. "super_admin" \in Pilots
  BY DEF Pilots, Admins
<1>3. r \in Roles /\ RoleHierarchy[r] >= RoleHierarchy["super_admin"]
  BY <1>1, <1>2 DEF isRoleAllowed
<1>4. QED
  BY <1>3 DEF Roles, RoleHierarchy

-----------------------------------------------------------------------------
(* The invariant.                                                          *)

\* The click was made, and by whom.
IsMade(c) == c \in Clicks /\ click[c] \in Click /\ click[c].by = "super_admin"

Confirmed(c) == getActionMeta(click[c].action).confirmation

\* What of the types matters.
ConsoleShape ==
  /\ role \in SignIns \cup {"nobody"}
  /\ session \in Nat
  /\ click \in [Clicks -> Click \cup {NotYet}]
  /\ audit \in [Clicks -> SUBSET {"success", "failure", "aborted"}]

\* Whatever is spoken of is a click that was made.
OnlyMade ==
  /\ \A c \in Clicks : click[c] = NotYet \/ IsMade(c)
  /\ \A f \in flight : IsMade(f.click)
  /\ \A s \in sent : IsMade(s.click)
  /\ \A c \in done : IsMade(c)
  /\ actionConfirmation # 0 => IsMade(actionConfirmation)

\* A question is one that is asked, of a command that was not carried out.
OpenQuestion ==
  actionConfirmation # 0 => Confirmed(actionConfirmation) /\ actionConfirmation \notin done

FlightsFit == \A f \in flight :
  /\ f.session \in Nat /\ f.session <= session
  /\ f.asked \in BOOLEAN
  /\ f.asked <=> Confirmed(f.click)

NobodyLoads == role = "nobody" => loading = FALSE

ConsoleInv ==
  /\ ConsoleShape /\ OnlyMade /\ OpenQuestion /\ FlightsFit /\ NobodyLoads
  /\ loading \in BOOLEAN
  /\ OneAtATime /\ SentAsShown /\ OutcomeAudited

LEMMA ConsoleStarts == ConsoleInit => ConsoleInv
<1> SUFFICES ASSUME ConsoleInit
             PROVE  ConsoleInv
  OBVIOUS
<1>1. ConsoleShape
  BY DEF ConsoleInit, ConsoleShape
<1>2. OnlyMade
  BY DEF ConsoleInit, OnlyMade
<1>3. OpenQuestion /\ FlightsFit /\ NobodyLoads /\ loading \in BOOLEAN
  BY DEF ConsoleInit, OpenQuestion, FlightsFit, NobodyLoads
<1>4. OneAtATime /\ SentAsShown /\ OutcomeAudited
  BY DEF ConsoleInit, OneAtATime, SentAsShown, OutcomeAudited
<1>5. QED
  BY <1>1, <1>2, <1>3, <1>4 DEF ConsoleInv

-----------------------------------------------------------------------------
(* One lemma for each kind of step.                                        *)

\* What a step that leaves commands and dialog alone has to show.
LEMMA AroundKeeps ==
  ASSUME ConsoleInv,
         UNCHANGED <<actionConfirmation, click, flight, sent, done, audit>>,
         role' \in SignIns \cup {"nobody"},
         session' \in Nat, session <= session',
         loading' \in BOOLEAN, NobodyLoads', OneAtATime'
  PROVE  ConsoleInv'
<1>1. ConsoleShape'
  BY DEF ConsoleInv, ConsoleShape
<1>2. OnlyMade'
  BY DEF ConsoleInv, OnlyMade, IsMade
<1>3. OpenQuestion'
  BY DEF ConsoleInv, OpenQuestion, Confirmed
<1>4. FlightsFit'
  BY DEF ConsoleInv, ConsoleShape, FlightsFit, Confirmed
<1>5. SentAsShown' /\ OutcomeAudited'
  BY DEF ConsoleInv, SentAsShown, OutcomeAudited
<1>6. QED
  BY <1>1, <1>2, <1>3, <1>4, <1>5 DEF ConsoleInv

LEMMA LogoutKeeps ==
  ASSUME ConsoleInv, logout
  PROVE  ConsoleInv'
<1>1. OneAtATime'
  BY DEF ConsoleInv, OneAtATime, logout
<1>2. session \in Nat /\ session <= session'
  BY DEF ConsoleInv, ConsoleShape, logout
<1>3. QED
  BY <1>1, <1>2, AroundKeeps DEF logout, NobodyLoads

\* The flights are those of earlier sessions.
LEMMA SignInKeeps ==
  ASSUME ConsoleInv, NEW r \in SignIns, SignIn(r)
  PROVE  ConsoleInv'
<1>1. session \in Nat /\ session' = session + 1 /\ session <= session' /\ session' \in Nat
  BY DEF ConsoleInv, ConsoleShape, SignIn
<1>2. loading = FALSE /\ loading' = FALSE
  BY DEF ConsoleInv, NobodyLoads, SignIn
<1>3. \A f \in flight : f.session # session'
  BY <1>1 DEF ConsoleInv, FlightsFit
<1>4. OneAtATime'
  BY <1>2, <1>3 DEF ConsoleInv, OneAtATime, SignIn
<1>5. QED
  BY <1>1, <1>2, <1>4, AroundKeeps DEF SignIn, NobodyLoads

LEMMA PagesKeep ==
  ASSUME ConsoleInv,
         UNCHANGED <<role, session, actionConfirmation, loading, click, flight, sent, done, audit>>
  PROVE  ConsoleInv'
<1>1. OneAtATime' /\ NobodyLoads'
  BY DEF ConsoleInv, OneAtATime, NobodyLoads
<1>2. role' \in SignIns \cup {"nobody"} /\ session \in Nat /\ session <= session' /\ session' \in Nat
  BY DEF ConsoleInv, ConsoleShape
<1>3. loading' \in BOOLEAN
  BY DEF ConsoleInv
<1>4. QED
  BY <1>1, <1>2, <1>3, AroundKeeps

-----------------------------------------------------------------------------
(* Clicks.                                                                 *)

\* A click leaves the earlier ones as they were, and is none of them.
LEMMA ClickIsNew ==
  ASSUME ConsoleInv, NEW c \in Clicks, NEW v \in Vehicles, NEW a \in Commands,
         Fresh(c), Clickable(v, a), Made(c, v, a)
  PROVE  /\ click' \in [Clicks -> Click \cup {NotYet}]
         /\ click'[c] = [by |-> "super_admin", action |-> a, vehicle |-> v]
         /\ IsMade(c)'
         /\ ~ IsMade(c)
         /\ \A b : IsMade(b) => click'[b] = click[b] /\ IsMade(b)'
         /\ \A b \in Clicks : click'[b] = NotYet \/ IsMade(b)'
<1>1. role = "super_admin"
  BY OnlySuperAdminsSee DEF Clickable
<1> DEFINE new == [by |-> "super_admin", action |-> a, vehicle |-> v]
<1>2. new \in Click
  BY DEF Click, Roles
<1>3. click' = [click EXCEPT ![c] = new]
  BY <1>1 DEF Made
<1>4. click \in [Clicks -> Click \cup {NotYet}]
  BY DEF ConsoleInv, ConsoleShape
<1>5. click[c] = NotYet
  BY DEF Fresh
<1>6. ~ IsMade(c)
  BY <1>5 DEF IsMade, NotYet
<1>7. new.by = "super_admin"
  OBVIOUS
<1> HIDE DEF new
<1>8. click' \in [Clicks -> Click \cup {NotYet}] /\ click'[c] = new
  BY <1>2, <1>3, <1>4
<1>9. IsMade(c)'
  BY <1>2, <1>7, <1>8 DEF IsMade, Clicks
<1>10. ASSUME NEW b, IsMade(b)
       PROVE  click'[b] = click[b] /\ IsMade(b)'
  <2>1. b # c /\ b \in Clicks
    BY <1>6, <1>10 DEF IsMade
  <2>2. click'[b] = click[b]
    BY <2>1, <1>3, <1>4
  <2>3. QED
    BY <2>1, <2>2, <1>10 DEF IsMade, Clicks
<1>11. ASSUME NEW b \in Clicks
       PROVE  click'[b] = NotYet \/ IsMade(b)'
  <2>1. CASE b = c
    BY <2>1, <1>9
  <2>2. CASE b # c /\ IsMade(b)
    BY <2>2, <1>10
  <2>3. CASE b # c /\ ~ IsMade(b)
    <3>1. click[b] = NotYet
      BY <2>3 DEF ConsoleInv, OnlyMade
    <3>2. QED
      BY <3>1, <2>3, <1>3, <1>4
  <2>4. QED
    BY <2>1, <2>2, <2>3
<1>12. QED
  BY <1>6, <1>8, <1>9, <1>10, <1>11 DEF new

LEMMA AskKeeps ==
  ASSUME ConsoleInv, NEW c \in Clicks, AskConfirmation(c)
  PROVE  ConsoleInv'
<1>1. PICK v \in Vehicles, a \in Commands :
        /\ Fresh(c) /\ Clickable(v, a) /\ Made(c, v, a)
        /\ getActionMeta(a).confirmation
  BY DEF AskConfirmation
<1>2. /\ actionConfirmation' = c
      /\ UNCHANGED <<role, session, loading, flight, sent, done, audit>>
  BY DEF AskConfirmation
<1>3. /\ click' \in [Clicks -> Click \cup {NotYet}]
      /\ click'[c] = [by |-> "super_admin", action |-> a, vehicle |-> v]
      /\ IsMade(c)' /\ ~ IsMade(c)
      /\ \A b : IsMade(b) => click'[b] = click[b] /\ IsMade(b)'
      /\ \A b \in Clicks : click'[b] = NotYet \/ IsMade(b)'
  BY <1>1, ClickIsNew
<1>4. OnlyMade'
  BY <1>2, <1>3 DEF ConsoleInv, OnlyMade
<1>5. ConsoleShape' /\ NobodyLoads' /\ loading' \in BOOLEAN /\ OneAtATime'
  BY <1>2, <1>3 DEF ConsoleInv, ConsoleShape, NobodyLoads, OneAtATime
<1>6. OpenQuestion'
  BY <1>1, <1>2, <1>3 DEF ConsoleInv, OnlyMade, OpenQuestion, Confirmed
<1>7. FlightsFit'
  BY <1>2, <1>3 DEF ConsoleInv, OnlyMade, FlightsFit, Confirmed
<1>8. SentAsShown' /\ OutcomeAudited'
  BY <1>2, <1>3 DEF ConsoleInv, OnlyMade, SentAsShown, OutcomeAudited
<1>9. QED
  BY <1>4, <1>5, <1>6, <1>7, <1>8 DEF ConsoleInv

LEMMA DirectKeeps ==
  ASSUME ConsoleInv, NEW c \in Clicks, ClickDirectly(c)
  PROVE  ConsoleInv' /\ (\A f \in flight' \ flight : f.click \notin done)
<1>1. PICK v \in Vehicles, a \in Commands :
        /\ Fresh(c) /\ Clickable(v, a) /\ Made(c, v, a)
        /\ ~ getActionMeta(a).confirmation
        /\ sent' = sent \cup {[click |-> c, action |-> a, vehicle |-> v]}
  BY DEF ClickDirectly
<1> DEFINE new == [click |-> c, session |-> session, asked |-> FALSE]
           what == [click |-> c, action |-> a, vehicle |-> v]
<1>2. /\ flight' = flight \cup {new}
      /\ UNCHANGED <<role, session, actionConfirmation, loading, done, audit>>
  BY DEF ClickDirectly
<1>3. /\ click' \in [Clicks -> Click \cup {NotYet}]
      /\ click'[c] = [by |-> "super_admin", action |-> a, vehicle |-> v]
      /\ IsMade(c)' /\ ~ IsMade(c)
      /\ \A b : IsMade(b) => click'[b] = click[b] /\ IsMade(b)'
      /\ \A b \in Clicks : click'[b] = NotYet \/ IsMade(b)'
  BY <1>1, ClickIsNew
<1>4. new.click = c /\ new.session = session /\ new.asked = FALSE
  OBVIOUS
<1>5. what.click = c /\ what.action = a /\ what.vehicle = v
  OBVIOUS
<1>6. sent' = sent \cup {what}
  BY <1>1
<1> HIDE DEF new, what
<1>7. OnlyMade'
  BY <1>2, <1>3, <1>4, <1>5, <1>6 DEF ConsoleInv, OnlyMade
<1>8. ConsoleShape' /\ NobodyLoads' /\ loading' \in BOOLEAN
  BY <1>2, <1>3 DEF ConsoleInv, ConsoleShape, NobodyLoads
<1>9. OneAtATime'
  BY <1>2, <1>4 DEF ConsoleInv, OneAtATime
<1>10. OpenQuestion'
  BY <1>2, <1>3 DEF ConsoleInv, OnlyMade, OpenQuestion, Confirmed
<1>11. FlightsFit'
  <2>1. ~ Confirmed(c)'
    BY <1>1, <1>3 DEF Confirmed
  <2>2. \A b : IsMade(b) => (Confirmed(b)' <=> Confirmed(b))
    BY <1>3 DEF Confirmed
  <2>3. session \in Nat
    BY DEF ConsoleInv, ConsoleShape
  <2>4. session' = session
    BY <1>2
  <2>5. \A f \in flight : Confirmed(f.click)' <=> Confirmed(f.click)
    BY <2>2 DEF ConsoleInv, OnlyMade
  <2>6. ASSUME NEW f \in flight
        PROVE  /\ f.session \in Nat /\ f.session <= session
               /\ f.asked \in BOOLEAN /\ (f.asked <=> Confirmed(f.click)')
    BY <2>5 DEF ConsoleInv, FlightsFit
  <2>7. ASSUME NEW f, f = new
        PROVE  /\ f.session \in Nat /\ f.session <= session
               /\ f.asked \in BOOLEAN /\ (f.asked <=> Confirmed(f.click)')
    <3>1. f.click = c /\ f.session = session /\ f.asked = FALSE
      BY <1>4, <2>7
    <3>2. ~ Confirmed(f.click)'
      BY <2>1, <3>1 DEF Confirmed
    <3>3. f.session \in Nat /\ f.session <= session
      BY <2>3, <3>1
    <3>4. f.asked \in BOOLEAN
      BY <3>1, Zenon
    <3>5. f.asked <=> Confirmed(f.click)'
      BY <3>1, <3>2 DEF Confirmed
    <3>6. QED
      BY <3>3, <3>4, <3>5
  <2>8. QED
    BY <1>2, <2>4, <2>6, <2>7 DEF FlightsFit
<1>12. SentAsShown'
  BY <1>3, <1>5, <1>6 DEF ConsoleInv, OnlyMade, SentAsShown
<1>13. OutcomeAudited'
  BY <1>2, <1>4, <1>5, <1>6 DEF ConsoleInv, OutcomeAudited
<1>14. \A f \in flight' \ flight : f.click \notin done
  BY <1>2, <1>3, <1>4 DEF ConsoleInv, OnlyMade
<1>15. QED
  BY <1>7, <1>8, <1>9, <1>10, <1>11, <1>12, <1>13, <1>14 DEF ConsoleInv

-----------------------------------------------------------------------------
(* The dialog.                                                             *)

\* While its button is enabled, nothing the dialog asked is under way.
LEMMA ConfirmKeeps ==
  ASSUME ConsoleInv, NEW c \in Clicks, handleConfirm(c)
  PROVE  ConsoleInv' /\ (\A f \in flight' \ flight : f.click \notin done)
<1> DEFINE new == [click |-> c, session |-> session, asked |-> TRUE]
           what == [click |-> c, action |-> click[c].action, vehicle |-> click[c].vehicle]
<1>1. /\ actionConfirmation = c /\ role # "nobody" /\ loading = FALSE /\ loading' = TRUE
      /\ flight' = flight \cup {new} /\ sent' = sent \cup {what}
      /\ UNCHANGED <<role, session, actionConfirmation, click, done, audit>>
  BY DEF handleConfirm, Asks, ConsoleInv
<1>2. IsMade(c) /\ Confirmed(c) /\ c \notin done
  BY <1>1 DEF ConsoleInv, OnlyMade, OpenQuestion, Clicks
<1>3. new.click = c /\ new.session = session /\ new.asked = TRUE
  OBVIOUS
<1>4. what.click = c /\ what.action = click[c].action /\ what.vehicle = click[c].vehicle
  OBVIOUS
<1> HIDE DEF new, what
<1>5. \A b : IsMade(b)' <=> IsMade(b)
  BY <1>1 DEF IsMade
<1>6. OnlyMade'
  BY <1>1, <1>2, <1>3, <1>4, <1>5 DEF ConsoleInv, OnlyMade
<1>7. ConsoleShape' /\ NobodyLoads' /\ loading' \in BOOLEAN
  BY <1>1 DEF ConsoleInv, ConsoleShape, NobodyLoads
<1>8. OneAtATime'
  <2>1. \A f \in flight : ~ (f.asked /\ f.session = session)
    BY <1>1 DEF ConsoleInv, OneAtATime
  <2>2. QED
    BY <1>1, <1>3, <2>1 DEF ConsoleInv, OneAtATime
<1>9. OpenQuestion'
  BY <1>1 DEF ConsoleInv, OpenQuestion, Confirmed
<1>10. FlightsFit'
  <2>1. session \in Nat
    BY DEF ConsoleInv, ConsoleShape
  <2>2. \A b : Confirmed(b)' <=> Confirmed(b)
    BY <1>1 DEF Confirmed
  <2>3. session' = session
    BY <1>1
  <2>4. ASSUME NEW f \in flight
        PROVE  /\ f.session \in Nat /\ f.session <= session
               /\ f.asked \in BOOLEAN /\ (f.asked <=> Confirmed(f.click)')
    BY <2>2 DEF ConsoleInv, FlightsFit
  <2>5. ASSUME NEW f, f = new
        PROVE  /\ f.session \in Nat /\ f.session <= session
               /\ f.asked \in BOOLEAN /\ (f.asked <=> Confirmed(f.click)')
    <3>1. f.click = c /\ f.session = session /\ f.asked = TRUE
      BY <1>3, <2>5
    <3>2. Confirmed(f.click)'
      BY <1>1, <1>2, <3>1 DEF Confirmed
    <3>3. f.session \in Nat /\ f.session <= session
      BY <2>1, <3>1
    <3>4. f.asked \in BOOLEAN
      BY <3>1, Zenon
    <3>5. f.asked <=> Confirmed(f.click)'
      BY <3>1, <3>2 DEF Confirmed
    <3>6. QED
      BY <3>3, <3>4, <3>5
  <2>6. QED
    BY <1>1, <2>3, <2>4, <2>5 DEF FlightsFit
<1>11. SentAsShown'
  BY <1>1, <1>4 DEF ConsoleInv, SentAsShown
<1>12. OutcomeAudited'
  BY <1>1, <1>3, <1>4 DEF ConsoleInv, OutcomeAudited
<1>13. QED
  BY <1>1, <1>2, <1>3, <1>6, <1>7, <1>8, <1>9, <1>10, <1>11, <1>12 DEF ConsoleInv

\* Entries are added to the audit trail, of every command.
LEMMA AuditedAdds ==
  ASSUME ConsoleShape, NEW c \in Clicks, IsMade(c),
         NEW outcome \in {"success", "failure", "aborted"}, Audited(c, outcome)
  PROVE  /\ audit' \in [Clicks -> SUBSET {"success", "failure", "aborted"}]
         /\ outcome \in audit'[c]
         /\ \A b \in Clicks : audit[b] \subseteq audit'[b]
<1>1. click[c].action \in Commands
  BY DEF IsMade, Click
<1>2. audit' = [audit EXCEPT ![c] = @ \cup {outcome}]
  BY <1>1, CommandMeta DEF Audited
<1>3. QED
  BY <1>2 DEF ConsoleShape

\* The question goes, with an entry or without.
LEMMA DialogGoes ==
  ASSUME ConsoleInv, actionConfirmation' = 0,
         UNCHANGED <<role, session, loading, click, flight, sent, done>>,
         audit' \in [Clicks -> SUBSET {"success", "failure", "aborted"}],
         \A b \in Clicks : audit[b] \subseteq audit'[b]
  PROVE  ConsoleInv'
<1>1. ConsoleShape' /\ NobodyLoads' /\ loading' \in BOOLEAN
  BY DEF ConsoleInv, ConsoleShape, NobodyLoads
<1>2. OnlyMade'
  BY DEF ConsoleInv, OnlyMade, IsMade
<1>3. OpenQuestion' /\ OneAtATime' /\ SentAsShown'
  BY DEF ConsoleInv, OpenQuestion, OneAtATime, SentAsShown
<1>4. FlightsFit'
  BY DEF ConsoleInv, FlightsFit, Confirmed
<1>5. OutcomeAudited'
  BY DEF ConsoleInv, OnlyMade, IsMade, OutcomeAudited
<1>6. QED
  BY <1>1, <1>2, <1>3, <1>4, <1>5 DEF ConsoleInv

LEMMA CancelKeeps ==
  ASSUME ConsoleInv, NEW c \in Clicks, handleCancel(c)
  PROVE  ConsoleInv'
<1>1. IsMade(c)
  BY DEF handleCancel, Asks, ConsoleInv, OnlyMade, Clicks
<1>2. /\ audit' \in [Clicks -> SUBSET {"success", "failure", "aborted"}]
      /\ \A b \in Clicks : audit[b] \subseteq audit'[b]
  BY <1>1, AuditedAdds DEF handleCancel, ConsoleInv
<1>3. QED
  BY <1>2, DialogGoes DEF handleCancel

LEMMA CloseKeeps ==
  ASSUME ConsoleInv, NEW c \in Clicks, CloseDialog(c)
  PROVE  ConsoleInv'
<1>1. audit' \in [Clicks -> SUBSET {"success", "failure", "aborted"}]
  BY DEF ConsoleInv, ConsoleShape, CloseDialog
<1>2. QED
  BY <1>1, DialogGoes DEF CloseDialog

-----------------------------------------------------------------------------
(* The answer.                                                             *)

\* What both answers share: the flight is over and the outcome audited.
LEMMA AnswerKeeps ==
  ASSUME ConsoleInv, NEW f \in flight, flight' = flight \ {f},
         NEW outcome \in {"success", "failure"}, Audited(f.click, outcome),
         LoadingOver(f), UNCHANGED <<role, session, click, sent>>,
         done' \subseteq done \cup {f.click}, OpenQuestion',
         actionConfirmation' \in {0, actionConfirmation}
  PROVE  ConsoleInv'
<1>1. IsMade(f.click)
  BY DEF ConsoleInv, OnlyMade
<1>2. f.click \in Clicks /\ outcome \in {"success", "failure", "aborted"} /\ ConsoleShape
  BY <1>1 DEF IsMade, ConsoleInv
<1>3. /\ audit' \in [Clicks -> SUBSET {"success", "failure", "aborted"}]
      /\ outcome \in audit'[f.click]
      /\ \A b \in Clicks : audit[b] \subseteq audit'[b]
  BY <1>1, <1>2, AuditedAdds
<1>4. ConsoleShape'
  BY <1>3 DEF ConsoleInv, ConsoleShape
<1>5. loading' \in BOOLEAN /\ NobodyLoads'
  BY DEF ConsoleInv, NobodyLoads, LoadingOver
<1>6. \A b : IsMade(b)' <=> IsMade(b)
  BY DEF IsMade
<1>7. OnlyMade'
  BY <1>1, <1>6 DEF ConsoleInv, OnlyMade
<1>8. FlightsFit'
  <2>1. \A b : Confirmed(b)' <=> Confirmed(b)
    BY DEF Confirmed
  <2>2. QED
    BY <2>1 DEF ConsoleInv, FlightsFit
<1>9. OneAtATime'
  <2>1. CASE f.asked /\ f.session = session
    <3>1. \A g \in flight' : ~ (g.asked /\ g.session = session)
      BY <2>1 DEF ConsoleInv, OneAtATime
    <3>2. loading' = FALSE
      BY <2>1 DEF LoadingOver
    <3>3. QED
      BY <3>1, <3>2 DEF ConsoleInv, OneAtATime
  <2>2. CASE ~ (f.asked /\ f.session = session)
    <3>1. loading' = loading
      BY <2>2 DEF LoadingOver
    <3>2. QED
      BY <2>2, <3>1 DEF ConsoleInv, OneAtATime
  <2>3. QED
    BY <2>1, <2>2
<1>10. SentAsShown'
  BY DEF ConsoleInv, SentAsShown
<1>11. OutcomeAudited'
  <2> SUFFICES ASSUME NEW s \in sent
               PROVE  \/ \E g \in flight' : g.click = s.click
                      \/ audit'[s.click] \cap {"success", "failure"} # {}
    BY DEF OutcomeAudited
  <2>1. s.click \in Clicks
    BY DEF ConsoleInv, OnlyMade, IsMade
  <2>2. CASE s.click = f.click
    BY <2>2, <1>3
  <2>3. CASE s.click # f.click
    BY <2>1, <2>3, <1>3 DEF ConsoleInv, OutcomeAudited
  <2>4. QED
    BY <2>2, <2>3
<1>12. QED
  BY <1>4, <1>5, <1>7, <1>8, <1>9, <1>10, <1>11 DEF ConsoleInv

LEMMA SucceedsKeeps ==
  ASSUME ConsoleInv, NEW f, CommandSucceeds(f)
  PROVE  ConsoleInv'
<1>1. /\ f \in flight /\ flight' = flight \ {f} /\ done' = done \cup {f.click}
      /\ Audited(f.click, "success") /\ LoadingOver(f)
      /\ actionConfirmation' = IF f.asked THEN 0 ELSE actionConfirmation
      /\ UNCHANGED <<role, session, click, sent>>
  BY DEF CommandSucceeds
<1>2. OpenQuestion'
  <2>1. CASE f.asked
    BY <1>1, <2>1 DEF OpenQuestion
  <2>2. CASE ~ f.asked
    <3>1. ~ Confirmed(f.click)
      BY <1>1, <2>2 DEF ConsoleInv, FlightsFit
    <3>2. \A b : Confirmed(b)' <=> Confirmed(b)
      BY <1>1 DEF Confirmed
    <3>3. QED
      BY <1>1, <2>2, <3>1, <3>2 DEF ConsoleInv, OpenQuestion
  <2>3. QED
    BY <2>1, <2>2
<1>3. QED
  BY <1>1, <1>2, AnswerKeeps

LEMMA FailsKeeps ==
  ASSUME ConsoleInv, NEW f, CommandFails(f)
  PROVE  ConsoleInv'
<1>1. OpenQuestion'
  BY DEF CommandFails, ConsoleInv, OpenQuestion, Confirmed
<1>2. QED
  BY <1>1, AnswerKeeps DEF CommandFails

-----------------------------------------------------------------------------
(* Every step.                                                             *)

LEMMA ConsoleStepKeeps ==
  ASSUME ConsoleInv, [ConsoleNext]_consoleVars
  PROVE  ConsoleInv' /\ (\A f \in flight' \ flight : f.click \notin done)
<1>1. CASE logout
  BY <1>1, LogoutKeeps DEF logout
<1>2. ASSUME NEW r \in SignIns, SignIn(r)
      PROVE  ConsoleInv' /\ flight' = flight
  BY <1>2, SignInKeeps DEF SignIn
<1>3. ASSUME NEW p \in {"control", "detail"}, NEW v \in 0..NVehicles, GoTo(p, v)
      PROVE  ConsoleInv' /\ flight' = flight
  BY <1>3, PagesKeep DEF GoTo
<1>4. ASSUME NEW v \in Vehicles, setSelectedId(v)
      PROVE  ConsoleInv' /\ flight' = flight
  BY <1>4, PagesKeep DEF setSelectedId
<1>5. ASSUME NEW v \in Vehicles, NEW s \in Reports[v], Reported(v, s)
      PROVE  ConsoleInv' /\ flight' = flight
  BY <1>5, PagesKeep DEF Reported
<1>6. ASSUME NEW c \in Clicks, AskConfirmation(c)
      PROVE  ConsoleInv' /\ flight' = flight
  BY <1>6, AskKeeps DEF AskConfirmation
<1>7. ASSUME NEW c \in Clicks, handleCancel(c) \/ CloseDialog(c)
      PROVE  ConsoleInv' /\ flight' = flight
  BY <1>7, CancelKeeps, CloseKeeps DEF handleCancel, CloseDialog
<1>8. ASSUME NEW f, Answered(f)
      PROVE  ConsoleInv' /\ flight' \subseteq flight
  BY <1>8, SucceedsKeeps, FailsKeeps DEF Answered, CommandSucceeds, CommandFails
<1>9. CASE UNCHANGED consoleVars
  BY <1>9, PagesKeep DEF consoleVars
<1>10. QED
  BY <1>1, <1>2, <1>3, <1>4, <1>5, <1>6, <1>7, <1>8, <1>9, DirectKeeps, ConfirmKeeps
     DEF ConsoleNext

-----------------------------------------------------------------------------
(* The theorems.                                                           *)

LEMMA ConsoleInvHolds == ConsoleSpec => []ConsoleInv
<1>1. ConsoleInv /\ [ConsoleNext]_consoleVars => ConsoleInv'
  BY ConsoleStepKeeps
<1>2. QED
  BY ConsoleStarts, <1>1, PTL DEF ConsoleSpec

\* However the dialog is opened, confirmed, cancelled and closed, and whatever the pages
\* and the vehicles do meanwhile: one question at a time is carried out, what is sent is
\* what was shown and clicked by somebody the registry names for it, and the audit trail
\* says how it went (ActionButton.jsx, ActionConfirmModal.jsx, registry.js).
THEOREM CommandsAreSafe == ConsoleSpec => []ConsoleSafe
<1>1. ASSUME ConsoleInv, NEW s \in sent
      PROVE  click[s.click].by \in getActionMeta(s.action).permissionsRequired
  <2>1. click[s.click] \in Click /\ click[s.click].by = "super_admin"
    BY <1>1 DEF ConsoleInv, OnlyMade, IsMade
  <2>2. s.action \in Commands
    BY <1>1, <2>1 DEF ConsoleInv, SentAsShown, Click
  <2>3. QED
    BY <2>1, <2>2, CommandMeta DEF Pilots, Admins
<1>2. ConsoleInv => ConsoleSafe
  BY <1>1 DEF ConsoleInv, ConsoleSafe, ClickedByNamed
<1>3. QED
  BY ConsoleInvHolds, <1>2, PTL

\* A command that was acknowledged is not sent once more (ActionConfirmModal.jsx:34-35).
THEOREM NeverSentTwice == ConsoleSpec => NoResend
<1>1. ConsoleInv /\ [ConsoleNext]_consoleVars =>
        [\A f \in flight' \ flight : f.click \notin done]_consoleVars
  BY ConsoleStepKeeps
<1>2. QED
  BY ConsoleInvHolds, <1>1, PTL DEF ConsoleSpec, NoResend

-----------------------------------------------------------------------------
(***************************************************************************)
(* The waypoints that are drawn: each one once, numbered by their places.  *)
(***************************************************************************)

Waypoint == [id : WaypointIds, seq : Nat, at : Places]

\* A list of waypoints, each with an id of its own.
WellNamed(wps) ==
  /\ wps \in Seq(Waypoint)
  /\ \A i, j \in 1..Len(wps) : wps[i].id = wps[j].id => i = j

RouteInv ==
  /\ WellNamed(route)
  /\ numbered \in BOOLEAN /\ (numbered => InPlace(route))
  /\ SelectionExists /\ DrawingIsSafe
  /\ gridPreviewWaypoints \in Seq(Places)

LEMMA JoinedElements ==
  ASSUME NEW S, NEW s \in Seq(S), NEW t \in Seq(S), NEW j \in 1..(Len(s) + Len(t))
  PROVE  (s \o t)[j] = IF j <= Len(s) THEN s[j] ELSE t[j - Len(s)]
OBVIOUS

\* Without the i-th, those behind it move up.
LEMMA RemovedElements ==
  ASSUME NEW S, NEW s \in Seq(S), NEW i \in 1..Len(s), NEW r, r = RemoveAt(s, i)
  PROVE  /\ r \in Seq(S) /\ Len(r) = Len(s) - 1
         /\ \A j \in 1..Len(r) : r[j] = IF j < i THEN s[j] ELSE s[j + 1]
<1> DEFINE front == SubSeq(s, 1, i - 1)
           back == SubSeq(s, i + 1, Len(s))
<1>1. front \in Seq(S) /\ Len(front) = i - 1 /\ \A j \in 1..(i - 1) : front[j] = s[j]
  OBVIOUS
<1>2. back \in Seq(S) /\ Len(back) = Len(s) - i /\ \A j \in 1..(Len(s) - i) : back[j] = s[j + i]
  OBVIOUS
<1>3. r = front \o back
  BY DEF RemoveAt
<1> HIDE DEF front, back
<1>4. r \in Seq(S) /\ Len(r) = Len(s) - 1
  BY <1>1, <1>2, <1>3
<1>5. ASSUME NEW j \in 1..Len(r)
      PROVE  r[j] = IF j < i THEN s[j] ELSE s[j + 1]
  <2>1. CASE j < i
    BY <1>1, <1>2, <1>3, <1>4, <2>1
  <2>2. CASE ~ (j < i)
    <3>1. i \in Nat /\ Len(s) \in Nat /\ j \in Nat /\ j <= Len(s) - 1
      BY <1>4
    <3>2. j \in 1..(Len(front) + Len(back)) /\ ~ (j <= Len(front))
      BY <1>1, <1>2, <2>2, <3>1
    <3>3. r[j] = back[j - (i - 1)]
      BY <1>1, <1>2, <1>3, <3>2, JoinedElements
    <3>4. j - (i - 1) \in 1..(Len(s) - i) /\ (j - (i - 1)) + i = j + 1
      BY <2>2, <3>1
    <3>5. back[j - (i - 1)] = s[(j - (i - 1)) + i]
      BY <1>2, <3>4
    <3>6. QED
      BY <2>2, <3>3, <3>4, <3>5
  <2>3. QED
    BY <2>1, <2>2
<1>6. QED
  BY <1>4, <1>5

LEMMA AddedInOrder ==
  ASSUME NEW wps, WellNamed(wps), NEW id \in WaypointIds \ Ids(wps), NEW p \in Places
  PROVE  /\ WellNamed(Added(wps, id, p)) /\ id \in Ids(Added(wps, id, p))
         /\ InPlace(wps) => InPlace(Added(wps, id, p))
<1> DEFINE w == [id |-> id, seq |-> Len(wps), at |-> p]
           r == Append(wps, w)
<1>1. w \in Waypoint
  BY DEF WellNamed, Waypoint
<1>2. r \in Seq(Waypoint) /\ Len(r) = Len(wps) + 1
  BY <1>1 DEF WellNamed
<1>3. \A i \in 1..Len(wps) : r[i] = wps[i] /\ r[i].id # id
  BY <1>1, <1>2 DEF WellNamed, Ids
<1>4. r[Len(wps) + 1] = w
  BY <1>1, <1>2 DEF WellNamed
<1>5. Len(wps) + 1 \in DOMAIN r
  BY <1>2 DEF WellNamed
<1>6. Len(wps) \in Nat
  BY DEF WellNamed
<1>7. w.id = id /\ w.seq = Len(wps)
  OBVIOUS
<1>8. r = Added(wps, id, p)
  BY DEF Added
<1> HIDE DEF w, r
<1>9. InPlace(wps) => InPlace(r)
  BY <1>2, <1>3, <1>4, <1>6, <1>7 DEF WellNamed, InPlace
<1>10. \A i, j \in 1..Len(r) : r[i].id = r[j].id => i = j
  BY <1>2, <1>3, <1>4, <1>6, <1>7 DEF WellNamed
<1>11. id \in Ids(r)
  BY <1>4, <1>5, <1>7 DEF Ids
<1>12. QED
  BY <1>2, <1>8, <1>9, <1>10, <1>11 DEF WellNamed

LEMMA RemovedInOrder ==
  ASSUME NEW wps, WellNamed(wps), NEW id \in Ids(wps)
  PROVE  WellNamed(removeWaypoint(wps, id)) /\ InPlace(removeWaypoint(wps, id))
<1> DEFINE k == Place(wps, id)
           kept == RemoveAt(wps, k)
           r == removeWaypoint(wps, id)
<1>1. k \in 1..Len(wps)
  BY DEF Place, Ids, WellNamed
<1>2. /\ kept \in Seq(Waypoint) /\ Len(kept) = Len(wps) - 1
      /\ \A j \in 1..Len(kept) : kept[j] = IF j < k THEN wps[j] ELSE wps[j + 1]
  BY <1>1, RemovedElements DEF WellNamed
<1>3. r = [i \in 1..Len(kept) |-> [kept[i] EXCEPT !.seq = i - 1]]
  BY <1>2 DEF removeWaypoint
<1> HIDE DEF k, kept, r
<1>4. \A i \in 1..Len(kept) : /\ r[i] \in Waypoint /\ r[i].seq = i - 1
                              /\ r[i].id = kept[i].id
  <2>1. ASSUME NEW i \in 1..Len(kept)
        PROVE  kept[i] \in Waypoint /\ i - 1 \in Nat
    BY <1>2
  <2>2. QED
    BY <1>3, <2>1 DEF Waypoint
<1>5. r \in Seq(Waypoint) /\ Len(r) = Len(kept)
  BY <1>2, <1>3, <1>4
<1>6. ASSUME NEW i \in 1..Len(r), NEW j \in 1..Len(r), r[i].id = r[j].id
      PROVE  i = j
  <2> DEFINE at(n) == IF n < k THEN n ELSE n + 1
  <2>1. at(i) \in 1..Len(wps) /\ at(j) \in 1..Len(wps)
    BY <1>1, <1>2, <1>5
  <2>2. kept[i] = wps[at(i)] /\ kept[j] = wps[at(j)]
    BY <1>2, <1>5
  <2>3. wps[at(i)].id = wps[at(j)].id
    BY <1>4, <1>5, <1>6, <2>2
  <2>4. at(i) = at(j)
    BY <2>1, <2>3 DEF WellNamed
  <2>5. QED
    BY <1>1, <1>5, <2>4
<1>7. QED
  BY <1>4, <1>5, <1>6 DEF WellNamed, InPlace, r

LEMMA UpdatedInOrder ==
  ASSUME NEW wps, WellNamed(wps), NEW id, NEW p \in Places
  PROVE  LET r == updateWaypoint(wps, id, p) IN
         /\ WellNamed(r) /\ Ids(r) = Ids(wps) /\ (r = <<>> => wps = <<>>)
         /\ InPlace(wps) => InPlace(r)
<1> DEFINE r == updateWaypoint(wps, id, p)
<1>1. r = [i \in 1..Len(wps) |-> IF wps[i].id = id THEN [wps[i] EXCEPT !.at = p] ELSE wps[i]]
  BY DEF updateWaypoint, WellNamed
<1>2. \A i \in 1..Len(wps) : wps[i] \in Waypoint
  BY DEF WellNamed
<1> HIDE DEF r
<1>3. \A i \in 1..Len(wps) : r[i] \in Waypoint /\ r[i].seq = wps[i].seq /\ r[i].id = wps[i].id
  BY <1>1, <1>2 DEF Waypoint
<1>4. r \in Seq(Waypoint) /\ Len(r) = Len(wps)
  BY <1>1, <1>3 DEF WellNamed
<1>5. WellNamed(r)
  BY <1>3, <1>4 DEF WellNamed
<1>6. Ids(r) = Ids(wps)
  <2>1. DOMAIN r = 1..Len(wps) /\ DOMAIN wps = 1..Len(wps)
    BY <1>1 DEF WellNamed
  <2>2. QED
    BY <1>3, <2>1 DEF Ids
<1>7. r = <<>> => wps = <<>>
  BY <1>4 DEF WellNamed
<1>8. InPlace(wps) => InPlace(r)
  BY <1>1, <1>3 DEF InPlace, WellNamed
<1>9. QED
  BY <1>5, <1>6, <1>7, <1>8 DEF r

LEMMA GridInOrder ==
  ASSUME gridPreviewWaypoints \in Seq(Places), gridPreviewWaypoints # <<>>,
         NEW ids \in Named(Len(gridPreviewWaypoints))
  PROVE  WellNamed(Grid(ids)) /\ InPlace(Grid(ids)) /\ ids[1] \in Ids(Grid(ids))
<1> DEFINE n == Len(gridPreviewWaypoints)
           r == Grid(ids)
<1>1. n \in Nat /\ n >= 1
  OBVIOUS
<1>2. /\ ids \in [1..n -> WaypointIds]
      /\ \A i, j \in 1..n : ids[i] = ids[j] => i = j
  BY DEF Named
<1>3. r = [i \in 1..n |-> [id |-> ids[i], seq |-> i - 1, at |-> gridPreviewWaypoints[i]]]
  BY <1>2 DEF Grid
<1>4. \A i \in 1..n : gridPreviewWaypoints[i] \in Places
  OBVIOUS
<1> HIDE DEF n, r
<1>5. \A i \in 1..n : r[i] \in Waypoint /\ r[i].seq = i - 1 /\ r[i].id = ids[i]
  BY <1>1, <1>2, <1>3, <1>4 DEF Waypoint
<1>6. r \in Seq(Waypoint) /\ Len(r) = n
  BY <1>1, <1>3, <1>5
<1>7. \A i, j \in 1..n : r[i].id = r[j].id => i = j
  BY <1>2, <1>5
<1>8. WellNamed(r) /\ InPlace(r)
  BY <1>3, <1>5, <1>6, <1>7 DEF WellNamed, InPlace
<1>9. DOMAIN r = 1..n /\ 1 \in 1..n /\ r[1].id = ids[1]
  BY <1>1, <1>3, <1>5
<1>10. ids[1] \in Ids(r)
  BY <1>9 DEF Ids
<1>11. QED
  BY <1>8, <1>10 DEF r

\* Whatever the list becomes, the selection is one of it.
LEMMA SelectionFollows ==
  ASSUME NEW wps, WellNamed(wps), NEW sel, RouteIs(wps, sel)
  PROVE  route' = wps /\ WellNamed(route)' /\ SelectionExists'
<1>1. route' = wps /\ selectedWaypointId' = Selects(wps, sel)
  BY DEF RouteIs
<1>2. wps # <<>> => wps[1].id \in Ids(wps)
  BY DEF WellNamed, Ids
<1>3. QED
  BY <1>1, <1>2 DEF SelectionExists, Selects, WellNamed, Ids

LEMMA EditsKeep ==
  ASSUME RouteInv, NEW p \in Places, NEW id \in WaypointIds
  PROVE  /\ handleAddWaypoint(p) => RouteInv'
         /\ Drag(id, p) => RouteInv'
         /\ SelectWaypoint(id) => RouteInv'
         /\ RemoveWaypoint(id) => RouteInv'
         /\ CommitField(p) => RouteInv'
<1>1. ASSUME handleAddWaypoint(p)
      PROVE  RouteInv'
  <2>1. PICK new \in WaypointIds \ Ids(route) : RouteIs(Added(route, new, p), {new})
    BY <1>1 DEF handleAddWaypoint
  <2>2. WellNamed(route)' /\ SelectionExists' /\ (InPlace(route) => InPlace(route)')
    <3>1. route' = Added(route, new, p) /\ WellNamed(route)' /\ SelectionExists'
      BY <2>1, AddedInOrder, SelectionFollows DEF RouteInv
    <3>2. InPlace(route) => InPlace(route')
      BY <3>1, AddedInOrder DEF RouteInv
    <3>3. QED
      BY <3>1, <3>2 DEF InPlace
  <2>3. QED
    BY <1>1, <2>2 DEF handleAddWaypoint, RouteInv, DrawingIsSafe, fenceVars
<1>2. ASSUME Drag(id, p)
      PROVE  RouteInv'
  <2>1. WellNamed(route)' /\ SelectionExists' /\ (InPlace(route) => InPlace(route)')
    <3>1. route' = updateWaypoint(route, id, p) /\ WellNamed(route)' /\ SelectionExists'
      BY <1>2, UpdatedInOrder, SelectionFollows DEF Drag, RouteInv
    <3>2. InPlace(route) => InPlace(route')
      BY <3>1, UpdatedInOrder DEF RouteInv
    <3>3. QED
      BY <3>1, <3>2 DEF InPlace
  <2>2. QED
    BY <1>2, <2>1 DEF Drag, RouteInv, DrawingIsSafe, fenceVars
<1>3. ASSUME SelectWaypoint(id)
      PROVE  RouteInv'
  <2>1. route' = route /\ WellNamed(route)' /\ SelectionExists'
    BY <1>3, SelectionFollows DEF SelectWaypoint, RouteInv
  <2>2. QED
    BY <1>3, <2>1 DEF SelectWaypoint, RouteInv, InPlace, DrawingIsSafe, fenceVars
<1>4. ASSUME RemoveWaypoint(id)
      PROVE  RouteInv'
  <2>1. WellNamed(route)' /\ SelectionExists' /\ InPlace(route)' /\ numbered' = TRUE
    <3>1. route' = removeWaypoint(route, id) /\ WellNamed(route)' /\ SelectionExists'
      BY <1>4, RemovedInOrder, SelectionFollows DEF RemoveWaypoint, RouteInv
    <3>2. InPlace(route')
      BY <1>4, <3>1, RemovedInOrder DEF RemoveWaypoint, RouteInv
    <3>3. numbered' = TRUE
      BY <1>4 DEF RemoveWaypoint
    <3>4. QED
      BY <3>1, <3>2, <3>3 DEF InPlace
  <2>2. QED
    BY <1>4, <2>1 DEF RemoveWaypoint, RouteInv, DrawingIsSafe, fenceVars
<1>5. ASSUME CommitField(p)
      PROVE  RouteInv'
  <2>1. PICK sel : route' = updateWaypoint(route, sel, p)
    BY <1>5 DEF CommitField
  <2>2. /\ WellNamed(route)' /\ Ids(route') = Ids(route) /\ (route' = <<>> => route = <<>>)
        /\ InPlace(route) => InPlace(route)'
    <3>1. /\ WellNamed(route') /\ Ids(route') = Ids(route) /\ (route' = <<>> => route = <<>>)
          /\ InPlace(route) => InPlace(route')
      BY <2>1, UpdatedInOrder DEF RouteInv
    <3>2. QED
      BY <3>1 DEF InPlace, WellNamed
  <2>3. SelectionExists'
    BY <1>5, <2>2 DEF CommitField, RouteInv, SelectionExists
  <2>4. QED
    BY <1>5, <2>2, <2>3 DEF CommitField, RouteInv, DrawingIsSafe, fenceVars
<1>6. QED
  BY <1>1, <1>2, <1>3, <1>4, <1>5

\* What is read is the route once more, or one under ids that are new.
LEMMA LoadedRoute ==
  ASSUME RouteInv, LoadMission
  PROVE  \E wps : WellNamed(wps) /\ RouteIs(wps, selectedWaypointId) /\ numbered' = InPlace(wps)
<1>1. PICK wps : /\ \/ wps = route
                    \/ \E w \in StoredRoutes : \E ids \in Named(Len(w)) : wps = ReadIn(ids, w)
                 /\ RouteIs(wps, selectedWaypointId) /\ numbered' = InPlace(wps)
  BY DEF LoadMission
<1>2. ASSUME NEW w \in StoredRoutes, NEW ids \in Named(Len(w))
      PROVE  WellNamed(ReadIn(ids, w))
  <2>1. PICK n, r : n = Len(w) /\ r = ReadIn(ids, w)
    OBVIOUS
  <2>2. w \in Seq([seq : Nat, at : Places])
    BY RouteAssumption
  <2>3. n \in Nat /\ \A i \in 1..n : w[i].seq \in Nat /\ w[i].at \in Places
    <3> DEFINE S == [seq : Nat, at : Places]
    <3>1. w \in Seq(S)
      BY <2>2
    <3>2. \A s \in S : s.seq \in Nat /\ s.at \in Places
      OBVIOUS
    <3> HIDE DEF S
    <3>3. Len(w) \in Nat /\ \A i \in 1..Len(w) : w[i] \in S
      BY <3>1
    <3>4. QED
      BY <2>1, <3>2, <3>3
  <2>4. /\ ids \in [1..n -> WaypointIds]
        /\ \A i, j \in 1..n : ids[i] = ids[j] => i = j
    BY <2>1 DEF Named
  <2>5. r = [i \in 1..n |-> [id |-> ids[i], seq |-> w[i].seq, at |-> w[i].at]]
    BY <2>1, <2>4 DEF ReadIn
  <2>6. \A i \in 1..n : r[i] \in Waypoint /\ r[i].id = ids[i]
    BY <2>3, <2>4, <2>5 DEF Waypoint
  <2>7. r \in Seq(Waypoint) /\ Len(r) = n
    BY <2>3, <2>5, <2>6
  <2>8. QED
    BY <2>1, <2>4, <2>6, <2>7 DEF WellNamed
<1>3. QED
  BY <1>1, <1>2 DEF RouteInv

LEMMA ListsKeep ==
  ASSUME RouteInv
  PROVE  /\ clearWaypoints => RouteInv'
         /\ LoadMission => RouteInv'
         /\ handleGenerateGridPreview => RouteInv'
         /\ handleApplyGridPreview => RouteInv'
         /\ ClearPreview => RouteInv'
         /\ \A step : setPlannerStep(step) => RouteInv'
<1>0. WellNamed(<<>>) /\ InPlace(<<>>) /\ <<>> \in Seq(Places)
  BY DEF WellNamed, InPlace
<1>1. ASSUME clearWaypoints
      PROVE  RouteInv'
  <2>1. route' = <<>> /\ WellNamed(route)' /\ SelectionExists'
    BY <1>0, <1>1, SelectionFollows DEF clearWaypoints
  <2>2. InPlace(route)'
    BY <1>0, <2>1 DEF InPlace
  <2>3. QED
    BY <1>0, <1>1, <2>1, <2>2 DEF clearWaypoints, RouteInv, DrawingIsSafe, fenceVars
<1>2. ASSUME LoadMission
      PROVE  RouteInv'
  <2>1. PICK wps : WellNamed(wps) /\ RouteIs(wps, selectedWaypointId) /\ numbered' = InPlace(wps)
    BY <1>2, LoadedRoute
  <2>2. route' = wps /\ WellNamed(route)' /\ SelectionExists'
    BY <2>1, SelectionFollows
  <2>3. numbered' \in BOOLEAN /\ (numbered' => InPlace(route)')
    BY <2>1, <2>2 DEF InPlace
  <2>4. QED
    BY <1>0, <1>2, <2>2, <2>3 DEF LoadMission, RouteInv, DrawingIsSafe
<1>3. ASSUME handleGenerateGridPreview
      PROVE  RouteInv'
  BY <1>3, RouteAssumption
     DEF handleGenerateGridPreview, RouteInv, WellNamed, InPlace, SelectionExists, DrawingIsSafe, fenceVars
<1>4. ASSUME handleApplyGridPreview
      PROVE  RouteInv'
  <2>1. PICK ids \in Named(Len(gridPreviewWaypoints)) : RouteIs(Grid(ids), {ids[1]})
    BY <1>4 DEF handleApplyGridPreview
  <2>2. WellNamed(Grid(ids)) /\ InPlace(Grid(ids))
    BY <1>4, GridInOrder DEF handleApplyGridPreview, RouteInv
  <2>3. route' = Grid(ids) /\ WellNamed(route)' /\ SelectionExists'
    BY <2>1, <2>2, SelectionFollows
  <2>4. InPlace(route)'
    BY <2>2, <2>3 DEF InPlace
  <2>5. QED
    BY <1>0, <1>4, <2>3, <2>4 DEF handleApplyGridPreview, RouteInv, DrawingIsSafe, fenceVars
<1>5. ASSUME ClearPreview
      PROVE  RouteInv'
  BY <1>0, <1>5 DEF ClearPreview, RouteInv, WellNamed, InPlace, SelectionExists, DrawingIsSafe, fenceVars
<1>6. ASSUME NEW step, setPlannerStep(step)
      PROVE  RouteInv'
  BY <1>6 DEF setPlannerStep, RouteInv, WellNamed, InPlace, SelectionExists, DrawingIsSafe, fenceVars
<1>7. QED
  BY <1>1, <1>2, <1>3, <1>4, <1>5, <1>6

\* What is done to the fence leaves the route alone.
LEMMA FenceKeeps ==
  ASSUME RouteInv
  PROVE  /\ \A p \in Places : AddVertex(p) => RouteInv'
         /\ \A i, p : handleGeofenceVertexDrag(i, p) => RouteInv'
         /\ \A i : handleRemoveGeofenceVertex(i) => RouteInv'
         /\ BeginButtons => RouteInv'
         /\ cancelGeofenceEdit => RouteInv'
         /\ finishGeofenceEdit => RouteInv'
         /\ undoGeofencePoint => RouteInv'
         /\ DeletePolygon => RouteInv'
         /\ \A add : MapMode(add) => RouteInv'
<1> DEFINE Kept == UNCHANGED <<route, numbered, selectedWaypointId>> /\ gridPreviewWaypoints' \in Seq(Places)
                   /\ DrawingIsSafe'
<1>1. Kept => RouteInv'
  BY DEF RouteInv, WellNamed, InPlace, SelectionExists
<1>2. \A clear : beginGeofenceEdit(clear) => Kept
  BY DEF beginGeofenceEdit, FenceOnly, RouteInv, DrawingIsSafe
<1>3. BeginButtons => Kept
  BY <1>2 DEF BeginButtons
<1>4. \A p \in Places : AddVertex(p) => Kept
  BY DEF AddVertex, FenceOnly, RouteInv, DrawingIsSafe
<1>5. /\ \A i, p : handleGeofenceVertexDrag(i, p) => Kept
      /\ \A i : handleRemoveGeofenceVertex(i) => Kept
  BY DEF handleGeofenceVertexDrag, handleRemoveGeofenceVertex, FenceOnly, RouteInv, DrawingIsSafe
<1>6. (cancelGeofenceEdit => Kept) /\ (finishGeofenceEdit => Kept)
  BY DEF cancelGeofenceEdit, finishGeofenceEdit, FenceOnly, RouteInv, DrawingIsSafe
<1>7. (undoGeofencePoint => Kept) /\ \A add : MapMode(add) => Kept
  BY DEF undoGeofencePoint, MapMode, FenceOnly, RouteInv, DrawingIsSafe
<1>8. DeletePolygon => Kept
  BY DEF DeletePolygon, RouteInv, DrawingIsSafe
<1> HIDE DEF Kept
<1>9. QED
  BY <1>1, <1>3, <1>4, <1>5, <1>6, <1>7, <1>8

LEMMA RouteStepKeeps == RouteInv /\ [RouteNext]_routeVars => RouteInv'
<1>1. ASSUME RouteInv, NEW p \in Places, NEW shift \in BOOLEAN, MapClick(p, shift)
      PROVE  RouteInv'
  <2>1. PICK id : id \in WaypointIds \/ AddVertex(p)
    BY <1>1 DEF MapClick, handleAddWaypoint
  <2>2. QED
    BY <1>1, <2>1, EditsKeep, FenceKeeps DEF MapClick
<1>2. ASSUME RouteInv, NEW p \in Places, AddWaypointButton(p)
      PROVE  RouteInv'
  <2>1. PICK id \in WaypointIds : TRUE
    BY <1>2 DEF AddWaypointButton, handleAddWaypoint
  <2>2. QED
    BY <1>2, <2>1, EditsKeep DEF AddWaypointButton
<1>3. ASSUME RouteInv, NEW p \in Places, CommitField(p)
      PROVE  RouteInv'
  <2>1. PICK id \in WaypointIds : TRUE
    BY <1>3 DEF CommitField, RouteInv, SelectionExists, Ids, WellNamed, Waypoint
  <2>2. QED
    BY <1>3, <2>1, EditsKeep
<1>4. ASSUME RouteInv, NEW id \in WaypointIds, SelectWaypoint(id) \/ RemoveWaypoint(id)
      PROVE  RouteInv'
  <2>1. PICK p \in Places : TRUE
    BY <1>4 DEF SelectWaypoint, RemoveWaypoint, RouteInv, Ids, WellNamed, Waypoint
  <2>2. QED
    BY <1>4, <2>1, EditsKeep
<1>5. ASSUME RouteInv, UNCHANGED routeVars
      PROVE  RouteInv'
  BY <1>5 DEF RouteInv, WellNamed, InPlace, SelectionExists, DrawingIsSafe, routeVars
<1>6. QED
  BY <1>1, <1>2, <1>3, <1>4, <1>5, EditsKeep, ListsKeep, FenceKeeps DEF RouteNext

LEMMA RouteStarts == RouteInit => RouteInv
BY DEF RouteInit, RouteInv, WellNamed, InPlace, SelectionExists, DrawingIsSafe, Ids

\* However waypoints are added, dragged, typed over, removed, generated and loaded under any
\* numbers, for any number of them, no two are taken for one, the editor shows one of them,
\* and their numbers are their places, unless they came with others and none was removed
\* since; and drawing the fence can always be given up (missionStore.js:16-33, 223-239,
\* MissionPlannerPage.jsx:479-494, 773-814).
THEOREM EditingIsSafe == RouteSpec => []RouteSafe
<1>1. RouteInv => RouteSafe
  <2>1. WellNamed(route) => DOMAIN route = 1..Len(route)
    BY DEF WellNamed
  <2>2. RouteInv => SeqIsIndex
    BY <2>1 DEF WellNamed, SeqIsIndex, RouteInv
  <2>3. QED
    BY <2>2 DEF RouteInv, RouteSafe
<1>2. QED
  BY <1>1, RouteStarts, RouteStepKeeps, PTL DEF RouteSpec

-----------------------------------------------------------------------------
(***************************************************************************)
(* The launch: one at a time, of the vehicles that pass every check.       *)
(***************************************************************************)

(* The checks.                                                             *)

CheckNames == {"validity", "battery", "gps", "link", "health", "terrain"}

LEMMA SixChecks == IsFiniteSet(CheckNames)
<1>1. IsFiniteSet({}) /\ CheckNames = {} \cup {"validity"} \cup {"battery"} \cup {"gps"}
                                      \cup {"link"} \cup {"health"} \cup {"terrain"}
  BY FS_EmptySet DEF CheckNames
<1>2. QED
  BY <1>1, FS_AddElement

\* A vehicle has no blockers when none of the six checks is one.
LEMMA NoBlockers ==
  ASSUME NEW v
  PROVE  buildPreflightForDrone(v).blockers = 0
           <=> \A n \in CheckNames : Checks(fact[v])[n] # "BLOCKER"
<1> DEFINE c == Checks(fact[v])
           S == {n \in CheckNames : c[n] = "BLOCKER"}
<1>1. DOMAIN c = CheckNames
  BY DEF Checks, CheckNames
<1>2. buildPreflightForDrone(v).blockers = Cardinality(S)
  BY <1>1 DEF buildPreflightForDrone
<1> HIDE DEF c
<1>3. IsFiniteSet(S)
  BY SixChecks, FS_Subset
<1>4. Cardinality(S) = 0 <=> S = {}
  BY <1>3, FS_EmptySet
<1>5. QED
  BY <1>2, <1>4 DEF c

LEMMA Threshold ==
  ASSUME NEW km \in Nat
  PROVE  estimateBatteryThresholdPercent(km) = IF 95 <= 6 * km + 15 THEN 95 ELSE 6 * km + 15
<1> DEFINE S == {95, 6 * km + 15}
           m == IF 95 <= 6 * km + 15 THEN 95 ELSE 6 * km + 15
<1>1. 6 * km + 15 \in Int
  OBVIOUS
<1>2. m \in S /\ \A y \in S : m <= y
  BY <1>1
<1>3. \A x \in S : (\A y \in S : x <= y) => x = m
  BY <1>1
<1>4. QED
  BY <1>2, <1>3 DEF estimateBatteryThresholdPercent, Min

\* What the checks of a vehicle come to, read off what is known of it.
LEMMA FitChecks ==
  ASSUME NEW v, fact[v] \in Fact, planned \in RoutePlan
  PROVE  (\A n \in CheckNames : Checks(fact[v])[n] # "BLOCKER")
           <=> /\ planned.valid /\ Fit(fact[v], planned)
               /\ terrainFallbackPolicy = "block_start" => terrainAvailable
<1> DEFINE f == fact[v]
           c == Checks(f)
           e == estimateBatteryThresholdPercent(planned.km[f.at])
<1>0. /\ f.battery \in 0..100 /\ f.link_quality \in 0..100 /\ f.satellites \in 0..30
      /\ f.ekf_ok \in BOOLEAN /\ f.connected \in BOOLEAN
      /\ planned.km[f.at] \in Nat /\ planned.valid \in BOOLEAN
  BY DEF Fact, RoutePlan
<1>1. c.validity # "BLOCKER" <=> planned.valid
  BY DEF Checks, Level
<1>2. c.battery # "BLOCKER" <=> ~ (f.battery < e)
  BY DEF Checks, Level
<1>3. ~ (f.battery < e) <=> (f.battery >= 6 * planned.km[f.at] + 15 \/ f.battery >= 95)
  BY <1>0, Threshold
<1>4. c.gps # "BLOCKER" <=> f.ekf_ok /\ f.satellites >= 6
  BY <1>0 DEF Checks, Level
<1>5. c.link # "BLOCKER" <=> f.connected /\ f.status # "offline" /\ f.link_quality >= 30
  BY <1>0 DEF Checks, Level
<1>6. c.health # "BLOCKER" <=> getDroneStatus(f) \notin {"critical", "offline"}
  BY DEF Checks, Level
<1>7. getDroneStatus(f) \notin {"critical", "offline"} <=>
        /\ f.connected /\ f.status \notin {"offline", "critical"}
        /\ f.battery >= 15 /\ f.link_quality >= 25
  BY <1>0 DEF getDroneStatus
<1>8. c.terrain # "BLOCKER" <=> (terrainFallbackPolicy = "block_start" => terrainAvailable)
  BY DEF Checks, Level
<1> HIDE DEF c, e
<1>9. (\A n \in CheckNames : c[n] # "BLOCKER") <=>
        /\ c.validity # "BLOCKER" /\ c.battery # "BLOCKER" /\ c.gps # "BLOCKER"
        /\ c.link # "BLOCKER" /\ c.health # "BLOCKER" /\ c.terrain # "BLOCKER"
  BY DEF CheckNames
<1>10. f.link_quality >= 30 => f.link_quality >= 25
  BY <1>0
<1> HIDE DEF f
<1>11. QED
  BY <1>1, <1>2, <1>3, <1>4, <1>5, <1>6, <1>7, <1>8, <1>9, <1>10 DEF Fit, c, f

-----------------------------------------------------------------------------
(* The invariant.                                                          *)

LaunchInv ==
  /\ fact \in [Fliers -> Fact] /\ planned \in RoutePlan
  /\ launchPolicy \in {"all_or_none", "launch_ready_only"}
  /\ crew \subseteq Fliers
  /\ starts \in Nat /\ forgotten \in Nat /\ forgotten <= starts
  /\ starting \subseteq [click : 1..starts, on : Fliers]
  /\ OneLaunch
  /\ ~ isStartingMission => \A s \in starting : s.click <= forgotten

LEMMA LaunchStarts == LaunchInit => LaunchInv
<1>1. ASSUME NEW f \in Told
      PROVE  f \in [Fliers -> Fact]
  BY LaunchAssumption DEF Told
<1> SUFFICES ASSUME LaunchInit
             PROVE  LaunchInv
  OBVIOUS
<1>3. fact \in [Fliers -> Fact] /\ planned \in RoutePlan
  BY <1>1, LaunchAssumption DEF LaunchInit
<1>4. starting = {} /\ crew = {} /\ starts = 0 /\ forgotten = 0
  BY DEF LaunchInit
<1>5. QED
  BY <1>3, <1>4 DEF LaunchInit, LaunchInv, OneLaunch

\* What a click sends is new: no click before had its number.
LEMMA SentIsNew ==
  ASSUME LaunchInv, NEW T, starting' = starting \cup {[click |-> starts + 1, on |-> v] : v \in T}
  PROVE  {s.on : s \in starting' \ starting} = T
<1>1. \A s \in starting : s.click # starts + 1
  BY DEF LaunchInv
<1>2. starting' \ starting = {[click |-> starts + 1, on |-> v] : v \in T}
  BY <1>1
<1> DEFINE new == starting' \ starting
<1>3. \A v \in T : [click |-> starts + 1, on |-> v] \in new
  BY <1>2
<1>4. \A s \in new : s.on \in T
  BY <1>2
<1> HIDE DEF new
<1>5. ASSUME NEW v \in T
      PROVE  v \in {s.on : s \in new}
  <2>1. v = [click |-> starts + 1, on |-> v].on
    OBVIOUS
  <2>2. QED
    BY <1>3, <2>1
<1>6. QED
  BY <1>4, <1>5 DEF new

LEMMA StartKeeps ==
  ASSUME LaunchInv, handleStartFleetMission
  PROVE  LaunchInv'
<1>1. CASE Launches
  <2>1. starts' = starts + 1 /\ isStartingMission' = TRUE /\ forgotten' = forgotten
        /\ starting' = starting \cup {[click |-> starts + 1, on |-> v] : v \in Targets}
    BY <1>1 DEF handleStartFleetMission
  <2>2. Targets \subseteq Fliers
    BY DEF Targets, Ready, LaunchInv
  <2>3. \A s \in starting : s.click <= forgotten /\ s.click \in 1..starts /\ s.on \in Fliers
    BY DEF handleStartFleetMission, StartEnabled, LaunchInv
  <2>4. \A s \in starting' : \/ s \in starting
                             \/ s.click = starts + 1 /\ s \in [click : 1..starts', on : Fliers]
    BY <2>1, <2>2 DEF LaunchInv
  <2>5. starting' \subseteq [click : 1..starts', on : Fliers]
    BY <2>1, <2>4 DEF LaunchInv
  <2>6. OneLaunch'
    BY <2>1, <2>3, <2>4 DEF OneLaunch, LaunchInv
  <2>7. QED
    BY <1>1, <2>1, <2>5, <2>6 DEF handleStartFleetMission, LaunchInv
<1>2. CASE ~ Launches
  BY <1>2 DEF handleStartFleetMission, LaunchInv, OneLaunch
<1>3. QED
  BY <1>1, <1>2

LEMMA LaunchStepKeeps == LaunchInv /\ [LaunchNext]_launchVars => LaunchInv'
<1> SUFFICES ASSUME LaunchInv, [LaunchNext]_launchVars
             PROVE  LaunchInv'
  OBVIOUS
<1>1. CASE runPreflightChecks
  BY <1>1 DEF runPreflightChecks, LaunchInv, OneLaunch
<1>2. CASE Reopen
  <2>1. \A s \in starting : s.click \in 1..starts
    BY DEF LaunchInv
  <2>2. \A s \in starting : s.click <= starts /\ ~ (s.click > starts)
    BY <2>1 DEF LaunchInv
  <2>3. /\ forgotten' = starts /\ starts' = starts /\ starting' = starting
        /\ isStartingMission' = FALSE
    BY <1>2 DEF Reopen
  <2>4. OneLaunch' /\ \A s \in starting' : s.click <= forgotten'
    BY <2>2, <2>3 DEF OneLaunch
  <2>5. QED
    BY <1>2, <2>3, <2>4 DEF Reopen, LaunchInv
<1>3. CASE handleStartFleetMission
  BY <1>3, StartKeeps
<1>4. ASSUME NEW s \in starting, StartAnswered(s)
      PROVE  LaunchInv'
  BY <1>4 DEF StartAnswered, LaunchInv, OneLaunch
<1>5. ASSUME NEW v \in Fliers, NEW f \in Facts[v], Tells(v, f)
      PROVE  LaunchInv'
  <2>1. f \in Fact
    BY LaunchAssumption
  <2>2. QED
    BY <1>5, <2>1 DEF Tells, LaunchInv, OneLaunch
<1>6. ASSUME NEW p \in RoutePlans, Replan(p)
      PROVE  LaunchInv'
  BY <1>6, LaunchAssumption DEF Replan, LaunchInv, OneLaunch
<1>7. ASSUME NEW vs \in SUBSET Fliers, Choose(vs)
      PROVE  LaunchInv'
  BY <1>7 DEF Choose, LaunchInv, OneLaunch
<1>8. ASSUME NEW policy \in {"all_or_none", "launch_ready_only"}, setLaunchPolicy(policy)
      PROVE  LaunchInv'
  BY <1>8 DEF setLaunchPolicy, LaunchInv, OneLaunch
<1>9. ASSUME NEW policy, setTerrainFallbackPolicy(policy)
      PROVE  LaunchInv'
  BY <1>9 DEF setTerrainFallbackPolicy, LaunchInv, OneLaunch
<1>10. ASSUME NEW vs \in SUBSET Fliers, NEW p \in RoutePlans, hydrateMissionPlanningState(vs, p)
       PROVE  LaunchInv'
  BY <1>10, LaunchAssumption DEF hydrateMissionPlanningState, LaunchInv, OneLaunch
<1>11. CASE UNCHANGED launchVars
  BY <1>11 DEF launchVars, LaunchInv, OneLaunch
<1>12. QED
  BY <1>1, <1>2, <1>3, <1>4, <1>5, <1>6, <1>7, <1>8, <1>9, <1>10, <1>11 DEF LaunchNext

\* Only a click that launches sends anything.
LEMMA OnlyStartCounts ==
  ASSUME LaunchInv, [LaunchNext]_launchVars, starts' > starts
  PROVE  handleStartFleetMission /\ Launches
<1>1. starts' # starts
  BY DEF LaunchInv
<1>2. handleStartFleetMission
  BY <1>1 DEF LaunchNext, runPreflightChecks, Reopen, StartAnswered, Tells, Replan, Choose,
              setLaunchPolicy, setTerrainFallbackPolicy, hydrateMissionPlanningState, launchVars
<1>3. QED
  BY <1>1, <1>2 DEF handleStartFleetMission

-----------------------------------------------------------------------------
(* The theorems.                                                           *)

\* However the page is left and entered again, and the answers come, the commands of one
\* click at a time are on their way, for any number of vehicles and clicks
\* (MissionPlannerPage.jsx:962-973).
THEOREM LaunchesAlone == LaunchSpec => []OneLaunch
<1>1. LaunchInv => OneLaunch
  BY DEF LaunchInv
<1>2. QED
  BY <1>1, LaunchStarts, LaunchStepKeeps, PTL DEF LaunchSpec

\* Whoever is started is fit by what telemetry told at the click, and the policy is kept,
\* for any fleet, any telemetry and any route (MissionPlannerPage.jsx:822-974).
THEOREM OnlyFitVehiclesStart == LaunchSpec => LaunchedAreFit
<1> DEFINE launched == {s.on : s \in starting' \ starting}
           Fitting == starts' > starts =>
             /\ planned.valid
             /\ launched # {} /\ launched \subseteq crew
             /\ \A v \in launched : Fit(fact[v], planned)
             /\ launchPolicy = "all_or_none" => launched = crew
             /\ planned.terrain /\ terrainFallbackPolicy = "block_start" => \A v \in crew : fact[v].terrain
             /\ launchPolicy = "launch_ready_only" => \A v \in crew \ launched : ~ Fit(fact[v], planned)
<1>1. LaunchInv /\ [LaunchNext]_launchVars => [Fitting]_launchVars
  <2> SUFFICES ASSUME LaunchInv, [LaunchNext]_launchVars, starts' > starts
               PROVE  Fitting
    OBVIOUS
  <2>1. handleStartFleetMission /\ Launches
    BY OnlyStartCounts
  <2>2. launched = Targets
    BY <2>1, SentIsNew DEF handleStartFleetMission
  <2>3. planned.valid /\ Ready # {} /\ Ready \subseteq crew
    BY <2>1 DEF Launches, Ready
  <2>4. \A v \in crew : v \in Ready <=>
          /\ planned.valid /\ Fit(fact[v], planned)
          /\ terrainFallbackPolicy = "block_start" => terrainAvailable
    BY NoBlockers, FitChecks DEF Ready, LaunchInv
  <2>5. terrainFallbackPolicy = "block_start" => terrainAvailable
    BY <2>3, <2>4
  <2>6. /\ launchPolicy = "all_or_none" => Targets = crew /\ Ready = crew
        /\ launchPolicy = "launch_ready_only" => Targets = Ready
        /\ launchPolicy \in {"all_or_none", "launch_ready_only"}
    BY <2>1 DEF Targets, Launches, LaunchInv
  <2>7. planned.terrain /\ terrainFallbackPolicy = "block_start" => \A v \in crew : fact[v].terrain
    BY <2>5 DEF terrainAvailable, usesTerrainFollow
  <2> HIDE DEF launched
  <2>8. QED
    BY <2>2, <2>3, <2>4, <2>5, <2>6, <2>7
<1>2. QED
  BY <1>1, LaunchStarts, LaunchStepKeeps, PTL DEF LaunchSpec, LaunchedAreFit

-----------------------------------------------------------------------------
(***************************************************************************)
(* The API client: one request refreshes, the others wait in its queue.    *)
(***************************************************************************)

\* What the proofs use of a request, in place of the shape of Request.
LEMMA RequestFields ==
  ASSUME NEW q \in Request
  PROVE  /\ q.pc \in {"idle", "sent", "waiting", "refreshing", "ok", "rejected", "gone"}
         /\ q.login \in BOOLEAN /\ q.retry \in BOOLEAN /\ q.bearer \in BOOLEAN
         /\ q.pc \in {"idle", "waiting"} => q.retry = FALSE
         /\ q.pc = "refreshing" => q.retry = TRUE
BY DEF Request

LEMMA RequestUpdates ==
  ASSUME NEW q \in Request
  PROVE  /\ \A c \in {"sent", "ok", "rejected", "gone"} : [q EXCEPT !.pc = c] \in Request
         /\ \A c \in {"sent", "rejected"} : [q EXCEPT !.pc = c, !.retry = TRUE] \in Request
         /\ q.retry = FALSE => [q EXCEPT !.pc = "waiting"] \in Request
         /\ [q EXCEPT !.pc = "refreshing", !.retry = TRUE] \in Request
         /\ \A b \in BOOLEAN : [q EXCEPT !.pc = "sent", !.bearer = b] \in Request
         /\ \A b \in BOOLEAN : [q EXCEPT !.pc = "sent", !.login = TRUE, !.bearer = b] \in Request
BY DEF Request

LEMMA RequestsStart == Init => TypeOK
<1>1. [pc |-> "idle", login |-> FALSE, retry |-> FALSE, bearer |-> FALSE] \in Request
  BY DEF Request
<1>2. QED
  BY <1>1 DEF Init, TypeOK

\* What becomes of one request when it is sent, and of the others.
LEMMA SendEffect ==
  ASSUME req \in [Requests -> Request], tokens \in BOOLEAN, NEW r \in Requests,
         Send(r) \/ SubmitLogin(r)
  PROVE  /\ req' \in [Requests -> Request]
         /\ req'[r].pc = "sent" /\ req'[r].retry = req[r].retry
         /\ req'[r].login = (req[r].login \/ page = "auth")
         /\ \A q \in Requests \ {r} : req'[q] = req[q]
<1>1. req[r] \in Request
  OBVIOUS
<1>2. CASE Send(r)
  <2>1. req' = [req EXCEPT ![r] = [req[r] EXCEPT !.pc = "sent", !.bearer = tokens]]
    BY <1>1, <1>2 DEF Send
  <2>2. [req[r] EXCEPT !.pc = "sent", !.bearer = tokens] \in Request
    BY <1>1, RequestUpdates
  <2>3. QED
    BY <1>1, <1>2, <2>1, <2>2 DEF Send, Request
<1>3. CASE SubmitLogin(r)
  <2>1. req' = [req EXCEPT ![r] = [req[r] EXCEPT !.pc = "sent", !.login = TRUE, !.bearer = tokens]]
    BY <1>1, <1>3 DEF SubmitLogin
  <2>2. [req[r] EXCEPT !.pc = "sent", !.login = TRUE, !.bearer = tokens] \in Request
    BY <1>1, RequestUpdates
  <2>3. req'[r].pc = "sent" /\ req'[r].login = TRUE /\ req'[r].retry = req[r].retry
    BY <1>1, <2>1 DEF Request
  <2>4. page = "auth"
    BY <1>3 DEF SubmitLogin
  <2>5. req' \in [Requests -> Request] /\ \A q \in Requests \ {r} : req'[q] = req[q]
    BY <2>1, <2>2
  <2>6. QED
    BY <2>3, <2>4, <2>5
<1>4. QED
  BY <1>2, <1>3

LEMMA EndsEffect ==
  ASSUME req \in [Requests -> Request], NEW r \in Requests, NEW c, Ends(r, c)
  PROVE  /\ req' = [req EXCEPT ![r] = [req[r] EXCEPT !.pc = c]]
         /\ req'[r].pc = c /\ req'[r].login = req[r].login /\ req'[r].retry = req[r].retry
         /\ \A q \in Requests \ {r} : req'[q] = req[q]
<1>1. req[r] \in Request
  OBVIOUS
<1>2. req' = [req EXCEPT ![r] = [req[r] EXCEPT !.pc = c]]
  BY <1>1 DEF Ends
<1>3. QED
  BY <1>1, <1>2 DEF Request

\* What becomes of the requests when the refresh is answered.
LEMMA AnswerRefreshEffect ==
  ASSUME req \in [Requests -> Request], NEW r \in Requests, AnswerRefresh(r)
  PROVE  /\ req' \in [Requests -> Request]
         /\ \A q \in Requests : /\ req'[q].login = req[q].login
                               /\ req'[q].retry = req[q].retry
         /\ \A q \in failedQueue \cup {r} :
              q \in Requests => req'[q].pc = IF Refreshed(r) THEN "sent" ELSE "rejected"
         /\ \A q \in Requests : q \notin failedQueue \cup {r} => req'[q] = req[q]
<1>1. \A q \in Requests : req[q] \in Request
  OBVIOUS
<1>2. CASE Refreshed(r)
  <2>1. \A q \in Requests : req'[q] = IF q \in failedQueue \cup {r}
          THEN [req[q] EXCEPT !.pc = "sent", !.bearer = TRUE] ELSE req[q]
    BY <1>2 DEF Refreshed
  <2>2. \A q \in Requests : [req[q] EXCEPT !.pc = "sent", !.bearer = TRUE] \in Request
    BY <1>1, RequestUpdates
  <2>3. req' \in [Requests -> Request]
    BY <1>1, <1>2, <2>2 DEF Refreshed
  <2>4. \A q \in Requests : /\ req'[q].login = req[q].login /\ req'[q].retry = req[q].retry
                            /\ q \in failedQueue \cup {r} => req'[q].pc = "sent"
                            /\ q \notin failedQueue \cup {r} => req'[q] = req[q]
    BY ZenonT(40), <1>1, <2>1 DEF Request
  <2>5. QED
    BY <1>2, <2>3, <2>4
<1>3. CASE RefreshFails(r) /\ ~ Refreshed(r)
  <2>1. \A q \in Requests : req'[q] = IF q \in failedQueue \cup {r}
          THEN [req[q] EXCEPT !.pc = "rejected"] ELSE req[q]
    BY <1>3 DEF RefreshFails
  <2>2. \A q \in Requests : [req[q] EXCEPT !.pc = "rejected"] \in Request
    BY <1>1, RequestUpdates
  <2>3. req' \in [Requests -> Request]
    BY <1>1, <1>3, <2>2 DEF RefreshFails
  <2>4. QED
    BY ZenonT(60), <1>1, <1>3, <2>1, <2>3 DEF Request
<1>4. QED
  BY <1>2, <1>3 DEF AnswerRefresh

LEMMA RequestsKeepTypes == TypeOK /\ [Next]_vars => TypeOK'
<1> SUFFICES ASSUME TypeOK, [Next]_vars
             PROVE  TypeOK'
  OBVIOUS
<1>1. req \in [Requests -> Request] /\ tokens \in BOOLEAN /\ failedQueue \subseteq Requests
      /\ isRefreshing \in BOOLEAN /\ page \in {"auth", "app", "leaving"}
  BY DEF TypeOK
<1>2. CASE UNCHANGED vars
  BY <1>2 DEF vars, TypeOK
<1>3. CASE Reload
  <2>1. req' \in [Requests -> Request]
    BY <1>1, <1>3, RequestUpdates DEF Reload
  <2>2. QED
    BY <1>1, <1>3, <2>1 DEF Reload, TypeOK
<1>4. ASSUME NEW r \in Requests, Send(r) \/ SubmitLogin(r)
      PROVE  TypeOK'
  <2>1. req' \in [Requests -> Request]
    BY <1>1, <1>4, SendEffect
  <2>2. QED
    BY <1>1, <1>4, <2>1 DEF Send, SubmitLogin, TypeOK
<1>5. ASSUME NEW r \in Requests, Answer(r)
      PROVE  TypeOK'
  <2>1. req[r] \in Request /\ req[r].retry \in BOOLEAN
    BY <1>1, RequestFields
  <2>2. req' \in [Requests -> Request]
    <3>1. CASE Succeed(r) \/ LoggedIn(r) \/ Fail(r) \/ RejectAgain(r)
      <4>1. Ends(r, "ok") \/ Ends(r, "rejected")
        BY <3>1 DEF Succeed, LoggedIn, Fail, RejectAgain
      <4>2. [req[r] EXCEPT !.pc = "ok"] \in Request /\ [req[r] EXCEPT !.pc = "rejected"] \in Request
        BY <2>1, RequestUpdates
      <4>3. QED
        BY <1>1, <4>1, <4>2 DEF Ends
    <3>2. CASE Wait(r)
      <4>1. req[r].retry = FALSE
        BY <2>1, <3>2 DEF Wait
      <4>2. [req[r] EXCEPT !.pc = "waiting"] \in Request
        BY ZenonT(40), <2>1, <4>1, RequestUpdates
      <4>3. QED
        BY <1>1, <3>2, <4>2 DEF Wait, Ends
    <3>3. CASE GiveUp(r)
      BY ZenonT(40), <1>1, <3>3, RequestUpdates DEF GiveUp
    <3>4. CASE Refresh(r)
      BY <1>1, <3>4, RequestUpdates DEF Refresh
    <3>5. QED
      BY <1>5, <3>1, <3>2, <3>3, <3>4 DEF Answer, Handle401
  <2>3. QED
    BY <1>1, <1>5, <2>2 DEF Answer, Handle401, Succeed, LoggedIn, Fail, RejectAgain, Wait,
                            GiveUp, Refresh, RedirectToLogin, TypeOK
<1>6. ASSUME NEW r \in Requests, AnswerRefresh(r)
      PROVE  TypeOK'
  <2>1. req' \in [Requests -> Request]
    BY <1>1, <1>6, AnswerRefreshEffect
  <2>2. QED
    BY <1>1, <1>6, <2>1 DEF AnswerRefresh, Refreshed, RefreshFails, RedirectToLogin, TypeOK
<1>7. QED
  BY <1>2, <1>3, <1>4, <1>5, <1>6 DEF Next

\* Requests, queue, flag and tokens keep their types: who waits may still
\* refresh, who refreshes may not again.
THEOREM TypeCorrect == Spec => []TypeOK
BY RequestsStart, RequestsKeepTypes, PTL DEF Spec

-----------------------------------------------------------------------------
LEMMA OneRefreshNext == TypeOK /\ OneRefresh /\ [Next]_vars => OneRefresh'
<1> SUFFICES ASSUME TypeOK, OneRefresh, [Next]_vars
             PROVE  OneRefresh'
  OBVIOUS
<1>1. req \in [Requests -> Request]
  BY DEF TypeOK
<1>2. ASSUME isRefreshing' = isRefreshing,
             \A q \in Requests : req'[q].pc = "refreshing" => req[q].pc = "refreshing"
      PROVE  OneRefresh'
  BY <1>2 DEF OneRefresh, At
<1>3. ASSUME \A q \in Requests : req'[q].pc # "refreshing"
      PROVE  OneRefresh'
  BY <1>3 DEF OneRefresh, At
<1>4. CASE UNCHANGED vars
  BY <1>2, <1>4 DEF vars
<1>5. CASE Reload
  <2>1. \A q \in Requests : req'[q].pc # "refreshing"
    BY <1>1, <1>5, RequestFields DEF Reload, Request
  <2>2. QED
    BY <1>3, <2>1
<1>6. ASSUME NEW r \in Requests, Send(r) \/ SubmitLogin(r)
      PROVE  OneRefresh'
  <2>1. req'[r].pc = "sent" /\ \A q \in Requests \ {r} : req'[q] = req[q]
    BY <1>1, <1>6, SendEffect DEF TypeOK
  <2>2. QED
    BY <1>2, <1>6, <2>1 DEF Send, SubmitLogin
<1>7. ASSUME NEW r \in Requests, Answer(r)
      PROVE  OneRefresh'
  <2>1. req[r] \in Request
    BY <1>1
  <2>2. CASE Succeed(r) \/ LoggedIn(r) \/ Fail(r) \/ RejectAgain(r) \/ Wait(r)
    <3>1. \E c \in {"ok", "rejected", "waiting"} : Ends(r, c)
      BY <2>2 DEF Succeed, LoggedIn, Fail, RejectAgain, Wait
    <3>2. \A q \in Requests : req'[q].pc = "refreshing" => req[q].pc = "refreshing"
      BY <1>1, <3>1, EndsEffect
    <3>3. QED
      BY <1>2, <2>2, <3>2 DEF Succeed, LoggedIn, Fail, RejectAgain, Wait
  <2>3. CASE GiveUp(r)
    <3>1. At("refreshing") = {}
      BY <2>3 DEF GiveUp, OneRefresh
    <3>2. req'[r].pc = "rejected" /\ \A q \in Requests \ {r} : req'[q] = req[q]
      BY <1>1, <2>1, <2>3 DEF GiveUp, Request
    <3>3. QED
      BY <1>3, <3>1, <3>2 DEF At
  <2>4. CASE Refresh(r)
    <3>1. At("refreshing") = {}
      BY <2>4 DEF Refresh, OneRefresh
    <3>2. isRefreshing' /\ \A q \in Requests \ {r} : req'[q] = req[q]
      BY <1>1, <2>4 DEF Refresh
    <3>3. \A q \in Requests : req'[q].pc = "refreshing" => q = r
      BY <3>1, <3>2 DEF At
    <3>4. QED
      BY <3>2, <3>3 DEF OneRefresh, At
  <2>5. QED
    BY <1>7, <2>2, <2>3, <2>4 DEF Answer, Handle401
<1>8. ASSUME NEW r \in Requests, AnswerRefresh(r)
      PROVE  OneRefresh'
  <2>1. \A q \in Requests : req[q].pc = "refreshing" => q = r
    BY <1>8 DEF AnswerRefresh, Refreshed, RefreshFails, OneRefresh, At
  <2>2. \A q \in Requests : /\ q \in failedQueue \cup {r} => req'[q].pc \in {"sent", "rejected"}
                            /\ q \notin failedQueue \cup {r} => req'[q] = req[q]
    BY <1>1, <1>8, AnswerRefreshEffect
  <2>3. QED
    BY <1>3, <2>1, <2>2
<1>9. QED
  BY <1>4, <1>5, <1>6, <1>7, <1>8 DEF Next

\* One request refreshes at a time, however many are refused
\* (client.js:62-75).
THEOREM RefreshesAlone == Spec => []OneRefresh
<1>1. Init => OneRefresh
  BY DEF Init, OneRefresh, At
<1>2. QED
  BY <1>1, OneRefreshNext, TypeCorrect, PTL DEF Spec

-----------------------------------------------------------------------------
(* What each kind of step makes of the requests, in one place.             *)

LEMMA Effects ==
  ASSUME req \in [Requests -> Request], NEW r \in Requests
  PROVE  /\ GiveUp(r) => /\ req'[r].pc = "rejected" /\ req'[r].login = req[r].login
                         /\ req'[r].retry = TRUE
                         /\ \A q \in Requests \ {r} : req'[q] = req[q]
         /\ Refresh(r) => /\ req'[r].pc = "refreshing" /\ req'[r].login = req[r].login
                          /\ req'[r].retry = TRUE
                          /\ \A q \in Requests \ {r} : req'[q] = req[q]
         /\ Reload => /\ req'[r].pc \in {"idle", "ok", "rejected", "gone"}
                      /\ req'[r].login = req[r].login /\ req'[r].retry = req[r].retry
                      /\ req'[r].pc = "idle" => req[r].pc = "idle"
<1>1. req[r] \in Request
  OBVIOUS
<1>2. CASE GiveUp(r) \/ Refresh(r)
  <2>1. \E c \in {"rejected", "refreshing"} :
          /\ req' = [req EXCEPT ![r] = [req[r] EXCEPT !.pc = c, !.retry = TRUE]]
          /\ GiveUp(r) => c = "rejected"
          /\ Refresh(r) => c = "refreshing"
    <3>1. CASE GiveUp(r)
      <4>1. ~ Refresh(r)
        BY <3>1 DEF GiveUp, Refresh
      <4>2. req' = [req EXCEPT ![r] = [req[r] EXCEPT !.pc = "rejected", !.retry = TRUE]]
        BY <1>1, <3>1 DEF GiveUp
      <4>3. QED
        BY <4>1, <4>2
    <3>2. CASE Refresh(r)
      <4>1. ~ GiveUp(r)
        BY <3>2 DEF GiveUp, Refresh
      <4>2. req' = [req EXCEPT ![r] = [req[r] EXCEPT !.pc = "refreshing", !.retry = TRUE]]
        BY <1>1, <3>2 DEF Refresh
      <4>3. QED
        BY <4>1, <4>2
    <3>3. QED
      BY <1>2, <3>1, <3>2
  <2>2. PICK c \in {"rejected", "refreshing"} :
          /\ req' = [req EXCEPT ![r] = [req[r] EXCEPT !.pc = c, !.retry = TRUE]]
          /\ GiveUp(r) => c = "rejected"
          /\ Refresh(r) => c = "refreshing"
    BY <2>1
  <2>3. /\ req'[r].pc = c /\ req'[r].login = req[r].login /\ req'[r].retry = TRUE
        /\ \A q \in Requests \ {r} : req'[q] = req[q]
    BY <1>1, <2>2 DEF Request
  <2>4. ~ Reload
    BY <1>2, <2>3 DEF Reload, GiveUp, Refresh, Unauthorized
  <2>5. QED
    BY <2>2, <2>3, <2>4
<1>3. CASE Reload /\ ~ GiveUp(r) /\ ~ Refresh(r)
  <2>1. req'[r] = IF req[r].pc \in {"sent", "waiting", "refreshing"}
                  THEN [req[r] EXCEPT !.pc = "gone"] ELSE req[r]
    BY <1>3 DEF Reload
  <2>2. QED
    BY <1>1, <1>3, <2>1 DEF Request
<1>4. QED
  BY <1>2, <1>3

-----------------------------------------------------------------------------
(* No request refreshes twice.                                             *)

LEMMA RetryKept ==
  ASSUME TypeOK, [Next]_vars, NEW r \in Requests, req[r].retry \/ req[r].pc = "refreshing"
  PROVE  req'[r].retry /\ (req'[r].pc = "refreshing" => req[r].pc = "refreshing")
<1>1. req \in [Requests -> Request] /\ req[r] \in Request /\ req[r].retry = TRUE
  BY RequestFields DEF TypeOK
<1>2. CASE UNCHANGED vars
  BY <1>1, <1>2 DEF vars
<1>3. CASE Reload
  BY <1>1, <1>3, Effects
<1>4. ASSUME NEW q \in Requests, Send(q) \/ SubmitLogin(q)
      PROVE  req'[r].retry /\ (req'[r].pc = "refreshing" => req[r].pc = "refreshing")
  <2>1. q # r
    BY <1>1, <1>4, RequestFields DEF Send, SubmitLogin
  <2>2. req'[r] = req[r]
    BY <1>1, <1>4, <2>1, SendEffect DEF TypeOK
  <2>3. QED
    BY <1>1, <2>2
<1>5. ASSUME NEW q \in Requests, Answer(q)
      PROVE  req'[r].retry /\ (req'[r].pc = "refreshing" => req[r].pc = "refreshing")
  <2>1. CASE Succeed(q) \/ LoggedIn(q) \/ Fail(q) \/ RejectAgain(q) \/ Wait(q)
    <3>1. \E c \in {"ok", "rejected", "waiting"} : Ends(q, c)
      BY <2>1 DEF Succeed, LoggedIn, Fail, RejectAgain, Wait
    <3>2. QED
      BY <1>1, <3>1, EndsEffect
  <2>2. CASE GiveUp(q) \/ Refresh(q)
    <3>1. q # r
      BY <1>1, <2>2 DEF GiveUp, Refresh
    <3>2. req'[r] = req[r]
      BY <1>1, <2>2, <3>1, Effects
    <3>3. QED
      BY <1>1, <3>2
  <2>3. QED
    BY <1>5, <2>1, <2>2 DEF Answer, Handle401
<1>6. ASSUME NEW q \in Requests, AnswerRefresh(q)
      PROVE  req'[r].retry /\ (req'[r].pc = "refreshing" => req[r].pc = "refreshing")
  <2>1. /\ req'[r].retry = req[r].retry
        /\ req'[r].pc \in {"sent", "rejected"} \/ req'[r] = req[r]
    BY <1>1, <1>6, AnswerRefreshEffect
  <2>2. QED
    BY <1>1, <2>1
<1>7. QED
  BY <1>2, <1>3, <1>4, <1>5, <1>6 DEF Next

\* A server that refuses a request over and over is asked for a new token
\* once on its behalf (client.js:62, 74).
THEOREM RefreshesOnce == Spec => NoRefreshLoop
<1>1. TypeOK /\ [Next]_vars =>
        \A r \in Requests : req[r].retry \/ req[r].pc = "refreshing" =>
          req'[r].retry /\ (req'[r].pc = "refreshing" => req[r].pc = "refreshing")
  BY RetryKept
<1>2. QED
  BY <1>1, TypeCorrect, PTL DEF Spec, NoRefreshLoop

-----------------------------------------------------------------------------
(* Who waits is served, until a login is refused.                          *)

Queued == failedQueue = At("waiting") /\ (failedQueue # {} => isRefreshing)

\* The flag is set for somebody.
Attended ==
  /\ isRefreshing => At("refreshing") # {} \/ page = "leaving"
  /\ page = "app" => tokens

\* On the sign-in pages there are logins only, one at a time, and none elsewhere.
LoginsApart ==
  /\ \A r \in Requests : req[r].login => req[r].pc \in {"sent", "ok", "rejected", "gone"}
  /\ \A r \in Requests : Open(r) => (req[r].login <=> page = "auth")
  /\ \A q, r \in Requests : Open(q) /\ Open(r) /\ page = "auth" => q = r

\* It is not forgotten.
LEMMA RefusalStays ==
  ASSUME TypeOK, [Next]_vars, LoginUnauthorized
  PROVE  LoginUnauthorized'
<1>1. PICK r \in Requests : req[r].login /\ req[r].retry
  BY DEF LoginUnauthorized
<1>2. req'[r].retry
  BY <1>1, RetryKept
<1>3. req'[r].login
  <2>1. req \in [Requests -> Request] /\ tokens \in BOOLEAN
    BY DEF TypeOK
  <2>2. CASE UNCHANGED vars
    BY <1>1, <2>2 DEF vars
  <2>3. CASE Reload
    BY <1>1, <2>1, <2>3, Effects
  <2>4. ASSUME NEW q \in Requests, Send(q) \/ SubmitLogin(q)
        PROVE  req'[r].login
    <3>1. CASE q = r
      BY <1>1, <2>1, <2>4, <3>1, SendEffect
    <3>2. CASE q # r
      BY <1>1, <2>1, <2>4, <3>2, SendEffect
    <3>3. QED
      BY <3>1, <3>2
  <2>5. ASSUME NEW q \in Requests, NEW c \in {"ok", "rejected", "waiting"}, Ends(q, c)
        PROVE  req'[r].login
    BY <1>1, <2>1, <2>5, EndsEffect
  <2>6. ASSUME NEW q \in Requests, GiveUp(q) \/ Refresh(q)
        PROVE  req'[r].login
    BY <1>1, <2>1, <2>6, Effects
  <2>7. ASSUME NEW q \in Requests, AnswerRefresh(q)
        PROVE  req'[r].login
    BY <1>1, <2>1, <2>7, AnswerRefreshEffect
  <2>8. QED
    BY <2>2, <2>3, <2>4, <2>5, <2>6, <2>7
       DEF Next, Answer, Handle401, Succeed, LoggedIn, Fail, RejectAgain, Wait
<1>4. QED
  BY <1>2, <1>3 DEF LoginUnauthorized

\* So a 401 comes away from them, or is the first refusal of a login.
LEMMA RefusedAwayFromLogin ==
  ASSUME TypeOK, Attended, LoginsApart, ~ LoginUnauthorized, ~ LoginUnauthorized',
         NEW r \in Requests, Handle401(r) \/ AnswerRefresh(r)
  PROVE  page # "auth" /\ Open(r) /\ req[r].login = FALSE
<1>1. req \in [Requests -> Request] /\ req[r].login \in BOOLEAN
  BY RequestFields DEF TypeOK
<1>2. CASE Handle401(r)
  <2>1. req[r].pc = "sent" /\ Open(r)
    BY <1>2 DEF Handle401, RejectAgain, Wait, GiveUp, Refresh, Unauthorized, Open
  <2>2. ASSUME req[r].login
        PROVE  FALSE
    <3>1. page = "auth"
      BY <2>1, <2>2 DEF LoginsApart
    <3>2. CASE RejectAgain(r)
      BY <2>2, <3>2 DEF RejectAgain, LoginUnauthorized
    <3>3. CASE Wait(r)
      <4>1. PICK q \in Requests : req[q].pc = "refreshing"
        BY <3>1, <3>3 DEF Wait, Attended, At
      <4>2. req[q].login /\ req[q].retry
        BY <1>1, <3>1, <4>1 DEF LoginsApart, Open, Request
      <4>3. QED
        BY <4>2 DEF LoginUnauthorized
    <3>4. CASE GiveUp(r) \/ Refresh(r)
      <4>1. req'[r].login /\ req'[r].retry
        BY <1>1, <2>2, <3>4, Effects
      <4>2. QED
        BY <4>1 DEF LoginUnauthorized
    <3>5. QED
      BY <1>2, <3>2, <3>3, <3>4 DEF Handle401
  <2>3. QED
    BY <1>1, <2>1, <2>2 DEF LoginsApart
<1>3. CASE AnswerRefresh(r)
  BY <1>1, <1>3 DEF AnswerRefresh, Refreshed, RefreshFails, Open, LoginsApart
<1>4. QED
  BY <1>2, <1>3

LEMMA LoginsApartNext ==
  ASSUME TypeOK, Queued, Attended, LoginsApart, ~ LoginUnauthorized, ~ LoginUnauthorized', [Next]_vars
  PROVE  LoginsApart'
<1>1. /\ req \in [Requests -> Request]
      /\ \A r \in Requests : req[r] \in Request /\ req[r].login \in BOOLEAN
  BY RequestFields DEF TypeOK
<1>2. CASE UNCHANGED vars
  BY <1>2 DEF vars, LoginsApart, Open
<1>3. CASE Reload
  <2>1. \A r \in Requests : /\ req'[r].pc \in {"idle", "ok", "rejected", "gone"}
                            /\ req'[r].login = req[r].login
                            /\ req'[r].pc = "idle" => req[r].pc = "idle"
    BY <1>1, <1>3, Effects
  <2>2. QED
    BY <2>1 DEF LoginsApart, Open
<1>4. ASSUME NEW r \in Requests, Send(r) \/ SubmitLogin(r)
      PROVE  LoginsApart'
  <2>1. /\ req'[r].pc = "sent" /\ req'[r].login = (req[r].login \/ page = "auth")
        /\ \A q \in Requests \ {r} : req'[q] = req[q]
    BY <1>1, <1>4, SendEffect DEF TypeOK
  <2>2. page' = page /\ req[r].login = FALSE
    BY <1>1, <1>4 DEF Send, SubmitLogin, LoginsApart
  <2>3. page = "auth" => \A q \in Requests : ~ Open(q)
    BY <1>4 DEF Send, SubmitLogin, LoginsApart, Open
  <2>4. QED
    BY <2>1, <2>2, <2>3 DEF LoginsApart, Open
<1>5. ASSUME NEW r \in Requests, Succeed(r) \/ LoggedIn(r) \/ Fail(r) \/ RejectAgain(r)
      PROVE  LoginsApart'
  <2>1. PICK c \in {"ok", "rejected"} : Ends(r, c)
    BY <1>5 DEF Succeed, LoggedIn, Fail, RejectAgain
  <2>2. /\ req'[r].pc = c /\ req'[r].login = req[r].login
        /\ \A q \in Requests \ {r} : req'[q] = req[q]
    BY <1>1, <2>1, EndsEffect
  <2>3. page' = page \/ \A q \in Requests \ {r} : ~ Open(q)
    BY <1>5 DEF Succeed, LoggedIn, Fail, RejectAgain, LoginsApart, Open
  <2>4. QED
    BY <2>2, <2>3 DEF LoginsApart, Open
<1>6. ASSUME NEW r \in Requests, Wait(r) \/ GiveUp(r) \/ Refresh(r)
      PROVE  LoginsApart'
  <2>1. page # "auth" /\ req[r].login = FALSE
    BY <1>6, RefusedAwayFromLogin DEF Handle401
  <2>2. req'[r].login = req[r].login /\ \A q \in Requests \ {r} : req'[q] = req[q]
    BY <1>1, <1>6, Effects, EndsEffect DEF Wait
  <2>3. page' # "auth"
    BY <1>6, <2>1 DEF Wait, GiveUp, Refresh, RedirectToLogin
  <2>4. QED
    BY <2>1, <2>2, <2>3 DEF LoginsApart, Open
<1>7. ASSUME NEW r \in Requests, AnswerRefresh(r)
      PROVE  LoginsApart'
  <2>1. page # "auth"
    BY <1>7, RefusedAwayFromLogin
  <2>2. page' # "auth"
    BY <1>7, <2>1 DEF AnswerRefresh, Refreshed, RefreshFails, RedirectToLogin
  <2>3. /\ \A q \in Requests : req'[q].login = req[q].login
        /\ \A q \in failedQueue \cup {r} :
             q \in Requests => req'[q].pc \in {"sent", "rejected"}
        /\ \A q \in Requests : q \notin failedQueue \cup {r} => req'[q] = req[q]
    BY <1>1, <1>7, AnswerRefreshEffect
  <2>4. \A q \in Requests : q \in failedQueue \cup {r} => Open(q)
    BY <1>7 DEF AnswerRefresh, Refreshed, RefreshFails, Queued, At, Open
  <2>5. QED
    BY <2>1, <2>2, <2>3, <2>4 DEF LoginsApart, Open
<1>8. QED
  BY <1>2, <1>3, <1>4, <1>5, <1>6, <1>7 DEF Next, Answer, Handle401

LEMMA QueuedNext ==
  ASSUME TypeOK, Queued, [Next]_vars
  PROVE  Queued'
<1>1. /\ req \in [Requests -> Request]
      /\ \A r \in Requests : req[r] \in Request
  BY DEF TypeOK
<1>2. CASE UNCHANGED vars
  BY <1>2 DEF vars, Queued, At
<1>3. CASE Reload
  <2>1. \A r \in Requests : req'[r].pc \in {"idle", "ok", "rejected", "gone"}
    BY <1>1, <1>3, Effects
  <2>2. QED
    BY <1>3, <2>1 DEF Reload, Queued, At
<1>4. ASSUME NEW r \in Requests, Send(r) \/ SubmitLogin(r)
      PROVE  Queued'
  <2>1. req[r].pc = "idle" /\ req'[r].pc = "sent" /\ \A q \in Requests \ {r} : req'[q] = req[q]
    BY <1>1, <1>4, SendEffect DEF TypeOK, Send, SubmitLogin
  <2>2. At("waiting")' = At("waiting") 
    BY <2>1 DEF At
  <2>3. QED
    BY <1>4, <2>2 DEF Send, SubmitLogin, Queued
<1>5. ASSUME NEW r \in Requests, Succeed(r) \/ LoggedIn(r) \/ Fail(r) \/ RejectAgain(r)
      PROVE  Queued'
  <2>1. PICK c \in {"ok", "rejected"} : Ends(r, c)
    BY <1>5 DEF Succeed, LoggedIn, Fail, RejectAgain
  <2>2. req[r].pc = "sent" /\ req'[r].pc = c /\ \A q \in Requests \ {r} : req'[q] = req[q]
    BY <1>1, <1>5, <2>1, EndsEffect DEF Succeed, LoggedIn, Fail, RejectAgain, Unauthorized
  <2>3. At("waiting")' = At("waiting") 
    BY <2>2 DEF At
  <2>4. QED
    BY <1>5, <2>3 DEF Succeed, LoggedIn, Fail, RejectAgain, Queued
<1>6. ASSUME NEW r \in Requests, Wait(r)
      PROVE  Queued'
  <2>1. req[r].pc = "sent" /\ req'[r].pc = "waiting" /\ \A q \in Requests \ {r} : req'[q] = req[q]
    BY <1>1, <1>6, EndsEffect DEF Wait, Unauthorized
  <2>2. At("waiting")' = At("waiting") \cup {r} 
    BY <2>1 DEF At
  <2>3. QED
    BY <1>6, <2>2 DEF Wait, Queued
<1>7. ASSUME NEW r \in Requests, GiveUp(r) \/ Refresh(r)
      PROVE  Queued'
  <2>1. /\ req[r].pc = "sent"
        /\ GiveUp(r) => req'[r].pc = "rejected"
        /\ Refresh(r) => req'[r].pc = "refreshing"
        /\ \A q \in Requests \ {r} : req'[q] = req[q]
    BY <1>1, <1>7, Effects DEF GiveUp, Refresh, Unauthorized
  <2>2. At("waiting")' = At("waiting")
    BY <1>7, <2>1 DEF At
  <2>3. isRefreshing' /\ failedQueue' = failedQueue
    BY <1>7 DEF GiveUp, Refresh
  <2>4. QED
    BY <2>2, <2>3 DEF Queued
<1>8. ASSUME NEW r \in Requests, AnswerRefresh(r)
      PROVE  Queued'
  <2>1. \A q \in Requests : /\ q \in failedQueue \cup {r} => req'[q].pc \in {"sent", "rejected"}
                            /\ q \notin failedQueue \cup {r} => req'[q] = req[q]
    BY <1>1, <1>8, AnswerRefreshEffect
  <2>2. \A q \in Requests : req'[q].pc # "waiting"
    BY <2>1 DEF Queued, At
  <2>3. failedQueue' = {} /\ ~ isRefreshing' /\ At("waiting")' = {}
    BY <1>8, <2>2 DEF AnswerRefresh, Refreshed, RefreshFails, At
  <2>4. QED
    BY <2>3 DEF Queued
<1>9. QED
  BY <1>2, <1>3, <1>4, <1>5, <1>6, <1>7, <1>8 DEF Next, Answer, Handle401

LEMMA AttendedNext ==
  ASSUME TypeOK, OneRefresh, LoginsApart, Attended, ~ LoginUnauthorized, ~ LoginUnauthorized', [Next]_vars
  PROVE  Attended'
<1>1. /\ req \in [Requests -> Request]
      /\ \A r \in Requests : req[r] \in Request
  BY DEF TypeOK
<1>2. CASE UNCHANGED vars
  BY <1>2 DEF vars, Attended, At
<1>3. CASE Reload
  <2>1. \A r \in Requests : req'[r].pc \in {"idle", "ok", "rejected", "gone"}
    BY <1>1, <1>3, Effects
  <2>2. QED
    BY <1>3, <2>1 DEF Reload, Attended, At
<1>4. ASSUME NEW r \in Requests, Send(r) \/ SubmitLogin(r)
      PROVE  Attended'
  <2>1. req[r].pc = "idle" /\ req'[r].pc = "sent" /\ \A q \in Requests \ {r} : req'[q] = req[q]
    BY <1>1, <1>4, SendEffect DEF TypeOK, Send, SubmitLogin
  <2>2. At("refreshing")' = At("refreshing")
    BY <2>1 DEF At
  <2>3. QED
    BY <1>4, <2>2 DEF Send, SubmitLogin, Attended
<1>5. ASSUME NEW r \in Requests, Succeed(r) \/ LoggedIn(r) \/ Fail(r) \/ RejectAgain(r)
      PROVE  Attended'
  <2>1. PICK c \in {"ok", "rejected"} : Ends(r, c)
    BY <1>5 DEF Succeed, LoggedIn, Fail, RejectAgain
  <2>2. req[r].pc = "sent" /\ req'[r].pc = c /\ \A q \in Requests \ {r} : req'[q] = req[q]
    BY <1>1, <1>5, <2>1, EndsEffect DEF Succeed, LoggedIn, Fail, RejectAgain, Unauthorized
  <2>3. At("refreshing")' = At("refreshing")
    BY <2>2 DEF At
  <2>4. CASE LoggedIn(r)
    \* The login was the one open request: nobody refreshes or waits.
    <3>1. page = "auth" /\ At("refreshing") = {}
      BY <2>2, <2>4 DEF LoggedIn, LoginsApart, Open, At
    <3>2. ~ isRefreshing
      BY <3>1 DEF Attended
    <3>3. QED
      BY <2>3, <2>4, <3>2 DEF LoggedIn, Attended
  <2>5. CASE ~ LoggedIn(r)
    BY <1>5, <2>3, <2>5 DEF Succeed, Fail, RejectAgain, Attended
  <2>6. QED
    BY <2>4, <2>5
<1>6. ASSUME NEW r \in Requests, Wait(r)
      PROVE  Attended'
  <2>1. req[r].pc = "sent" /\ req'[r].pc = "waiting" /\ \A q \in Requests \ {r} : req'[q] = req[q]
    BY <1>1, <1>6, EndsEffect DEF Wait, Unauthorized
  <2>2. At("refreshing")' = At("refreshing")
    BY <2>1 DEF At
  <2>3. QED
    BY <1>6, <2>2 DEF Wait, Attended
<1>7. ASSUME NEW r \in Requests, GiveUp(r) \/ Refresh(r)
      PROVE  Attended'
  <2>1. /\ req[r].pc = "sent"
        /\ GiveUp(r) => req'[r].pc = "rejected"
        /\ Refresh(r) => req'[r].pc = "refreshing"
        /\ \A q \in Requests \ {r} : req'[q] = req[q]
    BY <1>1, <1>7, Effects DEF GiveUp, Refresh, Unauthorized
  <2>3. isRefreshing' /\ tokens' = tokens
    BY <1>7 DEF GiveUp, Refresh
  <2>4. CASE GiveUp(r)
    <3>1. page' = "leaving"
      BY <2>4, RefusedAwayFromLogin DEF Handle401, GiveUp, RedirectToLogin
    <3>2. QED
      BY <2>3, <3>1 DEF Attended
  <2>5. CASE Refresh(r)
    <3>1. r \in At("refreshing")'
      BY <2>1, <2>5 DEF At
    <3>2. QED
      BY <2>3, <2>5, <3>1 DEF Refresh, Attended
  <2>6. QED
    BY <1>7, <2>4, <2>5
<1>8. ASSUME NEW r \in Requests, AnswerRefresh(r)
      PROVE  Attended'
  BY <1>8 DEF AnswerRefresh, Refreshed, RefreshFails, RedirectToLogin, Attended
<1>9. QED
  BY <1>2, <1>3, <1>4, <1>5, <1>6, <1>7, <1>8 DEF Next, Answer, Handle401

\* However many requests are refused, and whenever, who waits for a refresh is in the
\* queue of one that is under way, or of a page that is about to be left, until a login
\* is refused (client.js:63-72, 91, 95).  api_login shows what that does to it.
THEOREM NobodyWaitsInVain == Spec => []WaitersAreServed
<1> DEFINE Inv == Queued /\ (LoginUnauthorized \/ (Attended /\ LoginsApart))
<1>1. Init => Inv
  BY DEF Init, Queued, Attended, LoginsApart, At, Open
<1>2. TypeOK /\ OneRefresh /\ Inv /\ [Next]_vars => Inv'
  BY QueuedNext, AttendedNext, LoginsApartNext, RefusalStays
<1>3. Inv => WaitersAreServed
  BY DEF Queued, Attended, WaitersAreServed
<1>4. QED
  BY <1>1, <1>2, <1>3, TypeCorrect, RefreshesAlone, PTL DEF Spec

\* Both: however many requests of a page are refused, one refresh serves them all, until a
\* login is refused (client.js:62-103).
THEOREM RefreshesForAll == Spec => []RefreshIsShared
<1>1. OneRefresh /\ WaitersAreServed => RefreshIsShared
  BY DEF RefreshIsShared
<1>2. QED
  BY <1>1, NobodyWaitsInVain, RefreshesAlone, PTL

-----------------------------------------------------------------------------
(***************************************************************************)
(* The types of the parts, where the invariants above leave some open.     *)
(***************************************************************************)

(* The launch and the commands.                                            *)

\* Of the vehicles to launch some are ready.
LEMMA CheckedCounts ==
  ASSUME crew \subseteq Fliers, Checked
  PROVE  readinessSummary' \in [ready : 0..Cardinality(Fliers), total : 0..Cardinality(Fliers)]
<1>1. Ready \in SUBSET Fliers /\ crew \in SUBSET Fliers /\ IsFiniteSet(Fliers)
  BY LaunchAssumption DEF Ready
<1>2. Cardinality(Ready) \in 0..Cardinality(Fliers) /\ Cardinality(crew) \in 0..Cardinality(Fliers)
  BY <1>1, FS_Subset, FS_CardinalityType
<1>3. QED
  BY <1>2 DEF Checked

LEMMA UncheckedCounts ==
  Unchecked \in [ready : 0..Cardinality(Fliers), total : 0..Cardinality(Fliers)]
<1>1. Cardinality(Fliers) \in Nat
  BY LaunchAssumption, FS_CardinalityType
<1>2. QED
  BY <1>1 DEF Unchecked

LEMMA LaunchTypeStarts == LaunchInit => LaunchTypeOK
<1> SUFFICES ASSUME LaunchInit
             PROVE  LaunchTypeOK
  OBVIOUS
<1>1. readinessSummary \in [ready : 0..Cardinality(Fliers), total : 0..Cardinality(Fliers)]
  BY UncheckedCounts DEF LaunchInit
<1>2. starts \in 0..MaxStarts /\ forgotten \in 0..starts
  BY LaunchAssumption DEF LaunchInit
<1>3. QED
  BY <1>1, <1>2 DEF LaunchInit, LaunchTypeOK

LEMMA LaunchTypeKept ==
  ASSUME LaunchInv, LaunchTypeOK, [LaunchNext]_launchVars
  PROVE  LaunchTypeOK'
<1>1. CASE runPreflightChecks
  BY <1>1, CheckedCounts DEF runPreflightChecks, LaunchTypeOK
<1>2. CASE Reopen
  <2>1. readinessSummary' \in [ready : 0..Cardinality(Fliers), total : 0..Cardinality(Fliers)]
    BY <1>2, UncheckedCounts DEF Reopen
  <2>2. forgotten' \in 0..starts
    BY <1>2, LaunchAssumption DEF Reopen, LaunchTypeOK
  <2>3. QED
    BY <1>2, <2>1, <2>2 DEF Reopen, LaunchTypeOK
<1>3. CASE handleStartFleetMission
  <2>1. readinessSummary' \in [ready : 0..Cardinality(Fliers), total : 0..Cardinality(Fliers)]
    BY <1>3, CheckedCounts DEF handleStartFleetMission, LaunchTypeOK
  <2>2. CASE Launches
    <3>1. /\ starts' = starts + 1 /\ starts < MaxStarts /\ isStartingMission' = TRUE
          /\ starting' = starting \cup {[click |-> starts + 1, on |-> v] : v \in Targets}
      BY <1>3, <2>2 DEF handleStartFleetMission
    <3>2. Targets \subseteq Fliers /\ starts + 1 \in Presses
      BY <3>1, LaunchAssumption DEF Targets, Ready, LaunchTypeOK, Presses
    <3>3. starting' \subseteq [click : Presses, on : Fliers]
      BY <3>1, <3>2 DEF LaunchTypeOK
    <3>4. starts' \in 0..MaxStarts /\ forgotten \in 0..starts'
      BY <3>1, LaunchAssumption DEF LaunchTypeOK
    <3>5. QED
      BY <1>3, <2>1, <3>1, <3>3, <3>4 DEF handleStartFleetMission, LaunchTypeOK
  <2>3. CASE ~ Launches
    BY <1>3, <2>1, <2>3 DEF handleStartFleetMission, LaunchTypeOK
  <2>4. QED
    BY <2>2, <2>3
<1>4. ASSUME NEW s \in starting, StartAnswered(s)
      PROVE  LaunchTypeOK'
  BY <1>4 DEF StartAnswered, LaunchTypeOK
<1>5. ASSUME NEW v \in Fliers, NEW f \in Facts[v], Tells(v, f)
      PROVE  LaunchTypeOK'
  <2>1. fact \in [Fliers -> UNION {Facts[w] : w \in Fliers}] /\ \A w \in Fliers : fact[w] \in Facts[w]
    BY DEF LaunchTypeOK, Told
  <2>2. f \in UNION {Facts[w] : w \in Fliers}
    OBVIOUS
  <2>3. [fact EXCEPT ![v] = f] \in Told
    BY <2>1, <2>2 DEF Told
  <2>4. QED
    BY <1>5, <2>3 DEF Tells, LaunchTypeOK
<1>6. ASSUME NEW p \in RoutePlans, Replan(p)
      PROVE  LaunchTypeOK'
  BY <1>6 DEF Replan, LaunchTypeOK
<1>7. ASSUME NEW vs \in SUBSET Fliers, Choose(vs)
      PROVE  LaunchTypeOK'
  BY <1>7 DEF Choose, LaunchTypeOK
<1>8. ASSUME NEW policy \in {"all_or_none", "launch_ready_only"}, setLaunchPolicy(policy)
      PROVE  LaunchTypeOK'
  BY <1>8 DEF setLaunchPolicy, LaunchTypeOK
<1>9. ASSUME NEW policy \in {"use_relative", "block_start"}, setTerrainFallbackPolicy(policy)
      PROVE  LaunchTypeOK'
  BY <1>9 DEF setTerrainFallbackPolicy, LaunchTypeOK
<1>10. ASSUME NEW vs \in SUBSET Fliers, NEW p \in RoutePlans, hydrateMissionPlanningState(vs, p)
       PROVE  LaunchTypeOK'
  BY <1>10, UncheckedCounts DEF hydrateMissionPlanningState, LaunchTypeOK
<1>11. CASE UNCHANGED launchVars
  BY <1>11 DEF launchVars, LaunchTypeOK
<1>12. QED
  BY <1>1, <1>2, <1>3, <1>4, <1>5, <1>6, <1>7, <1>8, <1>9, <1>10, <1>11 DEF LaunchNext

\* What the invariant of the commands leaves open.
ConsoleRest ==
  /\ session \in 1..MaxSessions
  /\ view \in [page : {"control", "detail", "other"}, id : 0..NVehicles]
  /\ report \in KnownReports
  /\ flight \subseteq Flight
  /\ sent \subseteq [click : Clicks, action : Commands, vehicle : Vehicles]

LEMMA ConsoleRestTypes == ConsoleInv /\ ConsoleRest => ConsoleTypeOK
<1> SUFFICES ASSUME ConsoleInv, ConsoleRest
             PROVE  ConsoleTypeOK
  OBVIOUS
<1>1. done \subseteq Clicks
  BY DEF ConsoleInv, OnlyMade, IsMade
<1>2. actionConfirmation \in 0..MaxClicks
  BY ConsoleAssumption DEF ConsoleInv, OnlyMade, IsMade, Clicks
<1>3. QED
  BY <1>1, <1>2 DEF ConsoleInv, ConsoleShape, ConsoleRest, ConsoleTypeOK

LEMMA ConsoleRestStarts == ConsoleInit => ConsoleRest
BY ConsoleAssumption DEF ConsoleInit, ConsoleRest

LEMMA FlightIs ==
  ASSUME ConsoleRest, NEW c \in Clicks, NEW asked \in BOOLEAN
  PROVE  [click |-> c, session |-> session, asked |-> asked] \in Flight
BY DEF ConsoleRest, Flight

LEMMA ConsoleRestKept ==
  ASSUME ConsoleInv, ConsoleRest, [ConsoleNext]_consoleVars
  PROVE  ConsoleRest'
<1>1. CASE logout
  BY <1>1, ConsoleAssumption DEF logout, ConsoleRest
<1>2. ASSUME NEW r \in SignIns, SignIn(r)
      PROVE  ConsoleRest'
  BY <1>2, ConsoleAssumption DEF SignIn, ConsoleRest
<1>3. ASSUME NEW p \in {"control", "detail"}, NEW v \in 0..NVehicles, GoTo(p, v)
      PROVE  ConsoleRest'
  BY <1>3 DEF GoTo, ConsoleRest
<1>4. ASSUME NEW v \in Vehicles, setSelectedId(v)
      PROVE  ConsoleRest'
  <2>1. v \in 0..NVehicles
    BY ConsoleAssumption DEF Vehicles
  <2>2. view' \in [page : {"control", "detail", "other"}, id : 0..NVehicles]
    BY <1>4, <2>1 DEF setSelectedId, ConsoleRest
  <2>3. QED
    BY <1>4, <2>2 DEF setSelectedId, ConsoleRest
<1>5. ASSUME NEW v \in Vehicles, NEW s \in Reports[v], Reported(v, s)
      PROVE  ConsoleRest'
  <2>1. /\ report \in [Vehicles -> UNION {Reports[w] : w \in Vehicles}]
        /\ \A w \in Vehicles : report[w] \in Reports[w]
    BY DEF ConsoleRest, KnownReports
  <2>2. s \in UNION {Reports[w] : w \in Vehicles}
    OBVIOUS
  <2>3. [report EXCEPT ![v] = s] \in KnownReports
    BY <2>1, <2>2 DEF KnownReports
  <2>4. QED
    BY <1>5, <2>3 DEF Reported, ConsoleRest
<1>6. ASSUME NEW c \in Clicks, AskConfirmation(c) \/ handleCancel(c) \/ CloseDialog(c)
      PROVE  ConsoleRest'
  BY <1>6 DEF AskConfirmation, handleCancel, CloseDialog, ConsoleRest
<1>7. ASSUME NEW c \in Clicks, ClickDirectly(c)
      PROVE  ConsoleRest'
  <2>1. PICK v \in Vehicles, a \in Commands :
          sent' = sent \cup {[click |-> c, action |-> a, vehicle |-> v]}
    BY <1>7 DEF ClickDirectly
  <2>2. sent' \subseteq [click : Clicks, action : Commands, vehicle : Vehicles]
    BY <2>1 DEF ConsoleRest
  <2>3. flight' \subseteq Flight
    BY <1>7, FlightIs DEF ClickDirectly, ConsoleRest
  <2>4. QED
    BY <1>7, <2>2, <2>3 DEF ClickDirectly, ConsoleRest
<1>8. ASSUME NEW c \in Clicks, handleConfirm(c)
      PROVE  ConsoleRest'
  <2>1. click[c] \in Click
    <3>1. c # 0 /\ actionConfirmation = c
      BY <1>8, ConsoleAssumption DEF handleConfirm, Asks, Clicks
    <3>2. QED
      BY <3>1 DEF ConsoleInv, OnlyMade, IsMade
  <2>2. click[c].action \in Commands /\ click[c].vehicle \in Vehicles
    BY <2>1 DEF Click
  <2>3. sent' \subseteq [click : Clicks, action : Commands, vehicle : Vehicles]
    BY <1>8, <2>2 DEF handleConfirm, ConsoleRest
  <2>4. flight' \subseteq Flight
    BY <1>8, FlightIs DEF handleConfirm, ConsoleRest
  <2>5. QED
    BY <1>8, <2>3, <2>4 DEF handleConfirm, ConsoleRest
<1>9. ASSUME NEW f, Answered(f)
      PROVE  ConsoleRest'
  BY <1>9 DEF Answered, CommandSucceeds, CommandFails, ConsoleRest
<1>10. CASE UNCHANGED consoleVars
  BY <1>10 DEF consoleVars, ConsoleRest
<1>11. QED
  BY <1>1, <1>2, <1>3, <1>4, <1>5, <1>6, <1>7, <1>8, <1>9, <1>10 DEF ConsoleNext

-----------------------------------------------------------------------------
(* The streams: there is room for every event that is to come.             *)

\* The sockets whose end is still to be told.
EndingOf(socks) == {i \in Sockets : socks[i].state \in {"closing", "aborted"}}

\* What the invariant of the streams leaves open: timers and sockets that are ending are
\* as many as there is room for, and the timer that can be taken back is there.
StreamRest ==
  /\ connection \in 0..(MaxPending + 1)
  /\ registered \in BOOLEAN /\ (registered => Len(timers) >= 1)
  /\ Len(timers) + Cardinality(EndingOf(sock)) <= MaxPending

LEMMA EndingCount ==
  ASSUME NEW socks
  PROVE  IsFiniteSet(EndingOf(socks)) /\ Cardinality(EndingOf(socks)) \in Nat
<1>1. IsFiniteSet(Sockets) /\ EndingOf(socks) \in SUBSET Sockets
  BY StreamAssumption, FS_Interval DEF Sockets, EndingOf
<1>2. QED
  BY <1>1, FS_Subset, FS_CardinalityType

LEMMA OneMoreEnds ==
  ASSUME NEW s, NEW t, NEW x, EndingOf(t) \subseteq EndingOf(s) \cup {x}
  PROVE  Cardinality(EndingOf(t)) <= Cardinality(EndingOf(s)) + 1
<1> DEFINE S == EndingOf(s)
           T == EndingOf(t)
<1>1. /\ IsFiniteSet(S) /\ Cardinality(S) \in Nat
      /\ IsFiniteSet(T) /\ Cardinality(T) \in Nat
  BY EndingCount
<1> HIDE DEF S, T
<1>2. IsFiniteSet(S \cup {x}) /\ Cardinality(S \cup {x}) \in Nat
  BY <1>1, FS_AddElement, FS_CardinalityType
<1>5. Cardinality(S \cup {x}) <= Cardinality(S) + 1
  <2>1. Cardinality(S \cup {x}) = IF x \in S THEN Cardinality(S) ELSE Cardinality(S) + 1
    BY <1>1, FS_AddElement
  <2>2. QED
    BY <1>1, <2>1
<1>3. T \in SUBSET (S \cup {x})
  BY DEF S, T
<1>4. Cardinality(T) <= Cardinality(S \cup {x})
  BY <1>2, <1>3, FS_Subset
<1>6. QED
  BY <1>1, <1>2, <1>4, <1>5 DEF S, T

LEMMA OneLessEnds ==
  ASSUME NEW s, NEW t, NEW x \in EndingOf(s), EndingOf(t) \subseteq EndingOf(s) \ {x}
  PROVE  Cardinality(EndingOf(t)) + 1 <= Cardinality(EndingOf(s))
<1> DEFINE S == EndingOf(s)
           T == EndingOf(t)
<1>1. /\ IsFiniteSet(S) /\ Cardinality(S) \in Nat
      /\ IsFiniteSet(T) /\ Cardinality(T) \in Nat
  BY EndingCount
<1>x. x \in S
  BY DEF S
<1> HIDE DEF S, T
<1>2. IsFiniteSet(S \ {x}) /\ Cardinality(S \ {x}) = Cardinality(S) - 1
  BY <1>1, <1>x, FS_RemoveElement
<1>3. T \in SUBSET (S \ {x})
  BY DEF S, T
<1>4. Cardinality(T) <= Cardinality(S \ {x})
  BY <1>2, <1>3, FS_Subset
<1>5. QED
  BY <1>1, <1>2, <1>4 DEF S, T

LEMMA NoMoreEnds ==
  ASSUME NEW s, NEW t, EndingOf(t) \subseteq EndingOf(s)
  PROVE  Cardinality(EndingOf(t)) <= Cardinality(EndingOf(s))
<1>1. IsFiniteSet(EndingOf(s)) /\ EndingOf(t) \in SUBSET EndingOf(s)
  BY EndingCount
<1>2. QED
  BY <1>1, FS_Subset

LEMMA RoomFor == Room <=> Len(timers) + Cardinality(EndingOf(sock)) < MaxPending
<1> DEFINE S == {i \in Sockets : sock[i].state \in {"closing", "aborted"}}
<1>1. EndingOf(sock) = S
  BY DEF EndingOf
<1>2. Room <=> Len(timers) + Cardinality(S) < MaxPending
  BY DEF Room
<1> HIDE DEF S
<1>3. QED
  BY <1>1, <1>2

\* What was to be replaced is ending, and nothing else that was not.
LEMMA ConnectEnds ==
  ASSUME NEW socks, NEW entry \in 0..(MaxPending + 1), NEW m, connect(socks, entry, m)
  PROVE  /\ connection' \in 0..(MaxPending + 1)
         /\ EndingOf(sock') \subseteq EndingOf(socks) \cup {entry}
         /\ entry = 0 => EndingOf(sock') \subseteq EndingOf(socks)
<1>1. CASE entry # 0 /\ socks[entry].state = "open"
  BY <1>1 DEF connect, EndingOf
<1>2. CASE ~ (entry # 0 /\ socks[entry].state = "open")
  <2> DEFINE new == [state |-> "connecting", life |-> m]
  <2>1. PICK i \in Sockets :
          /\ connection' = i
          /\ sock' = [j \in Sockets |->
               IF j = i THEN new ELSE IF j = entry THEN Closed(socks[j]) ELSE socks[j]]
    BY <1>2 DEF connect
  <2>2. new.state = "connecting"
    OBVIOUS
  <2> HIDE DEF new
  <2>3. 0 \notin Sockets /\ i \in 0..(MaxPending + 1)
    BY StreamAssumption DEF Sockets
  <2>4. ASSUME NEW j \in EndingOf(sock')
        PROVE  j = entry \/ j \in EndingOf(socks)
    BY <2>1, <2>2 DEF EndingOf
  <2>5. ASSUME NEW j \in EndingOf(sock'), entry = 0
        PROVE  j \in EndingOf(socks)
    BY <2>3, <2>4, <2>5 DEF EndingOf
  <2>6. QED
    BY <2>1, <2>3, <2>4, <2>5
<1>3. QED
  BY <1>1, <1>2

LEMMA DisconnectEnds == EndingOf(Disconnected) \subseteq EndingOf(sock) \cup {connection}
BY DEF EndingOf, Disconnected

LEMMA FewerTimers ==
  ASSUME timers \in Seq(Mounts), registered => Len(timers) >= 1, TimerCleared
  PROVE  Len(timers') \in Nat /\ Len(timers') <= Len(timers)
<1>1. CASE registered
  <2>1. timers' = SubSeq(timers, 1, Len(timers) - 1)
    BY <1>1 DEF TimerCleared
  <2>2. \A k \in 1..(Len(timers) - 1) : timers[k] \in Mounts
    OBVIOUS
  <2>3. QED
    BY <1>1, <2>1, <2>2
<1>2. CASE ~ registered
  BY <1>2 DEF TimerCleared
<1>3. QED
  BY <1>1, <1>2

LEMMA StreamRestStarts == StreamInit => StreamRest
<1> SUFFICES ASSUME StreamInit
             PROVE  StreamRest
  OBVIOUS
<1>1. EndingOf(sock) = {}
  BY DEF StreamInit, EndingOf
<1>2. Cardinality({}) = 0 /\ Len(timers) = 0
  BY FS_EmptySet DEF StreamInit
<1>3. Len(timers) + Cardinality(EndingOf(sock)) <= MaxPending
  BY <1>1, <1>2, StreamAssumption
<1>4. connection \in 0..(MaxPending + 1) /\ registered = FALSE
  BY StreamAssumption DEF StreamInit
<1>5. QED
  BY <1>3, <1>4 DEF StreamRest

LEMMA StreamRestKept ==
  ASSUME StreamInv, StreamRest, [StreamNext]_streamVars
  PROVE  StreamRest'
<1> DEFINE n == Cardinality(EndingOf(sock))
           m == Cardinality(EndingOf(sock'))
           old == Len(timers)
           new == Len(timers')
<1>0. /\ timers \in Seq(Mounts) /\ old \in Nat /\ MaxPending \in Nat
      /\ sock \in [Sockets -> Socket] /\ connection \in 0..(MaxPending + 1)
      /\ n \in Nat /\ m \in Nat /\ old + n <= MaxPending
      /\ registered \in BOOLEAN /\ (registered => old >= 1)
  BY EndingCount, StreamAssumption DEF StreamInv, StreamShape, StreamRest
<1>r. Room <=> old + n < MaxPending
  BY RoomFor
<1> DEFINE Fitting == /\ connection' \in 0..(MaxPending + 1)
                   /\ registered' \in BOOLEAN /\ (registered' => new >= 1)
                   /\ new + m <= MaxPending
<1>g. Fitting => StreamRest'
  BY DEF StreamRest, EndingOf
<1>1. CASE Mount
  <2>1. connect(sock, connection, life + 1) /\ Room /\ UNCHANGED <<timers, registered>>
    BY <1>1 DEF Mount
  <2>2. connection' \in 0..(MaxPending + 1) /\ m <= n + 1
    BY <1>0, <2>1, ConnectEnds, OneMoreEnds
  <2>3. new = old
    BY <2>1
  <2> HIDE DEF n, m, old, new
  <2>4. Fitting
    BY <1>0, <1>r, <2>1, <2>2, <2>3
  <2>5. QED
    BY <1>g, <2>4
<1>2. CASE Unmount
  <2>1. sock' = Disconnected /\ connection' = 0 /\ TimerCleared /\ Room
    BY <1>2 DEF Unmount
  <2>2. m <= n + 1
    BY <2>1, DisconnectEnds, OneMoreEnds
  <2>3. new \in Nat /\ new <= old /\ (registered' \in BOOLEAN /\ ~ registered')
    BY <1>0, <2>1, FewerTimers DEF TimerCleared
  <2> HIDE DEF n, m, old, new
  <2>4. Fitting
    BY <1>0, <1>r, <2>1, <2>2, <2>3
  <2>5. QED
    BY <1>g, <2>4
<1>3. CASE VehiclesChange
  <2>1. connect(Disconnected, 0, life) /\ TimerCleared /\ Room
    BY <1>3 DEF VehiclesChange
  <2>2. 0 \in 0..(MaxPending + 1)
    BY <1>0
  <2>3. connection' \in 0..(MaxPending + 1) /\ EndingOf(sock') \subseteq EndingOf(Disconnected)
    BY <2>1, <2>2, ConnectEnds
  <2>4. m <= n + 1
    BY <2>3, DisconnectEnds, OneMoreEnds
  <2>5. new \in Nat /\ new <= old /\ (registered' \in BOOLEAN /\ ~ registered')
    BY <1>0, <2>1, FewerTimers DEF TimerCleared
  <2> HIDE DEF n, m, old, new
  <2>6. Fitting
    BY <1>0, <1>r, <2>1, <2>3, <2>4, <2>5
  <2>7. QED
    BY <1>g, <2>6
<1>4. CASE TimerFires
  <2>1. /\ timers # <<>> /\ timers' = Tail(timers)
        /\ registered' = (registered /\ Len(timers) > 1)
        /\ connect(sock, connection, Head(timers))
    BY <1>4 DEF TimerFires
  <2>2. connection' \in 0..(MaxPending + 1) /\ m <= n + 1
    BY <1>0, <2>1, ConnectEnds, OneMoreEnds
  <2>3. new = old - 1
    BY <1>0, <2>1
  <2>4. registered' \in BOOLEAN /\ (registered' => new >= 1)
    <3>1. registered' \in BOOLEAN /\ (registered' => Len(timers) > 1)
      BY <2>1
    <3>2. Len(timers) > 1 => new >= 1
      BY <1>0, <2>3
    <3>3. QED
      BY <3>1, <3>2
  <2> HIDE DEF n, m, old, new
  <2>5. Fitting
    BY <1>0, <2>2, <2>3, <2>4
  <2>6. QED
    BY <1>g, <2>5
<1>5. ASSUME NEW i \in Sockets, onopen(i)
      PROVE  StreamRest'
  <2>1. EndingOf(sock') \subseteq EndingOf(sock)
    BY <1>0, <1>5 DEF onopen, EndingOf, Socket
  <2>2. m <= n /\ new = old /\ UNCHANGED <<connection, registered>>
    BY <1>5, <2>1, NoMoreEnds DEF onopen
  <2> HIDE DEF n, m, old, new
  <2>3. Fitting
    BY <1>0, <2>2
  <2>4. QED
    BY <1>g, <2>3
<1>6. ASSUME NEW i \in Sockets, Breaks(i)
      PROVE  StreamRest'
  <2>1. EndingOf(sock') \subseteq EndingOf(sock)
    BY <1>0, <1>6 DEF Breaks, Gone, EndingOf, Socket
  <2>2. m <= n /\ Room /\ UNCHANGED connection
    BY <1>6, <2>1, NoMoreEnds DEF Breaks
  <2>3. new = old + 1 /\ registered' = TRUE
    BY <1>0, <1>6 DEF Breaks, Reconnecting
  <2> HIDE DEF n, m, old, new
  <2>4. Fitting
    BY <1>0, <1>r, <2>2, <2>3
  <2>5. QED
    BY <1>g, <2>4
<1>7. ASSUME NEW i \in Sockets, Closes(i)
      PROVE  StreamRest'
  <2>1. /\ i \in EndingOf(sock) /\ UNCHANGED connection
        /\ Gone(i, "broken") \/ Gone(i, "over")
    BY <1>7 DEF Closes, ClosesCleanly, ClosesUncleanly, EndingOf
  <2>2. EndingOf(sock') \subseteq EndingOf(sock) \ {i}
    BY <1>0, <2>1 DEF Gone, EndingOf, Socket
  <2>3. m + 1 <= n
    BY <2>1, <2>2, OneLessEnds
  <2>4. \/ new = old /\ UNCHANGED registered
        \/ new = old + 1 /\ registered' \in BOOLEAN
    <3>1. CASE ClosesCleanly(i)
      BY <3>1 DEF ClosesCleanly
    <3>2. CASE ClosesUncleanly(i)
      BY <1>0, <3>2 DEF ClosesUncleanly, Reconnecting
    <3>3. QED
      BY <1>7, <3>1, <3>2 DEF Closes
  <2> HIDE DEF n, m, old, new
  <2>5. Fitting
    BY <1>0, <2>1, <2>3, <2>4
  <2>6. QED
    BY <1>g, <2>5
<1>8. ASSUME NEW i \in Sockets, ServerCloses(i)
      PROVE  StreamRest'
  <2>1. EndingOf(sock') \subseteq EndingOf(sock) \cup {i}
    BY <1>0, <1>8 DEF ServerCloses, EndingOf, Socket
  <2>2. m <= n + 1 /\ Room /\ new = old /\ UNCHANGED <<connection, registered>>
    BY <1>8, <2>1, OneMoreEnds DEF ServerCloses
  <2> HIDE DEF n, m, old, new
  <2>3. Fitting
    BY <1>0, <1>r, <2>2
  <2>4. QED
    BY <1>g, <2>3
<1>9. CASE UNCHANGED streamVars
  BY <1>9 DEF streamVars, StreamRest, EndingOf
<1>10. QED
  BY <1>1, <1>2, <1>3, <1>4, <1>5, <1>6, <1>7, <1>8, <1>9 DEF StreamNext

LEMMA StreamRestTypes == StreamInv /\ StreamRest => StreamTypeOK
<1> SUFFICES ASSUME StreamInv, StreamRest
             PROVE  StreamTypeOK
  OBVIOUS
<1>1. Cardinality(EndingOf(sock)) \in Nat /\ timers \in Seq(Mounts) /\ Len(timers) \in Nat
  BY EndingCount DEF StreamInv, StreamShape
<1>2. Len(timers) <= MaxPending /\ (registered => timers # <<>>)
  BY <1>1, StreamAssumption DEF StreamRest
<1>3. QED
  BY <1>1, <1>2 DEF StreamInv, StreamShape, StreamRest, StreamTypeOK

-----------------------------------------------------------------------------
(* The route.                                                              *)

\* A fence is drawn of so many points.
LEMMA FenceIs ==
  \A s : s \in Fence <=> s \in Seq(Places) /\ Len(s) <= MaxVertices
<1>1. ASSUME NEW s \in Fence
      PROVE  s \in Seq(Places) /\ Len(s) <= MaxVertices
  <2>1. PICK n \in 0..MaxVertices : s \in [1..n -> Places]
    BY DEF Fence
  <2>2. n \in Nat /\ n <= MaxVertices
    BY <2>1, RouteAssumption
  <2>3. s \in Seq(Places) /\ Len(s) = n
    BY <2>1, <2>2
  <2>4. QED
    BY <2>2, <2>3
<1>2. ASSUME NEW s \in Seq(Places), Len(s) <= MaxVertices
      PROVE  s \in Fence
  <2>1. Len(s) \in 0..MaxVertices /\ s \in [1..Len(s) -> Places]
    BY <1>2, RouteAssumption
  <2>2. QED
    BY <2>1 DEF Fence
<1>3. QED
  BY <1>1, <1>2

LEMMA NoFenceYet == <<>> \in Fence
<1>1. <<>> \in Seq(Places)
  OBVIOUS
<1>2. Len(<<>>) = 0
  OBVIOUS
<1>3. Len(<<>>) <= MaxVertices
  BY <1>2, RouteAssumption
<1>4. QED
  BY <1>1, <1>3, FenceIs

\* What the invariant of the route leaves open.
FenceTypes ==
  /\ isDrawingGeofence \in BOOLEAN /\ addWaypointsOnClick \in BOOLEAN
  /\ geofencePoints \in Fence
  /\ geofenceBackup \subseteq Fence /\ Cardinality(geofenceBackup) <= 1

RouteRest ==
  /\ latText \in Places
  /\ plannerStep \in {"area", "route"}
  /\ gridPreviewWaypoints \in Grids \cup {<<>>}
  /\ FenceTypes

LEMMA RouteRestTypes == RouteInv /\ RouteRest => RouteTypeOK
<1> SUFFICES ASSUME RouteInv, RouteRest
             PROVE  RouteTypeOK
  OBVIOUS
<1>1. DOMAIN route = 1..Len(route) /\ \A i \in 1..Len(route) : route[i] \in Waypoint
  BY DEF RouteInv, WellNamed
<1>3. ASSUME NEW i \in 1..Len(route)
      PROVE  route[i] \in WaypointAt
  BY <1>1 DEF Waypoint, WaypointAt
<1>4. selectedWaypointId \in SUBSET WaypointIds
  <2>1. \A i \in DOMAIN route : route[i].id \in WaypointIds
    BY <1>1 DEF Waypoint
  <2>2. Ids(route) \subseteq WaypointIds
    BY <2>1 DEF Ids
  <2>3. QED
    BY <2>2 DEF RouteInv, SelectionExists
<1>5. QED
  BY <1>1, <1>3, <1>4 DEF RouteInv, RouteRest, FenceTypes, RouteTypeOK

LEMMA RouteRestStarts == RouteInit => RouteRest
<1> SUFFICES ASSUME RouteInit
             PROVE  RouteRest
  OBVIOUS
<1>2. <<>> \in Fence
  BY NoFenceYet
<1>3. Cardinality({}) <= 1
  BY FS_EmptySet
<1>4. QED
  BY <1>2, <1>3 DEF RouteInit, RouteRest, FenceTypes

\* A field is filled from the waypoint that is selected.
LEMMA FieldIsAPlace ==
  ASSUME NEW wps, WellNamed(wps), NEW sel, latText \in Places, RouteIs(wps, sel)
  PROVE  latText' \in Places
<1>1. selectedWaypointId' \subseteq Ids(wps)
  BY SelectionFollows DEF SelectionExists, RouteIs
<1>2. ASSUME NEW id \in Ids(wps)
      PROVE  wps[Place(wps, id)].at \in Places
  <2>1. Place(wps, id) \in 1..Len(wps)
    BY DEF Place, Ids, WellNamed
  <2>2. QED
    <3>1. wps[Place(wps, id)] \in Waypoint
      BY <2>1 DEF WellNamed
    <3>2. QED
      BY <3>1 DEF Waypoint
<1>3. QED
  BY <1>1, <1>2 DEF RouteIs

LEMMA EditsKeepTypes ==
  ASSUME RouteInv, RouteRest, NEW p \in Places
  PROVE  /\ handleAddWaypoint(p) => RouteRest'
         /\ \A id \in WaypointIds : Drag(id, p) \/ SelectWaypoint(id) \/ RemoveWaypoint(id) => RouteRest'
         /\ CommitField(p) => RouteRest'
<1> DEFINE Around == UNCHANGED <<plannerStep, fenceVars, gridPreviewWaypoints>>
<1>1. ASSUME Around, latText' \in Places
      PROVE  RouteRest'
  BY <1>1 DEF RouteRest, FenceTypes, fenceVars
<1>2. ASSUME NEW wps, WellNamed(wps), NEW sel, RouteIs(wps, sel)
      PROVE  latText' \in Places
  BY <1>2, FieldIsAPlace DEF RouteRest
<1>3. WellNamed(route) /\ \A id \in Ids(route) : WellNamed(removeWaypoint(route, id))
  BY RemovedInOrder DEF RouteInv
<1>4. \A id : WellNamed(updateWaypoint(route, id, p))
  BY <1>3, UpdatedInOrder
<1>5. \A id \in WaypointIds \ Ids(route) : WellNamed(Added(route, id, p))
  BY <1>3, AddedInOrder
<1>6. handleAddWaypoint(p) => Around /\ latText' \in Places
  BY <1>2, <1>5 DEF handleAddWaypoint
<1>7. ASSUME NEW id \in WaypointIds, Drag(id, p) \/ SelectWaypoint(id) \/ RemoveWaypoint(id)
      PROVE  Around /\ latText' \in Places
  BY <1>2, <1>3, <1>4, <1>7 DEF Drag, SelectWaypoint, RemoveWaypoint
<1>8. CommitField(p) => Around /\ latText' \in Places
  BY DEF CommitField
<1> HIDE DEF Around
<1>9. QED
  BY <1>1, <1>6, <1>7, <1>8

LEMMA ListsKeepTypes ==
  ASSUME RouteInv, RouteRest
  PROVE  /\ clearWaypoints \/ LoadMission => RouteRest'
         /\ handleGenerateGridPreview \/ handleApplyGridPreview \/ ClearPreview => RouteRest'
         /\ \A step \in {"area", "route"} : setPlannerStep(step) => RouteRest'
<1>0. <<>> \in Fence /\ WellNamed(<<>>)
  BY NoFenceYet DEF WellNamed
<1>a. ASSUME NEW wps, WellNamed(wps), NEW sel, RouteIs(wps, sel)
      PROVE  latText' \in Places
  BY <1>a, FieldIsAPlace DEF RouteRest
<1>1. ASSUME clearWaypoints
      PROVE  RouteRest'
  BY <1>0, <1>1, <1>a DEF clearWaypoints, RouteRest, FenceTypes, fenceVars
<1>2. ASSUME LoadMission
      PROVE  RouteRest'
  <2>1. PICK wps : WellNamed(wps) /\ RouteIs(wps, selectedWaypointId)
    BY <1>2, LoadedRoute
  <2>4. latText' \in Places
    BY <1>a, <2>1
  <2>5. QED
    BY <1>0, <1>2, <2>4 DEF LoadMission, RouteRest, FenceTypes
<1>3. ASSUME handleGenerateGridPreview \/ ClearPreview
      PROVE  RouteRest'
  BY <1>3 DEF handleGenerateGridPreview, ClearPreview, RouteRest, FenceTypes, fenceVars
<1>4. ASSUME handleApplyGridPreview
      PROVE  RouteRest'
  <2>1. PICK ids \in Named(Len(gridPreviewWaypoints)) : RouteIs(Grid(ids), {ids[1]})
    BY <1>4 DEF handleApplyGridPreview
  <2>2. WellNamed(Grid(ids))
    BY <1>4, GridInOrder DEF handleApplyGridPreview, RouteInv
  <2>3. latText' \in Places
    BY <1>a, <2>1, <2>2
  <2>4. QED
    BY <1>4, <2>3 DEF handleApplyGridPreview, RouteRest, FenceTypes, fenceVars
<1>5. ASSUME NEW step \in {"area", "route"}, setPlannerStep(step)
      PROVE  RouteRest'
  <2>1. ASSUME NEW id \in selectedWaypointId
        PROVE  route[Place(route, id)].at \in Places
    <3>1. id \in Ids(route)
      BY DEF RouteInv, SelectionExists
    <3>2. Place(route, id) \in 1..Len(route)
      BY <3>1 DEF Place, Ids, RouteInv, WellNamed
    <3>3. QED
      <4>1. route[Place(route, id)] \in Waypoint
        BY <3>2 DEF RouteInv, WellNamed
      <4>2. QED
        BY <4>1 DEF Waypoint
  <2>2. latText' \in Places
    BY <1>5, <2>1 DEF setPlannerStep, RouteRest
  <2>3. QED
    BY <1>5, <2>2 DEF setPlannerStep, RouteRest, FenceTypes, fenceVars
<1>6. QED
  BY <1>1, <1>2, <1>3, <1>4, <1>5


LEMMA NoBackupOrOne ==
  /\ Cardinality({}) <= 1
  /\ \A s : Cardinality({s}) <= 1
<1>1. Cardinality({}) = 0 /\ \A s : Cardinality({s}) = 1
  BY FS_EmptySet, FS_Singleton
<1>2. QED
  BY <1>1

LEMMA FenceKeepsTypes ==
  ASSUME RouteRest
  PROVE  /\ \A p \in Places : AddVertex(p) => RouteRest'
         /\ \A i, p : p \in Places /\ handleGeofenceVertexDrag(i, p) => RouteRest'
         /\ \A i : handleRemoveGeofenceVertex(i) => RouteRest'
         /\ BeginButtons \/ cancelGeofenceEdit \/ finishGeofenceEdit => RouteRest'
         /\ undoGeofencePoint \/ DeletePolygon => RouteRest'
         /\ \A add \in BOOLEAN : MapMode(add) => RouteRest'
<1>0. geofencePoints \in Seq(Places) /\ Len(geofencePoints) <= MaxVertices
  BY FenceIs DEF RouteRest, FenceTypes
<1>f. \A s : s \in Seq(Places) /\ Len(s) <= MaxVertices => s \in Fence
  BY FenceIs
<1> DEFINE Around == UNCHANGED <<latText, plannerStep>>
                     /\ gridPreviewWaypoints' \in Grids \cup {<<>>}
<1>1. Around /\ FenceTypes' => RouteRest'
  BY DEF RouteRest
<1>2. FenceOnly => Around
  BY DEF FenceOnly, RouteRest
<1> HIDE DEF Around
<1>3. ASSUME NEW p \in Places, AddVertex(p)
      PROVE  RouteRest'
  <2>1. Append(geofencePoints, p) \in Fence
    <3>1. Len(geofencePoints) < MaxVertices
      BY <1>3 DEF AddVertex
    <3>2. /\ Append(geofencePoints, p) \in Seq(Places)
          /\ Len(Append(geofencePoints, p)) = Len(geofencePoints) + 1
      BY <1>0
    <3>3. Len(Append(geofencePoints, p)) <= MaxVertices
      BY <1>0, <3>1, <3>2, RouteAssumption
    <3>4. QED
      BY <1>f, <3>2, <3>3
  <2>2. FenceTypes'
    BY <1>3, <2>1 DEF AddVertex, RouteRest, FenceTypes
  <2>3. QED
    BY <1>1, <1>2, <1>3, <2>2 DEF AddVertex
<1>4. ASSUME NEW i, NEW p \in Places, handleGeofenceVertexDrag(i, p)
      PROVE  RouteRest'
  <2> DEFINE s == [geofencePoints EXCEPT ![i] = p]
  <2>1. s \in Seq(Places) /\ Len(s) = Len(geofencePoints)
    BY <1>0, <1>4 DEF handleGeofenceVertexDrag
  <2>2. geofencePoints' = s
    BY <1>4 DEF handleGeofenceVertexDrag
  <2> HIDE DEF s
  <2>3. s \in Fence
    BY <1>0, <1>f, <2>1
  <2>4. FenceTypes'
    BY <1>4, <2>2, <2>3 DEF handleGeofenceVertexDrag, RouteRest, FenceTypes
  <2>5. QED
    BY <1>1, <1>2, <1>4, <2>4 DEF handleGeofenceVertexDrag
<1>5. ASSUME NEW i, handleRemoveGeofenceVertex(i)
      PROVE  RouteRest'
  <2>1. i \in 1..Len(geofencePoints)
    BY <1>0, <1>5 DEF handleRemoveGeofenceVertex
  <2>2. geofencePoints' = RemoveAt(geofencePoints, i)
    BY <1>5 DEF handleRemoveGeofenceVertex
  <2>3. geofencePoints' \in Seq(Places) /\ Len(geofencePoints') = Len(geofencePoints) - 1
    BY <1>0, <2>1, <2>2, RemovedElements
  <2>4. Len(geofencePoints') <= MaxVertices
    BY <1>0, <2>3, RouteAssumption
  <2>5. geofencePoints' \in Fence
    BY <1>f, <2>3, <2>4
  <2>6. FenceTypes'
    BY <1>5, <2>5 DEF handleRemoveGeofenceVertex, RouteRest, FenceTypes
  <2>7. QED
    BY <1>1, <1>2, <1>5, <2>6 DEF handleRemoveGeofenceVertex
<1>6. ASSUME NEW clear, beginGeofenceEdit(clear)
      PROVE  RouteRest'
  <2>1. geofencePoints' \in Fence /\ geofenceBackup' = {geofencePoints}
    BY <1>6, NoFenceYet DEF beginGeofenceEdit, RouteRest, FenceTypes
  <2>2. Cardinality(geofenceBackup') <= 1
    BY <2>1, NoBackupOrOne
  <2>3. FenceTypes'
    BY <1>6, <2>1, <2>2 DEF beginGeofenceEdit, RouteRest, FenceTypes
  <2>4. QED
    BY <1>1, <1>2, <1>6, <2>3 DEF beginGeofenceEdit
<1>7. BeginButtons => RouteRest'
  BY <1>6 DEF BeginButtons
<1>8. ASSUME cancelGeofenceEdit \/ finishGeofenceEdit
      PROVE  RouteRest'
  <2>1. geofencePoints' \in Fence /\ geofenceBackup' = {}
    BY <1>8 DEF cancelGeofenceEdit, finishGeofenceEdit, RouteRest, FenceTypes
  <2>2. Cardinality(geofenceBackup') <= 1
    BY <2>1, NoBackupOrOne
  <2>3. isDrawingGeofence' = FALSE /\ UNCHANGED addWaypointsOnClick /\ FenceOnly
    BY <1>8 DEF cancelGeofenceEdit, finishGeofenceEdit
  <2>4. FenceTypes'
    BY <2>1, <2>2, <2>3 DEF RouteRest, FenceTypes
  <2>5. QED
    BY <1>1, <1>2, <2>3, <2>4
<1>9. ASSUME undoGeofencePoint
      PROVE  RouteRest'
  <2>1. geofencePoints' = SubSeq(geofencePoints, 1, Len(geofencePoints) - 1) /\ geofencePoints # <<>>
    BY <1>9 DEF undoGeofencePoint, Front
  <2>2. Len(geofencePoints) - 1 \in Nat /\ \A k \in 1..(Len(geofencePoints) - 1) : geofencePoints[k] \in Places
    BY <1>0, <2>1
  <2>3. geofencePoints' \in Seq(Places) /\ Len(geofencePoints') = Len(geofencePoints) - 1
    <3> DEFINE k == Len(geofencePoints) - 1
    <3>1. k \in Nat /\ \A j \in 1..k : geofencePoints[j] \in Places
      BY <2>2
    <3>2. geofencePoints' = [j \in 1..k |-> geofencePoints[j]]
      BY <1>0, <2>1, <3>1
    <3> HIDE DEF k
    <3>3. geofencePoints' \in Seq(Places) /\ Len(geofencePoints') = k
      BY <3>1, <3>2
    <3>4. QED
      BY <3>3 DEF k
  <2>4. Len(geofencePoints') <= MaxVertices
    BY <1>0, <2>3, RouteAssumption
  <2>5. geofencePoints' \in Fence
    BY <1>f, <2>3, <2>4
  <2>6. FenceTypes'
    BY <1>9, <2>5 DEF undoGeofencePoint, RouteRest, FenceTypes
  <2>7. QED
    BY <1>1, <1>2, <1>9, <2>6 DEF undoGeofencePoint
<1>10. ASSUME DeletePolygon
       PROVE  RouteRest'
  <2>1. FenceTypes' /\ Around
    BY <1>10, NoFenceYet DEF DeletePolygon, RouteRest, FenceTypes, Around
  <2>2. QED
    BY <1>1, <2>1
<1>11. ASSUME NEW add \in BOOLEAN, MapMode(add)
       PROVE  RouteRest'
  <2>1. FenceTypes'
    BY <1>11 DEF MapMode, RouteRest, FenceTypes
  <2>2. QED
    BY <1>1, <1>2, <1>11, <2>1 DEF MapMode
<1>12. QED
  BY <1>3, <1>4, <1>5, <1>7, <1>8, <1>9, <1>10, <1>11

LEMMA RouteRestKept ==
  ASSUME RouteInv, RouteRest, [RouteNext]_routeVars
  PROVE  RouteRest'
<1>1. ASSUME NEW p \in Places, NEW shift \in BOOLEAN, MapClick(p, shift)
      PROVE  RouteRest'
  BY <1>1, EditsKeepTypes, FenceKeepsTypes DEF MapClick
<1>2. ASSUME NEW p \in Places, AddWaypointButton(p) \/ CommitField(p)
      PROVE  RouteRest'
  BY <1>2, EditsKeepTypes DEF AddWaypointButton
<1>3. ASSUME NEW id \in WaypointIds, SelectWaypoint(id) \/ RemoveWaypoint(id)
      PROVE  RouteRest'
  <2>1. latText \in Places
    BY DEF RouteRest
  <2>2. QED
    BY <1>3, <2>1, EditsKeepTypes
<1>4. ASSUME NEW p \in Places, NEW id \in WaypointIds, Drag(id, p)
      PROVE  RouteRest'
  BY <1>4, EditsKeepTypes
<1>5. ASSUME NEW p \in Places, NEW i \in 1..MaxVertices,
             handleGeofenceVertexDrag(i, p) \/ handleRemoveGeofenceVertex(i)
      PROVE  RouteRest'
  BY <1>5, FenceKeepsTypes
<1>6. ASSUME NEW i \in 1..MaxVertices, handleRemoveGeofenceVertex(i)
      PROVE  RouteRest'
  BY <1>6, FenceKeepsTypes
<1>7. CASE UNCHANGED routeVars
  BY <1>7 DEF routeVars, RouteRest, FenceTypes
<1>8. QED
  BY <1>1, <1>2, <1>3, <1>4, <1>5, <1>6, <1>7, ListsKeepTypes, FenceKeepsTypes DEF RouteNext
-----------------------------------------------------------------------------
(***************************************************************************)
(* The fence.  The ray cast is right of every fence, whatever its dents    *)
(* and crossings.  In one without dents the legs of a mission stay inside  *)
(* as its waypoints do, and a grid keeps the margin it was asked for from  *)
(* the lines of all edges.                                                 *)
(*                                                                         *)
(* Along the fence the crossings of the ray are counted corner by corner:  *)
(* one more triangle of the fan changes the count as the two edges do that *)
(* it puts in place of one.  Without dents, one edge rises through the     *)
(* height of the ray and one falls, and inside is between the two, from    *)
(* which it follows that inside is to the left of every edge.  The edge    *)
(* whose line is the nearest is nearest at a point of its own, so that to  *)
(* stay clear of the edges is to stay clear of the lines.                  *)
(***************************************************************************)

(* Counting.                                                               *)

\* A set of numbers has a smallest; what fails of one of them fails of a first.
LEMMA Smallest ==
  ASSUME NEW T, T \subseteq Nat, T # {}
  PROVE  \E x \in T : \A y \in T : x <= y
<1>1. PICK R : R = {ss \in Nat \X Nat : ss[1] < ss[2]}
  OBVIOUS
<1>2. W!IsWellFoundedOn({ss \in Nat \X Nat : ss[1] < ss[2]}, Nat)
  BY W!NatLessThanWellFounded DEF W!OpToRel
<1>3. W!IsWellFoundedOn(R, Nat)
  BY <1>1, <1>2
<1>4. PICK x \in T : \A y \in T : ~ (<<y, x>> \in R)
  BY <1>3, W!WFMin
<1>5. ASSUME NEW y \in T, y < x PROVE <<y, x>> \in R
  BY <1>1, <1>5
<1>6. ASSUME NEW y \in T PROVE x <= y
  <2>1. x \in Nat /\ y \in Nat /\ ~ (y < x)
    BY <1>4, <1>5
  <2>2. QED
    BY <2>1
<1>7. QED
  BY <1>6

\* What holds of 1, and of k + 1 if of k, holds up to n: K is where it fails.
LEMMA StepByStep ==
  ASSUME NEW n \in Nat, NEW K, K \subseteq 1..n, 1 \notin K,
         \A k \in 1..(n - 1) : k + 1 \in K => k \in K
  PROVE  K = {}
<1> SUFFICES ASSUME K # {} PROVE FALSE
  OBVIOUS
<1>0. K \subseteq Nat
  OBVIOUS
<1>1. PICK k \in K : \A j \in K : k <= j
  BY <1>0, Smallest
<1>2. k \in 1..n /\ k # 1
  OBVIOUS
<1>3. k - 1 \in 1..(n - 1) /\ (k - 1) + 1 = k
  BY <1>2
<1>4. k - 1 \in K
  BY <1>3
<1>5. QED
  BY <1>1, <1>2, <1>4

-----------------------------------------------------------------------------
(* Sides of a line.                                                        *)

LEMMA SideTypes ==
  ASSUME NEW a \in Point, NEW b \in Point, NEW p \in Point
  PROVE  /\ Side(a, b, p) \in Int /\ Side(b, a, p) = - Side(a, b, p)
         /\ Side(a, b, a) = 0 /\ Side(a, b, b) = 0
         /\ a.x \in Int /\ a.y \in Int
BY DEF Point, Side

\* The ray crosses an edge that goes up when its start is to the right, seen along the
\* edge, and one that goes down when its start is to the left.
LEMMA RaySide ==
  ASSUME NEW a \in Point, NEW b \in Point, NEW p \in Point
  PROVE  /\ Intersects(p, a, b) <=>
              \/ a.y <= p.y /\ p.y < b.y /\ Side(a, b, p) > 0
              \/ b.y <= p.y /\ p.y < a.y /\ Side(a, b, p) < 0
         /\ Intersects(p, a, b) <=> Intersects(p, b, a)
BY DEF Point, Side, Intersects

LEMMA TriangleSides ==
  ASSUME NEW a \in Point, NEW b \in Point, NEW c \in Point, NEW p \in Point
  PROVE  Side(a, b, p) * (c.y - p.y) + Side(b, c, p) * (a.y - p.y) + Side(c, a, p) * (b.y - p.y) = 0
BY DEF Point, Side

\* If the first of three corners is alone on its side of the ray's height.
LEMMA LoneCorner ==
  ASSUME NEW u \in Int, NEW v \in Int, NEW w \in Int, NEW x \in Int, NEW y \in Int, NEW z \in Int,
         u # 0, v # 0, w # 0, u * z + v * x + w * y = 0,
         (x > 0 /\ y <= 0 /\ z <= 0) \/ (x <= 0 /\ y > 0 /\ z > 0)
  PROVE  /\ u > 0 /\ w > 0 => v > 0
         /\ u < 0 /\ w < 0 => v < 0
<1>1. PICK uz, vx, wy : uz = u * z /\ vx = v * x /\ wy = w * y
  OBVIOUS
<1>2. uz \in Int /\ vx \in Int /\ wy \in Int /\ uz + vx + wy = 0
  BY <1>1
<1>3. /\ u > 0 /\ z > 0 => uz > 0
      /\ u < 0 /\ z > 0 => uz < 0
      /\ u > 0 /\ z <= 0 => uz <= 0
      /\ u < 0 /\ z <= 0 => uz >= 0
  BY <1>1
<1>4. /\ w > 0 /\ y > 0 => wy > 0
      /\ w < 0 /\ y > 0 => wy < 0
      /\ w > 0 /\ y <= 0 => wy <= 0
      /\ w < 0 /\ y <= 0 => wy >= 0
  BY <1>1
<1>5. /\ v > 0 /\ x > 0 => vx > 0
      /\ v < 0 /\ x > 0 => vx < 0
      /\ v > 0 /\ x <= 0 => vx <= 0
      /\ v < 0 /\ x <= 0 => vx >= 0
  BY <1>1
<1>6. QED
  BY <1>2, <1>3, <1>4, <1>5

\* If none is.
LEMMA NoCorner ==
  ASSUME NEW u \in Int, NEW v \in Int, NEW w \in Int, NEW x \in Int, NEW y \in Int, NEW z \in Int,
         u * z + v * x + w * y = 0,
         (x > 0 /\ y > 0 /\ z > 0) \/ (x <= 0 /\ y <= 0 /\ z <= 0 /\ (x < 0 \/ y < 0 \/ z < 0))
  PROVE  ~ (u > 0 /\ v > 0 /\ w > 0) /\ ~ (u < 0 /\ v < 0 /\ w < 0)
<1>1. PICK uz, vx, wy : uz = u * z /\ vx = v * x /\ wy = w * y
  OBVIOUS
<1>2. uz \in Int /\ vx \in Int /\ wy \in Int /\ uz + vx + wy = 0
  BY <1>1
<1>3. /\ (u > 0 /\ z > 0) \/ (u < 0 /\ z < 0) => uz > 0
      /\ (u < 0 /\ z > 0) \/ (u > 0 /\ z < 0) => uz < 0
      /\ z = 0 => uz = 0
  BY <1>1
<1>4. /\ (v > 0 /\ x > 0) \/ (v < 0 /\ x < 0) => vx > 0
      /\ (v < 0 /\ x > 0) \/ (v > 0 /\ x < 0) => vx < 0
      /\ x = 0 => vx = 0
  BY <1>1
<1>5. /\ (w > 0 /\ y > 0) \/ (w < 0 /\ y < 0) => wy > 0
      /\ (w < 0 /\ y > 0) \/ (w > 0 /\ y < 0) => wy < 0
      /\ y = 0 => wy = 0
  BY <1>1
<1>6. QED
  BY <1>2, <1>3, <1>4, <1>5

\* The ray crosses an odd number of the edges of a triangle around p, and an even one else.
LEMMA TriangleParity ==
  ASSUME NEW a \in Point, NEW b \in Point, NEW c \in Point, NEW p \in Point,
         Side(a, b, p) # 0, Side(b, c, p) # 0, Side(c, a, p) # 0
  PROVE  (Intersects(p, a, b) <=> (Intersects(p, b, c) <=> Intersects(p, c, a)))
           <=> WithinTriangle(a, b, c, p)
<1>1. PICK u, v, w : u = Side(a, b, p) /\ v = Side(b, c, p) /\ w = Side(c, a, p)
  OBVIOUS
<1>2. PICK x, y, z : x = a.y - p.y /\ y = b.y - p.y /\ z = c.y - p.y
  OBVIOUS
<1>3. /\ u \in Int /\ v \in Int /\ w \in Int /\ x \in Int /\ y \in Int /\ z \in Int
      /\ u # 0 /\ v # 0 /\ w # 0
  BY <1>1, <1>2, SideTypes
<1>4. u * z + v * x + w * y = 0
  BY <1>1, <1>2, TriangleSides
<1>5. /\ Intersects(p, a, b) <=> (x <= 0 /\ y > 0 /\ u > 0) \/ (y <= 0 /\ x > 0 /\ u < 0)
      /\ Intersects(p, b, c) <=> (y <= 0 /\ z > 0 /\ v > 0) \/ (z <= 0 /\ y > 0 /\ v < 0)
      /\ Intersects(p, c, a) <=> (z <= 0 /\ x > 0 /\ w > 0) \/ (x <= 0 /\ z > 0 /\ w < 0)
  <2>1. a.y \in Int /\ b.y \in Int /\ c.y \in Int /\ p.y \in Int
    BY SideTypes
  <2>2. Intersects(p, a, b) <=> (x <= 0 /\ y > 0 /\ u > 0) \/ (y <= 0 /\ x > 0 /\ u < 0)
    BY <1>1, <1>2, <2>1, RaySide
  <2>3. Intersects(p, b, c) <=> (y <= 0 /\ z > 0 /\ v > 0) \/ (z <= 0 /\ y > 0 /\ v < 0)
    BY <1>1, <1>2, <2>1, RaySide
  <2>4. Intersects(p, c, a) <=> (z <= 0 /\ x > 0 /\ w > 0) \/ (x <= 0 /\ z > 0 /\ w < 0)
    BY <1>1, <1>2, <2>1, RaySide
  <2>5. QED
    BY <2>2, <2>3, <2>4
<1>6. WithinTriangle(a, b, c, p) <=> (u > 0 /\ v > 0 /\ w > 0) \/ (u < 0 /\ v < 0 /\ w < 0)
  BY <1>1 DEF WithinTriangle
<1>7. ~ (x = 0 /\ y = 0)
  BY <1>1, <1>2, <1>3 DEF Side, Point
<1>8. CASE (x > 0 /\ y <= 0 /\ z <= 0) \/ (x <= 0 /\ y > 0 /\ z > 0)
  <2>1. (u > 0 /\ w > 0 => v > 0) /\ (u < 0 /\ w < 0 => v < 0)
    BY <1>3, <1>4, <1>8, LoneCorner
  <2>2. QED
    BY <1>3, <1>5, <1>6, <1>8, <2>1
<1>9. CASE (y > 0 /\ z <= 0 /\ x <= 0) \/ (y <= 0 /\ z > 0 /\ x > 0)
  <2>1. v * x + w * y + u * z = 0
    BY <1>3, <1>4
  <2>2. (v > 0 /\ u > 0 => w > 0) /\ (v < 0 /\ u < 0 => w < 0)
    BY <1>3, <1>9, <2>1, LoneCorner
  <2>3. QED
    BY <1>3, <1>5, <1>6, <1>9, <2>2
<1>10. CASE (z > 0 /\ x <= 0 /\ y <= 0) \/ (z <= 0 /\ x > 0 /\ y > 0)
  <2>1. w * y + u * z + v * x = 0
    BY <1>3, <1>4
  <2>2. (w > 0 /\ v > 0 => u > 0) /\ (w < 0 /\ v < 0 => u < 0)
    BY <1>3, <1>10, <2>1, LoneCorner
  <2>3. QED
    BY <1>3, <1>5, <1>6, <1>10, <2>2
<1>11. CASE (x > 0 /\ y > 0 /\ z > 0) \/ (x <= 0 /\ y <= 0 /\ z <= 0)
  <2>1. ~ (u > 0 /\ v > 0 /\ w > 0) /\ ~ (u < 0 /\ v < 0 /\ w < 0)
    BY <1>3, <1>4, <1>7, <1>11, NoCorner
  <2>2. QED
    BY <1>3, <1>5, <1>6, <1>11, <2>1
<1>12. QED
  BY <1>3, <1>8, <1>9, <1>10, <1>11

\* Odd and even as one more is counted.
LEMMA CountedParity ==
  ASSUME NEW S, IsFiniteSet(S), NEW e, e \notin S, NEW c \in BOOLEAN,
         NEW T, T = IF c THEN S \cup {e} ELSE S
  PROVE  IsFiniteSet(T) /\ (Cardinality(T) % 2 = 1 <=> ~ (Cardinality(S) % 2 = 1 <=> c))
<1>1. Cardinality(S) \in Nat
  BY FS_CardinalityType
<1>2. CASE c
  <2>1. IsFiniteSet(T) /\ Cardinality(T) = Cardinality(S) + 1
    BY <1>2, FS_AddElement
  <2>2. QED
    BY <1>1, <1>2, <2>1
<1>3. CASE ~ c
  BY <1>3
<1>4. QED
  BY <1>2, <1>3

-----------------------------------------------------------------------------
(* Inside, as meant: of an odd number of triangles of the fan.             *)

LEMMA FanParity ==
  ASSUME NEW P \in Seq(Point), NEW p \in Point, Len(P) >= 3, OffTheLines(p, P)
  PROVE  isPointInPolygon(p, P) <=> Cardinality(FanAround(p, P)) % 2 = 1
<1> DEFINE n == Len(P)
           X(i, j) == Intersects(p, P[i], P[j])
           Odd(S) == Cardinality(S) % 2 = 1
           C(k) == {i \in 2..k : X(i, i - 1)}
           F(k) == {i \in 2..(k - 1) : WithinTriangle(P[1], P[i], P[i + 1], p)}
           Fits(k) == /\ IsFiniteSet(C(k)) /\ IsFiniteSet(F(k))
                      /\ Odd(F(k)) <=> ~ (Odd(C(k)) <=> X(1, k))
<1>1. n \in Nat /\ n >= 3 /\ \A i \in 1..n : P[i] \in Point
  OBVIOUS
<1>2. \A i, j \in 1..n : X(i, j) \in BOOLEAN /\ (X(i, j) <=> X(j, i))
  BY <1>1, RaySide DEF Intersects
<1>3. Fits(2)
  <2>1. F(2) = {} /\ IsFiniteSet({}) /\ Cardinality({}) = 0
    BY FS_EmptySet
  <2>2. C(2) = IF X(2, 1) THEN {} \cup {2} ELSE {}
    OBVIOUS
  <2>3. IsFiniteSet(C(2)) /\ (Odd(C(2)) <=> ~ (Odd({}) <=> X(2, 1)))
    <3>1. X(2, 1) \in BOOLEAN
      BY <1>1, <1>2
    <3>2. PICK E, S, x : E = {} /\ S = C(2) /\ x = X(2, 1)
      OBVIOUS
    <3>3. x \in BOOLEAN /\ S = (IF x THEN E \cup {2} ELSE E) /\ 2 \notin E /\ IsFiniteSet(E)
      BY <2>1, <2>2, <3>1, <3>2
    <3> HIDE DEF C, X
    <3>4. IsFiniteSet(S) /\ (Cardinality(S) % 2 = 1 <=> ~ (Cardinality(E) % 2 = 1 <=> x))
      BY <3>3, CountedParity
    <3>5. QED
      BY <3>2, <3>4
  <2>4. X(1, 2) <=> X(2, 1)
    BY <1>1, <1>2
  <2> HIDE DEF C, X, F
  <2>5. QED
    BY <2>1, <2>3, <2>4
<1>4. ASSUME NEW k \in 2..(n - 1), Fits(k) PROVE Fits(k + 1)
  <2>1. C(k + 1) = IF X(k + 1, k) THEN C(k) \cup {k + 1} ELSE C(k)
    BY <1>1
  <2>2. PICK w \in BOOLEAN : w <=> WithinTriangle(P[1], P[k], P[k + 1], p)
    BY Zenon
  <2>3. F(k + 1) = IF w THEN F(k) \cup {k} ELSE F(k)
    BY <1>1, <2>2
  <2>4. k + 1 \notin C(k) /\ k \notin F(k) /\ X(k + 1, k) \in BOOLEAN
    BY <1>1, <1>2
  <2>5. (X(1, k) <=> (X(k, k + 1) <=> X(k + 1, 1))) <=> w
    <3>1. P[1] \in Point /\ P[k] \in Point /\ P[k + 1] \in Point
      BY <1>1
    <3>2. Side(P[1], P[k], p) # 0 /\ Side(P[1], P[k + 1], p) # 0
      BY <1>1 DEF OffTheLines
    <3>3. Side(P[k], P[k + 1], p) # 0
      <4>1. k \in 1..n /\ (k % n) + 1 = k + 1
        BY <1>1
      <4>2. QED
        BY <4>1 DEF OffTheLines, After
    <3>4. Side(P[k + 1], P[1], p) # 0
      <4>1. Side(P[1], P[k + 1], p) \in Int /\ Side(P[k + 1], P[1], p) = - Side(P[1], P[k + 1], p)
        BY <3>1, SideTypes
      <4>2. QED
        BY <3>2, <4>1
    <3>5. QED
      BY <2>2, <3>1, <3>2, <3>3, <3>4, TriangleParity
  <2>6. (X(k, k + 1) <=> X(k + 1, k)) /\ (X(1, k + 1) <=> X(k + 1, 1))
    BY <1>1, <1>2
  <2> HIDE DEF C, X, F
  <2>7. IsFiniteSet(C(k + 1)) /\ (Odd(C(k + 1)) <=> ~ (Odd(C(k)) <=> X(k + 1, k)))
    BY <1>4, <2>1, <2>4, CountedParity
  <2>8. IsFiniteSet(F(k + 1)) /\ (Odd(F(k + 1)) <=> ~ (Odd(F(k)) <=> w))
    BY <1>4, <2>3, <2>4, CountedParity
  <2> HIDE DEF Odd
  <2>9. QED
    BY <1>4, <2>5, <2>6, <2>7, <2>8
<1>5. Fits(n)
  <2> DEFINE K == {k \in 1..(n - 1) : ~ Fits(k + 1)}
  <2> HIDE DEF Fits
  <2>1. 1 \notin K
    BY <1>3
  <2>2. ASSUME NEW k \in 1..((n - 1) - 1), k + 1 \in K PROVE k \in K
    <3>1. k + 1 \in 2..(n - 1) /\ k \in 1..(n - 1) /\ ~ Fits((k + 1) + 1)
      BY <1>1, <2>2
    <3>2. ~ Fits(k + 1)
      BY <1>4, <3>1
    <3>3. QED
      BY <3>1, <3>2
  <2>3. K \subseteq 1..(n - 1) /\ n - 1 \in Nat
    BY <1>1
  <2> HIDE DEF K
  <2>4. K = {}
    BY <2>1, <2>2, <2>3, StepByStep
  <2>5. n - 1 \notin K /\ (n - 1) + 1 = n /\ n - 1 \in 1..(n - 1)
    BY <1>1, <2>4
  <2>6. QED
    BY <2>5 DEF K
<1>6. PICK T : T = {i \in 1..n : Intersects(p, P[i], Before(P, i))}
  OBVIOUS
<1>7. T = IF X(1, n) THEN C(n) \cup {1} ELSE C(n)
  BY <1>1, <1>6 DEF Before
<1>8. 1 \notin C(n) /\ X(1, n) \in BOOLEAN
  BY <1>1, <1>2
<1>9. Odd(T) <=> ~ (Odd(C(n)) <=> X(1, n))
  <2> HIDE DEF C, X
  <2>1. QED
    BY <1>5, <1>7, <1>8, CountedParity
<1>10. isPointInPolygon(p, P) <=> Odd(T)
  BY <1>1, <1>6 DEF isPointInPolygon
<1>11. FanAround(p, P) = F(n)
  BY DEF FanAround
<1> HIDE DEF C, X, F, Odd
<1>12. Odd(F(n)) <=> Odd(T)
  BY <1>5, <1>9
<1>13. QED
  BY <1>10, <1>11, <1>12 DEF Odd


\* The ray cast is right of every fence, whatever its dents and crossings.
LEMMA CastIsRight ==
  ASSUME NEW P \in Seq(Point), NEW p \in Point, OffTheLines(p, P)
  PROVE  isPointInPolygon(p, P) <=> Cardinality(FanAround(p, P)) % 2 = 1
<1>1. Len(P) \in Nat
  OBVIOUS
<1>2. CASE Len(P) >= 3
  BY <1>2, FanParity
<1>3. CASE Len(P) < 3
  <2>1. FanAround(p, P) = {}
    BY <1>1, <1>3 DEF FanAround
  <2>2. Cardinality(FanAround(p, P)) = 0
    BY <2>1, FS_EmptySet
  <2>3. ~ isPointInPolygon(p, P)
    BY <1>1, <1>3 DEF isPointInPolygon
  <2>4. QED
    BY <2>2, <2>3
<1>4. QED
  BY <1>1, <1>2, <1>3

-----------------------------------------------------------------------------
(* A fence without dents: its edges, directed so that the inside is to the *)
(* left of each, wherever the user began to draw.                          *)

\* The vertex before: the i-th edge joins it and the i-th vertex.
Bef(P, i) == IF i = 1 THEN Len(P) ELSE i - 1

Ring(P, s, t) ==
  /\ P \in Seq(Point) /\ Len(P) >= 3
  /\ \/ s = [i \in 1..Len(P) |-> Bef(P, i)] /\ t = [i \in 1..Len(P) |-> i]
     \/ t = [i \in 1..Len(P) |-> Bef(P, i)] /\ s = [i \in 1..Len(P) |-> i]
  /\ \A i, j \in 1..Len(P) : j # s[i] /\ j # t[i] => Side(P[s[i]], P[t[i]], P[j]) > 0

LEMMA BeforeIndex ==
  ASSUME NEW P \in Seq(Point), Len(P) >= 3, NEW i \in 1..Len(P)
  PROVE  /\ Bef(P, i) \in 1..Len(P) /\ Bef(P, i) # i /\ (Bef(P, i) % Len(P)) + 1 = i
         /\ P[i] \in Point
         /\ \A k \in 1..Len(P) : (Bef(P, i) = Bef(P, k) => i = k) /\ ~ (Bef(P, i) = k /\ Bef(P, k) = i)
<1>1. PICK n \in Nat : n = Len(P) /\ n >= 3
  OBVIOUS
<1>2. P[i] \in Point
  OBVIOUS
<1>3. Bef(P, i) \in 1..n /\ Bef(P, i) # i
  BY <1>1 DEF Bef
<1>4. (Bef(P, i) % n) + 1 = i
  <2>1. CASE i = 1
    BY <1>1, <2>1 DEF Bef
  <2>2. CASE i # 1
    BY <1>1, <2>2 DEF Bef
  <2>3. QED
    BY <2>1, <2>2
<1>5. ASSUME NEW k \in 1..n PROVE (Bef(P, i) = Bef(P, k) => i = k) /\ ~ (Bef(P, i) = k /\ Bef(P, k) = i)
  BY <1>1 DEF Bef
<1>6. QED
  BY <1>1, <1>2, <1>3, <1>4, <1>5

LEMMA RingEdges ==
  ASSUME NEW P, NEW s, NEW t, Ring(P, s, t)
  PROVE  /\ Len(P) \in Nat /\ \A j \in 1..Len(P) : P[j] \in Point
         /\ \A i \in 1..Len(P) : s[i] \in 1..Len(P) /\ t[i] \in 1..Len(P) /\ s[i] # t[i]
         /\ \A i, k \in 1..Len(P) : /\ s[i] = s[k] \/ t[i] = t[k] => i = k
                                    /\ ~ (s[i] = t[k] /\ t[i] = s[k])
         /\ \A i, j \in 1..Len(P) : /\ Side(P[s[i]], P[t[i]], P[j]) \in Int
                                    /\ Side(P[s[i]], P[t[i]], P[j]) >= 0
                                    /\ Side(P[s[i]], P[t[i]], P[j]) = 0 => j = s[i] \/ j = t[i]
<1>1. P \in Seq(Point) /\ Len(P) >= 3 /\ Len(P) \in Nat
  BY DEF Ring
<1>2. \A j \in 1..Len(P) : P[j] \in Point
  BY <1>1
<1>3. ASSUME NEW i \in 1..Len(P) PROVE s[i] \in 1..Len(P) /\ t[i] \in 1..Len(P) /\ s[i] # t[i]
  <2>1. Bef(P, i) \in 1..Len(P) /\ Bef(P, i) # i
    BY <1>1, BeforeIndex
  <2>2. QED
    BY <2>1 DEF Ring
<1>4. ASSUME NEW i \in 1..Len(P), NEW k \in 1..Len(P)
      PROVE  (s[i] = s[k] \/ t[i] = t[k] => i = k) /\ ~ (s[i] = t[k] /\ t[i] = s[k])
  <2>1. (Bef(P, i) = Bef(P, k) => i = k) /\ ~ (Bef(P, i) = k /\ Bef(P, k) = i)
    BY <1>1, BeforeIndex
  <2>2. QED
    BY <2>1 DEF Ring
<1>5. ASSUME NEW i \in 1..Len(P), NEW j \in 1..Len(P)
      PROVE  /\ Side(P[s[i]], P[t[i]], P[j]) \in Int
             /\ Side(P[s[i]], P[t[i]], P[j]) >= 0
             /\ Side(P[s[i]], P[t[i]], P[j]) = 0 => j = s[i] \/ j = t[i]
  <2>1. P[s[i]] \in Point /\ P[t[i]] \in Point /\ P[j] \in Point
    BY <1>2, <1>3
  <2>2. Side(P[s[i]], P[t[i]], P[j]) \in Int
    BY <2>1, SideTypes
  <2>3. Side(P[s[i]], P[t[i]], P[s[i]]) = 0 /\ Side(P[s[i]], P[t[i]], P[t[i]]) = 0
    BY <2>1, SideTypes
  <2>4. j # s[i] /\ j # t[i] => Side(P[s[i]], P[t[i]], P[j]) > 0
    BY DEF Ring
  <2>5. QED
    BY <2>2, <2>3, <2>4
<1>6. QED
  BY <1>1, <1>2, <1>3, <1>4, <1>5

LEMMA SameSign ==
  ASSUME NEW c \in Int, NEW d \in Int, c * d > 0
  PROVE  (c > 0 /\ d > 0) \/ (c < 0 /\ d < 0)
OBVIOUS

LEMMA ConvexRing ==
  ASSUME NEW P \in Seq(Point), Len(P) >= 3, Convex(P)
  PROVE  \E s, t : Ring(P, s, t)
<1>1. PICK n \in Nat : n = Len(P) /\ n >= 3
  OBVIOUS
<1>2. PICK b, d : b = [i \in 1..n |-> Bef(P, i)] /\ d = [i \in 1..n |-> i]
  OBVIOUS
<1>3. \A i \in 1..n : b[i] \in 1..n /\ b[i] # i /\ (b[i] % n) + 1 = i /\ P[i] \in Point /\ d[i] = i
  BY <1>1, <1>2, BeforeIndex
<1>4. ASSUME NEW i \in 1..n, NEW j \in 1..n, j # i, j # b[i], NEW k \in 1..n, NEW l \in 1..n, l # k, l # b[k]
      PROVE  Side(P[b[i]], P[i], P[j]) * Side(P[b[k]], P[k], P[l]) > 0
  <2>1. PICK e \in 1..n, f \in 1..n : e = b[i] /\ f = b[k]
    BY <1>3
  <2>2. (e % n) + 1 = i /\ (f % n) + 1 = k
    BY <1>3, <2>1
  <2>3. After(P, e) = P[i] /\ After(P, f) = P[k]
    BY <1>1, <2>2 DEF After
  <2>4. Side(P[e], After(P, e), P[j]) * Side(P[f], After(P, f), P[l]) > 0
    BY <1>1, <1>4, <2>1, <2>2 DEF Convex
  <2>5. QED
    BY <2>1, <2>3, <2>4
<1>5. PICK c : c = Side(P[b[2]], P[2], P[3])
  OBVIOUS
<1>6. b[2] = 1 /\ 2 \in 1..n /\ 3 \in 1..n
  BY <1>1, <1>2 DEF Bef
<1>7. c \in Int
  BY <1>3, <1>5, <1>6, SideTypes
<1>8. ASSUME NEW i \in 1..n, NEW j \in 1..n, j # i, j # b[i]
      PROVE  /\ Side(P[b[i]], P[i], P[j]) \in Int /\ Side(P[i], P[b[i]], P[j]) \in Int
             /\ c > 0 => Side(P[b[i]], P[i], P[j]) > 0
             /\ c < 0 => Side(P[i], P[b[i]], P[j]) > 0
  <2>1. P[b[i]] \in Point /\ P[i] \in Point /\ P[j] \in Point
    BY <1>3
  <2>2. PICK a \in Int : a = Side(P[b[i]], P[i], P[j])
    BY <2>1, SideTypes
  <2>3. Side(P[i], P[b[i]], P[j]) = - a
    BY <2>1, <2>2, SideTypes
  <2>4. a * c > 0
    <3>1. 3 # 2 /\ 3 # b[2]
      BY <1>6
    <3>2. Side(P[b[i]], P[i], P[j]) * Side(P[b[2]], P[2], P[3]) > 0
      BY <1>4, <1>6, <1>8, <3>1
    <3>3. QED
      BY <1>5, <2>2, <3>2
  <2>5. (a > 0 /\ c > 0) \/ (a < 0 /\ c < 0)
    BY <1>7, <2>2, <2>4, SameSign
  <2>6. QED
    BY <1>7, <2>2, <2>3, <2>5
<1>9. c > 0 \/ c < 0
  <2>1. c * c > 0
    BY <1>4, <1>5, <1>6
  <2>2. QED
    BY <1>7, <2>1, SameSign
<1>10. CASE c > 0
  <2>1. Ring(P, b, d)
    BY <1>1, <1>2, <1>3, <1>8, <1>10 DEF Ring
  <2>2. QED
    BY <2>1
<1>11. CASE c < 0
  <2>1. Ring(P, d, b)
    BY <1>1, <1>2, <1>3, <1>8, <1>11 DEF Ring
  <2>2. QED
    BY <2>1
<1>12. QED
  BY <1>9, <1>10, <1>11

-----------------------------------------------------------------------------
(* What is below, and what above, the height at which p casts its ray.     *)

Rises(P, s, t, i, p) == P[s[i]].y <= p.y /\ p.y < P[t[i]].y
Falls(P, s, t, i, p) == P[t[i]].y <= p.y /\ p.y < P[s[i]].y

\* The side of a line is affine: between c and d it is what it is at the ends, weighed.
LEMMA SideBetween ==
  ASSUME NEW a \in Point, NEW b \in Point, NEW c \in Point, NEW d \in Point, NEW p \in Point
  PROVE  (d.y - p.y) * Side(a, b, c) + (p.y - c.y) * Side(a, b, d)
           = (d.y - c.y) * Side(a, b, p) - (b.y - a.y) * Side(c, d, p)
BY DEF Point, Side

LEMMA Products ==
  ASSUME NEW u \in Int, NEW v \in Int
  PROVE  /\ u * v \in Int
         /\ u >= 0 /\ v >= 0 => u * v >= 0
         /\ u <= 0 /\ v >= 0 => u * v <= 0
         /\ u > 0 /\ v > 0 => u * v > 0
         /\ u < 0 /\ v > 0 => u * v < 0
         /\ u > 0 /\ u * v > 0 => v > 0
         /\ u > 0 /\ u * v >= 0 => v >= 0
         /\ u * v = 0 => u = 0 \/ v = 0
OBVIOUS

\* Two sums of nothing negative that cancel: what has weight is zero.
LEMMA Balanced ==
  ASSUME NEW c \in Int, NEW d \in Int, NEW e \in Int, NEW f \in Int, c > 0, d >= 0, e >= 0, f >= 0,
         NEW g \in Int, NEW h \in Int, NEW k \in Int, NEW l \in Int, g > 0, h >= 0, k >= 0, l >= 0,
         NEW z \in Int, c * e + d * f = z, g * k + h * l = - z
  PROVE  e = 0 /\ k = 0
<1>1. PICK ce, df, gk, hl : ce = c * e /\ df = d * f /\ gk = g * k /\ hl = h * l
  OBVIOUS
<1>2. ce \in Int /\ df \in Int /\ gk \in Int /\ hl \in Int /\ ce >= 0 /\ df >= 0 /\ gk >= 0 /\ hl >= 0
  BY <1>1, Products
<1>3. ce = 0 /\ gk = 0
  BY <1>1, <1>2
<1>4. QED
  BY <1>1, <1>3, Products

\* At most one edge rises through a height.
LEMMA RisesOnce ==
  ASSUME NEW P, NEW s, NEW t, Ring(P, s, t), NEW p \in Point,
         NEW i \in 1..Len(P), NEW k \in 1..Len(P), Rises(P, s, t, i, p), Rises(P, s, t, k, p)
  PROVE  i = k
<1>1. PICK a, b, c, d : a = P[s[i]] /\ b = P[t[i]] /\ c = P[s[k]] /\ d = P[t[k]]
  OBVIOUS
<1>2. a \in Point /\ b \in Point /\ c \in Point /\ d \in Point
  BY <1>1, RingEdges
<1>3. PICK C, C0, A, A0 : C = d.y - p.y /\ C0 = p.y - c.y /\ A = b.y - p.y /\ A0 = p.y - a.y
  OBVIOUS
<1>4. /\ C \in Int /\ C0 \in Int /\ A \in Int /\ A0 \in Int /\ C > 0 /\ C0 >= 0 /\ A > 0 /\ A0 >= 0
      /\ d.y - c.y = C + C0 /\ b.y - a.y = A + A0
  <2>1. a.y \in Int /\ b.y \in Int /\ c.y \in Int /\ d.y \in Int /\ p.y \in Int
    BY <1>2, SideTypes
  <2>2. Rises(P, s, t, i, p) /\ Rises(P, s, t, k, p)
    OBVIOUS
  <2>3. a.y <= p.y /\ p.y < b.y /\ c.y <= p.y /\ p.y < d.y
    BY <1>1, <2>2 DEF Rises
  <2>4. PICK ya, yb, yc, yd, h : ya = a.y /\ yb = b.y /\ yc = c.y /\ yd = d.y /\ h = p.y
    OBVIOUS
  <2>5. ya \in Int /\ yb \in Int /\ yc \in Int /\ yd \in Int /\ h \in Int
    BY <2>1, <2>4
  <2>6. ya <= h /\ h < yb /\ yc <= h /\ h < yd
    BY <2>3, <2>4
  <2>7. C = yd - h /\ C0 = h - yc /\ A = yb - h /\ A0 = h - ya
    BY <1>3, <2>4
  <2>8. C \in Int /\ C0 \in Int /\ A \in Int /\ A0 \in Int
    BY <2>5, <2>7
  <2>9. C > 0 /\ C0 >= 0 /\ A > 0 /\ A0 >= 0
    BY <2>5, <2>6, <2>7
  <2>10. yd - yc = C + C0 /\ yb - ya = A + A0
    BY <2>5, <2>7
  <2>11. QED
    BY <2>4, <2>8, <2>9, <2>10
<1>5. PICK ec, ed, fa, fb :
        ec = Side(a, b, c) /\ ed = Side(a, b, d) /\ fa = Side(c, d, a) /\ fb = Side(c, d, b)
  OBVIOUS
<1>6. PICK ep, fp : ep = Side(a, b, p) /\ fp = Side(c, d, p)
  OBVIOUS
<1>7. ec \in Int /\ ed \in Int /\ fa \in Int /\ fb \in Int /\ ec >= 0 /\ ed >= 0 /\ fa >= 0 /\ fb >= 0
  BY <1>1, <1>5, RingEdges
<1>8. ep \in Int /\ fp \in Int
  BY <1>2, <1>6, SideTypes
<1>9. PICK Z : Z = (C + C0) * ep - (A + A0) * fp
  OBVIOUS
<1>10. Z \in Int
  <2>1. (C + C0) * ep \in Int /\ (A + A0) * fp \in Int
    BY <1>4, <1>8, Products
  <2>2. QED
    BY <1>9, <2>1
<1>11. C * ec + C0 * ed = Z
  BY SMTT(30), <1>2, <1>3, <1>4, <1>5, <1>6, <1>9, SideBetween
<1>12. A * fa + A0 * fb = - Z
  <2>1. A * fa + A0 * fb = (A + A0) * fp - (C + C0) * ep
    BY <1>2, <1>3, <1>4, <1>5, <1>6, SideBetween
  <2>2. PICK x, y : x = (A + A0) * fp /\ y = (C + C0) * ep
    OBVIOUS
  <2>3. x \in Int /\ y \in Int
    BY <1>4, <1>8, <2>2, Products
  <2>4. QED
    BY <1>9, <2>1, <2>2, <2>3
<1>13. ec = 0
  BY <1>4, <1>7, <1>10, <1>11, <1>12, Balanced
<1>14. Side(P[s[i]], P[t[i]], P[s[k]]) = 0 /\ s[k] \in 1..Len(P)
  BY <1>1, <1>5, <1>13, RingEdges
<1>15. s[k] = s[i] \/ s[k] = t[i]
  <2>1. \A m, j \in 1..Len(P) : Side(P[s[m]], P[t[m]], P[j]) = 0 => j = s[m] \/ j = t[m]
    BY RingEdges
  <2>2. QED
    BY <1>14, <2>1
<1>16. s[k] # t[i]
  <2>1. b.y \in Int /\ c.y \in Int /\ p.y \in Int
    BY <1>2, SideTypes
  <2>2. b # c
    <3>1. PICK yb, yc, h : yb = b.y /\ yc = c.y /\ h = p.y
      OBVIOUS
    <3>2. A = yb - h /\ C0 = h - yc /\ yb \in Int /\ yc \in Int /\ h \in Int
      BY <1>3, <2>1, <3>1
    <3>3. yb # yc
      BY <1>4, <3>2
    <3>4. QED
      BY <3>1, <3>3
  <2>3. QED
    BY <1>1, <2>2
<1>17. QED
  BY <1>15, <1>16, RingEdges

\* And at most one falls.
LEMMA FallsOnce ==
  ASSUME NEW P, NEW s, NEW t, Ring(P, s, t), NEW p \in Point,
         NEW i \in 1..Len(P), NEW k \in 1..Len(P), Falls(P, s, t, i, p), Falls(P, s, t, k, p)
  PROVE  i = k
<1>1. PICK a, b, c, d : a = P[s[i]] /\ b = P[t[i]] /\ c = P[s[k]] /\ d = P[t[k]]
  OBVIOUS
<1>2. a \in Point /\ b \in Point /\ c \in Point /\ d \in Point
  BY <1>1, RingEdges
<1>3. PICK C, C0, A, A0 : C = c.y - p.y /\ C0 = p.y - d.y /\ A = a.y - p.y /\ A0 = p.y - b.y
  OBVIOUS
<1>4. /\ C \in Int /\ C0 \in Int /\ A \in Int /\ A0 \in Int /\ C > 0 /\ C0 >= 0 /\ A > 0 /\ A0 >= 0
      /\ d.y - c.y = - (C + C0) /\ b.y - a.y = - (A + A0) /\ p.y - c.y = - C /\ d.y - p.y = - C0
      /\ p.y - a.y = - A /\ b.y - p.y = - A0
  <2>1. a.y \in Int /\ b.y \in Int /\ c.y \in Int /\ d.y \in Int /\ p.y \in Int
    BY <1>2, SideTypes
  <2>2. Falls(P, s, t, i, p) /\ Falls(P, s, t, k, p)
    OBVIOUS
  <2>3. b.y <= p.y /\ p.y < a.y /\ d.y <= p.y /\ p.y < c.y
    BY <1>1, <2>2 DEF Falls
  <2>4. PICK ya, yb, yc, yd, h : ya = a.y /\ yb = b.y /\ yc = c.y /\ yd = d.y /\ h = p.y
    OBVIOUS
  <2>5. ya \in Int /\ yb \in Int /\ yc \in Int /\ yd \in Int /\ h \in Int
    BY <2>1, <2>4
  <2>6. yb <= h /\ h < ya /\ yd <= h /\ h < yc
    BY <2>3, <2>4
  <2>7. C = yc - h /\ C0 = h - yd /\ A = ya - h /\ A0 = h - yb
    BY <1>3, <2>4
  <2>8. C \in Int /\ C0 \in Int /\ A \in Int /\ A0 \in Int
    BY <2>5, <2>7
  <2>9. C > 0 /\ C0 >= 0 /\ A > 0 /\ A0 >= 0
    BY <2>5, <2>6, <2>7
  <2>10. /\ yd - yc = - (C + C0) /\ yb - ya = - (A + A0) /\ h - yc = - C /\ yd - h = - C0
         /\ h - ya = - A /\ yb - h = - A0
    BY <2>5, <2>7
  <2>11. QED
    BY <2>4, <2>8, <2>9, <2>10
<1>5. PICK ec, ed, fa, fb :
        ec = Side(a, b, c) /\ ed = Side(a, b, d) /\ fa = Side(c, d, a) /\ fb = Side(c, d, b)
  OBVIOUS
<1>6. PICK ep, fp : ep = Side(a, b, p) /\ fp = Side(c, d, p)
  OBVIOUS
<1>7. ec \in Int /\ ed \in Int /\ fa \in Int /\ fb \in Int /\ ec >= 0 /\ ed >= 0 /\ fa >= 0 /\ fb >= 0
  BY <1>1, <1>5, RingEdges
<1>8. ep \in Int /\ fp \in Int
  BY <1>2, <1>6, SideTypes
<1>9. PICK Z : Z = (C + C0) * ep - (A + A0) * fp
  OBVIOUS
<1>10. Z \in Int
  <2>1. (C + C0) * ep \in Int /\ (A + A0) * fp \in Int
    BY <1>4, <1>8, Products
  <2>2. QED
    BY <1>9, <2>1
<1>11. C * ed + C0 * ec = Z
  <2>1. (- C0) * ec + (- C) * ed = (- (C + C0)) * ep - (- (A + A0)) * fp
    BY <1>2, <1>4, <1>5, <1>6, SideBetween
  <2>2. QED
    BY <1>4, <1>7, <1>8, <1>9, <2>1
<1>12. A * fb + A0 * fa = - Z
  <2>1. (- A0) * fa + (- A) * fb = (- (A + A0)) * fp - (- (C + C0)) * ep
    BY <1>2, <1>4, <1>5, <1>6, SideBetween
  <2>2. QED
    BY <1>4, <1>7, <1>8, <1>9, <2>1
<1>13. ed = 0
  BY <1>4, <1>7, <1>10, <1>11, <1>12, Balanced
<1>14. Side(P[s[i]], P[t[i]], P[t[k]]) = 0 /\ t[k] \in 1..Len(P)
  BY <1>1, <1>5, <1>13, RingEdges
<1>15. t[k] = s[i] \/ t[k] = t[i]
  <2>1. \A m, j \in 1..Len(P) : Side(P[s[m]], P[t[m]], P[j]) = 0 => j = s[m] \/ j = t[m]
    BY RingEdges
  <2>2. QED
    BY <1>14, <2>1
<1>16. t[k] # s[i]
  <2>1. a.y \in Int /\ d.y \in Int /\ p.y \in Int
    BY <1>2, SideTypes
  <2>2. a # d
    <3>1. PICK ya, yd, h : ya = a.y /\ yd = d.y /\ h = p.y
      OBVIOUS
    <3>2. A = ya - h /\ C0 = h - yd /\ ya \in Int /\ yd \in Int /\ h \in Int
      BY <1>3, <2>1, <3>1
    <3>3. ya # yd
      BY <1>4, <3>2
    <3>4. QED
      BY <3>1, <3>3
  <2>3. QED
    BY <1>1, <2>2
<1>17. QED
  BY <1>15, <1>16, RingEdges

\* Around the ring, a set of vertices that is not all of them is entered somewhere.
LEMMA OneTurn ==
  ASSUME NEW P \in Seq(Point), Len(P) >= 3, NEW H, H \subseteq 1..Len(P), H # {}, H # 1..Len(P)
  PROVE  \E i \in 1..Len(P) : i \in H /\ Bef(P, i) \notin H
<1> SUFFICES ASSUME \A i \in 1..Len(P) : i \in H => Bef(P, i) \in H PROVE FALSE
  OBVIOUS
<1>1. PICK n \in Nat : n = Len(P) /\ n >= 3
  OBVIOUS
<1>2. \A k \in 1..(n - 1) : k + 1 \in H => k \in H
  <2>1. ASSUME NEW k \in 1..(n - 1), k + 1 \in H PROVE k \in H
    <3>1. k + 1 \in 1..Len(P) /\ Bef(P, k + 1) = k
      BY <1>1 DEF Bef
    <3>2. QED
      BY <2>1, <3>1
  <2>2. QED
    BY <2>1
<1>3. 1 \in H
  <2>1. H \subseteq 1..n
    BY <1>1
  <2>2. QED
    BY <1>1, <1>2, <2>1, StepByStep
<1>4. n \in H
  BY <1>1, <1>3 DEF Bef
<1>5. PICK K : K = {k \in 1..n : n + 1 - k \notin H}
  OBVIOUS
<1>6. 1 \notin K
  BY <1>1, <1>4, <1>5
<1>7. ASSUME NEW k \in 1..(n - 1), k + 1 \in K PROVE k \in K
  <2>1. n + 1 - (k + 1) = n - k /\ n - k \in 1..(n - 1) /\ (n - k) + 1 = n + 1 - k /\ k \in 1..n
    BY <1>1
  <2>2. n - k \notin H
    BY <1>5, <1>7, <2>1
  <2>3. n + 1 - k \notin H
    BY <1>2, <2>1, <2>2
  <2>4. QED
    BY <1>5, <2>1, <2>3
<1>8. K = {}
  <2>1. K \subseteq 1..n
    BY <1>5
  <2>2. QED
    BY <1>1, <1>6, <1>7, <2>1, StepByStep
<1>9. ASSUME NEW j \in 1..n PROVE j \in H
  <2>1. n + 1 - j \in 1..n /\ n + 1 - (n + 1 - j) = j
    BY <1>1
  <2>2. QED
    BY <1>5, <1>8, <2>1
<1>10. QED
  BY <1>1, <1>9

\* And left somewhere: what is neither all above a height nor all below rises and falls.
LEMMA RingTurns ==
  ASSUME NEW P, NEW s, NEW t, Ring(P, s, t), NEW p \in Point,
         NEW j \in 1..Len(P), NEW k \in 1..Len(P), P[j].y <= p.y, p.y < P[k].y
  PROVE  \E e, g \in 1..Len(P) : Rises(P, s, t, e, p) /\ Falls(P, s, t, g, p)
<1>1. PICK n \in Nat : n = Len(P) /\ n >= 3 /\ P \in Seq(Point)
  BY DEF Ring
<1>2. PICK H, G : H = {m \in 1..n : P[m].y <= p.y} /\ G = {m \in 1..n : p.y < P[m].y}
  OBVIOUS
<1>3. ASSUME NEW m \in 1..n PROVE (m \in G <=> m \notin H) /\ Bef(P, m) \in 1..n
  <2>1. P[m].y \in Int /\ p.y \in Int
    BY <1>1, SideTypes
  <2>2. Bef(P, m) \in 1..n
    BY <1>1, BeforeIndex
  <2>3. QED
    BY <1>2, <2>1, <2>2
<1>4. H \subseteq 1..n /\ G \subseteq 1..n /\ j \in H /\ k \in G /\ k \notin H /\ j \notin G
  BY <1>1, <1>2, <1>3
<1>5. PICK u \in 1..n : u \in H /\ Bef(P, u) \notin H
  BY <1>1, <1>4, OneTurn
<1>6. PICK v \in 1..n : v \in G /\ Bef(P, v) \notin G
  BY <1>1, <1>4, OneTurn
<1>7. P[u].y <= p.y /\ p.y < P[Bef(P, u)].y /\ p.y < P[v].y /\ P[Bef(P, v)].y <= p.y
  BY <1>2, <1>3, <1>5, <1>6
<1>8. CASE s = [i \in 1..Len(P) |-> Bef(P, i)] /\ t = [i \in 1..Len(P) |-> i]
  <2>1. Rises(P, s, t, v, p) /\ Falls(P, s, t, u, p)
    BY <1>1, <1>7, <1>8 DEF Rises, Falls
  <2>2. QED
    BY <1>1, <2>1
<1>9. CASE t = [i \in 1..Len(P) |-> Bef(P, i)] /\ s = [i \in 1..Len(P) |-> i]
  <2>1. Rises(P, s, t, u, p) /\ Falls(P, s, t, v, p)
    BY <1>1, <1>7, <1>9 DEF Rises, Falls
  <2>2. QED
    BY <1>1, <2>1
<1>10. QED
  BY <1>8, <1>9 DEF Ring

\* Where an edge rises and another falls, p cannot be to the right of both.
LEMMA NotBoth ==
  ASSUME NEW P, NEW s, NEW t, Ring(P, s, t), NEW p \in Point,
         NEW e \in 1..Len(P), NEW g \in 1..Len(P), Rises(P, s, t, e, p), Falls(P, s, t, g, p),
         Side(P[s[g]], P[t[g]], p) < 0
  PROVE  Side(P[s[e]], P[t[e]], p) > 0
<1>1. PICK a, b, c, d : a = P[s[e]] /\ b = P[t[e]] /\ c = P[s[g]] /\ d = P[t[g]]
  OBVIOUS
<1>2. a \in Point /\ b \in Point /\ c \in Point /\ d \in Point
  BY <1>1, RingEdges
<1>3. PICK ya, yb, yc, yd, h : ya = a.y /\ yb = b.y /\ yc = c.y /\ yd = d.y /\ h = p.y
  OBVIOUS
<1>4. ya \in Int /\ yb \in Int /\ yc \in Int /\ yd \in Int /\ h \in Int
  BY <1>2, <1>3, SideTypes
<1>5. ya <= h /\ h < yb /\ yd <= h /\ h < yc
  BY <1>1, <1>3 DEF Rises, Falls
<1>6. PICK ec, ed, se, sg : ec = Side(a, b, c) /\ ed = Side(a, b, d) /\ se = Side(a, b, p) /\ sg = Side(c, d, p)
  OBVIOUS
<1>7. ec \in Int /\ ed \in Int /\ ec >= 0 /\ ed >= 0
  BY <1>1, <1>6, RingEdges
<1>8. se \in Int /\ sg \in Int /\ sg < 0
  BY <1>1, <1>2, <1>6, SideTypes
<1>9. (yd - h) * ec + (h - yc) * ed = (yd - yc) * se - (yb - ya) * sg
  BY <1>2, <1>3, <1>6, SideBetween
<1>10. yd - h <= 0 /\ h - yc <= 0 /\ yc - yd > 0 /\ yb - ya > 0
  BY <1>4, <1>5
<1>11. PICK q, r, u, v : q = (yd - h) * ec /\ r = (h - yc) * ed /\ u = (yc - yd) * se /\ v = (yb - ya) * sg
  OBVIOUS
<1>12. q \in Int /\ r \in Int /\ q <= 0 /\ r <= 0 /\ u \in Int
  BY <1>4, <1>7, <1>8, <1>10, <1>11, Products
<1>13. v \in Int /\ v < 0
  <2>1. sg * (yb - ya) = v /\ yb - ya \in Int
    BY <1>4, <1>8, <1>11
  <2>2. QED
    BY <1>8, <1>10, <2>1, Products
<1>14. (yd - yc) * se = - u
  BY <1>4, <1>8, <1>11
<1>15. u > 0
  BY <1>9, <1>11, <1>12, <1>13, <1>14
<1>16. se > 0
  BY <1>4, <1>8, <1>10, <1>11, <1>15, Products
<1>17. QED
  BY <1>1, <1>6, <1>16

LEMMA Crossings ==
  ASSUME NEW P, NEW s, NEW t, Ring(P, s, t), NEW p \in Point, NEW i \in 1..Len(P)
  PROVE  Intersects(p, P[i], Before(P, i)) <=>
           \/ Rises(P, s, t, i, p) /\ Side(P[s[i]], P[t[i]], p) > 0
           \/ Falls(P, s, t, i, p) /\ Side(P[s[i]], P[t[i]], p) < 0
<1>1. PICK a, b : a = P[s[i]] /\ b = P[t[i]]
  OBVIOUS
<1>2. a \in Point /\ b \in Point
  BY <1>1, RingEdges
<1>3. Intersects(p, a, b) <=>
        \/ a.y <= p.y /\ p.y < b.y /\ Side(a, b, p) > 0
        \/ b.y <= p.y /\ p.y < a.y /\ Side(a, b, p) < 0
  BY <1>2, RaySide
<1>4. Intersects(p, a, b) <=> Intersects(p, b, a)
  BY <1>2, RaySide
<1>5. \/ a = P[Bef(P, i)] /\ b = P[i]
      \/ b = P[Bef(P, i)] /\ a = P[i]
  BY <1>1 DEF Ring
<1>6. Before(P, i) = P[Bef(P, i)]
  BY DEF Before, Bef
<1>7. Intersects(p, P[i], Before(P, i)) <=> Intersects(p, a, b)
  BY <1>4, <1>5, <1>6
<1>8. QED
  BY <1>1, <1>3, <1>7 DEF Rises, Falls

\* Where p casts its ray one edge rises and one falls, or none does: p is inside when it
\* is to the left of both.
LEMMA InsideBetween ==
  ASSUME NEW P, NEW s, NEW t, Ring(P, s, t), NEW p \in Point
  PROVE  isPointInPolygon(p, P) <=>
           \E e, g \in 1..Len(P) : /\ Rises(P, s, t, e, p) /\ Side(P[s[e]], P[t[e]], p) > 0
                                   /\ Falls(P, s, t, g, p) /\ Side(P[s[g]], P[t[g]], p) >= 0
<1>1. PICK n \in Nat : n = Len(P) /\ n >= 3 /\ P \in Seq(Point)
  BY DEF Ring
<1>2. PICK K : K = {i \in 1..n : Intersects(p, P[i], Before(P, i))}
  OBVIOUS
<1>3. isPointInPolygon(p, P) <=> Cardinality(K) % 2 = 1
  BY <1>1, <1>2 DEF isPointInPolygon
<1>4. \A i \in K : Rises(P, s, t, i, p) \/ Falls(P, s, t, i, p)
  BY <1>1, <1>2, Crossings
<1>5. CASE \A i \in 1..n : ~ Rises(P, s, t, i, p) /\ ~ Falls(P, s, t, i, p)
  <2>1. K = {}
    BY <1>2, <1>4, <1>5
  <2>2. Cardinality(K) = 0
    BY <2>1, FS_EmptySet
  <2>3. QED
    BY <1>1, <1>3, <1>5, <2>2
<1>6. CASE \E i \in 1..n : Rises(P, s, t, i, p) \/ Falls(P, s, t, i, p)
  <2>1. PICK j \in 1..n, k \in 1..n : P[j].y <= p.y /\ p.y < P[k].y
    <3>1. PICK i \in 1..n : Rises(P, s, t, i, p) \/ Falls(P, s, t, i, p)
      BY <1>6
    <3>2. s[i] \in 1..n /\ t[i] \in 1..n
      BY <1>1, RingEdges
    <3>3. QED
      BY <3>1, <3>2 DEF Rises, Falls
  <2>2. PICK e \in 1..n, g \in 1..n : Rises(P, s, t, e, p) /\ Falls(P, s, t, g, p)
    BY <1>1, <2>1, RingTurns
  <2>3. /\ \A i \in 1..n : Rises(P, s, t, i, p) => i = e
        /\ \A i \in 1..n : Falls(P, s, t, i, p) => i = g
    BY <1>1, <2>2, RisesOnce, FallsOnce
  <2>4. PICK se, sg : se = Side(P[s[e]], P[t[e]], p) /\ sg = Side(P[s[g]], P[t[g]], p)
    OBVIOUS
  <2>5. se \in Int /\ sg \in Int
    <3>1. P[s[e]] \in Point /\ P[t[e]] \in Point /\ P[s[g]] \in Point /\ P[t[g]] \in Point
      BY <1>1, RingEdges
    <3>2. QED
      BY <2>4, <3>1, SideTypes
  <2>6. sg < 0 => se > 0
    BY <1>1, <2>2, <2>4, NotBoth
  <2>7. e # g /\ ~ Falls(P, s, t, e, p) /\ ~ Rises(P, s, t, g, p)
    <3>1. /\ P[s[e]].y \in Int /\ P[t[e]].y \in Int /\ P[s[g]].y \in Int /\ P[t[g]].y \in Int /\ p.y \in Int
      <4>1. P[s[e]] \in Point /\ P[t[e]] \in Point /\ P[s[g]] \in Point /\ P[t[g]] \in Point
        BY <1>1, RingEdges
      <4>2. QED
        BY <4>1, SideTypes
    <3>2. ~ Falls(P, s, t, e, p) /\ ~ Rises(P, s, t, g, p)
      BY <2>2, <3>1 DEF Rises, Falls
    <3>3. QED
      BY <2>2, <3>2
  <2>8. e \in K <=> se > 0
    BY <1>1, <1>2, <2>2, <2>4, <2>7, Crossings
  <2>9. g \in K <=> sg < 0
    BY <1>1, <1>2, <2>2, <2>4, <2>7, Crossings
  <2>10. K \subseteq {e, g}
    BY <1>2, <1>4, <2>3
  <2>11. Cardinality(K) % 2 = 1 <=> se > 0 /\ sg >= 0
    <3>1. CASE se > 0 /\ sg >= 0
      <4>1. e \in K /\ g \notin K
        BY <2>5, <2>8, <2>9, <3>1
      <4>2. K = {e}
        BY <2>10, <4>1
      <4>3. Cardinality(K) = 1
        BY <4>2, FS_Singleton
      <4>4. QED
        BY <3>1, <4>3
    <3>2. CASE sg < 0
      <4>1. K = {e} \cup {g} /\ g \notin {e}
        BY <2>5, <2>6, <2>7, <2>8, <2>9, <2>10, <3>2
      <4>2. IsFiniteSet({e}) /\ Cardinality({e}) = 1
        BY FS_Singleton
      <4>3. Cardinality(K) = 2
        BY <4>1, <4>2, FS_AddElement
      <4>4. QED
        BY <2>5, <3>2, <4>3
    <3>3. CASE se <= 0 /\ sg >= 0
      <4>1. K = {}
        BY <2>5, <2>8, <2>9, <2>10, <3>3
      <4>2. Cardinality(K) = 0
        BY <4>1, FS_EmptySet
      <4>3. QED
        BY <2>5, <3>3, <4>2
    <3>4. QED
      BY <2>5, <3>1, <3>2, <3>3
  <2>12. QED
    BY <1>1, <1>3, <2>2, <2>3, <2>4, <2>11
<1>7. QED
  BY <1>5, <1>6

\* What is inside is to the left of every edge, and strictly of one that goes up.
LEMMA InsideSides ==
  ASSUME NEW P, NEW s, NEW t, Ring(P, s, t), NEW p \in Point, isPointInPolygon(p, P), NEW k \in 1..Len(P)
  PROVE  /\ Side(P[s[k]], P[t[k]], p) \in Int
         /\ Side(P[s[k]], P[t[k]], p) >= 0
         /\ P[s[k]].y < P[t[k]].y => Side(P[s[k]], P[t[k]], p) > 0
<1>1. PICK e \in 1..Len(P), g \in 1..Len(P) :
        /\ Rises(P, s, t, e, p) /\ Side(P[s[e]], P[t[e]], p) > 0
        /\ Falls(P, s, t, g, p) /\ Side(P[s[g]], P[t[g]], p) >= 0
  BY InsideBetween
<1>2. PICK a, b, c, d, u, v : /\ a = P[s[e]] /\ b = P[t[e]] /\ c = P[s[g]] /\ d = P[t[g]]
                              /\ u = P[s[k]] /\ v = P[t[k]]
  OBVIOUS
<1>3. a \in Point /\ b \in Point /\ c \in Point /\ d \in Point /\ u \in Point /\ v \in Point
  BY <1>2, RingEdges
<1>4. PICK ya, yb, yc, yd, h, w : /\ ya = a.y /\ yb = b.y /\ yc = c.y /\ yd = d.y /\ h = p.y
                                  /\ w = v.y - u.y
  OBVIOUS
<1>5. /\ ya \in Int /\ yb \in Int /\ yc \in Int /\ yd \in Int /\ h \in Int /\ w \in Int
      /\ u.y < v.y => w > 0
  <2>1. PICK yu, yv : yu = u.y /\ yv = v.y
    OBVIOUS
  <2>2. yu \in Int /\ yv \in Int
    BY <1>3, <2>1, SideTypes
  <2>3. w = yv - yu
    BY <1>4, <2>1
  <2>4. w \in Int /\ (yu < yv => w > 0)
    BY <2>2, <2>3
  <2>5. /\ ya \in Int /\ yb \in Int /\ yc \in Int /\ yd \in Int /\ h \in Int
    BY <1>3, <1>4, SideTypes
  <2>6. QED
    BY <2>1, <2>4, <2>5
<1>6. ya <= h /\ h < yb /\ yd <= h /\ h < yc
  BY <1>1, <1>2, <1>4 DEF Rises, Falls
<1>7. PICK fa, fb, fc, fd, fp, se, sg :
        /\ fa = Side(u, v, a) /\ fb = Side(u, v, b) /\ fc = Side(u, v, c) /\ fd = Side(u, v, d)
        /\ fp = Side(u, v, p) /\ se = Side(a, b, p) /\ sg = Side(c, d, p)
  OBVIOUS
<1>8. /\ fa \in Int /\ fb \in Int /\ fc \in Int /\ fd \in Int
      /\ fa >= 0 /\ fb >= 0 /\ fc >= 0 /\ fd >= 0
  BY <1>2, <1>7, RingEdges
<1>9. fp \in Int /\ se \in Int /\ sg \in Int /\ se > 0 /\ sg >= 0
  BY <1>1, <1>2, <1>3, <1>7, SideTypes
<1>10. w >= 0 => fp >= 0 /\ (w > 0 => fp > 0)
  <2>1. (yb - h) * fa + (h - ya) * fb = (yb - ya) * fp - w * se
    BY <1>3, <1>4, <1>7, SideBetween
  <2>2. PICK q, r, y, z : q = (yb - h) * fa /\ r = (h - ya) * fb /\ y = (yb - ya) * fp /\ z = w * se
    OBVIOUS
  <2>3. yb - h >= 0 /\ h - ya >= 0 /\ yb - ya > 0 /\ yb - h \in Int /\ h - ya \in Int /\ yb - ya \in Int
    BY <1>5, <1>6
  <2>4. q \in Int /\ r \in Int /\ q >= 0 /\ r >= 0 /\ y \in Int
    BY <1>8, <1>9, <2>2, <2>3, Products
  <2>5. z \in Int /\ (w >= 0 => z >= 0) /\ (w > 0 => z > 0)
    BY <1>5, <1>9, <2>2, Products
  <2>6. w >= 0 => y >= 0 /\ (w > 0 => y > 0)
    <3>1. q + r = y - z
      BY <2>1, <2>2
    <3>2. QED
      BY <1>5, <2>4, <2>5, <3>1
  <2>7. QED
    BY <1>9, <2>2, <2>3, <2>6, Products
<1>11. w <= 0 => fp >= 0
  <2>1. (yd - h) * fc + (h - yc) * fd = (yd - yc) * fp - w * sg
    BY <1>3, <1>4, <1>7, SideBetween
  <2>2. PICK q, r, y, z : q = (yd - h) * fc /\ r = (h - yc) * fd /\ y = (yc - yd) * fp /\ z = w * sg
    OBVIOUS
  <2>3. yd - h <= 0 /\ h - yc <= 0 /\ yc - yd > 0 /\ yd - h \in Int /\ h - yc \in Int /\ yc - yd \in Int
    BY <1>5, <1>6
  <2>4. q \in Int /\ r \in Int /\ q <= 0 /\ r <= 0 /\ y \in Int
    BY <1>8, <1>9, <2>2, <2>3, Products
  <2>5. z \in Int /\ (w <= 0 => z <= 0)
    BY <1>5, <1>9, <2>2, Products
  <2>6. (yd - yc) * fp = - y
    BY <1>5, <1>9, <2>2
  <2>7. w <= 0 => y >= 0
    BY <2>1, <2>2, <2>4, <2>5, <2>6
  <2>8. QED
    BY <1>9, <2>2, <2>3, <2>7, Products
<1>12. QED
  BY <1>2, <1>5, <1>7, <1>9, <1>10, <1>11

-----------------------------------------------------------------------------
(* A leg between two places inside.                                        *)

LEMMA Spread ==
  ASSUME NEW u \in Int, NEW v \in Int, NEW w \in Int, NEW x \in Int, NEW y \in Int, NEW z \in Int,
         NEW m \in Int, NEW n \in Int
  PROVE  u * (n * w + m * y) - v * (n * x + m * z) = n * (u * w - v * x) + m * (u * y - v * z)
<1>1. PICK uw, uy, vx, vz : uw = u * w /\ uy = u * y /\ vx = v * x /\ vz = v * z
  OBVIOUS
<1>2. uw \in Int /\ uy \in Int /\ vx \in Int /\ vz \in Int
  BY <1>1, Products
<1>3. u * (n * w) = n * uw /\ u * (m * y) = m * uy /\ v * (n * x) = n * vx /\ v * (m * z) = m * vz
  BY <1>1
<1>4. u * (n * w + m * y) = n * uw + m * uy
  <2>1. u * (n * w + m * y) = u * (n * w) + u * (m * y)
    OBVIOUS
  <2>2. QED
    BY <1>3, <2>1
<1>5. v * (n * x + m * z) = n * vx + m * vz
  <2>1. v * (n * x + m * z) = v * (n * x) + v * (m * z)
    OBVIOUS
  <2>2. QED
    BY <1>3, <2>1
<1>6. n * (uw - vx) = n * uw - n * vx /\ m * (uy - vz) = m * uy - m * vz
  BY <1>2
<1>7. (n * uw + m * uy) - (n * vx + m * vz) = (n * uw - n * vx) + (m * uy - m * vz)
  BY <1>2
<1>8. QED
  BY <1>1, <1>4, <1>5, <1>6, <1>7

LEMMA TenfoldPoint ==
  ASSUME NEW a \in Point
  PROVE  At2(10 * a.x, 10 * a.y) \in Point
BY DEF At2, Point

LEMMA HundredSide ==
  ASSUME NEW a \in Point, NEW b \in Point, NEW c \in Point
  PROVE  Side(At2(10 * a.x, 10 * a.y), At2(10 * b.x, 10 * b.y), At2(10 * c.x, 10 * c.y))
           = 100 * Side(a, b, c)
BY DEF At2, Point, Side

LEMMA TenthsFrom ==
  ASSUME NEW a \in Int, NEW c \in Int, NEW d \in Int, NEW m \in Int
  PROVE  (10 * c + m * (d - c)) - 10 * a = (10 - m) * (c - a) + m * (d - a)
OBVIOUS

LEMMA TenfoldSides ==
  ASSUME NEW a \in Point, NEW b \in Point, NEW c \in Point, NEW d \in Point, NEW m \in Int
  PROVE  /\ Sample(c, d, m) \in Point
         /\ Side(At2(10 * a.x, 10 * a.y), At2(10 * b.x, 10 * b.y), Sample(c, d, m))
              = 10 * ((10 - m) * Side(a, b, c) + m * Side(a, b, d))
<1>1. a.x \in Int /\ a.y \in Int /\ c.x \in Int /\ c.y \in Int /\ d.x \in Int /\ d.y \in Int
  BY DEF Point
<1>3. Sample(c, d, m) \in Point
  <2>1. m * (d.x - c.x) \in Int /\ m * (d.y - c.y) \in Int
    BY <1>1, Products
  <2>2. QED
    BY <1>1, <2>1 DEF Sample, At2, Point
<1>5. Side(At2(10 * a.x, 10 * a.y), At2(10 * b.x, 10 * b.y), Sample(c, d, m))
        = 10 * ((10 - m) * Side(a, b, c) + m * Side(a, b, d))
  <2>1. PICK u, v, w, x, y, z, n : /\ u = b.x - a.x /\ v = b.y - a.y /\ x = c.x - a.x /\ w = c.y - a.y
                                   /\ z = d.x - a.x /\ y = d.y - a.y /\ n = 10 - m
    OBVIOUS
  <2>2. /\ u \in Int /\ v \in Int /\ w \in Int /\ x \in Int /\ y \in Int /\ z \in Int /\ n \in Int
    BY <2>1 DEF Point
  <2>3. Side(a, b, c) = u * w - v * x /\ Side(a, b, d) = u * y - v * z
    BY <2>1 DEF Side
  <2>4. PICK q : q = Sample(c, d, m)
    OBVIOUS
  <2>5. q.y - 10 * a.y = n * w + m * y /\ q.x - 10 * a.x = n * x + m * z
    <3>1. q.y = 10 * c.y + m * (d.y - c.y) /\ q.x = 10 * c.x + m * (d.x - c.x)
      BY <2>4 DEF Sample, At2
    <3>2. a.x \in Int /\ a.y \in Int
      BY DEF Point
    <3>3. q.y - 10 * a.y = (10 - m) * (c.y - a.y) + m * (d.y - a.y)
      <4>1. PICK aa, cc, dd : aa = a.y /\ cc = c.y /\ dd = d.y
        OBVIOUS
      <4>2. aa \in Int /\ cc \in Int /\ dd \in Int
        BY <1>1, <3>2, <4>1
      <4>3. (10 * cc + m * (dd - cc)) - 10 * aa = (10 - m) * (cc - aa) + m * (dd - aa)
        BY <4>2, TenthsFrom
      <4>4. QED
        BY <3>1, <4>1, <4>3
    <3>4. q.x - 10 * a.x = (10 - m) * (c.x - a.x) + m * (d.x - a.x)
      <4>1. PICK aa, cc, dd : aa = a.x /\ cc = c.x /\ dd = d.x
        OBVIOUS
      <4>2. aa \in Int /\ cc \in Int /\ dd \in Int
        BY <1>1, <3>2, <4>1
      <4>3. (10 * cc + m * (dd - cc)) - 10 * aa = (10 - m) * (cc - aa) + m * (dd - aa)
        BY <4>2, TenthsFrom
      <4>4. QED
        BY <3>1, <4>1, <4>3
    <3>5. QED
      BY <2>1, <3>3, <3>4
  <2>6. Side(At2(10 * a.x, 10 * a.y), At2(10 * b.x, 10 * b.y), q)
          = (10 * b.x - 10 * a.x) * (n * w + m * y) - (10 * b.y - 10 * a.y) * (n * x + m * z)
    BY <2>5 DEF Side, At2
  <2>7. 10 * b.x - 10 * a.x = 10 * u /\ 10 * b.y - 10 * a.y = 10 * v
    BY <2>1 DEF Point
  <2>8. PICK e, f : e = n * w + m * y /\ f = n * x + m * z
    OBVIOUS
  <2>9. e \in Int /\ f \in Int
    <3>1. n * w \in Int /\ m * y \in Int /\ n * x \in Int /\ m * z \in Int
      BY <2>2, Products
    <3>2. QED
      BY <2>8, <3>1
  <2>10. (10 * u) * e - (10 * v) * f = 10 * (u * e - v * f)
    BY <2>2, <2>9
  <2>11. u * e - v * f = n * (u * w - v * x) + m * (u * y - v * z)
    BY <2>2, <2>8, Spread
  <2>12. QED
    BY <2>1, <2>3, <2>4, <2>6, <2>7, <2>8, <2>10, <2>11
<1>6. QED
  BY <1>3, <1>5

LEMMA TenfoldRing ==
  ASSUME NEW P, NEW s, NEW t, Ring(P, s, t)
  PROVE  /\ Ring(Tenfold(P), s, t) /\ Len(Tenfold(P)) = Len(P)
         /\ \A i \in 1..Len(P) : Tenfold(P)[i] = At2(10 * P[i].x, 10 * P[i].y)
<1>1. PICK n \in Nat : n = Len(P) /\ n >= 3 /\ P \in Seq(Point)
  BY DEF Ring
<1>2. PICK Q : Q = Tenfold(P)
  OBVIOUS
<1>3. ASSUME NEW i \in 1..n PROVE Q[i] = At2(10 * P[i].x, 10 * P[i].y) /\ Q[i] \in Point /\ P[i] \in Point
  <2>1. P[i] \in Point
    BY <1>1
  <2>2. Q[i] = At2(10 * P[i].x, 10 * P[i].y)
    BY <1>1, <1>2 DEF Tenfold
  <2>3. QED
    BY <2>1, <2>2, TenfoldPoint
<1>4. Q \in Seq(Point) /\ Len(Q) = n
  <2>1. Q = [i \in 1..n |-> At2(10 * P[i].x, 10 * P[i].y)]
    BY <1>1, <1>2 DEF Tenfold
  <2>2. \A i \in 1..n : At2(10 * P[i].x, 10 * P[i].y) \in Point
    BY <1>3
  <2>3. QED
    BY <2>1, <2>2
<1>5. ASSUME NEW i \in 1..n, NEW j \in 1..n, j # s[i], j # t[i]
      PROVE  Side(Q[s[i]], Q[t[i]], Q[j]) > 0
  <2>1. s[i] \in 1..n /\ t[i] \in 1..n
    BY <1>1, RingEdges
  <2>2. PICK z \in Int : z = Side(P[s[i]], P[t[i]], P[j])
    BY <1>1, RingEdges
  <2>3. z > 0
    BY <1>1, <1>5, <2>2 DEF Ring
  <2>4. Side(Q[s[i]], Q[t[i]], Q[j]) = 100 * z
    BY <1>3, <2>1, <2>2, HundredSide
  <2>5. QED
    BY <2>3, <2>4
<1>6. \A i \in 1..n : Bef(Q, i) = Bef(P, i)
  BY <1>1, <1>4 DEF Bef
<1>7. \/ s = [i \in 1..Len(Q) |-> Bef(Q, i)] /\ t = [i \in 1..Len(Q) |-> i]
      \/ t = [i \in 1..Len(Q) |-> Bef(Q, i)] /\ s = [i \in 1..Len(Q) |-> i]
  <2>1. [i \in 1..Len(Q) |-> Bef(Q, i)] = [i \in 1..n |-> Bef(P, i)]
    BY <1>4, <1>6
  <2>2. QED
    BY <1>1, <1>4, <2>1 DEF Ring
<1>8. Ring(Q, s, t)
  BY <1>1, <1>4, <1>5, <1>7 DEF Ring
<1>9. QED
  BY <1>1, <1>2, <1>3, <1>4, <1>8

\* Tenths of the way from one number to another.
LEMMA Tenths ==
  ASSUME NEW u \in Int, NEW v \in Int, NEW m \in 1..9
  PROVE  /\ 10 * u + m * (v - u) \in Int
         /\ u <= v => 10 * u <= 10 * u + m * (v - u) /\ 10 * u + m * (v - u) <= 10 * v
         /\ v <= u => 10 * v <= 10 * u + m * (v - u) /\ 10 * u + m * (v - u) <= 10 * u
         /\ u >= 0 /\ v >= 0 => (10 - m) * u + m * v \in Int /\ (10 - m) * u + m * v >= 0
         /\ u > 0 /\ v > 0 => (10 - m) * u + m * v > 0
OBVIOUS

\* In a fence without dents each leg between two places inside stays inside.
LEMMA LegInside ==
  ASSUME NEW P, NEW s, NEW t, Ring(P, s, t), NEW p \in Point, NEW r \in Point,
         isPointInPolygon(p, P), isPointInPolygon(r, P), NEW m \in 1..9
  PROVE  isPointInPolygon(Sample(p, r, m), Tenfold(P))
<1>1. PICK Q, q : Q = Tenfold(P) /\ q = Sample(p, r, m)
  OBVIOUS
<1>2. PICK n \in Nat : n = Len(P) /\ n >= 3 /\ P \in Seq(Point)
  BY DEF Ring
<1>3. Ring(Q, s, t) /\ Len(Q) = n /\ \A i \in 1..n : Q[i] = At2(10 * P[i].x, 10 * P[i].y)
  BY <1>1, <1>2, TenfoldRing
<1>4. q \in Point
  BY <1>1, TenfoldSides
<1>5. \A i \in 1..n : P[i] \in Point /\ P[i].y \in Int /\ s[i] \in 1..n /\ t[i] \in 1..n
  BY <1>2, RingEdges, SideTypes
<1>6. PICK h, k, l : h = p.y /\ k = r.y /\ l = q.y
  OBVIOUS
<1>7. h \in Int /\ k \in Int /\ l \in Int /\ l = 10 * h + m * (k - h)
  BY <1>1, <1>4, <1>6, SideTypes DEF Sample, At2
<1>8. \A i \in 1..n : Q[i].y = 10 * P[i].y
  BY <1>3 DEF At2
<1>9. PICK e1 \in 1..n, g1 \in 1..n : P[s[e1]].y <= h /\ h < P[t[e1]].y
  BY <1>2, <1>6, InsideBetween DEF Rises
<1>10. PICK e2 \in 1..n : P[s[e2]].y <= k /\ k < P[t[e2]].y
  BY <1>2, <1>6, InsideBetween DEF Rises
<1>11. \E i, j \in 1..n : Q[i].y <= l /\ l < Q[j].y
  <2>1. PICK y1, z1, y2, z2 : /\ y1 = P[s[e1]].y /\ z1 = P[t[e1]].y
                              /\ y2 = P[s[e2]].y /\ z2 = P[t[e2]].y
    OBVIOUS
  <2>2. y1 \in Int /\ y2 \in Int /\ z1 \in Int /\ z2 \in Int /\ y1 <= h /\ h < z1 /\ y2 <= k /\ k < z2
    BY <1>5, <1>9, <1>10, <2>1
  <2>3. Q[s[e1]].y = 10 * y1 /\ Q[t[e1]].y = 10 * z1 /\ Q[s[e2]].y = 10 * y2 /\ Q[t[e2]].y = 10 * z2
    BY <1>5, <1>8, <2>1
  <2>4. CASE h <= k
    <3>1. 10 * h <= l /\ l <= 10 * k
      BY <1>7, <2>4, Tenths
    <3>2. 10 * y1 <= l /\ l < 10 * z2
      BY <1>7, <2>2, <3>1
    <3>3. QED
      BY <1>5, <2>3, <3>2
  <2>5. CASE k <= h
    <3>1. 10 * k <= l /\ l <= 10 * h
      BY <1>7, <2>5, Tenths
    <3>2. 10 * y2 <= l /\ l < 10 * z1
      BY <1>7, <2>2, <3>1
    <3>3. QED
      BY <1>5, <2>3, <3>2
  <2>6. QED
    BY <1>7, <2>4, <2>5
<1>12. PICK e \in 1..n, g \in 1..n : Rises(Q, s, t, e, q) /\ Falls(Q, s, t, g, q)
  <2>1. \A i, j \in 1..n : Q[i].y <= q.y /\ q.y < Q[j].y =>
          \E e, g \in 1..n : Rises(Q, s, t, e, q) /\ Falls(Q, s, t, g, q)
    BY <1>3, <1>4, RingTurns
  <2>2. QED
    BY <1>6, <1>11, <2>1
<1>13. ASSUME NEW i \in 1..n
       PROVE  /\ Side(Q[s[i]], Q[t[i]], q) >= 0
              /\ P[s[i]].y < P[t[i]].y => Side(Q[s[i]], Q[t[i]], q) > 0
  <2>1. PICK u, v : u = Side(P[s[i]], P[t[i]], p) /\ v = Side(P[s[i]], P[t[i]], r)
    OBVIOUS
  <2>2. /\ u \in Int /\ v \in Int /\ u >= 0 /\ v >= 0
        /\ P[s[i]].y < P[t[i]].y => u > 0 /\ v > 0
    BY <1>2, <2>1, InsideSides
  <2>3. Side(Q[s[i]], Q[t[i]], q) = 10 * ((10 - m) * u + m * v)
    <3>1. P[s[i]] \in Point /\ P[t[i]] \in Point /\ m \in Int
      BY <1>5
    <3>2. /\ Q[s[i]] = At2(10 * P[s[i]].x, 10 * P[s[i]].y)
          /\ Q[t[i]] = At2(10 * P[t[i]].x, 10 * P[t[i]].y)
      BY <1>3, <1>5
    <3>3. PICK a, b : a = P[s[i]] /\ b = P[t[i]]
      OBVIOUS
    <3>4. a \in Point /\ b \in Point
      BY <3>1, <3>3
    <3>5. Side(At2(10 * a.x, 10 * a.y), At2(10 * b.x, 10 * b.y), Sample(p, r, m))
            = 10 * ((10 - m) * Side(a, b, p) + m * Side(a, b, r))
      BY <3>1, <3>4, TenfoldSides
    <3>6. QED
      BY <1>1, <2>1, <3>2, <3>3, <3>5
  <2>4. PICK w : w = (10 - m) * u + m * v
    OBVIOUS
  <2>5. w \in Int /\ w >= 0 /\ (u > 0 /\ v > 0 => w > 0)
    BY <2>2, <2>4, Tenths
  <2>6. QED
    BY <2>2, <2>3, <2>4, <2>5
<1>14. P[s[e]].y < P[t[e]].y
  <2>1. Q[s[e]].y <= l /\ l < Q[t[e]].y
    BY <1>6, <1>12 DEF Rises
  <2>2. PICK y, z : y = P[s[e]].y /\ z = P[t[e]].y
    OBVIOUS
  <2>3. y \in Int /\ z \in Int /\ 10 * y <= l /\ l < 10 * z
    BY <1>5, <1>8, <2>1, <2>2
  <2>4. y < z
    BY <1>7, <2>3
  <2>5. QED
    BY <2>2, <2>4
<1>15. Side(Q[s[e]], Q[t[e]], q) > 0 /\ Side(Q[s[g]], Q[t[g]], q) >= 0
  BY <1>13, <1>14
<1>16. isPointInPolygon(q, Q)
  BY <1>3, <1>4, <1>12, <1>15, InsideBetween
<1>17. QED
  BY <1>1, <1>16

-----------------------------------------------------------------------------
(* The margin.                                                             *)

LEMMA Resolved ==
  ASSUME NEW a \in Int, NEW b \in Int, NEW c \in Int, NEW d \in Int, NEW e \in Int, NEW f \in Int
  PROVE  (a * a + b * b) * (c * f - d * e)
           = (a * c + b * d) * (a * f - b * e) - (a * d - b * c) * (a * e + b * f)
OBVIOUS

LEMMA TwoSquares ==
  ASSUME NEW a \in Int, NEW b \in Int, NEW c \in Int, NEW d \in Int
  PROVE  (a * a + b * b) * (c * c + d * d)
           = (a * c + b * d) * (a * c + b * d) + (a * d - b * c) * (a * d - b * c)
OBVIOUS

LEMMA Monotone ==
  ASSUME NEW u \in Int, NEW v \in Int, NEW w \in Int
  PROVE  /\ w >= 0 /\ u <= v => u * w <= v * w
         /\ w > 0 /\ u < v => u * w < v * w
         /\ w > 0 /\ u * w <= v * w => u <= v
         /\ w > 0 /\ u * w < v * w => u < v
         /\ u >= 0 /\ u < v => u * u < v * v
         /\ u * u >= 0 /\ (u # 0 => u * u > 0)
OBVIOUS

\* Where the foot of p lies beyond the end of an edge, the line of the next one is nearer.
LEMMA NearerLine ==
  ASSUME NEW a \in Int, NEW b \in Int, NEW c \in Int, NEW d \in Int, NEW e \in Int, NEW f \in Int,
         a * f - b * e >= 0, c * f - d * e >= 0, (a * d - b * c) * (a * e + b * f) > 0
  PROVE  ((c * f - d * e) * (c * f - d * e)) * (a * a + b * b)
           < ((a * f - b * e) * (a * f - b * e)) * (c * c + d * d)
<1>1. PICK n, m, C, X, S, T, z : /\ n = a * a + b * b /\ m = c * c + d * d
                                 /\ C = a * c + b * d /\ X = a * d - b * c
                                 /\ S = a * f - b * e /\ T = a * e + b * f /\ z = c * f - d * e
  OBVIOUS
<1>2. /\ n \in Int /\ m \in Int /\ C \in Int /\ X \in Int /\ S \in Int /\ T \in Int /\ z \in Int
  BY <1>1
<1>3. S >= 0 /\ z >= 0 /\ X * T > 0
  BY <1>1
<1>4. n * z = C * S - X * T
  BY <1>1, Resolved
<1>5. n * m = C * C + X * X
  BY <1>1, TwoSquares
<1>6. n > 0
  <2>1. ~ (a = 0 /\ b = 0)
    <3>1. SUFFICES ASSUME a = 0, b = 0 PROVE FALSE
      OBVIOUS
    <3>2. X = 0
      BY <1>1, <3>1
    <3>3. QED
      BY <1>2, <1>3, <3>2
  <2>2. a * a >= 0 /\ b * b >= 0 /\ (a # 0 => a * a > 0) /\ (b # 0 => b * b > 0) /\ a * a \in Int /\ b * b \in Int
    BY Monotone, Products
  <2>3. QED
    BY <1>1, <2>1, <2>2
<1>7. PICK nz, cs, xt : nz = n * z /\ cs = C * S /\ xt = X * T
  OBVIOUS
<1>8. nz \in Int /\ cs \in Int /\ xt \in Int /\ nz >= 0
  BY <1>2, <1>3, <1>6, <1>7, Products
<1>9. nz < cs
  BY <1>3, <1>4, <1>7, <1>8
<1>10. nz * nz < cs * cs
  BY <1>8, <1>9, Monotone
<1>11. PICK zz, ss, cc, xx : zz = z * z /\ ss = S * S /\ cc = C * C /\ xx = X * X
  OBVIOUS
<1>12. zz \in Int /\ ss \in Int /\ cc \in Int /\ xx \in Int /\ ss >= 0 /\ xx >= 0
  BY <1>2, <1>11, Products, Monotone
<1>13. nz * nz = n * (n * zz)
  BY <1>2, <1>7, <1>11
<1>14. cs * cs = cc * ss
  BY <1>2, <1>7, <1>11
<1>15. cc * ss <= (cc + xx) * ss
  BY <1>12, Monotone
<1>16. (cc + xx) * ss = n * (m * ss)
  <2>1. (n * m) * ss = n * (m * ss)
    BY <1>2, <1>12
  <2>2. QED
    BY <1>5, <1>11, <2>1
<1>17. PICK p, q : p = n * zz /\ q = m * ss
  OBVIOUS
<1>18. p \in Int /\ q \in Int
  BY <1>2, <1>12, <1>17, Products
<1>19. p * n < q * n
  <2>1. PICK x1, x2, x3, x4 : x1 = nz * nz /\ x2 = cs * cs /\ x3 = n * p /\ x4 = n * q
    OBVIOUS
  <2>2. x1 \in Int /\ x2 \in Int /\ x3 \in Int /\ x4 \in Int
    BY <1>2, <1>8, <1>18, <2>1, Products
  <2>3. x1 < x2 /\ x1 = x3 /\ x2 <= x4
    BY <1>10, <1>13, <1>14, <1>15, <1>16, <1>17, <2>1
  <2>4. x3 < x4
    BY <2>2, <2>3
  <2>5. n * p = p * n /\ n * q = q * n
    BY <1>2, <1>18
  <2>6. QED
    BY <2>1, <2>4, <2>5
<1>20. p < q
  BY <1>2, <1>6, <1>18, <1>19, Monotone
<1>21. zz * n = p /\ ss * m = q
  BY <1>2, <1>12, <1>17
<1>22. QED
  BY <1>1, <1>11, <1>20, <1>21

-----------------------------------------------------------------------------
\* The square of the length of an edge, and how far along it, from its start, p stands.
Len2(a, b) == (b.x - a.x) * (b.x - a.x) + (b.y - a.y) * (b.y - a.y)
Along(a, b, p) == (p.x - a.x) * (b.x - a.x) + (p.y - a.y) * (b.y - a.y)

\* Either p is at the height of the edge and m away from its line, or beyond an end.
Clear(m, p, a, b) ==
  \/ Along(a, b, p) < 0
  \/ Along(b, a, p) < 0
  \/ Side(a, b, p) * Side(a, b, p) >= (m * m) * Len2(a, b)

LEMMA EdgeTypes ==
  ASSUME NEW a \in Point, NEW b \in Point, NEW p \in Point
  PROVE  /\ Len2(a, b) \in Int /\ Len2(a, b) >= 0 /\ Len2(b, a) = Len2(a, b)
         /\ a # b => Len2(a, b) > 0
         /\ Along(a, b, p) \in Int /\ Along(b, a, p) = Len2(a, b) - Along(a, b, p)
         /\ Side(b, a, p) * Side(b, a, p) = Side(a, b, p) * Side(a, b, p)
<1>1. PICK u, v, x, y : u = b.x - a.x /\ v = b.y - a.y /\ x = p.x - a.x /\ y = p.y - a.y
  OBVIOUS
<1>2. u \in Int /\ v \in Int /\ x \in Int /\ y \in Int
  BY <1>1 DEF Point
<1>3. Len2(a, b) = u * u + v * v /\ Along(a, b, p) = x * u + y * v
  BY <1>1 DEF Len2, Along
<1>4. /\ a.x - b.x = - u /\ a.y - b.y = - v /\ p.x - b.x = x - u /\ p.y - b.y = y - v
  BY <1>1 DEF Point
<1>5. Len2(b, a) = (- u) * (- u) + (- v) * (- v) /\ Along(b, a, p) = (x - u) * (- u) + (y - v) * (- v)
  BY <1>4 DEF Len2, Along
<1>6. u * u + v * v \in Int /\ u * u + v * v >= 0 /\ x * u + y * v \in Int
  BY <1>2
<1>7. Len2(b, a) = Len2(a, b) /\ Along(b, a, p) = Len2(a, b) - Along(a, b, p)
  BY <1>2, <1>3, <1>5
<1>8. a # b => u # 0 \/ v # 0
  BY <1>1 DEF Point
<1>9. u # 0 \/ v # 0 => u * u + v * v > 0
  <2>1. u * u >= 0 /\ v * v >= 0 /\ (u # 0 => u * u > 0) /\ (v # 0 => v * v > 0) /\ u * u \in Int /\ v * v \in Int
    BY <1>2, Monotone, Products
  <2>2. QED
    BY <2>1
<1>10. Side(b, a, p) * Side(b, a, p) = Side(a, b, p) * Side(a, b, p)
  <2>1. PICK z \in Int : z = Side(a, b, p)
    BY SideTypes
  <2>2. Side(b, a, p) = - z
    BY <2>1, SideTypes
  <2>3. QED
    BY <2>1, <2>2
<1>11. QED
  BY <1>3, <1>6, <1>7, <1>8, <1>9, <1>10

\* What is not closer than m to an edge is so clear of it, seen from either end.
LEMMA NotCloser ==
  ASSUME NEW a \in Point, NEW b \in Point, NEW p \in Point, NEW m \in Int, a # b, ~ CloserThan(m, p, a, b)
  PROVE  Clear(m, p, a, b) /\ Clear(m, p, b, a)
<1>1. PICK u, v, x, y : u = b.x - a.x /\ v = b.y - a.y /\ x = p.x - a.x /\ y = p.y - a.y
  OBVIOUS
<1>2. u \in Int /\ v \in Int /\ x \in Int /\ y \in Int
  BY <1>1 DEF Point
<1>3. PICK n, dot, z, m2 : n = Len2(a, b) /\ dot = Along(a, b, p) /\ z = Side(a, b, p) /\ m2 = m * m
  OBVIOUS
<1>4. n \in Int /\ dot \in Int /\ z \in Int /\ m2 \in Int /\ n > 0
  BY <1>3, EdgeTypes, SideTypes, Products
<1>5. n = u * u + v * v /\ dot = x * u + y * v /\ z = u * y - v * x
  BY <1>1, <1>3 DEF Len2, Along, Side
<1>6. /\ p.x - b.x = x - u /\ p.y - b.y = y - v
  BY <1>1 DEF Point
<1>7. z * z + dot * dot = n * (x * x + y * y)
  <2>1. (u * u + v * v) * (x * x + y * y) = (u * x + v * y) * (u * x + v * y) + (u * y - v * x) * (u * y - v * x)
    BY <1>2, TwoSquares
  <2>2. u * x + v * y = dot
    BY <1>2, <1>5
  <2>3. z * z \in Int /\ dot * dot \in Int
    BY <1>4, Products
  <2>4. QED
    BY <1>5, <2>1, <2>2, <2>3
<1>8. PICK cross : cross = (p.x - a.x) * (b.y - a.y) - (p.y - a.y) * (b.x - a.x)
  OBVIOUS
<1>9. cross = - z
  BY <1>1, <1>2, <1>5, <1>8
<1>10. CASE dot <= 0
  <2>1. x * x + y * y >= m2
    <3>1. ~ (dot >= n) /\ n # 0
      BY <1>4, <1>10
    <3>2. ~ (x * x + y * y < m2)
      BY <1>1, <1>3, <1>10, <3>1 DEF CloserThan, Along, Len2
    <3>3. QED
      BY <1>2, <1>4, <3>2
  <2>2. dot = 0 => z * z >= m2 * n
    <3>1. PICK w \in Int : w = x * x + y * y
      BY <1>2
    <3>2. ASSUME dot = 0 PROVE z * z >= m2 * n
      <4>1. z * z = n * w
        <5>1. z * z \in Int /\ dot * dot = 0
          BY <1>4, <3>2, Products
        <5>2. QED
          BY <1>7, <3>1, <5>1
      <4>2. n * w = w * n /\ m2 * n <= w * n
        BY <1>4, <2>1, <3>1, Monotone
      <4>3. QED
        BY <4>1, <4>2
    <3>3. QED
      BY <3>2
  <2>3. dot < 0 \/ dot = 0
    BY <1>4, <1>10
  <2>4. QED
    BY <1>3, <2>2, <2>3, EdgeTypes DEF Clear
<1>11. CASE dot > 0 /\ dot >= n
  <2>1. (x - u) * (x - u) + (y - v) * (y - v) >= m2
    <3>1. ~ (dot <= 0) /\ n # 0
      BY <1>4, <1>11
    <3>2. ~ ((x - u) * (x - u) + (y - v) * (y - v) < m2)
      BY <1>3, <1>6, <1>11, <3>1 DEF CloserThan, Along, Len2
    <3>3. QED
      BY <1>2, <1>4, <3>2
  <2>2. dot = n => z * z >= m2 * n
    <3>1. PICK w \in Int : w = (x - u) * (x - u) + (y - v) * (y - v)
      BY <1>2
    <3>2. ASSUME dot = n PROVE z * z >= m2 * n
      <4>1. z * z = n * w
        <5>1. z = u * (y - v) - v * (x - u)
          BY <1>2, <1>5
        <5>2. u * (x - u) + v * (y - v) = 0
          BY <1>2, <1>5, <3>2
        <5>3. (u * u + v * v) * w = (u * (x - u) + v * (y - v)) * (u * (x - u) + v * (y - v)) + z * z
          <6>1. x - u \in Int /\ y - v \in Int
            BY <1>2
          <6>2. QED
            BY <1>2, <3>1, <5>1, <6>1, TwoSquares
        <5>4. z * z \in Int
          BY <1>4, Products
        <5>5. QED
          BY <1>5, <5>2, <5>3, <5>4
      <4>2. n * w = w * n /\ m2 * n <= w * n
        BY <1>4, <2>1, <3>1, Monotone
      <4>3. QED
        BY <4>1, <4>2
    <3>3. QED
      BY <3>2
  <2>3. n - dot < 0 \/ dot = n
    BY <1>4, <1>11
  <2>4. QED
    BY <1>3, <2>2, <2>3, EdgeTypes DEF Clear
<1>12. CASE dot > 0 /\ dot < n
  <2>1. ~ (dot <= 0) /\ n # 0 /\ ~ (dot >= n)
    BY <1>4, <1>12
  <2>2. ~ (cross * cross < m2 * n)
    BY <1>3, <1>8, <2>1 DEF CloserThan, Along, Len2
  <2>3. cross * cross = z * z /\ z * z \in Int /\ m2 * n \in Int
    BY <1>4, <1>9, Products
  <2>4. z * z >= m2 * n
    BY <2>2, <2>3
  <2>5. QED
    BY <1>3, <2>4, EdgeTypes DEF Clear
<1>13. QED
  BY <1>4, <1>10, <1>11, <1>12

LEMMA Neighbours ==
  ASSUME NEW P, NEW s, NEW t, Ring(P, s, t), NEW i \in 1..Len(P)
  PROVE  /\ \E k \in 1..Len(P) : s[k] = t[i]
         /\ \E k \in 1..Len(P) : t[k] = s[i]
<1>1. PICK n \in Nat : n = Len(P) /\ n >= 3 /\ P \in Seq(Point)
  BY DEF Ring
<1>2. PICK j : j = (i % n) + 1
  OBVIOUS
<1>3. j \in 1..n /\ Bef(P, j) = i
  <2>1. CASE i = n
    <3>1. i % n = 0
      BY <1>1, <2>1
    <3>2. QED
      BY <1>1, <1>2, <2>1, <3>1 DEF Bef
  <2>2. CASE i # n
    <3>1. i % n = i
      BY <1>1, <2>2
    <3>2. QED
      BY <1>1, <1>2, <2>2, <3>1 DEF Bef
  <2>3. QED
    BY <2>1, <2>2
<1>4. Bef(P, i) \in 1..n
  BY <1>1, BeforeIndex
<1>5. CASE s = [m \in 1..Len(P) |-> Bef(P, m)] /\ t = [m \in 1..Len(P) |-> m]
  <2>1. s[j] = t[i] /\ t[Bef(P, i)] = s[i]
    BY <1>1, <1>3, <1>4, <1>5
  <2>2. QED
    BY <1>1, <1>3, <1>4, <2>1
<1>6. CASE t = [m \in 1..Len(P) |-> Bef(P, m)] /\ s = [m \in 1..Len(P) |-> m]
  <2>1. s[Bef(P, i)] = t[i] /\ t[j] = s[i]
    BY <1>1, <1>3, <1>4, <1>6
  <2>2. QED
    BY <1>1, <1>3, <1>4, <2>1
<1>7. QED
  BY <1>5, <1>6 DEF Ring

LEMMA CrossRatio ==
  ASSUME NEW f \in Int, NEW g \in Int, NEW h \in Int, NEW x \in Int, NEW y \in Int, NEW z \in Int,
         x > 0, y > 0, z > 0, f * y <= g * x, g * z <= h * y
  PROVE  f * z <= h * x
<1>1. PICK fy, gx, gz, hy, fz, hx : /\ fy = f * y /\ gx = g * x /\ gz = g * z /\ hy = h * y
                                    /\ fz = f * z /\ hx = h * x
  OBVIOUS
<1>2. fy \in Int /\ gx \in Int /\ gz \in Int /\ hy \in Int /\ fz \in Int /\ hx \in Int
  BY <1>1, Products
<1>3. fy * z <= gx * z /\ gz * x <= hy * x
  BY <1>1, <1>2, Monotone
<1>4. fy * z = fz * y /\ gx * z = gz * x /\ hy * x = hx * y
  BY <1>1
<1>5. PICK u, v, w : u = fz * y /\ v = gz * x /\ w = hx * y
  OBVIOUS
<1>6. u \in Int /\ v \in Int /\ w \in Int /\ u <= v /\ v <= w
  BY <1>2, <1>3, <1>4, <1>5, Products
<1>7. fz * y <= hx * y
  BY <1>5, <1>6
<1>8. QED
  BY <1>1, <1>2, <1>7, Monotone

\* The smallest of finitely many quotients, multiplied out.
LEMMA SmallestQuotient ==
  ASSUME NEW n \in Nat, n >= 1, NEW f, NEW g,
         \A i \in 1..n : f[i] \in Int /\ g[i] \in Int /\ g[i] > 0
  PROVE  \E i \in 1..n : \A k \in 1..n : f[i] * g[k] <= f[k] * g[i]
<1> DEFINE Least(m) == \E i \in 1..m : \A k \in 1..m : f[i] * g[k] <= f[k] * g[i]
           K == {m \in 1..n : ~ Least(m)}
<1>1. Least(1)
  <2>1. \A k \in 1..1 : k = 1
    OBVIOUS
  <2>2. f[1] * g[1] \in Int
    BY Products
  <2>3. 1 \in 1..1 /\ \A k \in 1..1 : f[1] * g[k] <= f[k] * g[1]
    BY <2>1, <2>2
  <2>4. QED
    BY <2>3
<1>2. ASSUME NEW m \in 1..(n - 1), Least(m) PROVE Least(m + 1)
  <2>1. PICK i \in 1..m : \A k \in 1..m : f[i] * g[k] <= f[k] * g[i]
    BY <1>2
  <2>2. m + 1 \in 1..n /\ i \in 1..n /\ i \in 1..(m + 1) /\ m + 1 \in 1..(m + 1)
        /\ 1..m \subseteq 1..n /\ \A k \in 1..(m + 1) : k \in 1..m \/ k = m + 1
    OBVIOUS
  <2>3. PICK fi, gi, fm, gm : fi = f[i] /\ gi = g[i] /\ fm = f[m + 1] /\ gm = g[m + 1]
    OBVIOUS
  <2>4. fi \in Int /\ gi \in Int /\ fm \in Int /\ gm \in Int /\ gi > 0 /\ gm > 0
    BY <2>2, <2>3
  <2>5. PICK x, y : x = fi * gm /\ y = fm * gi
    OBVIOUS
  <2>6. x \in Int /\ y \in Int
    BY <2>4, <2>5, Products
  <2>7. CASE x <= y
    <3>1. \A k \in 1..(m + 1) : f[i] * g[k] <= f[k] * g[i]
      BY <2>1, <2>2, <2>3, <2>5, <2>7
    <3>2. QED
      BY <2>2, <3>1
  <2>8. CASE y <= x
    <3>1. ASSUME NEW k \in 1..m PROVE fm * g[k] <= f[k] * gm
      <4>1. PICK fk, gk : fk = f[k] /\ gk = g[k]
        OBVIOUS
      <4>2. fk \in Int /\ gk \in Int /\ gk > 0
        BY <2>2, <4>1
      <4>3. fi * gk <= fk * gi
        BY <2>1, <2>3, <4>1
      <4>4. fm * gi <= fi * gm
        BY <2>5, <2>8
      <4>5. fm * gk <= fk * gm
        BY <2>4, <4>2, <4>3, <4>4, CrossRatio
      <4>6. QED
        BY <4>1, <4>5
    <3>2. fm * gm <= fm * gm
      BY <2>4, Products
    <3>3. \A k \in 1..(m + 1) : f[m + 1] * g[k] <= f[k] * g[m + 1]
      BY <2>2, <2>3, <3>1, <3>2
    <3>4. QED
      BY <2>2, <3>3
  <2>9. QED
    BY <2>6, <2>7, <2>8
<1>3. K = {}
  <2> HIDE DEF Least
  <2>1. 1 \notin K
    BY <1>1
  <2>2. ASSUME NEW m \in 1..(n - 1), m + 1 \in K PROVE m \in K
    <3>1. m \in 1..n /\ ~ Least(m + 1)
      BY <2>2
    <3>2. QED
      BY <1>2, <3>1
  <2>3. K \subseteq 1..n
    OBVIOUS
  <2> HIDE DEF K
  <2>4. QED
    BY <2>1, <2>2, <2>3, StepByStep
<1>4. n \in 1..n
  OBVIOUS
<1>5. Least(n)
  <2> HIDE DEF Least
  <2>1. QED
    BY <1>3, <1>4
<1>6. QED
  BY <1>5

LEMMA Offsets ==
  ASSUME NEW a \in Point, NEW b \in Point
  PROVE  a.x - b.x \in Int /\ a.y - b.y \in Int
BY DEF Point

\* Two vectors and a place, from the corner they meet at.
LEMMA AtCorner ==
  ASSUME NEW z \in Point, NEW a \in Point, NEW b \in Point, NEW p \in Point
  PROVE  /\ Side(z, a, p) = (a.x - z.x) * (p.y - a.y) - (a.y - z.y) * (p.x - a.x)
         /\ Side(z, a, b) = (a.x - z.x) * (b.y - a.y) - (a.y - z.y) * (b.x - a.x)
BY DEF Side, Point

\* Where the line of an edge is the nearest of all, what is clear of the edge is m away from it.
LEMMA NearestIsClear ==
  ASSUME NEW P, NEW s, NEW t, Ring(P, s, t), NEW p \in Point, NEW m \in Int, NEW i \in 1..Len(P),
         \A k \in 1..Len(P) : Side(P[s[k]], P[t[k]], p) >= 0,
         \A k \in 1..Len(P) : (Side(P[s[i]], P[t[i]], p) * Side(P[s[i]], P[t[i]], p)) * Len2(P[s[k]], P[t[k]])
                           <= (Side(P[s[k]], P[t[k]], p) * Side(P[s[k]], P[t[k]], p)) * Len2(P[s[i]], P[t[i]]),
         Clear(m, p, P[s[i]], P[t[i]])
  PROVE  Side(P[s[i]], P[t[i]], p) * Side(P[s[i]], P[t[i]], p) >= (m * m) * Len2(P[s[i]], P[t[i]])
<1>1. PICK a, b : a = P[s[i]] /\ b = P[t[i]]
  OBVIOUS
<1>2. a \in Point /\ b \in Point
  BY <1>1, RingEdges
<1>3. PICK S, sq, n : S = Side(a, b, p) /\ sq = S * S /\ n = Len2(a, b)
  OBVIOUS
<1>4. S \in Int /\ sq \in Int /\ n \in Int /\ S >= 0
  BY <1>1, <1>2, <1>3, SideTypes, EdgeTypes, Products
<1>5. PICK u, v : u = b.x - a.x /\ v = b.y - a.y
  OBVIOUS
<1>6. u \in Int /\ v \in Int /\ n = u * u + v * v
  <2>2. u \in Int /\ v \in Int
    BY <1>2, <1>5, Offsets
  <2>3. n = u * u + v * v
    BY <1>3, <1>5 DEF Len2
  <2>4. QED
    BY <2>2, <2>3
<1>7. ASSUME Along(a, b, p) < 0 PROVE FALSE
  <2>1. PICK k \in 1..Len(P) : t[k] = s[i]
    BY Neighbours
  <2>2. PICK z : z = P[s[k]]
    OBVIOUS
  <2>3. z \in Point /\ P[t[k]] = a
    BY <1>1, <2>1, <2>2, RingEdges
  <2>4. PICK c, d, e, f : c = a.x - z.x /\ d = a.y - z.y /\ e = p.x - a.x /\ f = p.y - a.y
    OBVIOUS
  <2>5. c \in Int /\ d \in Int /\ e \in Int /\ f \in Int
    BY <1>2, <2>3, <2>4, Offsets
  <2>6. /\ S = u * f - v * e /\ Side(z, a, p) = c * f - d * e /\ Side(z, a, b) = c * v - d * u
        /\ Len2(z, a) = c * c + d * d /\ Along(a, b, p) = e * u + f * v
    <3>1. S = u * f - v * e
      BY <1>3, <1>5, <2>4 DEF Side
    <3>2. Side(z, a, p) = c * f - d * e
      BY <1>2, <2>3, <2>4, AtCorner
    <3>3. Side(z, a, b) = c * v - d * u
      BY <1>2, <1>5, <2>3, <2>4, AtCorner
    <3>4. Len2(z, a) = c * c + d * d
      BY <2>4 DEF Len2
    <3>5. Along(a, b, p) = e * u + f * v
      BY <1>5, <2>4 DEF Along
    <3>6. QED
      BY <3>1, <3>2, <3>3, <3>4, <3>5
  <2>7. Side(z, a, p) >= 0
    BY <2>2, <2>3
  <2>8. Side(z, a, b) > 0
    <3>1. t[i] # s[k] /\ t[i] # t[k] /\ t[i] \in 1..Len(P)
      BY <2>1, RingEdges
    <3>2. QED
      BY <1>1, <2>2, <2>3, <3>1 DEF Ring
  <2>9. (u * d - v * c) * (u * e + v * f) > 0
    <3>1. PICK X, T : X = u * d - v * c /\ T = u * e + v * f
      OBVIOUS
    <3>2. X \in Int /\ T \in Int /\ X < 0 /\ T < 0
      BY <1>6, <1>7, <2>5, <2>6, <2>8, <3>1
    <3>3. X * T > 0
      BY <3>2
    <3>4. QED
      BY <3>1, <3>3
  <2>10. PICK w : w = c * f - d * e
    OBVIOUS
  <2>11. u * f - v * e >= 0 /\ c * f - d * e >= 0
    BY <1>4, <2>6, <2>7
  <2>12. (w * w) * (u * u + v * v) < ((u * f - v * e) * (u * f - v * e)) * (c * c + d * d)
    BY <1>6, <2>5, <2>9, <2>10, <2>11, NearerLine
  <2>13. sq * Len2(z, a) <= (w * w) * n
    BY <1>1, <1>3, <2>2, <2>3, <2>6, <2>10
  <2>14. PICK x, y : x = sq * Len2(z, a) /\ y = (w * w) * n
    OBVIOUS
  <2>15. x \in Int /\ y \in Int
    <3>1. w \in Int
      BY <2>5, <2>10
    <3>2. w * w \in Int /\ Len2(z, a) \in Int
      BY <1>2, <2>3, <3>1, EdgeTypes, Products
    <3>3. QED
      BY <1>4, <2>14, <3>2, Products
  <2>16. y < x /\ x <= y
    BY <1>3, <1>6, <2>6, <2>12, <2>13, <2>14
  <2>17. QED
    BY <2>15, <2>16
<1>8. ASSUME Along(b, a, p) < 0 PROVE FALSE
  <2>1. PICK k \in 1..Len(P) : s[k] = t[i]
    BY Neighbours
  <2>2. PICK z : z = P[t[k]]
    OBVIOUS
  <2>3. z \in Point /\ P[s[k]] = b
    BY <1>1, <2>1, <2>2, RingEdges
  <2>4. PICK c, d, e, f : c = z.x - b.x /\ d = z.y - b.y /\ e = p.x - b.x /\ f = p.y - b.y
    OBVIOUS
  <2>5. c \in Int /\ d \in Int /\ e \in Int /\ f \in Int
    BY <1>2, <2>3, <2>4, Offsets
  <2>6. /\ S = u * f - v * e /\ Side(b, z, p) = c * f - d * e /\ Side(a, b, z) = u * d - v * c
        /\ Len2(b, z) = c * c + d * d
    BY SMTT(30), <1>2, <1>3, <1>5, <2>3, <2>4, AtCorner DEF Side, Len2
  <2>7. Along(b, a, p) = - (u * e + v * f)
    <3>1. a.x - b.x = - u /\ a.y - b.y = - v
      BY <1>2, <1>5 DEF Point
    <3>2. Along(b, a, p) = e * (- u) + f * (- v)
      BY <2>4, <3>1 DEF Along
    <3>3. QED
      BY <1>6, <2>5, <3>2
  <2>8. Side(b, z, p) >= 0
    BY <2>2, <2>3
  <2>9. Side(a, b, z) > 0
    <3>1. t[k] # s[i] /\ t[k] # t[i] /\ t[k] \in 1..Len(P)
      BY <2>1, RingEdges
    <3>2. QED
      BY <1>1, <2>2, <3>1 DEF Ring
  <2>10. (u * d - v * c) * (u * e + v * f) > 0
    <3>1. PICK X, T : X = u * d - v * c /\ T = u * e + v * f
      OBVIOUS
    <3>2. X \in Int /\ T \in Int /\ X > 0 /\ T > 0
      BY <1>6, <1>8, <2>5, <2>6, <2>7, <2>9, <3>1
    <3>3. X * T > 0
      BY <3>2
    <3>4. QED
      BY <3>1, <3>3
  <2>11. PICK w : w = c * f - d * e
    OBVIOUS
  <2>12. u * f - v * e >= 0 /\ c * f - d * e >= 0
    BY <1>4, <2>6, <2>8
  <2>13. (w * w) * (u * u + v * v) < ((u * f - v * e) * (u * f - v * e)) * (c * c + d * d)
    BY <1>6, <2>5, <2>10, <2>11, <2>12, NearerLine
  <2>14. sq * Len2(b, z) <= (w * w) * n
    BY <1>1, <1>3, <2>2, <2>3, <2>6, <2>11
  <2>15. PICK x, y : x = sq * Len2(b, z) /\ y = (w * w) * n
    OBVIOUS
  <2>16. x \in Int /\ y \in Int
    <3>1. w \in Int
      BY <2>5, <2>11
    <3>2. w * w \in Int /\ Len2(b, z) \in Int
      BY <1>2, <2>3, <3>1, EdgeTypes, Products
    <3>3. QED
      BY <1>4, <2>15, <3>2, Products
  <2>17. y < x /\ x <= y
    BY <1>3, <1>6, <2>6, <2>13, <2>14, <2>15
  <2>18. QED
    BY <2>16, <2>17
<1>9. QED
  BY <1>1, <1>7, <1>8 DEF Clear

LEMMA NextIndex ==
  ASSUME NEW P \in Seq(Point), Len(P) >= 3, NEW k \in 1..Len(P)
  PROVE  (k % Len(P)) + 1 \in 1..Len(P) /\ Bef(P, (k % Len(P)) + 1) = k
<1>1. PICK n \in Nat : n = Len(P) /\ n >= 3
  OBVIOUS
<1>2. CASE k = n
  <2>1. k % n = 0
    BY <1>1, <1>2
  <2>2. QED
    BY <1>1, <1>2, <2>1 DEF Bef
<1>3. CASE k # n
  <2>1. k % n = k
    BY <1>1, <1>3
  <2>2. QED
    BY <1>1, <1>3, <2>1 DEF Bef
<1>4. QED
  BY <1>2, <1>3

LEMMA RingLengths ==
  ASSUME NEW P, NEW s, NEW t, Ring(P, s, t), NEW i \in 1..Len(P)
  PROVE  P[s[i]] # P[t[i]]
<1>1. PICK a, b : a = P[s[i]] /\ b = P[t[i]]
  OBVIOUS
<1>2. a \in Point /\ b \in Point
  BY <1>1, RingEdges
<1>3. PICK j \in 1..Len(P) : j # s[i] /\ j # t[i]
  <2>1. Len(P) \in Nat /\ Len(P) >= 3
    BY RingEdges DEF Ring
  <2>2. 1 \in 1..Len(P) /\ 2 \in 1..Len(P) /\ 3 \in 1..Len(P)
    BY <2>1
  <2>3. QED
    BY <2>2
<1>4. P[j] \in Point /\ Side(a, b, P[j]) > 0
  BY <1>1, <1>3, RingEdges DEF Ring
<1>5. ASSUME a = b PROVE FALSE
  <2>1. Side(a, a, P[j]) = 0
    BY <1>2, <1>4 DEF Side, Point
  <2>2. QED
    BY <1>4, <1>5, <2>1
<1>6. QED
  BY <1>1, <1>5

\* In a fence without dents, what is inside and not closer to any edge than m is not closer
\* to the line of any edge.
LEMMA MarginKept ==
  ASSUME NEW P \in Seq(Point), Len(P) >= 3, Convex(P), NEW p \in Point, isPointInPolygon(p, P),
         NEW m \in Int, \A i \in 1..Len(P) : ~ CloserThan(m, p, P[i], After(P, i)), NEW k \in 1..Len(P)
  PROVE  Side(P[k], After(P, k), p) * Side(P[k], After(P, k), p) >= (m * m) * Len2(P[k], After(P, k))
<1>1. PICK n \in Nat : n = Len(P) /\ n >= 3
  OBVIOUS
<1>2. PICK s, t : Ring(P, s, t)
  BY ConvexRing
<1>3. PICK side, len : /\ side = [i \in 1..n |-> Side(P[s[i]], P[t[i]], p)]
                       /\ len = [i \in 1..n |-> Len2(P[s[i]], P[t[i]])]
  OBVIOUS
<1>4. PICK sq : sq = [i \in 1..n |-> side[i] * side[i]]
  OBVIOUS
<1>5. ASSUME NEW i \in 1..n
      PROVE  /\ P[s[i]] \in Point /\ P[t[i]] \in Point
             /\ side[i] = Side(P[s[i]], P[t[i]], p) /\ len[i] = Len2(P[s[i]], P[t[i]])
             /\ side[i] >= 0 /\ sq[i] = side[i] * side[i]
             /\ sq[i] \in Int /\ len[i] \in Int /\ len[i] > 0
  <2>1. P[s[i]] \in Point /\ P[t[i]] \in Point
    BY <1>1, <1>2, RingEdges
  <2>2. Side(P[s[i]], P[t[i]], p) \in Int /\ Side(P[s[i]], P[t[i]], p) >= 0
    BY <1>1, <1>2, InsideSides
  <2>3. side[i] = Side(P[s[i]], P[t[i]], p) /\ len[i] = Len2(P[s[i]], P[t[i]]) /\ sq[i] = side[i] * side[i]
    BY <1>3, <1>4
  <2>4. P[s[i]] # P[t[i]]
    BY <1>1, <1>2, RingLengths
  <2>5. len[i] \in Int /\ len[i] > 0
    BY <2>1, <2>3, <2>4, EdgeTypes
  <2>6. sq[i] \in Int
    BY <2>2, <2>3, Products
  <2>7. QED
    BY <2>1, <2>2, <2>3, <2>5, <2>6
<1>6. PICK i \in 1..n : \A j \in 1..n : sq[i] * len[j] <= sq[j] * len[i]
  <2>1. \A i \in 1..n : sq[i] \in Int /\ len[i] \in Int /\ len[i] > 0
    BY <1>5
  <2>2. n \in Nat /\ n >= 1
    BY <1>1
  <2>3. QED
    BY <2>1, <2>2, SmallestQuotient
<1>7. ASSUME NEW j \in 1..n, NEW l \in 1..n, Bef(P, l) = j
      PROVE  /\ P[j] \in Point /\ P[l] \in Point /\ After(P, j) = P[l]
             /\ (s[l] = j /\ t[l] = l) \/ (s[l] = l /\ t[l] = j)
  <2>1. (j % n) + 1 = l
    BY <1>1, <1>7, BeforeIndex
  <2>2. (s[l] = j /\ t[l] = l) \/ (s[l] = l /\ t[l] = j)
    BY <1>1, <1>2, <1>7 DEF Ring
  <2>3. QED
    BY <1>1, <2>1, <2>2 DEF After
<1>8. Clear(m, p, P[s[i]], P[t[i]])
  <2>1. PICK j \in 1..n : j = Bef(P, i)
    BY <1>1, BeforeIndex
  <2>2. /\ P[j] \in Point /\ P[i] \in Point /\ After(P, j) = P[i]
        /\ (s[i] = j /\ t[i] = i) \/ (s[i] = i /\ t[i] = j)
    BY <1>7, <2>1
  <2>3. ~ CloserThan(m, p, P[j], P[i])
    BY <1>1, <2>2
  <2>4. P[j] # P[i]
    <3>1. P[s[i]] # P[t[i]]
      BY <1>1, <1>2, RingLengths
    <3>2. QED
      BY <2>2, <3>1
  <2>5. Clear(m, p, P[j], P[i]) /\ Clear(m, p, P[i], P[j])
    BY <2>2, <2>3, <2>4, NotCloser
  <2>6. QED
    BY <2>2, <2>5
<1>9. sq[i] >= (m * m) * len[i]
  <2>1. \A j \in 1..Len(P) : Side(P[s[j]], P[t[j]], p) >= 0
    BY <1>1, <1>5
  <2>2. ASSUME NEW j \in 1..Len(P)
        PROVE  (Side(P[s[i]], P[t[i]], p) * Side(P[s[i]], P[t[i]], p)) * Len2(P[s[j]], P[t[j]])
                <= (Side(P[s[j]], P[t[j]], p) * Side(P[s[j]], P[t[j]], p)) * Len2(P[s[i]], P[t[i]])
    BY <1>1, <1>5, <1>6
  <2>3. Side(P[s[i]], P[t[i]], p) * Side(P[s[i]], P[t[i]], p) >= (m * m) * Len2(P[s[i]], P[t[i]])
    BY <1>1, <1>2, <1>8, <2>1, <2>2, NearestIsClear
  <2>4. QED
    BY <1>5, <2>3
<1>10. PICK e \in 1..n : e = (k % n) + 1 /\ Bef(P, e) = k
  BY <1>1, NextIndex
<1>11. /\ P[k] \in Point /\ P[e] \in Point /\ After(P, k) = P[e]
       /\ (s[e] = k /\ t[e] = e) \/ (s[e] = e /\ t[e] = k)
  BY <1>1, <1>7, <1>10
<1>12. sq[e] >= (m * m) * len[e]
  <2>1. PICK m2, si, se, li, le : m2 = m * m /\ si = sq[i] /\ se = sq[e] /\ li = len[i] /\ le = len[e]
    OBVIOUS
  <2>2. m2 \in Int /\ si \in Int /\ se \in Int /\ li \in Int /\ le \in Int /\ li > 0 /\ le > 0
    BY <1>5, <2>1, Products
  <2>3. m2 * li <= si * 1
    <3>1. m2 * li \in Int /\ si >= m2 * li
      BY <1>9, <2>1, <2>2, Products
    <3>2. QED
      BY <2>2, <3>1
  <2>4. si * le <= se * li
    BY <1>6, <2>1
  <2>5. m2 * le <= se * 1
    BY <2>2, <2>3, <2>4, CrossRatio
  <2>6. m2 * le \in Int
    BY <2>2, Products
  <2>7. QED
    BY <2>1, <2>2, <2>5, <2>6
<1>13. /\ Side(P[k], P[e], p) * Side(P[k], P[e], p) = sq[e]
       /\ Len2(P[k], P[e]) = len[e]
  <2>1. /\ Side(P[e], P[k], p) * Side(P[e], P[k], p) = Side(P[k], P[e], p) * Side(P[k], P[e], p)
        /\ Len2(P[e], P[k]) = Len2(P[k], P[e])
    BY <1>11, EdgeTypes
  <2>2. sq[e] = Side(P[s[e]], P[t[e]], p) * Side(P[s[e]], P[t[e]], p) /\ len[e] = Len2(P[s[e]], P[t[e]])
    BY <1>5
  <2>3. QED
    BY <1>11, <2>1, <2>2
<1>14. QED
  BY <1>11, <1>12, <1>13

-----------------------------------------------------------------------------
(* The geometry of every fence and mission.                                *)

MissionStop == [x : Int, y : Int, command : {"NAV_WAYPOINT", "NAV_LOITER_TIME"}]

LEMMA PlaceOf ==
  ASSUME NEW w \in MissionStop
  PROVE  At2(w.x, w.y) \in Point /\ At2(w.x, w.y).x = w.x /\ At2(w.x, w.y).y = w.y
BY DEF MissionStop, Point, At2

LEMMA PlaceInside ==
  ASSUME NEW w \in MissionStop, NEW P
  PROVE  isPointInPolygon(w, P) <=> isPointInPolygon(At2(w.x, w.y), P)
<1>1. PICK p : p = At2(w.x, w.y) /\ p.x = w.x /\ p.y = w.y
  BY PlaceOf
<1>2. ASSUME NEW a, NEW b PROVE Intersects(w, a, b) <=> Intersects(p, a, b)
  BY <1>1 DEF Intersects
<1>3. {i \in 1..Len(P) : Intersects(w, P[i], Before(P, i))} = {i \in 1..Len(P) : Intersects(p, P[i], Before(P, i))}
  BY <1>2
<1>4. QED
  BY <1>1, <1>3 DEF isPointInPolygon

\* In a fence without dents the waypoints decide of a mission, not its legs.
LEMMA WaypointsDecide ==
  ASSUME NEW P \in Seq(Point), Convex(P), NEW M \in Seq(MissionStop), M # <<>>
  PROVE  validateMissionAgainstGeofence(M, P) <=> \A i \in 1..Len(M) : isPointInPolygon(M[i], P)
<1>1. \A i \in 1..Len(M) : M[i] \in MissionStop
  OBVIOUS
<1>2. Len(M) \in Nat /\ Len(M) >= 1 /\ Len(P) \in Nat
  OBVIOUS
<1>3. CASE Len(P) < 3
  <2>1. ~ isPointInPolygon(M[1], P)
    BY <1>2, <1>3 DEF isPointInPolygon
  <2>2. QED
    BY <1>2, <1>3, <2>1 DEF validateMissionAgainstGeofence
<1>4. CASE Len(P) >= 3
  <2>1. PICK s, t : Ring(P, s, t)
    BY <1>4, ConvexRing
  <2>2. ASSUME \A i \in 1..Len(M) : isPointInPolygon(M[i], P),
               NEW i \in 1..(Len(M) - 1), NEW m \in 1..9
        PROVE  isPointInPolygon(Sample(M[i], M[i + 1], m), Tenfold(P))
    <3>1. M[i] \in MissionStop /\ M[i + 1] \in MissionStop /\ isPointInPolygon(M[i], P) /\ isPointInPolygon(M[i + 1], P)
      BY <1>1, <1>2, <2>2
    <3>2. PICK p, r : p = At2(M[i].x, M[i].y) /\ r = At2(M[i + 1].x, M[i + 1].y)
      OBVIOUS
    <3>3. /\ p \in Point /\ r \in Point /\ isPointInPolygon(p, P) /\ isPointInPolygon(r, P)
          /\ p.x = M[i].x /\ p.y = M[i].y /\ r.x = M[i + 1].x /\ r.y = M[i + 1].y
      BY <3>1, <3>2, PlaceOf, PlaceInside
    <3>4. Sample(M[i], M[i + 1], m) = Sample(p, r, m)
      BY <3>3 DEF Sample
    <3>5. QED
      BY <2>1, <3>3, <3>4, LegInside
  <2>3. QED
    BY <1>4, <2>2 DEF validateMissionAgainstGeofence
<1>5. QED
  BY <1>2, <1>3, <1>4

-----------------------------------------------------------------------------
(* The grid.                                                               *)

LEMMA Flattened ==
  ASSUME NEW C, NEW seqs \in Seq(Seq(C))
  PROVE  FlattenSeq(seqs) \in Seq(C)
<1>1. PICK n \in Nat : n = Len(seqs)
  OBVIOUS
<1>2. CASE n = 0
  <2>1. seqs = <<>>
    BY <1>1, <1>2, EmptySeq
  <2>2. FlattenSeq(seqs) = seqs
    BY <1>1, <1>2 DEF FlattenSeq
  <2>3. QED
    BY <2>1, <2>2, EmptySeq
<1>3. CASE n # 0
  <2> DEFINE Unfolds(f, m) == f = [i \in 1..m |-> IF i = 1 THEN seqs[i] ELSE f[i - 1] \o seqs[i]]
             K == {m \in 1..n : ~ (\E f : Unfolds(f, m))}
  <2>1. \E f : Unfolds(f, 1)
    <3>1. PICK f : f = [i \in 1..1 |-> seqs[1]]
      OBVIOUS
    <3>2. f = [i \in 1..1 |-> IF i = 1 THEN seqs[i] ELSE f[i - 1] \o seqs[i]]
      BY <3>1
    <3>3. QED
      BY <3>2
  <2>2. ASSUME NEW m \in 1..(n - 1), NEW f, Unfolds(f, m) PROVE \E g : Unfolds(g, m + 1)
    <3>1. PICK g : g = [i \in 1..(m + 1) |-> IF i \in 1..m THEN f[i] ELSE f[m] \o seqs[m + 1]]
      OBVIOUS
    <3>2. ASSUME NEW i \in 1..(m + 1) PROVE g[i] = IF i = 1 THEN seqs[i] ELSE g[i - 1] \o seqs[i]
      <4>1. CASE i \in 1..m
        <5>1. g[i] = f[i] /\ (i # 1 => g[i - 1] = f[i - 1])
          BY <3>1, <4>1
        <5>2. f[i] = IF i = 1 THEN seqs[i] ELSE f[i - 1] \o seqs[i]
          BY <2>2, <4>1
        <5>3. QED
          BY <5>1, <5>2
      <4>2. CASE i \notin 1..m
        <5>1. i = m + 1 /\ i # 1 /\ i - 1 = m /\ m \in 1..m
          BY <4>2
        <5>2. g[i] = f[m] \o seqs[m + 1]
          BY <3>1, <4>2
        <5>3. m \in 1..(m + 1) /\ g[m] = f[m]
          BY <3>1, <5>1
        <5>4. QED
          BY <5>1, <5>2, <5>3
      <4>3. QED
        BY <4>1, <4>2
    <3>3. g = [i \in 1..(m + 1) |-> g[i]]
      BY <3>1
    <3>4. g = [i \in 1..(m + 1) |-> IF i = 1 THEN seqs[i] ELSE g[i - 1] \o seqs[i]]
      BY <3>2, <3>3
    <3>5. QED
      BY <3>4
  <2>3. K = {}
    <3> HIDE DEF Unfolds
    <3>1. 1 \notin K
      BY <2>1
    <3>2. ASSUME NEW m \in 1..(n - 1), m + 1 \in K PROVE m \in K
      <4>1. m \in 1..n /\ ~ (\E f : Unfolds(f, m + 1))
        BY <3>2
      <4>2. QED
        BY <2>2, <4>1
    <3>3. K \subseteq 1..n
      OBVIOUS
    <3> HIDE DEF K
    <3>4. QED
      BY <3>1, <3>2, <3>3, StepByStep
  <2>4. PICK flatten : flatten = CHOOSE f : Unfolds(f, n)
    OBVIOUS
  <2>5. Unfolds(flatten, n)
    <3> HIDE DEF Unfolds
    <3>1. n \in 1..n
      BY <1>3
    <3>2. \E f : Unfolds(f, n)
      BY <2>3, <3>1
    <3>3. QED
      BY <2>4, <3>2
  <2>6. FlattenSeq(seqs) = flatten[n]
    BY <1>1, <1>3, <2>4 DEF FlattenSeq
  <2>7. PICK J : J = {i \in 1..n : flatten[i] \notin Seq(C)}
    OBVIOUS
  <2>8. \A i \in 1..n : seqs[i] \in Seq(C) /\ flatten[i] = IF i = 1 THEN seqs[i] ELSE flatten[i - 1] \o seqs[i]
    <3>1. \A i \in 1..n : seqs[i] \in Seq(C)
      BY <1>1
    <3>2. \A i \in 1..n : flatten[i] = IF i = 1 THEN seqs[i] ELSE flatten[i - 1] \o seqs[i]
      BY <2>5
    <3>3. QED
      BY <3>1, <3>2
  <2>9. 1 \notin J
    BY <2>7, <2>8
  <2>10. ASSUME NEW m \in 1..(n - 1), m + 1 \in J PROVE m \in J
    <3>1. m \in 1..n /\ m + 1 \in 1..n /\ m + 1 # 1 /\ (m + 1) - 1 = m
      OBVIOUS
    <3>2. flatten[m + 1] = flatten[m] \o seqs[m + 1] /\ seqs[m + 1] \in Seq(C)
      BY <2>8, <3>1
    <3>3. flatten[m + 1] \notin Seq(C)
      BY <2>7, <2>10
    <3>4. flatten[m] \notin Seq(C)
      BY <3>2, <3>3
    <3>5. QED
      BY <2>7, <3>1, <3>4
  <2>11. J = {}
    <3>1. J \subseteq 1..n
      BY <2>7
    <3>2. QED
      BY <2>9, <2>10, <3>1, StepByStep
  <2>12. QED
    BY <1>3, <2>6, <2>7, <2>11
<1>4. QED
  BY <1>2, <1>3

\* Finitely many integers have a least and a greatest.
LEMMA Extremes ==
  ASSUME NEW n \in Nat, n >= 1, NEW f, \A i \in 1..n : f[i] \in Int,
         NEW T, T = {f[i] : i \in 1..n}
  PROVE  Min(T) \in Int /\ Max(T) \in Int
<1>1. PICK h, g : h = [i \in 1..n |-> - f[i]] /\ g = [i \in 1..n |-> 1]
  OBVIOUS
<1>2. \A i \in 1..n : h[i] \in Int /\ h[i] = - f[i] /\ g[i] = 1 /\ g[i] \in Int /\ g[i] > 0
  BY <1>1
<1>3. PICK i \in 1..n : \A k \in 1..n : f[i] * g[k] <= f[k] * g[i]
  <2>1. \A k \in 1..n : f[k] \in Int /\ g[k] \in Int /\ g[k] > 0
    BY <1>2
  <2>2. QED
    BY <2>1, SmallestQuotient
<1>4. PICK j \in 1..n : \A k \in 1..n : h[j] * g[k] <= h[k] * g[j]
  <2>1. \A k \in 1..n : h[k] \in Int /\ g[k] \in Int /\ g[k] > 0
    BY <1>2
  <2>2. QED
    BY <2>1, SmallestQuotient
<1>5. \A k \in 1..n : f[i] <= f[k]
  BY <1>2, <1>3
<1>6. \A k \in 1..n : f[j] >= f[k]
  <2>1. ASSUME NEW k \in 1..n PROVE f[j] >= f[k]
    <3>1. PICK u, v : u = f[j] /\ v = f[k]
      OBVIOUS
    <3>2. u \in Int /\ v \in Int /\ h[j] = - u /\ h[k] = - v /\ g[k] = 1 /\ g[j] = 1
      BY <1>2, <3>1
    <3>3. (- u) * 1 <= (- v) * 1
      BY <1>4, <3>2
    <3>4. QED
      BY <3>1, <3>2, <3>3
  <2>2. QED
    BY <2>1
<1>7. \E x \in T : \A y \in T : x <= y
  BY <1>5
<1>8. \E x \in T : \A y \in T : x >= y
  BY <1>6
<1>9. Min(T) \in T
  BY <1>7 DEF Min
<1>10. Max(T) \in T
  BY <1>8 DEF Max
<1>11. QED
  BY <1>9, <1>10

LEMMA ExtremesBetween ==
  ASSUME NEW A \in Int, NEW B \in Int, NEW T, T \subseteq A..B, T # {}
  PROVE  Min(T) \in T /\ Max(T) \in T
<1>1. PICK U, V : U = {x - A : x \in T} /\ V = {B - x : x \in T}
  OBVIOUS
<1>2. \A x \in T : x \in Int /\ A <= x /\ x <= B /\ x - A \in U /\ B - x \in V
  BY <1>1
<1>3. U \subseteq Nat /\ U # {} /\ V \subseteq Nat /\ V # {}
  <2>1. \A x \in T : x - A \in Nat /\ B - x \in Nat
    BY <1>2
  <2>2. QED
    BY <1>1, <2>1
<1>4. PICK u \in U : \A y \in U : u <= y
  BY <1>3, Smallest
<1>5. PICK v \in V : \A y \in V : v <= y
  BY <1>3, Smallest
<1>6. \E x \in T : \A y \in T : x <= y
  <2>1. PICK x \in T : u = x - A
    BY <1>1
  <2>2. \A y \in T : x - A <= y - A
    BY <1>2, <1>4, <2>1
  <2>3. \A y \in T : x <= y
    BY <1>2, <2>2
  <2>4. QED
    BY <2>3
<1>7. \E x \in T : \A y \in T : x >= y
  <2>1. PICK x \in T : v = B - x
    BY <1>1
  <2>2. \A y \in T : B - x <= B - y
    BY <1>2, <1>5, <2>1
  <2>3. \A y \in T : x >= y
    BY <1>2, <2>2
  <2>4. QED
    BY <2>3
<1>8. Min(T) \in T
  BY <1>6 DEF Min
<1>9. Max(T) \in T
  BY <1>7 DEF Max
<1>10. QED
  BY <1>8, <1>9

LEMMA PlaceMargin ==
  ASSUME NEW w \in MissionStop, NEW P, NEW m
  PROVE  /\ isInsideWithMargin(w, P, m) <=> isInsideWithMargin(At2(w.x, w.y), P, m)
         /\ \A a, b : CloserThan(m, w, a, b) <=> CloserThan(m, At2(w.x, w.y), a, b)
         /\ \A a, b : Side(a, b, w) = Side(a, b, At2(w.x, w.y))
<1>1. PICK p : p = At2(w.x, w.y) /\ p.x = w.x /\ p.y = w.y
  BY PlaceOf
<1>2. ASSUME NEW a, NEW b PROVE CloserThan(m, w, a, b) <=> CloserThan(m, p, a, b)
  BY <1>1 DEF CloserThan
<1>3. ASSUME NEW a, NEW b PROVE Side(a, b, w) = Side(a, b, p)
  BY <1>1 DEF Side
<1>4. isPointInPolygon(w, P) <=> isPointInPolygon(p, P)
  BY <1>1, PlaceInside
<1>5. QED
  BY <1>1, <1>2, <1>3, <1>4 DEF isInsideWithMargin

LEMMA Spacing ==
  ASSUME NEW o, o.lineSpacing \in Int, o.overlapPercent \in Int
  PROVE  effectiveSpacing(o) \in Int /\ effectiveSpacing(o) >= 1
<1>1. PICK d : d = AtLeast(0, IF o.overlapPercent > 90 THEN 90 ELSE o.overlapPercent)
  OBVIOUS
<1>2. d \in Int
  BY <1>1 DEF AtLeast
<1>3. PICK l : l = AtLeast(1, o.lineSpacing)
  OBVIOUS
<1>4. l \in Int
  BY <1>3 DEF AtLeast
<1>5. PICK q : q = l * (100 - d)
  OBVIOUS
<1>6. q \in Int
  BY <1>2, <1>4, <1>5, Products
<1>7. q \div 100 \in Int
  BY <1>6
<1>8. effectiveSpacing(o) = AtLeast(1, q \div 100)
  BY <1>1, <1>3, <1>5 DEF effectiveSpacing
<1>9. QED
  BY <1>7, <1>8 DEF AtLeast

\* The waypoints that keep the margin a grid was asked for.
KeepingClear(P, o) == {w \in MissionStop : isInsideWithMargin(w, P, AtLeast(0, o.edgeMargin))}

LEMMA StopsKeepClear ==
  ASSUME NEW P, NEW o, o.headingAngle \in {0, 90}, NEW x \in Int, NEW y \in Int,
         isInsideWithMargin(rotateXY(At2(x, y), o.headingAngle), P, AtLeast(0, o.edgeMargin)),
         NEW command \in {"NAV_WAYPOINT", "NAV_LOITER_TIME"}
  PROVE  Stop(At2(x, y), o, command) \in KeepingClear(P, o)
<1>1. PICK q : q = rotateXY(At2(x, y), o.headingAngle)
  OBVIOUS
<1>2. PICK w : w = Stop(At2(x, y), o, command)
  OBVIOUS
<1>3. q = At2(q.x, q.y) /\ q.x \in Int /\ q.y \in Int
  BY <1>1 DEF rotateXY, At2
<1>4. w = [x |-> q.x, y |-> q.y, command |-> command]
  BY <1>1, <1>2 DEF Stop
<1>5. w \in MissionStop /\ w.x = q.x /\ w.y = q.y
  BY <1>3, <1>4 DEF MissionStop
<1>6. isInsideWithMargin(w, P, AtLeast(0, o.edgeMargin)) <=> isInsideWithMargin(At2(w.x, w.y), P, AtLeast(0, o.edgeMargin))
  BY <1>5, PlaceMargin
<1>7. At2(w.x, w.y) = q
  BY <1>3, <1>5
<1>8. QED
  BY <1>1, <1>2, <1>5, <1>6, <1>7 DEF KeepingClear

LEMMA Lines ==
  ASSUME NEW P, NEW o, o.headingAngle \in {0, 90}, NEW x \in Int, NEW z \in Int, NEW y \in Int,
         isInsideWithMargin(rotateXY(At2(x, y), o.headingAngle), P, AtLeast(0, o.edgeMargin)),
         isInsideWithMargin(rotateXY(At2(z, y), o.headingAngle), P, AtLeast(0, o.edgeMargin))
  PROVE  Line(o, x, z, y) \in Seq(KeepingClear(P, o))
<1>1. PICK C : C = KeepingClear(P, o)
  OBVIOUS
<1>2. /\ Stop(At2(x, y), o, "NAV_WAYPOINT") \in C /\ Stop(At2(x, y), o, "NAV_LOITER_TIME") \in C
      /\ Stop(At2(z, y), o, "NAV_WAYPOINT") \in C /\ Stop(At2(z, y), o, "NAV_LOITER_TIME") \in C
  BY <1>1, StopsKeepClear
<1>3. PICK a, b, c, d : /\ a = Stop(At2(x, y), o, "NAV_WAYPOINT") /\ b = Stop(At2(x, y), o, "NAV_LOITER_TIME")
                        /\ c = Stop(At2(z, y), o, "NAV_WAYPOINT") /\ d = Stop(At2(z, y), o, "NAV_LOITER_TIME")
  OBVIOUS
<1>4. a \in C /\ b \in C /\ c \in C /\ d \in C
  BY <1>2, <1>3
<1>5. Line(o, x, z, y) = <<a, b>> \o <<c, d>> \/ Line(o, x, z, y) = <<a>> \o <<c>>
  BY <1>3 DEF Line
<1>6. <<a, b>> \in Seq(C) /\ <<c, d>> \in Seq(C) /\ <<a>> \in Seq(C) /\ <<c>> \in Seq(C)
  BY <1>4
<1>7. <<a, b>> \o <<c, d>> \in Seq(C) /\ <<a>> \o <<c>> \in Seq(C)
  BY <1>6
<1>8. QED
  BY <1>1, <1>5, <1>7

\* Every waypoint of a grid is inside the fence and keeps the margin from its edges.
LEMMA GridsKeepClear ==
  ASSUME NEW P \in Seq(Point), NEW o \in GridOptions
  PROVE  generateGridWaypoints(P, o) \in Seq(KeepingClear(P, o))
<1>1. PICK n \in Nat : n = Len(P)
  OBVIOUS
<1>2. CASE n < 3
  <2>1. generateGridWaypoints(P, o) = <<>>
    BY <1>1, <1>2 DEF generateGridWaypoints
  <2>2. QED
    BY <2>1
<1>3. CASE ~ (n < 3)
  <2> DEFINE local == [i \in 1..Len(P) |-> rotateXY(P[i], - o.headingAngle)]
             xs == {local[i].x : i \in 1..Len(local)}
             ys == {local[i].y : i \in 1..Len(local)}
             from == Min(ys) + AtLeast(0, o.edgeMargin)
             to == Max(ys) - AtLeast(0, o.edgeMargin)
             Height(k) == from + (k - 1) * effectiveSpacing(o)
             last == AtLeast(0, ((to - from) \div effectiveSpacing(o)) + 1)
             insideXs == [k \in 1..last |-> InsideXs(P, o, xs, Height(k))]
             flown == {k \in DOMAIN insideXs : Cardinality(insideXs[k]) >= 2}
             Swath(k) == LET startX == Min(insideXs[k])
                              endX == Max(insideXs[k])
                              reverse == Cardinality({j \in flown : j < k}) % 2 = 1
                          IN IF reverse THEN Line(o, endX, startX, Height(k))
                                        ELSE Line(o, startX, endX, Height(k))
             seqs == [k \in DOMAIN insideXs |-> IF k \in flown THEN Swath(k) ELSE <<>>]
  <2>1. generateGridWaypoints(P, o) = FlattenSeq(seqs)
    <3>1. ~ (Len(P) < 3)
      BY <1>1, <1>3
    <3>2. QED
      BY <3>1 DEF generateGridWaypoints
  <2>2. /\ o.headingAngle \in {0, 90} /\ o.lineSpacing \in Int /\ o.overlapPercent \in Int
        /\ o.edgeMargin \in Int
    BY FenceAssumption
  <2>3. Len(local) = n /\ \A i \in 1..n : local[i].x \in Int /\ local[i].y \in Int
    <3>1. Len(local) = n
      BY <1>1
    <3>2. ASSUME NEW i \in 1..n PROVE local[i].x \in Int /\ local[i].y \in Int
      <4>1. local[i] = rotateXY(P[i], - o.headingAngle) /\ P[i] \in Point
        BY <1>1
      <4> HIDE DEF local
      <4>2. PICK p \in Point : p = P[i]
        BY <4>1
      <4>3. p.x \in Int /\ p.y \in Int
        BY DEF Point
      <4>4. local[i] = p \/ local[i] = At2(p.y, - p.x)
        BY <2>2, <4>1, <4>2 DEF rotateXY
      <4>5. QED
        BY <4>3, <4>4 DEF At2
    <3>3. QED
      BY <3>1, <3>2
  <2> HIDE DEF local
  <2>4. Min(xs) \in Int /\ Max(xs) \in Int /\ Min(ys) \in Int /\ Max(ys) \in Int
    <3>1. PICK f, g : f = [i \in 1..n |-> local[i].x] /\ g = [i \in 1..n |-> local[i].y]
      OBVIOUS
    <3>2. /\ \A i \in 1..n : f[i] \in Int /\ f[i] = local[i].x
          /\ \A i \in 1..n : g[i] \in Int /\ g[i] = local[i].y
      BY <2>3, <3>1
    <3>3. xs = {f[i] : i \in 1..n} /\ ys = {g[i] : i \in 1..n}
      BY SMTT(30), <2>3, <3>2
    <3>4. n >= 1
      BY <1>3
    <3> HIDE DEF xs, ys
    <3>5. Min(xs) \in Int /\ Max(xs) \in Int
      BY <3>2, <3>3, <3>4, Extremes
    <3>6. Min(ys) \in Int /\ Max(ys) \in Int
      BY <3>2, <3>3, <3>4, Extremes
    <3>7. QED
      BY <3>5, <3>6
  <2> HIDE DEF xs, ys
  <2>5. effectiveSpacing(o) \in Int /\ effectiveSpacing(o) >= 1
    BY <2>2, Spacing
  <2>6. from \in Int /\ to \in Int
    <3>1. AtLeast(0, o.edgeMargin) \in Int
      BY <2>2 DEF AtLeast
    <3>2. QED
      BY <2>4, <3>1
  <2> HIDE DEF from, to
  <2>7. last \in Nat
    <3>1. PICK step : step = effectiveSpacing(o)
      OBVIOUS
    <3>2. (to - from) \div step \in Int
      BY <2>5, <2>6, <3>1
    <3>3. QED
      BY <3>1, <3>2 DEF AtLeast
  <2> HIDE DEF last
  <2>8. ASSUME NEW k \in 1..last PROVE Height(k) \in Int
    <3>1. PICK step : step = effectiveSpacing(o)
      OBVIOUS
    <3>2. step \in Int /\ k - 1 \in Int
      BY <2>5, <2>7, <3>1
    <3>3. (k - 1) * step \in Int
      BY <3>2, Products
    <3>4. QED
      BY <2>6, <3>1, <3>3
  <2> HIDE DEF Height
  <2>9. DOMAIN insideXs = 1..last /\ \A k \in 1..last : insideXs[k] = InsideXs(P, o, xs, Height(k))
    OBVIOUS
  <2> HIDE DEF insideXs
  <2>10. ASSUME NEW k \in flown PROVE Swath(k) \in Seq(KeepingClear(P, o))
    <3>1. k \in 1..last /\ insideXs[k] = InsideXs(P, o, xs, Height(k)) /\ Cardinality(insideXs[k]) >= 2
      BY <2>9
    <3>2. PICK T, y : T = insideXs[k] /\ y = Height(k)
      OBVIOUS
    <3>3. y \in Int
      BY <2>8, <3>1, <3>2
    <3>4. T = InsideXs(P, o, xs, y) /\ T \subseteq Min(xs)..Max(xs)
      BY <3>1, <3>2 DEF InsideXs
    <3>5. T # {}
      <4>1. PICK c : c = Cardinality(T)
        OBVIOUS
      <4>2. c >= 2
        BY <3>1, <3>2, <4>1
      <4>3. T = {} => c = 0
        BY <4>1, FS_EmptySet
      <4>4. QED
        BY <4>2, <4>3
    <3>6. Min(T) \in T /\ Max(T) \in T
      BY <2>4, <3>4, <3>5, ExtremesBetween
    <3>7. \A x \in T : x \in Int /\ isInsideWithMargin(rotateXY(At2(x, y), o.headingAngle), P, AtLeast(0, o.edgeMargin))
      BY <2>4, <3>4 DEF InsideXs
    <3>8. PICK l, r : l = Min(T) /\ r = Max(T)
      OBVIOUS
    <3>9. Line(o, l, r, y) \in Seq(KeepingClear(P, o)) /\ Line(o, r, l, y) \in Seq(KeepingClear(P, o))
      BY <2>2, <3>3, <3>6, <3>7, <3>8, Lines
    <3>10. Swath(k) = Line(o, l, r, y) \/ Swath(k) = Line(o, r, l, y)
      BY <3>2, <3>8
    <3>11. QED
      BY <3>9, <3>10
  <2> HIDE DEF Swath, flown
  <2>11. seqs \in Seq(Seq(KeepingClear(P, o)))
    <3>1. PICK S : S = Seq(KeepingClear(P, o))
      OBVIOUS
    <3>2. <<>> \in S
      BY <3>1
    <3>3. \A k \in 1..last : (IF k \in flown THEN Swath(k) ELSE <<>>) \in S
      BY <2>10, <3>1, <3>2
    <3>4. seqs \in Seq(S)
      BY <2>7, <2>9, <3>3
    <3>5. QED
      BY <3>1, <3>4
  <2> HIDE DEF seqs
  <2>12. QED
    BY <2>1, <2>11, Flattened
<1>4. QED
  BY <1>2, <1>3

-----------------------------------------------------------------------------
(* The fence keeps in what it is meant to, whatever is drawn and planned.  *)

GeoInv ==
  /\ geofence \in Fences /\ mission \in Seq(MissionStop) /\ surveyed \subseteq GridOptions
  /\ \A o \in surveyed : mission # <<>> /\ mission \in Seq(KeepingClear(geofence, o))

LEMMA GeoStarts == GeoInit => GeoInv
BY DEF GeoInit, GeoInv

LEMMA GeoKept == GeoInv /\ [GeoNext]_geoVars => GeoInv'
<1> SUFFICES ASSUME GeoInv, [GeoNext]_geoVars PROVE GeoInv'
  OBVIOUS
<1>1. ASSUME NEW p \in Spots, PlaceWaypoint(p) PROVE GeoInv'
  <2>1. PICK w : w = [x |-> p.x, y |-> p.y, command |-> "NAV_WAYPOINT"]
    OBVIOUS
  <2>2. w \in MissionStop
    <3>1. p \in Point
      BY FenceAssumption
    <3>2. QED
      BY <2>1, <3>1 DEF Point, MissionStop
  <2>3. mission' = Append(mission, w) /\ geofence' = geofence /\ surveyed' = surveyed /\ surveyed = {}
    BY <1>1, <2>1 DEF PlaceWaypoint
  <2>4. mission' \in Seq(MissionStop)
    BY <2>2, <2>3 DEF GeoInv
  <2>5. QED
    BY <2>3, <2>4 DEF GeoInv
<1>2. ASSUME NEW o \in GridOptions, SurveyFence(o) PROVE GeoInv'
  <2>1. geofence \in Seq(Point) /\ geofence \in Fences
    BY FenceAssumption DEF GeoInv
  <2>2. PICK M : M = generateGridWaypoints(geofence, o)
    OBVIOUS
  <2>3. mission' = M /\ M # <<>> /\ surveyed' = {o} /\ geofence' = geofence
    BY <1>2, <2>2 DEF SurveyFence
  <2>4. M \in Seq(KeepingClear(geofence, o))
    BY <2>1, <2>2, GridsKeepClear
  <2>5. M \in Seq(MissionStop)
    <3>1. KeepingClear(geofence, o) \subseteq MissionStop
      BY DEF KeepingClear
    <3>2. QED
      BY <2>4, <3>1
  <2>6. QED
    BY <2>1, <2>3, <2>4, <2>5 DEF GeoInv
<1>3. ASSUME UNCHANGED geoVars PROVE GeoInv'
  BY <1>3 DEF GeoInv, geoVars
<1>4. QED
  BY <1>1, <1>2, <1>3 DEF GeoNext

LEMMA GeoIsTyped == GeoInv => GeoTypeOK
<1> SUFFICES ASSUME GeoInv PROVE GeoTypeOK
  OBVIOUS
<1>1. ASSUME NEW i \in 1..Len(mission) PROVE mission[i].command \in {"NAV_WAYPOINT", "NAV_LOITER_TIME"}
  <2>1. mission[i] \in MissionStop
    BY DEF GeoInv
  <2>2. QED
    BY <2>1 DEF MissionStop
<1>2. QED
  BY <1>1 DEF GeoInv, GeoTypeOK

LEMMA ClearOfEdges ==
  ASSUME NEW P \in Seq(Point), Convex(P), NEW o, o.edgeMargin \in Int,
         NEW w \in KeepingClear(P, o), NEW k \in 1..Len(P), NEW m, m = AtLeast(0, o.edgeMargin)
  PROVE  Side(P[k], After(P, k), w) * Side(P[k], After(P, k), w) >= (m * m) * Len2(P[k], After(P, k))
<1>1. w \in MissionStop /\ isInsideWithMargin(w, P, m)
  BY DEF KeepingClear
<1>2. PICK p \in Point : p = At2(w.x, w.y)
  BY <1>1, PlaceOf
<1>3. isInsideWithMargin(p, P, m) /\ \A a, b : Side(a, b, w) = Side(a, b, p)
  BY <1>1, <1>2, PlaceMargin
<1>4. isPointInPolygon(p, P) /\ Len(P) >= 3
  BY <1>3 DEF isInsideWithMargin, isPointInPolygon
<1>5. m \in Int /\ m >= 0
  BY DEF AtLeast
<1>6. CASE m > 0
  <2>1. \A i \in 1..Len(P) : ~ CloserThan(m, p, P[i], After(P, i))
    BY <1>3, <1>6 DEF isInsideWithMargin
  <2>2. Side(P[k], After(P, k), p) * Side(P[k], After(P, k), p) >= (m * m) * Len2(P[k], After(P, k))
    BY <1>4, <1>5, <2>1, MarginKept
  <2>3. QED
    BY <1>3, <2>2
<1>7. CASE m = 0
  <2>1. P[k] \in Point /\ After(P, k) \in Point
    <3>1. (k % Len(P)) + 1 \in 1..Len(P)
      BY <1>4, NextIndex
    <3>2. QED
      BY <3>1 DEF After
  <2>2. PICK z, l : z = Side(P[k], After(P, k), p) /\ l = Len2(P[k], After(P, k))
    OBVIOUS
  <2>3. z \in Int /\ l \in Int
    BY <2>1, <2>2, SideTypes, EdgeTypes
  <2>4. z * z >= (m * m) * l
    <3>1. z * z \in Int /\ z * z >= 0
      BY <2>3, Products, Monotone
    <3>2. (m * m) * l = 0
      BY <1>7, <2>3
    <3>3. QED
      BY <3>1, <3>2
  <2>5. QED
    BY <1>3, <2>2, <2>4
<1>8. QED
  BY <1>5, <1>6, <1>7

LEMMA FenceStands == GeoInv => FenceIsRight
<1> SUFFICES ASSUME GeoInv PROVE FenceIsRight
  OBVIOUS
<1>1. geofence \in Seq(Point) /\ mission \in Seq(MissionStop) /\ surveyed \subseteq GridOptions
  BY FenceAssumption DEF GeoInv
<1>2. InsideAsMeant
  <2>1. ASSUME NEW p \in Spots, OffTheLines(p, geofence)
        PROVE  isPointInPolygon(p, geofence) <=> Cardinality(FanAround(p, geofence)) % 2 = 1
    <3>1. p \in Point
      BY FenceAssumption
    <3>2. QED
      BY <1>1, <2>1, <3>1, CastIsRight
  <2>2. QED
    BY <2>1 DEF InsideAsMeant
<1>3. LegsFollow
  BY <1>1, WaypointsDecide DEF LegsFollow
<1>4. ASSUME Convex(geofence), NEW o \in surveyed
      PROVE  /\ validateMissionAgainstGeofence(mission, geofence)
             /\ \A i \in 1..Len(mission), k \in 1..Len(geofence) :
                  LET side == Side(geofence[k], After(geofence, k), mission[i])
                      margin == AtLeast(0, o.edgeMargin)
                  IN side * side >= (margin * margin) * Len2(geofence[k], After(geofence, k))
  <2>1. mission # <<>> /\ mission \in Seq(KeepingClear(geofence, o)) /\ o \in GridOptions /\ o.edgeMargin \in Int
    <3>1. o \in GridOptions
      BY <1>1
    <3>2. o.edgeMargin \in Int
      BY <3>1, FenceAssumption
    <3>3. QED
      BY <3>1, <3>2 DEF GeoInv
  <2>2. \A i \in 1..Len(mission) : mission[i] \in KeepingClear(geofence, o)
    BY <2>1
  <2>3. \A i \in 1..Len(mission) : isPointInPolygon(mission[i], geofence)
    BY <2>2 DEF KeepingClear, isInsideWithMargin
  <2>4. validateMissionAgainstGeofence(mission, geofence)
    BY <1>1, <1>4, <2>1, <2>3, WaypointsDecide
  <2>5. ASSUME NEW i \in 1..Len(mission), NEW k \in 1..Len(geofence), NEW m, m = AtLeast(0, o.edgeMargin)
        PROVE  Side(geofence[k], After(geofence, k), mission[i]) * Side(geofence[k], After(geofence, k), mission[i])
                 >= (m * m) * Len2(geofence[k], After(geofence, k))
    <3>1. PICK w : w = mission[i]
      OBVIOUS
    <3>2. w \in KeepingClear(geofence, o)
      BY <2>2, <3>1
    <3>3. QED
      BY <1>1, <1>4, <2>1, <2>5, <3>1, <3>2, ClearOfEdges
  <2>6. QED
    BY <2>4, <2>5
<1>5. GridKeepsClear
  <2>1. ASSUME Convex(geofence), NEW o \in surveyed, NEW i \in 1..Len(mission), NEW k \in 1..Len(geofence)
        PROVE  LET a == geofence[k]
                   b == After(geofence, k)
                   side == Side(a, b, mission[i])
                   margin == AtLeast(0, o.edgeMargin)
               IN side * side >= margin * margin * ((b.x - a.x) * (b.x - a.x) + (b.y - a.y) * (b.y - a.y))
    BY <1>4, <2>1 DEF Len2
  <2>2. QED
    BY <1>4, <2>1 DEF GridKeepsClear
<1>6. QED
  BY <1>2, <1>3, <1>5 DEF FenceIsRight
=============================================================================
