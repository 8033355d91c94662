------------------------------ MODULE Session ------------------------------
(***************************************************************************)
(* Signing in and out of the dashboard in several tabs of one browser: the *)
(* auth store of each tab (stores/authStore.js), the tokens and the copy   *)
(* of the store in the localStorage they share, the routes and the roles   *)
(* they ask for (App.jsx, components/shared/ProtectedRoute.jsx), and the   *)
(* token refresh of the API client as far as it writes to localStorage.    *)
(*                                                                         *)
(* One user signs in per role and is called by it.  The store has a user   *)
(* exactly when isAuthenticated is set.  Every set() of the store writes   *)
(* user and isAuthenticated to localStorage.                               *)
(***************************************************************************)
EXTENDS ActionPolicy

CONSTANTS
  Tabs,        \* the tabs of a browser
  Users,       \* the roles of those who sign in
  Visited      \* bound: the pages that are opened, by a link or by address

ASSUME UsersAssumption == Users \subseteq Roles

VARIABLES
  tab,         \* [user, path, from, isLoading, refreshing] of each tab
  jwt,         \* whose tokens are in localStorage
  persisted,   \* the user in the stored copy of the auth store
  overtaken    \* history: a refresh has stored tokens others than it came from

sessionVars == <<tab, jwt, persisted, overtaken>>

Nobody == "nobody"
Nowhere == "nowhere"

-----------------------------------------------------------------------------
(* The routes.                                                             *)

PublicPages == {"/", "/login", "/register", "/password-recovery"}

OpenPages == {"/app", "/app/fleet", "/app/telemetry", "/app/camera", "/app/map",
              "/app/simulation-3d", "/app/alerts", "/app/analytics", "/app/settings",
              "/app/unauthorized"}

\* The sidebar asks for the same roles as the routes.
RequiredRoles(p) ==
  CASE p \in OpenPages -> Roles
    [] p = "/app/missions" -> Planners
    [] p = "/app/control" -> Pilots
    [] p \in {"/app/users", "/app/admin"} -> Admins

AppPages == OpenPages \cup {"/app/missions", "/app/control", "/app/users", "/app/admin"}

Pages == PublicPages \cup AppPages

ASSUME VisitedAssumption == Visited \subseteq Pages

\* Mutant: whoever is signed in may see it.
SettledForAll(user, p) ==
  IF user = Nobody
  THEN IF p \in PublicPages THEN p ELSE "/login"
  ELSE IF p \in PublicPages THEN "/app" ELSE p

\* Where a tab of a user ends up that goes to path p.
Settled(user, p) ==
  IF user = Nobody
  THEN IF p \in PublicPages THEN p ELSE "/login"
  ELSE IF p \in PublicPages THEN "/app"
       ELSE IF user \in RequiredRoles(p) THEN p ELSE "/app/unauthorized"

\* The page that /login leads back to.
Origin(user, p, from) ==
  IF user = Nobody /\ p \notin PublicPages THEN p
  ELSE IF user = Nobody /\ p = "/login" THEN from ELSE Nowhere

SessionTypeOK ==
  /\ tab \in [Tabs -> [user : Users \cup {Nobody}, path : Pages, from : Pages \cup {Nowhere},
                       isLoading : BOOLEAN, refreshing : Users \cup {Nobody}]]
  /\ jwt \in Users \cup {Nobody}
  /\ persisted \in Users \cup {Nobody}
  /\ overtaken \in BOOLEAN

Opened(user, p) ==
  [user |-> user, path |-> Settled(user, p), from |-> Origin(user, p, Nowhere),
   isLoading |-> FALSE, refreshing |-> Nobody]

SessionInit ==
  /\ tab = [t \in Tabs |-> Opened(Nobody, "/login")]
  /\ jwt = Nobody /\ persisted = Nobody
  /\ overtaken = FALSE

-----------------------------------------------------------------------------
(* Pages.                                                                  *)

\* Mutant: the stored copy is believed without tokens.
RestoredBlindly == persisted

\* What a tab that is loaded takes from localStorage.
Restored == IF jwt = Nobody THEN Nobody ELSE persisted

Load(t, p) ==
  /\ tab' = [tab EXCEPT ![t] = Opened(Restored, p)]
  /\ UNCHANGED <<jwt, persisted, overtaken>>

\* The sidebar shows the pages of the user's role; some pages without a user
\* lead to /login, and /login to the recovery of the password.
Follow(t, p) ==
  /\ IF tab[t].user = Nobody THEN p \in {"/login", "/password-recovery"}
     ELSE p \in AppPages /\ tab[t].user \in RequiredRoles(p)
  /\ tab' = [tab EXCEPT ![t].path = p,
                            ![t].from = IF tab[t].isLoading THEN @ ELSE Nowhere]
  /\ UNCHANGED <<jwt, persisted, overtaken>>

-----------------------------------------------------------------------------
(* Signing in and out.                                                     *)

Login(t) ==
  /\ tab[t].path = "/login" /\ ~ tab[t].isLoading
  /\ tab' = [tab EXCEPT ![t].isLoading = TRUE]
  /\ persisted' = tab[t].user
  /\ UNCHANGED <<jwt, overtaken>>

\* The form leads where it was to lead when it was sent; the page that is shown
\* by then, if another, leads to the dashboard, and may have the last word.
LoginAccepted(t, u) ==
  /\ tab[t].isLoading
  /\ \E p \in IF tab[t].from = Nowhere THEN {"/app"}
              ELSE {tab[t].from} \cup (IF tab[t].path = "/login" THEN {} ELSE {"/app"}) :
       tab' = [tab EXCEPT ![t] = [Opened(u, p) EXCEPT !.refreshing = tab[t].refreshing]]
  /\ jwt' = u /\ persisted' = u
  /\ UNCHANGED overtaken

LoginRefused(t) ==
  /\ tab[t].isLoading
  /\ tab' = [tab EXCEPT ![t].isLoading = FALSE]
  /\ persisted' = tab[t].user
  /\ UNCHANGED <<jwt, overtaken>>

\* The page shown is a protected one, which goes to /login.
Logout(t) ==
  /\ tab[t].user # Nobody
  /\ jwt' = Nobody /\ persisted' = Nobody
  /\ tab' = [tab EXCEPT ![t].user = Nobody, ![t].path = "/login", ![t].from = tab[t].path]
  /\ UNCHANGED overtaken

-----------------------------------------------------------------------------
(* A call of the tab is refused (lib/api/client.js).                       *)

\* A call of the page, or a login that finds the tokens of another tab.
RefreshBegins(t) ==
  /\ tab[t].user # Nobody \/ tab[t].isLoading
  /\ jwt # Nobody
  /\ tab[t].refreshing = Nobody
  /\ tab' = [tab EXCEPT ![t].refreshing = jwt]
  /\ UNCHANGED <<jwt, persisted, overtaken>>

RefreshStores(t) ==
  /\ tab[t].refreshing # Nobody
  /\ jwt' = tab[t].refreshing
  /\ overtaken' = (overtaken \/ jwt # tab[t].refreshing)
  /\ tab' = [tab EXCEPT ![t].refreshing = Nobody]
  /\ UNCHANGED persisted

\* Without a token to refresh with, or with one that is refused, the tab goes
\* to /login by loading it, unless it is on a page for signing in.
Dismissed(t) ==
  /\ jwt' = Nobody
  /\ IF tab[t].path \in PublicPages \ {"/"}
     THEN tab' = [tab EXCEPT ![t].refreshing = Nobody] /\ UNCHANGED persisted
     ELSE tab' = [tab EXCEPT ![t] = Opened(Nobody, "/login")] /\ persisted' = Nobody
  /\ UNCHANGED overtaken

RefreshRefused(t) ==
  /\ \/ tab[t].refreshing # Nobody
     \/ tab[t].user # Nobody /\ jwt = Nobody
  /\ Dismissed(t)

-----------------------------------------------------------------------------
SessionNext == \E t \in Tabs :
  \/ \E p \in Visited : Load(t, p)
  \/ \E p \in Visited : Follow(t, p)
  \/ Login(t) \/ (\E u \in Users : LoginAccepted(t, u)) \/ LoginRefused(t)
  \/ Logout(t)
  \/ RefreshBegins(t) \/ RefreshStores(t) \/ RefreshRefused(t)

SessionSpec == SessionInit /\ [][SessionNext]_sessionVars

-----------------------------------------------------------------------------
(* Properties.                                                             *)

\* Whoever is looking at a page that asks for a role has it, also after
\* signing out on a page and in again as somebody else (ProtectedRoute.jsx:5-34).
PagesForRoles == \A t \in Tabs :
  IF tab[t].path \in PublicPages THEN tab[t].user = Nobody
  ELSE tab[t].user \in RequiredRoles(tab[t].path)

\* The copy of the store that the next tab starts from names the user whose
\* tokens are stored beside it, unless a refresh has put back the tokens of a
\* session that was over (authStore.js:76-86, client.js:89-90).
StoredIsWhole ==
  ~ overtaken /\ persisted # Nobody => jwt \in {persisted, Nobody}

\* The pages are those of the user, and so is what the next tab starts from.
SessionSafe == PagesForRoles /\ StoredIsWhole

\* When the tokens have been removed, no tab that is loaded shows the pages of
\* a user: they would be refused at once, and loaded again, for ever.  "This
\* avoids redirect loops when a previous session was persisted but JWTs were
\* cleared/expired." (authStore.js:79-80).
NoRedirectLoop == [][\A t \in Tabs :
  tab'[t].user # Nobody => tab'[t].user = tab[t].user \/ jwt' # Nobody]_sessionVars
=============================================================================
