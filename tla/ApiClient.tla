----------------------------- MODULE ApiClient -----------------------------
(***************************************************************************)
(* The dashboard's API client (lib/api/client.js) in one page: requests    *)
(* that find their access token expired share one token refresh, which the *)
(* first of them makes and for which the others wait, and are sent again.  *)
(* Around it, the login of the auth store and the page's way back to       *)
(* /login.  JavaScript runs each handler to its end, promises that are     *)
(* resolved in it included, so one handler is one action.                  *)
(*                                                                         *)
(* Of the tokens it matters whether there are any: the two of a pair are   *)
(* stored and removed together, and the server may refuse a call at any    *)
(* time, for an expired token or for a user it disables or cannot look up, *)
(* and a login for its password.                                           *)
(***************************************************************************)
CONSTANT Requests   \* the requests of one page, logins included

VARIABLES
  req,           \* what became of each request, and its configuration
  isRefreshing, failedQueue,
  tokens,        \* does localStorage hold a pair of tokens?
  page           \* "auth": /login and alike; "leaving": on the way to /login

vars == <<req, isRefreshing, failedQueue, tokens, page>>

\* A request that is refreshing has _retry set, one that waits for it has not.
Request ==
  [pc : {"idle", "waiting"}, login : BOOLEAN, retry : {FALSE}, bearer : BOOLEAN] \cup
  [pc : {"refreshing"}, login : BOOLEAN, retry : {TRUE}, bearer : BOOLEAN] \cup
  [pc : {"sent", "ok", "rejected", "gone"}, login : BOOLEAN, retry : BOOLEAN, bearer : BOOLEAN]

TypeOK ==
  /\ req \in [Requests -> Request]
  /\ isRefreshing \in BOOLEAN
  /\ failedQueue \subseteq Requests
  /\ tokens \in BOOLEAN
  /\ page \in {"auth", "app", "leaving"}

\* A page is loaded at /login without tokens, or inside with the stored ones.
Init ==
  /\ req = [r \in Requests |->
       [pc |-> "idle", login |-> FALSE, retry |-> FALSE, bearer |-> FALSE]]
  /\ isRefreshing = FALSE
  /\ failedQueue = {}
  /\ \/ page = "auth" /\ tokens = FALSE
     \/ page = "app" /\ tokens = TRUE

At(p) == {r \in Requests : req[r].pc = p}

Ends(r, p) == req' = [req EXCEPT ![r].pc = p]

-----------------------------------------------------------------------------
(* Requests go out with the stored token.                                  *)

Send(r) ==
  /\ req[r].pc = "idle"
  /\ page # "auth"
  /\ req' = [req EXCEPT ![r].pc = "sent", ![r].bearer = tokens]
  /\ UNCHANGED <<isRefreshing, failedQueue, tokens, page>>

\* The form is disabled while a login is under way.
SubmitLogin(r) ==
  /\ req[r].pc = "idle"
  /\ page = "auth"
  /\ \A q \in Requests : ~ (req[q].login /\ req[q].pc \in {"sent", "waiting", "refreshing"})
  /\ req' = [req EXCEPT ![r].pc = "sent", ![r].login = TRUE, ![r].bearer = tokens]
  /\ UNCHANGED <<isRefreshing, failedQueue, tokens, page>>

-----------------------------------------------------------------------------
(* The answers other than 401.                                             *)

Succeed(r) ==
  /\ req[r].pc = "sent" /\ ~ req[r].login
  /\ req[r].bearer
  /\ Ends(r, "ok")
  /\ UNCHANGED <<isRefreshing, failedQueue, tokens, page>>

LoggedIn(r) ==
  /\ req[r].pc = "sent" /\ req[r].login
  /\ tokens' = TRUE
  /\ page' = "app"
  /\ Ends(r, "ok")
  /\ UNCHANGED <<isRefreshing, failedQueue>>

\* The network, the timeout of 15 s, or an answer that is neither good nor 401.
Fail(r) ==
  /\ req[r].pc = "sent"
  /\ Ends(r, "rejected")
  /\ UNCHANGED <<isRefreshing, failedQueue, tokens, page>>

-----------------------------------------------------------------------------
(* A 401.                                                                  *)

Unauthorized(r) == req[r].pc = "sent"

RejectAgain(r) ==
  /\ Unauthorized(r) /\ req[r].retry
  /\ Ends(r, "rejected")
  /\ UNCHANGED <<isRefreshing, failedQueue, tokens, page>>

\* Mutant: one that has waited must not refresh any more.
WaitMarked(r) ==
  /\ Unauthorized(r) /\ ~ req[r].retry /\ isRefreshing
  /\ failedQueue' = failedQueue \cup {r}
  /\ req' = [req EXCEPT ![r].pc = "waiting", ![r].retry = TRUE]
  /\ UNCHANGED <<isRefreshing, tokens, page>>

Wait(r) ==
  /\ Unauthorized(r) /\ ~ req[r].retry /\ isRefreshing
  /\ failedQueue' = failedQueue \cup {r}
  /\ Ends(r, "waiting")
  /\ UNCHANGED <<isRefreshing, tokens, page>>

\* Only away from the pages for signing in.
RedirectToLogin == page' = IF page = "auth" THEN page ELSE "leaving"

\* Without a token to refresh with.  isRefreshing stays set.
GiveUp(r) ==
  /\ Unauthorized(r) /\ ~ req[r].retry /\ ~ isRefreshing
  /\ ~ tokens
  /\ req' = [req EXCEPT ![r].pc = "rejected", ![r].retry = TRUE]
  /\ isRefreshing' = TRUE
  /\ RedirectToLogin
  /\ UNCHANGED <<failedQueue, tokens>>

\* Mutant: the flag is set when the answer comes.
RefreshUnflagged(r) ==
  /\ Unauthorized(r) /\ ~ req[r].retry /\ ~ isRefreshing
  /\ tokens
  /\ req' = [req EXCEPT ![r].pc = "refreshing", ![r].retry = TRUE]
  /\ UNCHANGED <<isRefreshing, failedQueue, tokens, page>>

\* Mutant: a request may refresh each time it is refused.
RefreshUnmarked(r) ==
  /\ Unauthorized(r) /\ ~ isRefreshing
  /\ tokens
  /\ req' = [req EXCEPT ![r].pc = "refreshing"]
  /\ isRefreshing' = TRUE
  /\ UNCHANGED <<failedQueue, tokens, page>>

Refresh(r) ==
  /\ Unauthorized(r) /\ ~ req[r].retry /\ ~ isRefreshing
  /\ tokens
  /\ req' = [req EXCEPT ![r].pc = "refreshing", ![r].retry = TRUE]
  /\ isRefreshing' = TRUE
  /\ UNCHANGED <<failedQueue, tokens, page>>

-----------------------------------------------------------------------------
(* The answer to the refresh.                                              *)

\* Those that waited, and the one that refreshed, are sent again.
Refreshed(r) ==
  /\ req[r].pc = "refreshing"
  /\ tokens' = TRUE
  /\ req' = [q \in Requests |->
       IF q \in failedQueue \cup {r}
       THEN [req[q] EXCEPT !.pc = "sent", !.bearer = TRUE]
       ELSE req[q]]
  /\ failedQueue' = {}
  /\ isRefreshing' = FALSE
  /\ UNCHANGED page

\* The server refuses the refresh token, or the network fails.
RefreshFails(r) ==
  /\ req[r].pc = "refreshing"
  /\ req' = [q \in Requests |->
       IF q \in failedQueue \cup {r} THEN [req[q] EXCEPT !.pc = "rejected"] ELSE req[q]]
  /\ failedQueue' = {}
  /\ isRefreshing' = FALSE
  /\ tokens' = FALSE
  /\ RedirectToLogin

\* The browser loads /login: the page and its requests are gone.
Reload ==
  /\ page = "leaving"
  /\ page' = "auth"
  /\ req' = [r \in Requests |->
       IF req[r].pc \in {"sent", "waiting", "refreshing"}
       THEN [req[r] EXCEPT !.pc = "gone"] ELSE req[r]]
  /\ isRefreshing' = FALSE
  /\ failedQueue' = {}
  /\ UNCHANGED tokens

-----------------------------------------------------------------------------
Handle401(r) == RejectAgain(r) \/ Wait(r) \/ GiveUp(r) \/ Refresh(r)

Answer(r) == Succeed(r) \/ LoggedIn(r) \/ Fail(r) \/ Handle401(r)

AnswerRefresh(r) == Refreshed(r) \/ RefreshFails(r)

Next ==
  \/ Reload
  \/ \E r \in Requests : Send(r) \/ SubmitLogin(r) \/ Answer(r) \/ AnswerRefresh(r)

Spec == Init /\ [][Next]_vars

\* Every request is answered or times out, and so is the refresh, if only by
\* the browser; a navigation takes place.  Nothing need be sent.
Fairness ==
  /\ WF_vars(Reload)
  /\ WF_vars(\E r \in Requests : Answer(r) \/ AnswerRefresh(r))

FairSpec == Spec /\ Fairness

-----------------------------------------------------------------------------
(* Properties.                                                             *)

\* However many requests find their token expired, at any moment, one of them
\* refreshes at a time (client.js:62-75).
OneRefresh ==
  /\ \A q, r \in At("refreshing") : q = r
  /\ At("refreshing") # {} => isRefreshing

\* A login was answered 401, before which nothing was to be refreshed: the flag stays set,
\* and who waits from now on is forgotten (client.js:74-83).
LoginUnauthorized == \E r \in Requests : req[r].login /\ req[r].retry

\* Who waits is in the queue, and the queue has somebody who will empty it, or the page
\* is about to go, but for a login that was refused (client.js:63-72, 77-83, 91, 95).
WaitersAreServed ==
  /\ failedQueue = At("waiting")
  /\ failedQueue # {} => At("refreshing") # {} \/ page = "leaving" \/ LoginUnauthorized

\* One refresh serves all who need one.
RefreshIsShared == OneRefresh /\ WaitersAreServed

\* A request refreshes once: no page asks for token after token because the
\* server goes on refusing a request (client.js:62, 74).
NoRefreshLoop == [][\A r \in Requests :
  req[r].retry \/ req[r].pc = "refreshing" =>
    req'[r].retry /\ (req'[r].pc = "refreshing" => req[r].pc = "refreshing")]_vars

Open(r) == req[r].pc \in {"sent", "waiting", "refreshing"}

\* All requests of the page have ended but those that a refused login left in the queue.
RequestsOver == \A r \in Requests : Open(r) => LoginUnauthorized /\ r \in failedQueue

\* Every request ends: it succeeds, fails, or goes with its page.  "handle 401,
\* refresh token" (client.js:45-107).
Settles == \A r \in Requests : Open(r) ~> ~ Open(r)
=============================================================================
