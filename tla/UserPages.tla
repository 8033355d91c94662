----------------------------- MODULE UserPages ------------------------------
(***************************************************************************)
(* The page that manages users and organizations (UsersPage.jsx).  Each    *)
(* row of its tables is a draft that a reload of the table replaces; most  *)
(* buttons wait for `saving', but the one that deletes a user does not;    *)
(* and saving a user's name and password is two requests.                  *)
(*                                                                         *)
(* A handler is its plan: the requests to come, one after the other, and   *)
(* the list it reloads in the end.  A request is carried out by the        *)
(* server, and its answer waits in the network until the page receives it. *)
(***************************************************************************)
EXTENDS ActionPolicy, Sequences, FiniteSets
LOCAL INSTANCE SequencesExt

CONSTANTS
  Accounts, Orgs,  \* all there may ever be
  Self, Staff,     \* the account that is signed in, and the others there are at first
  HomeOrg,         \* their organization
  Ranks,           \* the roles that are given
  MaxTasks,        \* bounds the clicks that write
  MaxMoves         \* bounds these, the other clicks, what is typed, the lists that cannot be
                   \* read, and the answers that are lost or overtaken, together

ASSUME AccountsAssumption ==
  /\ Admins \cup {"viewer"} \subseteq Ranks /\ HomeOrg \in Orgs
  /\ MaxTasks \in Nat /\ MaxMoves \in Nat

VARIABLES
  manager,         \* the role that is signed in
  people,          \* the accounts in the database
  secrets,         \* those of them that were given a new password
  bodies,          \* the organizations in the database
  users, edits,    \* the table of users, and its drafts
  organizations, orgEdits,
  shown,           \* the dialog
  editForm, newUser,
  saving,
  task,            \* the clicks
  outgoing,        \* the requests the server has not seen
  incoming,        \* its answers, in the order it gave them
  moves,           \* counts what MaxMoves bounds
  even             \* so far no answer was lost or overtaken, every list was read, no edit was
                   \* half saved, and no organization was disabled with its users

userVars == <<manager, people, secrets, bodies, users, edits, organizations, orgEdits, shown,
              editForm, newUser, saving, task, outgoing, incoming, moves, even>>
pageVars == <<users, edits, organizations, orgEdits, shown, editForm, newUser, saving, task>>

Tasks == 1..MaxTasks
Dialogs == {"addUser", "editUser", "addOrg"}

Account == [role : Ranks, active : BOOLEAN, org : SUBSET Orgs, name : 1..2]
Absent == [role |-> "none", active |-> FALSE, org |-> {}, name |-> 0]
People == [Accounts -> Account \cup {Absent}]
Bodies == [Orgs -> {"none", "active", "disabled"}]

Operation == {"create", "update", "rename", "password", "deactivate", "createOrg", "updateOrg",
              "disableOrg"}
Errand == [op : Operation \cup {"users", "orgs"}, of : SUBSET (Accounts \cup Orgs),
           put : Account \cup {Absent}]
Relist(list) == [op |-> list, of |-> {}, put |-> Absent]

EditForm == [of : SUBSET Accounts, name : 0..2, password : BOOLEAN]
NoEdit == [of |-> {}, name |-> 0, password |-> FALSE]
NewUser == [role |-> "viewer", active |-> TRUE, org |-> {HomeOrg}, name |-> 1]

Finished(state) == [state |-> state, plan |-> <<>>, closes |-> "none", clean |-> FALSE, form |-> NoEdit]

UserTypeOK ==
  /\ manager \in Admins
  /\ people \in People /\ secrets \subseteq Accounts /\ bodies \in Bodies
  /\ users \in People /\ edits \in People
  /\ organizations \in Bodies /\ orgEdits \in Bodies
  /\ shown \in Dialogs \cup {"none"}
  /\ editForm \in EditForm /\ newUser \in Account
  /\ saving \in BOOLEAN
  /\ \A r \in Tasks :
       /\ task[r].state \in {"idle", "running", "done", "failed"}
       /\ task[r].plan \in Seq(Errand) /\ (task[r].plan # <<>> <=> task[r].state = "running")
       /\ task[r].closes \in Dialogs \cup {"none"} /\ task[r].form \in EditForm
       /\ task[r].clean \in BOOLEAN
  /\ \A c \in outgoing : c.by \in Tasks /\ c.q \in Errand
  /\ \A i \in DOMAIN incoming : incoming[i].call.q \in Errand /\ incoming[i].ok \in BOOLEAN
  /\ moves \in 0..MaxMoves
  /\ even \in BOOLEAN

Move == moves < MaxMoves /\ moves' = moves + 1

\* What the lists tell: an admin is told of the own organization only.
ListedUsers == [a \in Accounts |->
  IF manager = "super_admin" \/ people[a].org = {HomeOrg} THEN people[a] ELSE Absent]
ListedOrgs == [o \in Orgs |->
  IF manager = "super_admin" \/ o = HomeOrg THEN bodies[o] ELSE "none"]

\* The page was mounted, and has read both lists.
UserInit ==
  /\ manager \in Admins
  /\ people = [a \in Accounts |->
       IF a = Self THEN [NewUser EXCEPT !.role = manager]
       ELSE IF a \in Staff THEN NewUser ELSE Absent]
  /\ secrets = {}
  /\ bodies = [o \in Orgs |-> IF o = HomeOrg THEN "active" ELSE "none"]
  /\ users = ListedUsers /\ edits = users
  /\ organizations = ListedOrgs /\ orgEdits = organizations
  /\ shown = "none" /\ editForm = NoEdit /\ newUser = NewUser
  /\ saving = FALSE
  /\ task = [r \in Tasks |-> Finished("idle")]
  /\ outgoing = {} /\ incoming = <<>> /\ moves = 0 /\ even = TRUE

-----------------------------------------------------------------------------
(* The authentication service.  Lists, and what is created, go by the role *)
(* and the organization of the token; changes go by the actor's account.   *)

Manages(role) ==
  \/ people[Self].role = "super_admin"
  \/ people[Self].role = "admin" /\ role \notin Admins

\* An admin manages the accounts of the own organization, other than admins.
Manageable(a) ==
  /\ people[a] # Absent /\ Manages(people[a].role)
  /\ people[Self].role = "admin" => people[a].org = people[Self].org

\* Where an account may be put, with what role; nobody disables the own account.
Allowed(put, own) ==
  /\ own => put.active
  /\ put.role = "admin" => put.org # {}
  /\ \A o \in put.org : bodies[o] # "none"

\* An e-mail and a slug are given once.
Granted(q) ==
  CASE q.op \in {"rename", "password"} -> \A a \in q.of : Manageable(a)
    [] q.op = "deactivate" -> \A a \in q.of : Manageable(a) /\ a # Self
    [] q.op = "update" ->
         \A a \in q.of : Manageable(a) /\ Manages(q.put.role) /\ Allowed(q.put, a = Self)
    [] q.op = "create" ->
         /\ \A a \in q.of : people[a] = Absent
         /\ manager = "admin" => q.put.role \notin Admins
         /\ Allowed([q.put EXCEPT !.org = IF @ = {} THEN {HomeOrg} ELSE @], FALSE)
    [] q.op = "createOrg" -> manager = "super_admin" /\ \A o \in q.of : bodies[o] = "none"
    [] q.op \in {"updateOrg", "disableOrg"} ->
         \A o \in q.of : bodies[o] # "none" /\ (manager = "admin" => o = HomeOrg)
    [] OTHER -> TRUE

\* With an organization its users are disabled, other than admins.
Disables(q) == [a \in Accounts |->
  IF people[a].org = q.of /\ people[a].role \notin Admins THEN [people[a] EXCEPT !.active = FALSE] ELSE people[a]]

\* The name of an account is not changed with the rest; an account that is created with no
\* organization, or by an admin, gets the creator's.
Written(q) ==
  LET its(new(_)) == [a \in Accounts |-> IF a \in q.of THEN new(people[a]) ELSE people[a]]
      body(status) == [o \in Orgs |-> IF o \in q.of THEN status ELSE bodies[o]]
  IN /\ people' = CASE
          q.op = "create" -> its(LAMBDA p :
            [q.put EXCEPT !.org = IF @ = {} \/ manager = "admin" THEN {HomeOrg} ELSE @])
       [] q.op = "update" -> its(LAMBDA p : [q.put EXCEPT !.name = p.name])
       [] q.op = "rename" -> its(LAMBDA p : [p EXCEPT !.name = q.put.name])
       [] q.op = "deactivate" -> its(LAMBDA p : [p EXCEPT !.active = FALSE])
       [] q.op = "disableOrg" -> Disables(q)
       [] OTHER -> people
     /\ bodies' = CASE q.op = "createOrg" -> body("active")
                    [] q.op = "updateOrg" -> body(IF q.put.active THEN "active" ELSE "disabled")
                    [] q.op = "disableOrg" -> body("disabled")
                    [] OTHER -> bodies
     /\ secrets' = IF q.op = "password" THEN secrets \cup q.of ELSE secrets

Replies(c, ok) ==
  /\ UNCHANGED <<manager, pageVars>>
  /\ outgoing' = outgoing \ {c}
  /\ incoming' = Append(incoming, [call |-> c, ok |-> ok, users |-> ListedUsers', orgs |-> ListedOrgs'])

Grant(c) ==
  /\ c \in outgoing /\ Granted(c.q)
  /\ Written(c.q)
  /\ Replies(c, TRUE)
  /\ even' = (even /\ (c.q.op = "disableOrg" => people' = people))
  /\ UNCHANGED moves

\* The server refuses, fails, or does not hear of it within 15 s.
Deny(c) ==
  /\ c \in outgoing
  /\ IF c.q.op \notin Operation THEN Move ELSE UNCHANGED moves
  /\ UNCHANGED <<people, secrets, bodies>>
  /\ Replies(c, FALSE)
  /\ even' = (even /\ c.q.op \notin {"users", "orgs", "password"})

GrantUnheard(c) ==
  /\ c \in outgoing /\ c.q.op \in Operation /\ Granted(c.q)
  /\ Move
  /\ Written(c.q)
  /\ Replies(c, FALSE)
  /\ even' = FALSE

-----------------------------------------------------------------------------
(* The page takes an answer in.                                            *)

\* A list replaces the table, and its drafts with it.
Tabulated(a) ==
  /\ IF a.ok /\ a.call.q.op = "users"
     THEN users' = a.users /\ edits' = a.users ELSE UNCHANGED <<users, edits>>
  /\ IF a.ok /\ a.call.q.op = "orgs"
     THEN organizations' = a.orgs /\ orgEdits' = a.orgs ELSE UNCHANGED <<organizations, orgEdits>>

TaskEnds(r, state) ==
  /\ task' = [task EXCEPT ![r] = Finished(state)]
  /\ saving' = FALSE
  /\ UNCHANGED <<shown, editForm, newUser, outgoing>>

\* The dialog is closed, whoever it is for by now, and its form is emptied.
DialogCloses(dialog) ==
  /\ shown' = IF shown = dialog THEN "none" ELSE shown
  /\ editForm' = IF dialog = "editUser" THEN NoEdit ELSE editForm
  /\ newUser' = IF dialog = "addUser" THEN NewUser ELSE newUser

\* The next request; before the list is read again, the dialog is closed.
Follows(r) ==
  LET next == Tail(task[r].plan) IN
  /\ task' = [task EXCEPT ![r].plan = next]
  /\ outgoing' = outgoing \cup {[by |-> r, q |-> Head(next)]}
  /\ IF Len(next) = 1 THEN DialogCloses(task[r].closes) ELSE UNCHANGED <<shown, editForm, newUser>>
  /\ UNCHANGED saving

\* The error of a write, or of the organizations', ends the click; the users' is caught.
Carries(a) ==
  LET r == a.call.by IN
  IF ~ a.ok /\ a.call.q.op # "users" THEN TaskEnds(r, "failed")
  ELSE IF Len(task[r].plan) = 1 THEN TaskEnds(r, "done") ELSE Follows(r)

Take(i) ==
  /\ i \in DOMAIN incoming
  /\ IF i = 1 THEN UNCHANGED moves ELSE Move
  /\ even' = (even /\ i = 1)
  /\ incoming' = RemoveAt(incoming, i)
  /\ Tabulated(incoming[i])
  /\ Carries(incoming[i])
  /\ UNCHANGED <<manager, people, secrets, bodies>>

-----------------------------------------------------------------------------
(* What is typed.                                                          *)

canManageUser(u) == manager = "super_admin" \/ u.role \notin Admins

There(a) == users[a] # Absent
OrgsThere == {o \in Orgs : organizations[o] # "none"}
OrgChoices == {{}} \cup {{o} : o \in OrgsThere}

\* A super admin moves users; who is signed in cannot be switched off.
EditRow(a) ==
  /\ Move
  /\ shown = "none" /\ There(a) /\ canManageUser(users[a])
  /\ \/ \E role \in Ranks : edits' = [edits EXCEPT ![a].role = role]
     \/ manager = "super_admin" /\ \E org \in OrgChoices : edits' = [edits EXCEPT ![a].org = org]
     \/ a # Self /\ edits' = [edits EXCEPT ![a].active = ~ @]
  /\ UNCHANGED <<manager, people, secrets, bodies, users, organizations, orgEdits, shown, editForm,
                 newUser, saving, task, outgoing, incoming, even>>

EditOrg(o) ==
  /\ Move
  /\ shown = "none" /\ o \in OrgsThere
  /\ orgEdits' = [orgEdits EXCEPT ![o] = IF @ = "active" THEN "disabled" ELSE "active"]
  /\ UNCHANGED <<manager, people, secrets, bodies, users, edits, organizations, shown, editForm,
                 newUser, saving, task, outgoing, incoming, even>>

openEditUser(a) ==
  /\ Move
  /\ shown = "none" /\ There(a) /\ canManageUser(users[a])
  /\ shown' = "editUser" /\ editForm' = [of |-> {a}, name |-> users[a].name, password |-> FALSE]
  /\ UNCHANGED <<manager, people, secrets, bodies, users, edits, organizations, orgEdits, newUser,
                 saving, task, outgoing, incoming, even>>

\* A new user, a new organization, or none after all.
Show(dialog) ==
  /\ Move
  /\ \/ shown = "none" /\ (dialog = "addUser" \/ (dialog = "addOrg" /\ manager = "super_admin"))
     \/ shown # "none" /\ dialog = "none"
  /\ shown' = dialog
  /\ UNCHANGED <<manager, people, secrets, bodies, users, edits, organizations, orgEdits, editForm,
                 newUser, saving, task, outgoing, incoming, even>>

Type ==
  /\ Move
  /\ \/ /\ shown = "addUser" /\ UNCHANGED editForm
        /\ \/ \E role \in Ranks : newUser' = [newUser EXCEPT !.role = role]
           \/ manager = "super_admin" /\ \E org \in OrgChoices : newUser' = [newUser EXCEPT !.org = org]
     \/ /\ shown = "editUser" /\ UNCHANGED newUser
        /\ \/ editForm' = [editForm EXCEPT !.name = 3 - @]
           \/ editForm' = [editForm EXCEPT !.password = ~ @]
  /\ UNCHANGED <<manager, people, secrets, bodies, users, edits, organizations, orgEdits, shown,
                 saving, task, outgoing, incoming, even>>

-----------------------------------------------------------------------------
(* What a click sets out to do.                                            *)

\* Clicks are numbered as they come.  One that comes between disturbs another's.
TaskBegins(r, dialog, write, list) ==
  /\ Move
  /\ task[r].state = "idle" /\ \A s \in 1..(r - 1) : task[s].state # "idle"
  /\ LET plan == Append(write, Relist(list))
         quiet == \A s \in Tasks : task[s].state # "running"
     IN /\ task' = [s \in Tasks |->
             IF s = r THEN [state |-> "running", plan |-> plan, closes |-> dialog, clean |-> quiet,
                            form |-> IF dialog = "editUser" THEN editForm ELSE NoEdit]
             ELSE [task[s] EXCEPT !.clean = FALSE]]
        /\ outgoing' = outgoing \cup {[by |-> r, q |-> Head(plan)]}
  /\ saving' = TRUE
  /\ UNCHANGED <<manager, people, secrets, bodies, users, edits, organizations, orgEdits, shown,
                 editForm, newUser, incoming, even>>

Of(op, x, put) == <<[op |-> op, of |-> {x}, put |-> put]>>

\* An admin needs an organization.
Draftable(u) == u.role = "admin" => u.org # {}

SaveUser(r, a) ==
  /\ shown = "none" /\ ~ saving
  /\ There(a) /\ canManageUser(users[a]) /\ Draftable(edits[a])
  /\ TaskBegins(r, "none", Of("update", a, edits[a]), "users")

\* The one button that does not wait for `saving'.
handleDeactivate(r, a) ==
  /\ shown = "none"
  /\ There(a) /\ canManageUser(users[a]) /\ a # Self
  /\ TaskBegins(r, "none", Of("deactivate", a, Absent), "users")

\* First the name, then the password, if one is given.
handleEditUserSave(r) ==
  /\ shown = "editUser" /\ ~ saving
  /\ \E a \in editForm.of : TaskBegins(r, "editUser",
       Of("rename", a, [NewUser EXCEPT !.name = editForm.name]) \o
       (IF editForm.password THEN Of("password", a, Absent) ELSE <<>>), "users")

handleCreateUser(r) ==
  /\ shown = "addUser" /\ ~ saving
  /\ Draftable(newUser)
  /\ \E a \in Accounts : TaskBegins(r, "addUser", Of("create", a, newUser), "users")

handleCreateOrganization(r) ==
  /\ shown = "addOrg" /\ ~ saving
  /\ \E o \in Orgs : TaskBegins(r, "addOrg", Of("createOrg", o, Absent), "orgs")

handleOrganizationSave(r, o) ==
  /\ shown = "none" /\ ~ saving /\ o \in OrgsThere
  /\ TaskBegins(r, "none", Of("updateOrg", o, [NewUser EXCEPT !.active = (orgEdits[o] = "active")]), "orgs")

\* The users it disables are not read again.
handleOrganizationDisable(r, o) ==
  /\ shown = "none" /\ ~ saving /\ o \in OrgsThere
  /\ manager = "super_admin"
  /\ TaskBegins(r, "none", Of("disableOrg", o, Absent), "orgs")

-----------------------------------------------------------------------------
Replied(c) == Grant(c) \/ Deny(c) \/ GrantUnheard(c)

UserNext ==
  \/ \E c \in outgoing : Replied(c)
  \/ \E i \in DOMAIN incoming : Take(i)
  \/ \E a \in Accounts : EditRow(a) \/ openEditUser(a)
  \/ \E o \in Orgs : EditOrg(o)
  \/ \E dialog \in {"addUser", "addOrg", "none"} : Show(dialog)
  \/ Type
  \/ \E r \in Tasks :
       \/ handleEditUserSave(r) \/ handleCreateUser(r) \/ handleCreateOrganization(r)
       \/ \E a \in Accounts : SaveUser(r, a) \/ handleDeactivate(r, a)
       \/ \E o \in Orgs : handleOrganizationSave(r, o) \/ handleOrganizationDisable(r, o)

UserSpec == UserInit /\ [][UserNext]_userVars

\* Every request is answered, or ends with the client's timeout of 15 s.
UserFairness ==
  /\ WF_userVars(\E c \in outgoing : Replied(c))
  /\ WF_userVars(Take(1))

-----------------------------------------------------------------------------
(* Properties.                                                             *)

\* The tables show what is in the database: once all answers came in, in order, whatever
\* was written beside and whichever of two tasks read the list last (UsersPage.jsx:56-77,
\* 124-309).  What disabling an organization does to its users is not read again.
AccountsAreTrue ==
  even /\ outgoing = {} /\ incoming = <<>> => users = ListedUsers /\ organizations = ListedOrgs

\* An edit that tells success, and that no other click came between, has given the user the
\* name and the password of the form (UsersPage.jsx:215-241).
EditDoesWhatItSays == [][\A r \in Tasks, a \in Accounts :
  task[r].clean /\ task[r].form.of = {a} /\ task[r].state = "running" /\ task'[r].state = "done" =>
    /\ people[a].name = task[r].form.name
    /\ task[r].form.password => a \in secrets]_userVars

\* The buttons always come back, also after errors, unless a later click makes them wait
\* (UsersPage.jsx:156, 180, 193, 239).
SavingEnds == ~ saving
=============================================================================
