---------------------------- MODULE StoreProofs -----------------------------
(***************************************************************************)
(* What holds of the lists of the dashboard: once every answer came in,    *)
(* the users, organizations, fleets and vehicles that are listed are those *)
(* of the database.  The users page loads a list again after each change:  *)
(* what it shows is the last list it was told, and a list that is out of   *)
(* date will be loaded again.  The fleet page merges each answer into what *)
(* it has: while the answers come in order, those still to come take it to *)
(* what is stored.  And what the two pages save: an edit of a user and a   *)
(* save of a fleet that tell success have stored what their form says.     *)
(***************************************************************************)
EXTENDS UserPages, FleetPages, SequenceTheorems, FiniteSetTheorems, TLAPS
LOCAL INSTANCE SequencesExt

-----------------------------------------------------------------------------
(***************************************************************************)
(* The users page.                                                         *)
(***************************************************************************)

(* Answers that are appended, and taken out of their order.                *)

IsSeq(s) == \E S : s \in Seq(S)

LEMMA EmptyIsSeq == IsSeq(<<>>) /\ Len(<<>>) = 0
<1>1. <<>> \in Seq({})
  OBVIOUS
<1>2. QED
  BY <1>1 DEF IsSeq

LEMMA NotEmpty == ASSUME NEW s, Len(s) >= 1 PROVE s # <<>>
<1> SUFFICES ASSUME s = <<>> PROVE Len(s) < 1
  OBVIOUS
<1>1. Len(<<>>) = 0
  BY EmptyIsSeq
<1>2. Len(s) = 0
  BY <1>1, Zenon
<1>3. QED
  BY <1>2

LEMMA SingleIsSeq == ASSUME NEW e PROVE IsSeq(<<e>>) /\ Len(<<e>>) = 1 /\ <<e>>[1] = e
<1>1. <<e>> \in Seq({e})
  OBVIOUS
<1>2. QED
  BY <1>1 DEF IsSeq

LEMMA SeqLength == ASSUME NEW s, IsSeq(s) PROVE Len(s) \in Nat /\ DOMAIN s = 1..Len(s)
BY DEF IsSeq

LEMMA AppendedElements ==
  ASSUME NEW s, IsSeq(s), NEW e, NEW r, r = Append(s, e)
  PROVE  /\ IsSeq(r) /\ Len(s) \in Nat /\ Len(r) = Len(s) + 1 /\ r[Len(s) + 1] = e
         /\ \A i \in 1..Len(s) : r[i] = s[i]
<1>1. PICK S : s \in Seq(S)
  BY DEF IsSeq
<1>2. s \in Seq(S \cup {e}) /\ e \in S \cup {e}
  BY <1>1, SeqMonotonic
<1>3. r \in Seq(S \cup {e})
  BY <1>2
<1>4. QED
  BY <1>2, <1>3 DEF IsSeq

LEMMA RemainingElements ==
  ASSUME NEW s, IsSeq(s), NEW i \in 1..Len(s), NEW r, r = RemoveAt(s, i)
  PROVE  /\ IsSeq(r) /\ Len(s) \in Nat /\ Len(r) = Len(s) - 1
         /\ \A j \in 1..Len(r) : r[j] = IF j < i THEN s[j] ELSE s[j + 1]
<1> DEFINE front == SubSeq(s, 1, i - 1)
           back == SubSeq(s, i + 1, Len(s))
<1>0. PICK S : s \in Seq(S)
  BY DEF IsSeq
<1>1. front \in Seq(S) /\ Len(front) = i - 1 /\ \A j \in 1..(i - 1) : front[j] = s[j]
  BY <1>0
<1>2. back \in Seq(S) /\ Len(back) = Len(s) - i /\ \A j \in 1..(Len(s) - i) : back[j] = s[j + i]
  BY <1>0
<1>3. r = front \o back
  BY DEF RemoveAt
<1> HIDE DEF front, back
<1>4. r \in Seq(S) /\ Len(r) = Len(s) - 1
  BY <1>0, <1>1, <1>2, <1>3
<1>5. ASSUME NEW j \in 1..Len(r)
      PROVE  r[j] = IF j < i THEN s[j] ELSE s[j + 1]
  <2>1. CASE j < i
    BY <1>0, <1>1, <1>2, <1>3, <1>4, <2>1
  <2>2. CASE ~ (j < i)
    <3>1. i \in Nat /\ Len(s) \in Nat /\ j \in Nat /\ j <= Len(s) - 1
      BY <1>0, <1>4
    <3>2. j \in 1..(Len(front) + Len(back)) /\ ~ (j <= Len(front))
      BY <1>0, <1>1, <1>2, <2>2, <3>1
    <3>3. r[j] = back[j - (i - 1)]
      BY <1>1, <1>2, <1>3, <3>2, ConcatProperties
    <3>4. j - (i - 1) \in 1..(Len(s) - i) /\ (j - (i - 1)) + i = j + 1
      BY <2>2, <3>1
    <3>5. back[j - (i - 1)] = s[(j - (i - 1)) + i]
      BY <1>2, <3>4
    <3>6. QED
      BY <2>2, <3>3, <3>4, <3>5
  <2>3. QED
    BY <2>1, <2>2
<1>6. QED
  BY <1>0, <1>4, <1>5 DEF IsSeq

LEMMA TailElements ==
  ASSUME NEW s, IsSeq(s), s # <<>>, NEW r, r = Tail(s)
  PROVE  /\ IsSeq(r) /\ Len(s) \in Nat /\ Len(s) >= 1 /\ Len(r) = Len(s) - 1
         /\ Head(s) = s[1] /\ \A j \in 1..Len(r) : r[j] = s[j + 1]
<1>1. PICK S : s \in Seq(S)
  BY DEF IsSeq
<1>2. QED
  BY <1>1 DEF IsSeq

-----------------------------------------------------------------------------
(* The page of the users.                                                  *)

Running(r) == task[r].state = "running"

ListOps == {"users", "orgs"}
WritesOf(L) ==
  IF L = "users" THEN {"create", "update", "rename", "password", "deactivate"}
  ELSE {"createOrg", "updateOrg", "disableOrg"}

\* One or two writes, of which a second is a password; then the list is read again.
PlanOf(plan, L) ==
  /\ IsSeq(plan) /\ Len(plan) \in 1..3 /\ plan[Len(plan)].op = L
  /\ \A i \in 1..(Len(plan) - 1) : plan[i].op \in WritesOf(L)
  /\ \A i \in 2..(Len(plan) - 1) : plan[i].op = "password"

TaskShape ==
  /\ DOMAIN task = Tasks
  /\ \A r \in Tasks : {"state", "plan", "closes", "clean", "form"} \subseteq DOMAIN task[r]
  /\ \A r \in Tasks : Running(r) => \E L \in ListOps : PlanOf(task[r].plan, L)

InNetwork(r) == \/ \E c \in outgoing : c.by = r
                \/ \E i \in 1..Len(incoming) : incoming[i].call.by = r

\* Of every task that runs one request is under way, or its answer.
OneEach ==
  /\ \A c \in outgoing : c.by \in Tasks /\ Running(c.by) /\ c.q = Head(task[c.by].plan)
  /\ \A i \in 1..Len(incoming) : LET c == incoming[i].call IN
       c.by \in Tasks /\ Running(c.by) /\ c.q = Head(task[c.by].plan)
  /\ \A c, d \in outgoing : c.by = d.by => c = d
  /\ \A i, j \in 1..Len(incoming) : incoming[i].call.by = incoming[j].call.by => i = j
  /\ \A c \in outgoing, i \in 1..Len(incoming) : c.by # incoming[i].call.by
  /\ \A r \in Tasks : Running(r) => InNetwork(r)

\* What fails is a click that has changed nothing.
FailsWhole == even => \A i \in 1..Len(incoming) :
  ~ incoming[i].ok => incoming[i].call.q.op \notin ListOps \cup {"password"}

Table(L) == IF L = "users" THEN users ELSE organizations
ShownOf(L) == IF L = "users" THEN ListedUsers ELSE ListedOrgs
TableIn(a, L) == IF L = "users" THEN a.users ELSE a.orgs
Tabulates(a, L) == a.ok /\ a.call.q.op = L

\* A task that may have changed the database will read the list again.
WillReload(r, L) ==
  /\ r \in Tasks /\ Running(r) /\ PlanOf(task[r].plan, L)
  /\ LET op == Head(task[r].plan).op IN
     \/ op = L /\ \E c \in outgoing : c.by = r
     \/ op = "password"
     \/ op # L /\ \E i \in 1..Len(incoming) : incoming[i].call.by = r /\ incoming[i].ok

\* The last list on its way is the one of the database; or, without any, the table is.
LastIsTrue(L) ==
  \/ \E i \in 1..Len(incoming) :
       /\ Tabulates(incoming[i], L) /\ TableIn(incoming[i], L) = ShownOf(L)
       /\ \A j \in 1..Len(incoming) : j > i => ~ Tabulates(incoming[j], L)
  \/ /\ Table(L) = ShownOf(L)
     /\ \A j \in 1..Len(incoming) : ~ Tabulates(incoming[j], L)

UpToDate(L) == LastIsTrue(L) \/ \E r \in Tasks : WillReload(r, L)

UserInv ==
  /\ IsSeq(incoming)
  /\ TaskShape /\ OneEach /\ FailsWhole
  /\ even => \A L \in ListOps : UpToDate(L)

LEMMA PlanGoesOn ==
  ASSUME NEW plan, NEW L \in ListOps, PlanOf(plan, L)
  PROVE  /\ Head(plan) = plan[1] /\ plan # <<>>
         /\ Len(plan) = 1 <=> Head(plan).op = L
         /\ Len(plan) # 1 => /\ PlanOf(Tail(plan), L) /\ Head(plan).op \in WritesOf(L)
                             /\ Head(Tail(plan)).op \in {L, "password"}
         /\ \A M \in ListOps : PlanOf(plan, M) => M = L
<1>0. Len(plan) \in 1..3
  BY DEF PlanOf
<1>1. plan # <<>>
  <2>1. Len(plan) >= 1
    BY <1>0
  <2>2. QED
    BY <2>1, NotEmpty
<1>2. /\ IsSeq(Tail(plan)) /\ Len(Tail(plan)) = Len(plan) - 1
      /\ Head(plan) = plan[1] /\ \A j \in 1..Len(Tail(plan)) : Tail(plan)[j] = plan[j + 1]
  BY <1>1, TailElements DEF PlanOf
<1>3. L \notin WritesOf(L) /\ L # "password"
  BY DEF ListOps, WritesOf
<1>5. Len(plan) = 1 <=> Head(plan).op = L
  BY <1>2, <1>3, <1>0 DEF PlanOf
<1>6. ASSUME Len(plan) # 1
      PROVE  /\ PlanOf(Tail(plan), L) /\ Head(plan).op \in WritesOf(L)
             /\ Head(Tail(plan)).op \in {L, "password"}
  <2> DEFINE rest == Tail(plan)
  <2>1. Len(plan) \in {2, 3} /\ Len(rest) = Len(plan) - 1 /\ IsSeq(rest)
    BY <1>2, <1>0, <1>6
  <2>2. \A j \in 1..Len(rest) : rest[j] = plan[j + 1]
    BY <1>2
  <2> HIDE DEF rest
  <2>3. rest[Len(rest)].op = L
    BY <2>1, <2>2 DEF PlanOf
  <2>4. \A i \in 1..(Len(rest) - 1) : rest[i].op \in WritesOf(L)
    BY <2>1, <2>2 DEF PlanOf
  <2>5. \A i \in 1..(Len(rest) - 1) : rest[i].op = "password"
    BY <2>1, <2>2 DEF PlanOf
  <2>6. PlanOf(rest, L)
    BY <1>2, <2>1, <2>3, <2>4, <2>5 DEF PlanOf
  <2>7. rest # <<>>
    <3>1. Len(rest) >= 1
      BY <2>1
    <3>2. QED
      BY <3>1, NotEmpty
  <2>8. Head(rest) = rest[1]
    BY <1>2, <2>7, TailElements
  <2>9. QED
    BY <1>2, <2>1, <2>2, <2>3, <2>5, <2>6, <2>8 DEF PlanOf
<1>7. QED
  BY <1>1, <1>2, <1>5, <1>6 DEF PlanOf

\* What neither the tasks nor the tables nor the network notice.
LEMMA UnnoticedKeeps ==
  ASSUME UserInv,
         UNCHANGED <<manager, people, bodies, users, organizations, task, outgoing, incoming, even>>
  PROVE  UserInv'
<1>1. /\ \A r : Running(r)' = Running(r)
      /\ \A r : InNetwork(r)' = InNetwork(r)
      /\ \A L : Table(L)' = Table(L) /\ ShownOf(L)' = ShownOf(L)
  BY DEF Running, InNetwork, Table, ShownOf, ListedUsers, ListedOrgs
<1>2. TaskShape' /\ OneEach' /\ FailsWhole'
  BY <1>1 DEF UserInv, TaskShape, OneEach, FailsWhole
<1>3. \A L : UpToDate(L) => UpToDate(L)'
  BY <1>1 DEF UpToDate, LastIsTrue, WillReload
<1>4. QED
  BY <1>2, <1>3 DEF UserInv

-----------------------------------------------------------------------------
(* A click.                                                                *)

LEMMA BeginsKeeps ==
  ASSUME UserInv, NEW r \in Tasks, NEW dialog, NEW write, NEW L \in ListOps,
         PlanOf(Append(write, Relist(L)), L), TaskBegins(r, dialog, write, L)
  PROVE  UserInv'
<1> DEFINE plan == Append(write, Relist(L))
           new == [by |-> r, q |-> Head(plan)]
<1>1. /\ task[r].state = "idle" /\ ~ Running(r)
      /\ outgoing' = outgoing \cup {new} /\ incoming' = incoming /\ even' = even
  BY DEF TaskBegins, Running
<1>2. /\ DOMAIN task' = Tasks
      /\ \A s \in Tasks : {"state", "plan", "closes", "clean", "form"} \subseteq DOMAIN task'[s]
      /\ task'[r].state = "running" /\ task'[r].plan = plan
      /\ \A s \in Tasks : s # r => task'[s].state = task[s].state /\ task'[s].plan = task[s].plan
  BY DEF TaskBegins, UserInv, TaskShape
<1>3. /\ Running(r)' /\ new.by = r /\ new.q = Head(task'[r].plan)
      /\ \A s \in Tasks : s # r => (Running(s)' <=> Running(s))
  BY <1>2 DEF Running
<1>4. PlanOf(task[r].plan, L)'
  BY <1>2 DEF PlanOf, IsSeq
<1>5. \A s \in Tasks : \A M : s # r => (PlanOf(task[s].plan, M)' <=> PlanOf(task[s].plan, M))
  BY <1>2 DEF PlanOf, IsSeq
<1> HIDE DEF plan, new
<1>6. TaskShape'
  BY <1>2, <1>3, <1>4, <1>5 DEF UserInv, TaskShape
<1>7. OneEach'
  <2>1. /\ \A c \in outgoing : c.by \in Tasks /\ c.by # r
        /\ \A i \in 1..Len(incoming) : incoming[i].call.by \in Tasks /\ incoming[i].call.by # r
    BY <1>1 DEF UserInv, OneEach
  <2>2. \A s \in Tasks : InNetwork(s) => InNetwork(s)'
    BY <1>1 DEF InNetwork
  <2>3. InNetwork(r)'
    BY <1>1, <1>3 DEF InNetwork
  <2>4. \A s \in Tasks : Running(s)' => InNetwork(s)'
    BY <1>3, <2>2, <2>3 DEF UserInv, OneEach
  <2>5. \A c \in outgoing' : c.by \in Tasks /\ Running(c.by)' /\ c.q = Head(task'[c.by].plan)
    BY <1>1, <1>2, <1>3, <2>1 DEF UserInv, OneEach
  <2>6. ASSUME NEW i \in 1..Len(incoming), NEW c, c = incoming[i].call
        PROVE  c.by \in Tasks /\ Running(c.by)' /\ c.q = Head(task'[c.by].plan)
    <3>1. c.by \in Tasks /\ Running(c.by) /\ c.q = Head(task[c.by].plan) /\ c.by # r
      BY <2>1, <2>6 DEF UserInv, OneEach
    <3>2. QED
      BY <1>2, <1>3, <3>1
  <2>7. \A c, d \in outgoing' : c.by = d.by => c = d
    BY <1>1, <1>3, <2>1 DEF UserInv, OneEach
  <2>8. \A c \in outgoing', i \in 1..Len(incoming) : c.by # incoming[i].call.by
    BY <1>1, <1>3, <2>1 DEF UserInv, OneEach
  <2>9. QED
    BY <1>1, <2>4, <2>5, <2>6, <2>7, <2>8 DEF UserInv, OneEach
<1>8. FailsWhole'
  BY <1>1 DEF UserInv, FailsWhole
<1>9. \A M : ShownOf(M)' = ShownOf(M) /\ Table(M)' = Table(M)
  BY DEF TaskBegins, ShownOf, Table, ListedUsers, ListedOrgs
<1>10. ASSUME NEW M, UpToDate(M)
       PROVE  UpToDate(M)'
  <2>1. LastIsTrue(M) => LastIsTrue(M)'
    BY <1>1, <1>9 DEF LastIsTrue
  <2>2. ASSUME NEW s \in Tasks, WillReload(s, M)
        PROVE  WillReload(s, M)'
    <3>1. s # r
      BY <1>1, <2>2 DEF WillReload
    <3>2. task'[s].plan = task[s].plan /\ Running(s)' /\ PlanOf(task[s].plan, M)'
      BY <1>2, <1>3, <1>5, <2>2, <3>1 DEF WillReload
    <3>3. QED
      BY <1>1, <2>2, <3>2 DEF WillReload
  <2>3. QED
    BY <1>10, <2>1, <2>2 DEF UpToDate
<1>11. QED
  BY <1>1, <1>6, <1>7, <1>8, <1>10 DEF UserInv

\* What the buttons set out to do: one write or two, then the list that shows it.
LEMMA WritesThenList ==
  ASSUME NEW s, IsSeq(s), NEW L \in ListOps, Len(s) \in {1, 2}, s[1].op \in WritesOf(L),
         Len(s) = 2 => s[2].op = "password" /\ "password" \in WritesOf(L)
  PROVE  PlanOf(Append(s, Relist(L)), L)
<1> DEFINE plan == Append(s, Relist(L))
<1>0. plan = Append(s, Relist(L))
  OBVIOUS
<1> HIDE DEF plan
<1>1. /\ IsSeq(plan) /\ Len(plan) = Len(s) + 1 /\ plan[Len(s) + 1] = Relist(L)
      /\ \A i \in 1..Len(s) : plan[i] = s[i]
  <2>1. IsSeq(plan) /\ Len(plan) = Len(s) + 1
    BY <1>0, AppendedElements
  <2>2. plan[Len(s) + 1] = Relist(L)
    BY <1>0, AppendedElements
  <2>3. \A i \in 1..Len(s) : plan[i] = s[i]
    BY <1>0, AppendedElements
  <2>4. QED
    BY <2>1, <2>2, <2>3
<1>2. Relist(L).op = L
  BY DEF Relist
<1>3. ASSUME Len(s) = 1
      PROVE  PlanOf(plan, L)
  <2>1. Len(plan) = 2 /\ plan[1] = s[1] /\ plan[2] = Relist(L)
    BY <1>1, <1>3
  <2>2. QED
    <3>1. \A i \in 1..(Len(plan) - 1) : i = 1
      BY <2>1
    <3>2. Len(plan) \in 1..3 /\ \A i \in 2..(Len(plan) - 1) : FALSE
      BY <2>1
    <3>3. QED
      BY <1>1, <1>2, <2>1, <3>1, <3>2 DEF PlanOf
<1>4. ASSUME Len(s) = 2
      PROVE  PlanOf(plan, L)
  <2>1. Len(plan) = 3 /\ plan[1] = s[1] /\ plan[2] = s[2] /\ plan[3] = Relist(L)
    BY <1>1, <1>4
  <2>2. QED
    <3>1. \A i \in 1..(Len(plan) - 1) : i \in {1, 2}
      BY <2>1
    <3>2. Len(plan) \in 1..3 /\ \A i \in 2..(Len(plan) - 1) : i = 2
      BY <2>1
    <3>3. QED
      BY <1>1, <1>2, <1>4, <2>1, <3>1, <3>2 DEF PlanOf
<1>5. QED
  BY <1>0, <1>3, <1>4

LEMMA OneWrite ==
  ASSUME NEW op, NEW x, NEW put, NEW L \in ListOps, op \in WritesOf(L)
  PROVE  PlanOf(Append(Of(op, x, put), Relist(L)), L)
<1> DEFINE s == Of(op, x, put)
<1>1. IsSeq(s) /\ Len(s) = 1 /\ s[1].op = op
  BY SingleIsSeq DEF Of
<1> HIDE DEF s
<1>2. PlanOf(Append(s, Relist(L)), L)
  BY <1>1, WritesThenList
<1>3. QED
  BY <1>2 DEF s

LEMMA EditPlan ==
  ASSUME NEW x, NEW name, NEW b
  PROVE  PlanOf(Append(Of("rename", x, name) \o (IF b THEN Of("password", x, Absent) ELSE <<>>),
                       Relist("users")), "users")
<1> DEFINE e == [op |-> "rename", of |-> {x}, put |-> name]
           f == [op |-> "password", of |-> {x}, put |-> Absent]
           s == Of("rename", x, name) \o (IF b THEN Of("password", x, Absent) ELSE <<>>)
<1>1. e.op = "rename" /\ f.op = "password"
  OBVIOUS
<1>2. s = <<e>> \o (IF b THEN <<f>> ELSE <<>>)
  BY DEF Of
<1> HIDE DEF e, f, s
<1>3. CASE b
  <2>1. <<e>> \in Seq({e, f}) /\ <<f>> \in Seq({e, f}) /\ s = <<e>> \o <<f>>
    BY <1>2, <1>3
  <2>2. s \in Seq({e, f}) /\ Len(s) = 2 /\ s[1] = e /\ s[2] = f
    BY <2>1
  <2>3. IsSeq(s)
    BY <2>2 DEF IsSeq
  <2>4. PlanOf(Append(s, Relist("users")), "users")
    BY <1>1, <2>2, <2>3, WritesThenList DEF ListOps, WritesOf
  <2>5. QED
    BY <2>4 DEF s
<1>4. CASE ~ b
  <2>1. s = <<e>>
    BY <1>2, <1>4
  <2>2. IsSeq(s) /\ Len(s) = 1 /\ s[1] = e
    BY <2>1, SingleIsSeq
  <2>3. PlanOf(Append(s, Relist("users")), "users")
    BY <1>1, <2>2, WritesThenList DEF ListOps, WritesOf
  <2>4. QED
    BY <2>3 DEF s
<1>5. QED
  BY <1>3, <1>4

LEMMA ClicksKeep ==
  ASSUME UserInv, NEW r \in Tasks
  PROVE  /\ handleEditUserSave(r) => UserInv'
         /\ handleCreateUser(r) => UserInv'
         /\ handleCreateOrganization(r) => UserInv'
         /\ \A a \in Accounts : SaveUser(r, a) \/ handleDeactivate(r, a) => UserInv'
         /\ \A o \in Orgs :
              handleOrganizationSave(r, o) \/ handleOrganizationDisable(r, o) => UserInv'
<1>1. \A op \in WritesOf("users") : \A x, put, dialog :
        TaskBegins(r, dialog, Of(op, x, put), "users") => UserInv'
  BY OneWrite, BeginsKeeps DEF ListOps
<1>2. \A op \in WritesOf("orgs") : \A x, put, dialog :
        TaskBegins(r, dialog, Of(op, x, put), "orgs") => UserInv'
  BY OneWrite, BeginsKeeps DEF ListOps
<1>3. handleEditUserSave(r) => UserInv'
  BY EditPlan, BeginsKeeps DEF handleEditUserSave, ListOps
<1>4. handleCreateUser(r) => UserInv'
  BY <1>1 DEF handleCreateUser, WritesOf
<1>5. handleCreateOrganization(r) => UserInv'
  BY <1>2 DEF handleCreateOrganization, WritesOf
<1>6. \A a \in Accounts : SaveUser(r, a) \/ handleDeactivate(r, a) => UserInv'
  BY <1>1 DEF SaveUser, handleDeactivate, WritesOf
<1>7. \A o \in Orgs :
        handleOrganizationSave(r, o) \/ handleOrganizationDisable(r, o) => UserInv'
  BY <1>2 DEF handleOrganizationSave, handleOrganizationDisable, WritesOf
<1>8. QED
  BY <1>3, <1>4, <1>5, <1>6, <1>7, Zenon

-----------------------------------------------------------------------------
(* The server answers.                                                     *)

LEMMA ReplyEffect ==
  ASSUME UserInv, NEW c \in outgoing, NEW ok, Replies(c, ok)
  PROVE  /\ task' = task /\ users' = users /\ organizations' = organizations /\ manager' = manager
         /\ outgoing' = outgoing \ {c}
         /\ IsSeq(incoming') /\ Len(incoming) \in Nat /\ Len(incoming') = Len(incoming) + 1
         /\ \A i \in 1..Len(incoming) : incoming'[i] = incoming[i]
         /\ LET a == incoming'[Len(incoming) + 1] IN
              /\ a.call = c /\ a.ok = ok
              /\ \A L \in ListOps : TableIn(a, L) = ShownOf(L)'
<1> DEFINE a == [call |-> c, ok |-> ok, users |-> ListedUsers', orgs |-> ListedOrgs']
<1>1. incoming' = Append(incoming, a)
  BY DEF Replies
<1>2. a.call = c /\ a.ok = ok /\ a.users = ListedUsers' /\ a.orgs = ListedOrgs'
  OBVIOUS
<1> HIDE DEF a
<1>3. /\ IsSeq(incoming') /\ Len(incoming) \in Nat /\ Len(incoming') = Len(incoming) + 1
      /\ incoming'[Len(incoming) + 1] = a
  BY <1>1, AppendedElements DEF UserInv
<1>4. \A i \in 1..Len(incoming) : incoming'[i] = incoming[i]
  BY <1>1, AppendedElements DEF UserInv
<1>5. \A L \in ListOps : TableIn(a, L) = ShownOf(L)'
  BY <1>2 DEF TableIn, ShownOf, ListOps
<1>6. QED
  BY <1>2, <1>3, <1>4, <1>5 DEF Replies, pageVars

LEMMA ReplyShape ==
  ASSUME UserInv, NEW c \in outgoing, NEW ok, Replies(c, ok)
  PROVE  /\ TaskShape' /\ OneEach'
         /\ \A r, L : WillReload(r, L) /\ ~ (r = c.by /\ c.q.op = L) => WillReload(r, L)'
<1> DEFINE n == Len(incoming)
<1>0. /\ task' = task /\ outgoing' = outgoing \ {c}
      /\ n \in Nat /\ Len(incoming') = n + 1
      /\ \A i \in 1..n : incoming'[i] = incoming[i]
      /\ incoming'[n + 1].call = c
  BY ReplyEffect
<1>1. /\ \A i \in 1..n : i \in 1..Len(incoming')
      /\ n + 1 \in 1..Len(incoming')
      /\ \A i \in 1..Len(incoming') : i \in 1..n \/ i = n + 1
  BY <1>0
<1>2. /\ \A r : Running(r)' = Running(r)
      /\ \A r, L : PlanOf(task[r].plan, L)' = PlanOf(task[r].plan, L)
  BY <1>0 DEF Running, PlanOf, IsSeq
<1>3. TaskShape'
  BY <1>0, <1>2 DEF UserInv, TaskShape
<1> HIDE DEF n
<1>4. \A r : InNetwork(r) => InNetwork(r)'
  <2>1. ASSUME NEW r, NEW d \in outgoing, d.by = r
        PROVE  InNetwork(r)'
    <3>1. CASE d = c
      BY <1>0, <1>1, <2>1, <3>1 DEF InNetwork
    <3>2. CASE d # c
      BY <1>0, <2>1, <3>2 DEF InNetwork
    <3>3. QED
      BY <3>1, <3>2
  <2>2. ASSUME NEW r, NEW i \in 1..n, incoming[i].call.by = r
        PROVE  InNetwork(r)'
    BY <1>0, <1>1, <2>2 DEF InNetwork
  <2>3. QED
    BY <2>1, <2>2 DEF InNetwork, n
<1>5. OneEach
  BY DEF UserInv
<1>6. OneEach'
  <2>1. \A d \in outgoing' : d \in outgoing /\ d # c
    BY <1>0
  <2>2. \A d \in outgoing' : d.by \in Tasks /\ Running(d.by)' /\ d.q = Head(task'[d.by].plan)
    BY <1>0, <1>2, <1>5, <2>1 DEF OneEach
  <2>3. ASSUME NEW i \in 1..Len(incoming'), NEW d, d = incoming'[i].call
        PROVE  d.by \in Tasks /\ Running(d.by)' /\ d.q = Head(task'[d.by].plan)
    <3>1. d.by \in Tasks /\ Running(d.by) /\ d.q = Head(task[d.by].plan)
      BY <1>0, <1>1, <1>5, <2>3 DEF OneEach, n
    <3>2. QED
      BY <1>0, <1>2, <3>1
  <2>4. \A d, e \in outgoing' : d.by = e.by => d = e
    BY <1>5, <2>1 DEF OneEach
  <2>5. \A i \in 1..n : incoming[i].call.by # c.by
    BY <1>5 DEF OneEach, n
  <2>6. \A i, j \in 1..n : incoming[i].call.by = incoming[j].call.by => i = j
    BY <1>5 DEF OneEach, n
  <2>7. \A i, j \in 1..Len(incoming') : incoming'[i].call.by = incoming'[j].call.by => i = j
    BY <1>0, <1>1, <2>5, <2>6
  <2>8. \A d \in outgoing' : d.by # c.by
    BY <1>5, <2>1 DEF OneEach
  <2>9. \A d \in outgoing', i \in 1..Len(incoming') : d.by # incoming'[i].call.by
    BY <1>0, <1>1, <1>5, <2>1, <2>8 DEF OneEach, n
  <2>10. \A r \in Tasks : Running(r)' => InNetwork(r)'
    BY <1>2, <1>4, <1>5 DEF OneEach
  <2>11. QED
    BY <2>2, <2>3, <2>4, <2>7, <2>9, <2>10 DEF OneEach
<1>7. ASSUME NEW r, NEW L, WillReload(r, L), ~ (r = c.by /\ c.q.op = L)
      PROVE  WillReload(r, L)'
  <2> DEFINE op == Head(task[r].plan).op
  <2>1. CASE op = L /\ \E d \in outgoing : d.by = r
    <3>1. PICK d \in outgoing : d.by = r
      BY <2>1
    <3>2. d.q.op = L
      BY <1>5, <2>1, <3>1 DEF OneEach
    <3>3. d \in outgoing'
      BY <1>0, <1>7, <3>1, <3>2
    <3>4. QED
      BY <1>0, <1>2, <1>7, <2>1, <3>1, <3>3 DEF WillReload
  <2>2. CASE op = "password"
    BY <1>0, <1>2, <1>7, <2>2 DEF WillReload
  <2>3. CASE op # L /\ \E i \in 1..Len(incoming) : incoming[i].call.by = r /\ incoming[i].ok
    <3>1. PICK i \in 1..n : incoming[i].call.by = r /\ incoming[i].ok
      BY <2>3 DEF n
    <3>2. i \in 1..Len(incoming') /\ incoming'[i] = incoming[i]
      BY <1>0, <1>1
    <3>3. QED
      BY <1>0, <1>2, <1>7, <2>3, <3>1, <3>2 DEF WillReload
  <2>4. QED
    BY <1>7, <2>1, <2>2, <2>3 DEF WillReload
<1>8. QED
  BY <1>3, <1>6, <1>7

\* A list that is read is that of the database; any other answer leaves the last one last.
LEMMA ReplyLists ==
  ASSUME UserInv, NEW c \in outgoing, NEW ok, Replies(c, ok), NEW L \in ListOps
  PROVE  /\ ok /\ c.q.op = L => LastIsTrue(L)'
         /\ ~ (ok /\ c.q.op = L) /\ ShownOf(L)' = ShownOf(L) /\ LastIsTrue(L) => LastIsTrue(L)'
<1> DEFINE n == Len(incoming)
<1>0. /\ users' = users /\ organizations' = organizations
      /\ n \in Nat /\ Len(incoming') = n + 1
      /\ \A i \in 1..n : incoming'[i] = incoming[i]
  BY ReplyEffect
<1>1. /\ incoming'[n + 1].call = c /\ incoming'[n + 1].ok = ok
      /\ TableIn(incoming'[n + 1], L) = ShownOf(L)'
  BY ReplyEffect
<1>2. /\ \A i \in 1..n : i \in 1..Len(incoming')
      /\ n + 1 \in 1..Len(incoming')
      /\ \A i \in 1..Len(incoming') : i \in 1..n \/ i = n + 1
      /\ \A i \in 1..Len(incoming') : ~ (i > n + 1)
  BY <1>0
<1>3. Table(L)' = Table(L)
  BY <1>0 DEF Table
<1>4. Tabulates(incoming'[n + 1], L) <=> ok /\ c.q.op = L
  BY <1>1 DEF Tabulates
<1>5. ASSUME ok /\ c.q.op = L
      PROVE  LastIsTrue(L)'
  BY <1>1, <1>2, <1>4, <1>5 DEF LastIsTrue
<1>6. ASSUME ~ (ok /\ c.q.op = L), ShownOf(L)' = ShownOf(L), LastIsTrue(L)
      PROVE  LastIsTrue(L)'
  <2>1. CASE \E i \in 1..n : /\ Tabulates(incoming[i], L) /\ TableIn(incoming[i], L) = ShownOf(L)
                            /\ \A j \in 1..n : j > i => ~ Tabulates(incoming[j], L)
    <3>1. PICK i \in 1..n : /\ Tabulates(incoming[i], L) /\ TableIn(incoming[i], L) = ShownOf(L)
                            /\ \A j \in 1..n : j > i => ~ Tabulates(incoming[j], L)
      BY <2>1
    <3>2. /\ i \in 1..Len(incoming')
          /\ Tabulates(incoming'[i], L) /\ TableIn(incoming'[i], L) = ShownOf(L)'
      BY <1>0, <1>2, <1>6, <3>1
    <3>3. \A j \in 1..Len(incoming') : j > i => ~ Tabulates(incoming'[j], L)
      BY <1>0, <1>2, <1>4, <1>6, <3>1
    <3>4. QED
      BY <3>2, <3>3 DEF LastIsTrue
  <2>2. CASE Table(L) = ShownOf(L) /\ \A j \in 1..n : ~ Tabulates(incoming[j], L)
    <3>1. \A j \in 1..Len(incoming') : ~ Tabulates(incoming'[j], L)
      BY <1>0, <1>2, <1>4, <1>6, <2>2
    <3>2. QED
      BY <1>3, <1>6, <2>2, <3>1 DEF LastIsTrue
  <2>3. QED
    BY <1>6, <2>1, <2>2 DEF LastIsTrue
<1>7. QED
  BY <1>5, <1>6

\* A request that changes what a list tells is one whose task reads that list again;
\* but for the users of an organization that is disabled.
LEMMA WrittenLists ==
  ASSUME NEW q, Written(q), manager' = manager, NEW L \in ListOps, ShownOf(L)' # ShownOf(L),
         q.op = "disableOrg" => people' = people
  PROVE  q.op \in WritesOf(L) /\ q.op # "password"
<1>1. CASE L = "users"
  <2>1. people' # people
    BY <1>1 DEF ShownOf, ListedUsers
  <2>2. q.op \in {"create", "update", "rename", "deactivate"}
    BY <2>1 DEF Written
  <2>3. QED
    BY <1>1, <2>2 DEF WritesOf
<1>2. CASE L = "orgs"
  <2>1. bodies' # bodies
    BY <1>2 DEF ShownOf, ListedOrgs
  <2>2. q.op \in {"createOrg", "updateOrg", "disableOrg"}
    BY <2>1 DEF Written
  <2>3. QED
    BY <1>2, <2>2 DEF WritesOf
<1>3. QED
  BY <1>1, <1>2 DEF ListOps

\* The task that made the database change will read the list.
LEMMA WriterReloads ==
  ASSUME UserInv, NEW c \in outgoing, Replies(c, TRUE), NEW L \in ListOps,
         c.q.op \in WritesOf(L), c.q.op # "password"
  PROVE  WillReload(c.by, L)'
<1> DEFINE r == c.by
           n == Len(incoming)
<1>1. r \in Tasks /\ Running(r) /\ c.q = Head(task[r].plan)
  BY DEF UserInv, OneEach
<1>2. PICK M \in ListOps : PlanOf(task[r].plan, M)
  BY <1>1 DEF UserInv, TaskShape
<1>3. c.q.op \notin ListOps
  BY DEF ListOps, WritesOf
<1>4. c.q.op \in WritesOf(M)
  BY <1>1, <1>2, <1>3, PlanGoesOn
<1>5. M = L
  BY <1>4 DEF ListOps, WritesOf
<1>6. /\ task' = task /\ n \in Nat /\ Len(incoming') = n + 1
      /\ incoming'[n + 1].call = c /\ incoming'[n + 1].ok = TRUE
  BY ReplyEffect
<1>7. n + 1 \in 1..Len(incoming')
  BY <1>6
<1>8. Running(r)' /\ PlanOf(task[r].plan, L)'
  BY <1>1, <1>2, <1>5, <1>6 DEF Running, PlanOf, IsSeq
<1>9. c.q.op # L
  BY <1>3
<1> HIDE DEF r, n
<1>10. WillReload(r, L)'
  BY <1>1, <1>6, <1>7, <1>8, <1>9 DEF WillReload, r
<1>11. QED
  BY <1>10 DEF r

LEMMA GrantKeeps ==
  ASSUME UserInv, NEW c \in outgoing, Grant(c)
  PROVE  UserInv'
<1>1. Written(c.q) /\ Replies(c, TRUE)
  BY DEF Grant
<1>2. IsSeq(incoming') /\ TaskShape' /\ OneEach'
  BY <1>1, ReplyEffect, ReplyShape
<1>3. FailsWhole'
  <2> DEFINE n == Len(incoming)
  <2>1. /\ n \in Nat /\ Len(incoming') = n + 1 /\ incoming'[n + 1].ok = TRUE
        /\ \A i \in 1..n : incoming'[i] = incoming[i]
    BY <1>1, ReplyEffect
  <2>2. \A i \in 1..Len(incoming') : ~ incoming'[i].ok => i \in 1..n
    BY <2>1
  <2>3. even' => even
    BY DEF Grant
  <2>4. QED
    BY <2>1, <2>2, <2>3 DEF UserInv, FailsWhole
<1>4. ASSUME even', NEW L \in ListOps
      PROVE  UpToDate(L)'
  <2>1. even /\ (c.q.op = "disableOrg" => people' = people) /\ manager' = manager
    BY <1>1, <1>4, ReplyEffect DEF Grant
  <2>2. UpToDate(L)
    BY <2>1 DEF UserInv
  <2>3. CASE c.q.op = L
    BY <1>1, <2>3, ReplyLists DEF UpToDate
  <2>4. CASE c.q.op # L /\ ShownOf(L)' = ShownOf(L)
    <3>1. LastIsTrue(L) => LastIsTrue(L)'
      BY <1>1, <2>4, ReplyLists
    <3>2. \A r \in Tasks : WillReload(r, L) => WillReload(r, L)'
      BY <1>1, <2>4, ReplyShape
    <3>3. QED
      BY <2>2, <3>1, <3>2 DEF UpToDate
  <2>5. CASE ShownOf(L)' # ShownOf(L)
    <3>1. c.q.op \in WritesOf(L) /\ c.q.op # "password"
      BY <1>1, <2>1, <2>5, WrittenLists
    <3>2. WillReload(c.by, L)' /\ c.by \in Tasks
      BY <1>1, <3>1, WriterReloads DEF UserInv, OneEach
    <3>3. QED
      BY <3>2 DEF UpToDate
  <2>6. QED
    BY <2>3, <2>4, <2>5
<1>5. QED
  BY <1>2, <1>3, <1>4 DEF UserInv

LEMMA DenyKeeps ==
  ASSUME UserInv, NEW c \in outgoing, Deny(c)
  PROVE  UserInv'
<1>1. Replies(c, FALSE) /\ people' = people /\ bodies' = bodies
  BY DEF Deny
<1>2. IsSeq(incoming') /\ TaskShape' /\ OneEach'
  BY <1>1, ReplyEffect, ReplyShape
<1>3. even' => even /\ c.q.op \notin ListOps \cup {"password"}
  BY DEF Deny, ListOps
<1>4. FailsWhole'
  <2> DEFINE n == Len(incoming)
  <2>1. /\ n \in Nat /\ Len(incoming') = n + 1 /\ incoming'[n + 1].call = c
        /\ \A i \in 1..n : incoming'[i] = incoming[i]
    BY <1>1, ReplyEffect
  <2>2. \A i \in 1..Len(incoming') : i \in 1..n \/ i = n + 1
    BY <2>1
  <2>3. QED
    BY <1>3, <2>1, <2>2 DEF UserInv, FailsWhole
<1>5. ASSUME even', NEW L \in ListOps
      PROVE  UpToDate(L)'
  <2>1. ShownOf(L)' = ShownOf(L)
    BY <1>1, ReplyEffect DEF ShownOf, ListedUsers, ListedOrgs
  <2>2. UpToDate(L) /\ c.q.op # L
    BY <1>3, <1>5 DEF UserInv
  <2>3. LastIsTrue(L) => LastIsTrue(L)'
    BY <1>1, <2>1, ReplyLists
  <2>4. \A r \in Tasks : WillReload(r, L) => WillReload(r, L)'
    BY <1>1, <2>2, ReplyShape
  <2>5. QED
    BY <2>2, <2>3, <2>4 DEF UpToDate
<1>6. QED
  BY <1>2, <1>4, <1>5 DEF UserInv

LEMMA UnheardKeeps ==
  ASSUME UserInv, NEW c \in outgoing, GrantUnheard(c)
  PROVE  UserInv'
<1>1. Replies(c, FALSE) /\ even' = FALSE
  BY DEF GrantUnheard
<1>2. IsSeq(incoming') /\ TaskShape' /\ OneEach'
  BY <1>1, ReplyEffect, ReplyShape
<1>3. QED
  BY <1>1, <1>2 DEF UserInv, FailsWhole

-----------------------------------------------------------------------------
(* The page takes an answer in.                                            *)

\* The task goes on or ends; it makes its next request when its answer is taken.
Rest(plan) == Tail(plan)

LEMMA TakeEffect ==
  ASSUME UserInv, NEW i \in 1..Len(incoming), Take(i), NEW a, a = incoming[i], NEW r, r = a.call.by,
         NEW plan, plan = task[r].plan
  PROVE  /\ r \in Tasks /\ Running(r) /\ a.call.q = Head(plan)
         /\ TaskShape'
         /\ \A s \in Tasks : s # r => task'[s].plan = task[s].plan /\ (Running(s)' <=> Running(s))
         /\ task'[r].state # "running" =>
              /\ outgoing' = outgoing
              /\ (~ a.ok /\ a.call.q.op # "users") \/ Len(plan) = 1
         /\ task'[r].state = "running" =>
              /\ task'[r].plan = Rest(plan) /\ Len(plan) # 1
              /\ outgoing' = outgoing \cup {[by |-> r, q |-> Head(Rest(plan))]}
<1>1. r \in Tasks /\ Running(r) /\ a.call.q = Head(plan)
  BY DEF UserInv, OneEach
<1>2. PICK L \in ListOps : PlanOf(plan, L)
  BY <1>1 DEF UserInv, TaskShape
<1>3. Carries(a)
  BY DEF Take
<1>4. DOMAIN task = Tasks
      /\ \A s \in Tasks : {"state", "plan", "closes", "clean", "form"} \subseteq DOMAIN task[s]
  BY DEF UserInv, TaskShape
<1>5. ASSUME TaskEnds(r, "failed") \/ TaskEnds(r, "done"),
             (~ a.ok /\ a.call.q.op # "users") \/ Len(plan) = 1
      PROVE  /\ TaskShape' /\ ~ Running(r)' /\ outgoing' = outgoing
             /\ \A s \in Tasks : s # r => task'[s].plan = task[s].plan /\ (Running(s)' <=> Running(s))
  <2>1. PICK st \in {"failed", "done"} : task' = [task EXCEPT ![r] = Finished(st)]
    BY <1>5 DEF TaskEnds
  <2>2. /\ DOMAIN task' = Tasks /\ task'[r] = Finished(st)
        /\ \A s \in Tasks : s # r => task'[s] = task[s]
    BY <1>1, <1>4, <2>1
  <2>3. task'[r].state # "running"
        /\ {"state", "plan", "closes", "clean", "form"} \subseteq DOMAIN task'[r]
    BY <2>2 DEF Finished
  <2>4. ~ Running(r)' /\ \A s \in Tasks : s # r => (Running(s)' <=> Running(s))
    BY <2>2, <2>3 DEF Running
  <2>5. \A s \in Tasks : \A M : s # r => (PlanOf(task[s].plan, M)' <=> PlanOf(task[s].plan, M))
    BY <2>2 DEF PlanOf, IsSeq
  <2>6. TaskShape'
    BY <1>4, <2>2, <2>3, <2>4, <2>5 DEF UserInv, TaskShape
  <2>7. outgoing' = outgoing
    BY SMTT(30), <1>5 DEF TaskEnds
  <2>8. QED
    BY <2>2, <2>4, <2>6, <2>7
<1>6. ASSUME Follows(r), Len(plan) # 1
      PROVE  /\ TaskShape' /\ Running(r)' /\ task'[r].plan = Tail(plan)
             /\ outgoing' = outgoing \cup {[by |-> r, q |-> Head(Tail(plan))]}
             /\ \A s \in Tasks : s # r => task'[s].plan = task[s].plan /\ (Running(s)' <=> Running(s))
  <2>1. task' = [task EXCEPT ![r] = [task[r] EXCEPT !.plan = Tail(plan)]]
    BY <1>6 DEF Follows
  <2>2. /\ DOMAIN task' = Tasks /\ task'[r] = [task[r] EXCEPT !.plan = Tail(plan)]
        /\ \A s \in Tasks : s # r => task'[s] = task[s]
    BY <1>1, <1>4, <2>1
  <2>3. task'[r].plan = Tail(plan) /\ task'[r].state = task[r].state /\ DOMAIN task'[r] = DOMAIN task[r]
    BY <1>1, <1>4, <2>2
  <2>4. Running(r)' /\ \A s \in Tasks : s # r => (Running(s)' <=> Running(s))
    BY <1>1, <2>2, <2>3 DEF Running
  <2>5. PlanOf(task[r].plan, L)'
    <3>1. PlanOf(Tail(plan), L)
      BY <1>2, <1>6, PlanGoesOn
    <3>2. QED
      BY <2>3, <3>1 DEF PlanOf, IsSeq
  <2>6. \A s \in Tasks : \A M : s # r => (PlanOf(task[s].plan, M)' <=> PlanOf(task[s].plan, M))
    BY <2>2 DEF PlanOf, IsSeq
  <2>7. TaskShape'
    <3>1. \A s \in Tasks : {"state", "plan", "closes", "clean", "form"} \subseteq DOMAIN task'[s]
      BY <1>4, <2>2, <2>3
    <3>2. \A s \in Tasks : Running(s) => \E M \in ListOps : PlanOf(task[s].plan, M)
      BY DEF UserInv, TaskShape
    <3>3. \A s \in Tasks : Running(s)' => \E M \in ListOps : PlanOf(task[s].plan, M)'
      BY <1>2, <2>4, <2>5, <2>6, <3>2
    <3>4. QED
      BY <2>2, <3>1, <3>3 DEF TaskShape
  <2>8. outgoing' = outgoing \cup {[by |-> r, q |-> Head(Tail(plan))]}
    BY <1>6 DEF Follows
  <2>9. QED
    BY <2>2, <2>3, <2>4, <2>7, <2>8
<1>7. \/ /\ TaskEnds(r, "failed") \/ TaskEnds(r, "done")
         /\ (~ a.ok /\ a.call.q.op # "users") \/ Len(plan) = 1
      \/ Follows(r) /\ Len(plan) # 1
  BY <1>3 DEF Carries
<1>8. Running(r)' <=> task'[r].state = "running"
  BY DEF Running
<1>9. QED
  BY <1>1, <1>5, <1>6, <1>7, <1>8 DEF Rest

LEMMA TakenAnswers ==
  ASSUME UserInv, NEW i \in 1..Len(incoming), Take(i)
  PROVE  /\ IsSeq(incoming') /\ Len(incoming) \in Nat /\ Len(incoming') = Len(incoming) - 1
         /\ \A n \in 1..Len(incoming') : incoming'[n] = incoming[IF n < i THEN n ELSE n + 1]
<1>1. incoming' = RemoveAt(incoming, i) /\ IsSeq(incoming)
  BY DEF Take, UserInv
<1>2. IsSeq(incoming') /\ Len(incoming) \in Nat /\ Len(incoming') = Len(incoming) - 1
  BY <1>1, RemainingElements
<1>3. \A n \in 1..Len(incoming') : incoming'[n] = IF n < i THEN incoming[n] ELSE incoming[n + 1]
  BY <1>1, RemainingElements
<1>4. QED
  BY <1>2, <1>3

LEMMA TakeShape ==
  ASSUME UserInv, NEW i \in 1..Len(incoming), Take(i)
  PROVE  OneEach'
<1>p. PICK a : a = incoming[i]
  OBVIOUS
<1>q. PICK r : r = a.call.by
  OBVIOUS
<1>r. PICK new : new = [by |-> r, q |-> Head(Rest(task[r].plan))]
  OBVIOUS
<1>a. a = incoming[i] /\ r = a.call.by /\ new.by = r /\ new = [by |-> r, q |-> Head(Rest(task[r].plan))]
  BY <1>p, <1>q, <1>r
<1> DEFINE at(n) == IF n < i THEN n ELSE n + 1
<1>1. /\ Len(incoming) \in Nat /\ Len(incoming') = Len(incoming) - 1
      /\ \A n \in 1..Len(incoming') : incoming'[n] = incoming[at(n)]
  BY TakenAnswers
<1>2. /\ \A n \in 1..Len(incoming') : at(n) \in 1..Len(incoming) /\ at(n) # i
      /\ \A n, m \in 1..Len(incoming') : at(n) = at(m) => n = m
      /\ \A j \in 1..Len(incoming) : j # i => \E n \in 1..Len(incoming') : at(n) = j
  <2>1. /\ \A n \in 1..Len(incoming') : at(n) \in 1..Len(incoming) /\ at(n) # i
        /\ \A n, m \in 1..Len(incoming') : at(n) = at(m) => n = m
    BY <1>1
  <2>2. ASSUME NEW j \in 1..Len(incoming), j # i
        PROVE  \E n \in 1..Len(incoming') : at(n) = j
    <3> DEFINE n == IF j < i THEN j ELSE j - 1
    <3>1. n \in 1..Len(incoming') /\ at(n) = j
      BY <1>1, <2>2
    <3>2. QED
      BY <3>1
  <2>3. QED
    BY <2>1, <2>2
<1>3. OneEach
  BY DEF UserInv
<1> HIDE DEF at
<1>b. r \in Tasks
  BY <1>a, TakeEffect
<1>c. \A s \in Tasks : s # r => task'[s].plan = task[s].plan /\ (Running(s)' <=> Running(s))
  BY <1>a, TakeEffect
<1>x. Running(r)' <=> task'[r].state = "running"
  BY DEF Running
<1>d. /\ ~ Running(r)' => outgoing' = outgoing
      /\ Running(r)' => task'[r].plan = Rest(task[r].plan) /\ outgoing' = outgoing \cup {new}
  BY <1>a, <1>x, TakeEffect
<1>e. Running(r)' => new.q = Head(task'[r].plan)
  <2>1. new.q = Head(Rest(task[r].plan))
    BY <1>a
  <2>2. Running(r)' => task'[r].plan = Rest(task[r].plan)
    BY <1>d
  <2>3. QED
    BY <2>1, <2>2
<1>5. /\ \A c \in outgoing : c.by # r
      /\ \A n \in 1..Len(incoming') : incoming'[n].call.by # r
  <2>1. \A c \in outgoing : c.by # r
    BY <1>3, <1>a DEF OneEach
  <2>2. \A j \in 1..Len(incoming) : j # i => incoming[j].call.by # r
    BY <1>3, <1>a DEF OneEach
  <2>3. \A n \in 1..Len(incoming') : incoming[at(n)].call.by # r
    BY <1>2, <2>2
  <2>4. QED
    BY <1>1, <2>1, <2>3
<1>6. \A c \in outgoing' : c \in outgoing \/ (c = new /\ Running(r)')
  <2>1. CASE Running(r)'
    BY <1>d, <2>1
  <2>2. CASE ~ Running(r)'
    <3>1. outgoing' = outgoing
      BY <1>d, <2>2
    <3>2. QED
      BY <3>1
  <2>3. QED
    BY <2>1, <2>2
<1>7. \A c \in outgoing' : c.by \in Tasks /\ Running(c.by)' /\ c.q = Head(task'[c.by].plan)
  <2>1. ASSUME NEW c \in outgoing
        PROVE  c.by \in Tasks /\ Running(c.by)' /\ c.q = Head(task'[c.by].plan)
    <3>1. c.by \in Tasks /\ Running(c.by) /\ c.q = Head(task[c.by].plan) /\ c.by # r
      BY <1>3, <1>5 DEF OneEach
    <3>2. QED
      BY <1>c, <3>1
  <2>2. Running(r)' => new.by \in Tasks /\ Running(new.by)' /\ new.q = Head(task'[new.by].plan)
    BY <1>a, <1>b, <1>e
  <2>3. QED
    BY <1>6, <2>1, <2>2
<1>8. ASSUME NEW n \in 1..Len(incoming'), NEW c, c = incoming'[n].call
      PROVE  c.by \in Tasks /\ Running(c.by)' /\ c.q = Head(task'[c.by].plan)
  <2>1. c.by \in Tasks /\ Running(c.by) /\ c.q = Head(task[c.by].plan) /\ c.by # r
    BY SMTT(30), <1>1, <1>2, <1>3, <1>5, <1>8 DEF OneEach
  <2>2. QED
    BY <1>c, <2>1
<1>9. \A c, d \in outgoing' : c.by = d.by => c = d
  BY <1>3, <1>5, <1>6, <1>a DEF OneEach
<1>10. \A n, m \in 1..Len(incoming') : incoming'[n].call.by = incoming'[m].call.by => n = m
  <2>1. \A j, k \in 1..Len(incoming) : incoming[j].call.by = incoming[k].call.by => j = k
    BY <1>3 DEF OneEach
  <2>2. ASSUME NEW n \in 1..Len(incoming'), NEW m \in 1..Len(incoming'),
               incoming'[n].call.by = incoming'[m].call.by
        PROVE  n = m
    <3>1. incoming[at(n)].call.by = incoming[at(m)].call.by
      BY <1>1, <2>2
    <3>2. at(n) = at(m)
      BY <1>2, <2>1, <3>1
    <3>3. QED
      BY <1>2, <3>2
  <2>3. QED
    BY <2>2
<1>11. \A c \in outgoing', n \in 1..Len(incoming') : c.by # incoming'[n].call.by
  <2>1. \A c \in outgoing, n \in 1..Len(incoming') : c.by # incoming'[n].call.by
    <3>1. \A c \in outgoing, n \in 1..Len(incoming') : c.by # incoming[at(n)].call.by
      BY <1>2, <1>3 DEF OneEach
    <3>2. QED
      BY <1>1, <3>1
  <2>2. \A n \in 1..Len(incoming') : new.by # incoming'[n].call.by
    BY <1>5, <1>a
  <2>3. QED
    BY <1>6, <2>1, <2>2
<1>12. ASSUME NEW s \in Tasks, Running(s)'
       PROVE  InNetwork(s)'
  <2>1. CASE s = r
    <3>1. new \in outgoing'
      BY <1>d, <1>12, <2>1
    <3>2. QED
      BY <1>a, <2>1, <3>1 DEF InNetwork
  <2>2. CASE s # r
    <3>1. InNetwork(s)
      BY <1>3, <1>c, <1>12, <2>2 DEF OneEach
    <3>2. CASE \E c \in outgoing : c.by = s
      <4>1. outgoing \subseteq outgoing'
        BY <1>d
      <4>2. QED
        BY <3>2, <4>1 DEF InNetwork
    <3>3. CASE \E j \in 1..Len(incoming) : incoming[j].call.by = s
      <4>1. PICK j \in 1..Len(incoming) : incoming[j].call.by = s /\ j # i
        BY <1>a, <2>2, <3>3
      <4>2. PICK n \in 1..Len(incoming') : at(n) = j
        BY <1>2, <4>1
      <4>3. QED
        BY <1>1, <4>1, <4>2 DEF InNetwork
    <3>4. QED
      BY <3>1, <3>2, <3>3 DEF InNetwork
  <2>3. QED
    BY <2>1, <2>2
<1>13. QED
  BY <1>7, <1>8, <1>9, <1>10, <1>11, <1>12 DEF OneEach

\* The list of another task's answer is still to come.
LEMMA TakeFresh ==
  ASSUME UserInv, Len(incoming) >= 1, Take(1), even, NEW L \in ListOps
  PROVE  UpToDate(L)'
<1>p. PICK a : a = incoming[1]
  OBVIOUS
<1>q. PICK r : r = a.call.by
  OBVIOUS
<1>r. PICK plan : plan = task[r].plan
  OBVIOUS
<1>a. a = incoming[1] /\ r = a.call.by /\ plan = task[r].plan
  BY <1>p, <1>q, <1>r
<1>0. 1 \in 1..Len(incoming)
  <2>1. Len(incoming) \in Nat
    BY SeqLength DEF UserInv
  <2>2. QED
    BY <2>1
<1>1. /\ Len(incoming) \in Nat /\ Len(incoming') = Len(incoming) - 1
      /\ \A n \in 1..Len(incoming') : incoming'[n] = incoming[n + 1]
  <2>1. Len(incoming) \in Nat /\ Len(incoming') = Len(incoming) - 1
    BY <1>0, TakenAnswers
  <2>2. \A n \in 1..Len(incoming') : incoming'[n] = incoming[IF n < 1 THEN n ELSE n + 1]
    BY <1>0, TakenAnswers
  <2>3. QED
    BY <2>1, <2>2
<1>2. /\ r \in Tasks /\ Running(r) /\ a.call.q = Head(plan)
      /\ \A s \in Tasks : s # r => task'[s].plan = task[s].plan /\ (Running(s)' <=> Running(s))
  BY <1>0, <1>a, TakeEffect
<1>x. Running(r)' <=> task'[r].state = "running"
  BY DEF Running
<1>3. ASSUME a.ok, Len(plan) # 1
      PROVE  /\ Running(r)' /\ task'[r].plan = Rest(plan)
             /\ outgoing' = outgoing \cup {[by |-> r, q |-> Head(Rest(plan))]}
  <2>1. Running(r)'
    BY <1>0, <1>a, <1>x, <1>3, TakeEffect
  <2>2. task'[r].plan = Rest(plan)
    BY <1>0, <1>a, <1>x, <2>1, TakeEffect
  <2>3. outgoing' = outgoing \cup {[by |-> r, q |-> Head(Rest(plan))]}
    BY <1>0, <1>a, <1>x, <2>1, TakeEffect
  <2>4. QED
    BY <2>1, <2>2, <2>3
<1>4. outgoing \subseteq outgoing'
  <2>1. CASE Running(r)'
    <3>1. outgoing' = outgoing \cup {[by |-> r, q |-> Head(Rest(plan))]}
      BY <1>0, <1>a, <1>x, <2>1, TakeEffect
    <3>2. QED
      BY <3>1
  <2>2. CASE ~ Running(r)'
    BY <1>0, <1>a, <1>x, <2>2, TakeEffect
  <2>3. QED
    BY <2>1, <2>2
<1>5. /\ ShownOf(L)' = ShownOf(L)
      /\ Tabulates(a, L) => Table(L)' = TableIn(a, L)
      /\ ~ Tabulates(a, L) => Table(L)' = Table(L)
  <2>1. UNCHANGED <<manager, people, bodies>> /\ Tabulated(a)
    BY <1>a DEF Take
  <2>2. QED
    BY <2>1 DEF Tabulated, Tabulates, Table, TableIn, ShownOf, ListedUsers, ListedOrgs, ListOps
<1>6. OneEach /\ UpToDate(L)
  BY DEF UserInv
<1>7. /\ \A n \in 1..Len(incoming') : n + 1 \in 1..Len(incoming) /\ n + 1 # 1
      /\ \A j \in 1..Len(incoming) : j # 1 => j - 1 \in 1..Len(incoming') /\ incoming'[j - 1] = incoming[j]
  BY <1>1
<1>8. CASE LastIsTrue(L)
  <2>1. ASSUME NEW k \in 1..Len(incoming), Tabulates(incoming[k], L), TableIn(incoming[k], L) = ShownOf(L),
               \A j \in 1..Len(incoming) : j > k => ~ Tabulates(incoming[j], L)
        PROVE  LastIsTrue(L)'
    <3>1. CASE k = 1
      <4>1. \A n \in 1..Len(incoming') : ~ Tabulates(incoming'[n], L)
        <5>1. \A j \in 1..Len(incoming) : j > 1 => ~ Tabulates(incoming[j], L)
          BY <2>1, <3>1
        <5>2. \A n \in 1..Len(incoming') : n + 1 > 1
          OBVIOUS
        <5>3. QED
          BY <1>1, <1>7, <5>1, <5>2
      <4>2. QED
        BY <1>a, <1>5, <2>1, <3>1, <4>1 DEF LastIsTrue
    <3>2. CASE k # 1
      <4>1. k - 1 \in 1..Len(incoming') /\ incoming'[k - 1] = incoming[k]
        BY <1>7, <3>2
      <4>2. \A n \in 1..Len(incoming') : n > k - 1 => ~ Tabulates(incoming'[n], L)
        BY <1>1, <1>7, <2>1
      <4>3. QED
        BY <1>5, <2>1, <4>1, <4>2 DEF LastIsTrue
    <3>3. QED
      BY <3>1, <3>2
  <2>2. ASSUME Table(L) = ShownOf(L), \A j \in 1..Len(incoming) : ~ Tabulates(incoming[j], L)
        PROVE  LastIsTrue(L)'
    <3>1. ~ Tabulates(a, L) /\ \A n \in 1..Len(incoming') : ~ Tabulates(incoming'[n], L)
      BY <1>a, <1>0, <1>1, <1>7, <2>2
    <3>2. QED
      BY <1>5, <2>2, <3>1 DEF LastIsTrue
  <2>3. QED
    BY <1>8, <2>1, <2>2 DEF LastIsTrue, UpToDate
<1>9. ASSUME NEW s \in Tasks, WillReload(s, L)
      PROVE  WillReload(s, L)'
  <2> DEFINE op == Head(task[s].plan).op
  <2>1. CASE s # r
    <3>1. Running(s)' /\ task'[s].plan = task[s].plan /\ PlanOf(task[s].plan, L)'
      BY <1>2, <1>9, <2>1 DEF WillReload, PlanOf, IsSeq
    <3>2. \A j \in 1..Len(incoming) : incoming[j].call.by = s => j # 1
      BY <1>a, <2>1
    <3>3. \/ op = L /\ \E c \in outgoing' : c.by = s
          \/ op = "password"
          \/ op # L /\ \E n \in 1..Len(incoming') : incoming'[n].call.by = s /\ incoming'[n].ok
      BY <1>4, <1>7, <1>9, <3>2 DEF WillReload
    <3>4. QED
      BY <3>1, <3>3 DEF WillReload
  <2>2. CASE s = r
    <3>1. PlanOf(plan, L) /\ \A c \in outgoing : c.by # r
      BY SMTT(30), <1>a, <1>0, <1>6, <1>9, <2>2 DEF WillReload, OneEach
    <3>2. a.call.q.op # L /\ L # "password"
      BY <1>a, <1>2, <1>9, <2>2, <3>1 DEF WillReload, ListOps
    <3>3. a.ok
      <4>1. CASE a.call.q.op = "password"
        BY <1>a, <1>0, <4>1 DEF UserInv, FailsWhole
      <4>2. CASE a.call.q.op # "password"
        <5>1. PICK j \in 1..Len(incoming) : incoming[j].call.by = r /\ incoming[j].ok
          BY <1>a, <1>2, <1>9, <2>2, <3>2, <4>2 DEF WillReload
        <5>2. j = 1
          BY <1>a, <1>0, <1>6, <5>1 DEF OneEach
        <5>3. QED
          BY SMTT(30), <1>a, <5>1, <5>2
      <4>3. QED
        BY <4>1, <4>2
    <3>4. /\ Len(plan) # 1 /\ PlanOf(Rest(plan), L) /\ Head(Rest(plan)).op \in {L, "password"}
      BY <1>2, <3>1, <3>2, PlanGoesOn DEF Rest
    <3>5. /\ Running(r)' /\ task'[r].plan = Rest(plan)
          /\ [by |-> r, q |-> Head(Rest(plan))] \in outgoing'
      BY <1>3, <3>3, <3>4
    <3>6. PlanOf(task[r].plan, L)'
      BY <3>4, <3>5 DEF PlanOf, IsSeq
    <3>7. \E c \in outgoing' : c.by = r
      BY <3>5
    <3>8. QED
      BY SMTT(30), <1>2, <2>2, <3>4, <3>5, <3>6, <3>7 DEF WillReload
  <2>3. QED
    BY <2>1, <2>2
<1>10. QED
  BY <1>6, <1>8, <1>9 DEF UpToDate

LEMMA TakeKeeps ==
  ASSUME UserInv, NEW i \in 1..Len(incoming), Take(i)
  PROVE  UserInv'
<1>1. OneEach' /\ TaskShape' /\ IsSeq(incoming')
  BY TakeShape, TakeEffect, TakenAnswers
<1>2. even' => even /\ i = 1
  BY DEF Take
<1>3. FailsWhole'
  <2>1. /\ Len(incoming) \in Nat /\ Len(incoming') = Len(incoming) - 1
        /\ \A n \in 1..Len(incoming') : incoming'[n] = incoming[IF n < i THEN n ELSE n + 1]
    BY TakenAnswers
  <2>2. \A n \in 1..Len(incoming') : \E m \in 1..Len(incoming) : incoming'[n] = incoming[m]
    BY <2>1
  <2>3. QED
    BY <1>2, <2>2 DEF UserInv, FailsWhole
<1>4. even' => \A L \in ListOps : UpToDate(L)'
  <2>1. Len(incoming) \in Nat
    BY TakenAnswers
  <2>2. Len(incoming) >= 1
    BY <2>1
  <2>3. QED
    BY <1>2, <2>2, TakeFresh
<1>5. QED
  BY <1>1, <1>3, <1>4 DEF UserInv

-----------------------------------------------------------------------------
LEMMA UsersStart == UserInit => UserInv
<1> SUFFICES ASSUME UserInit PROVE UserInv
  OBVIOUS
<1>1. IsSeq(incoming) /\ Len(incoming) = 0 /\ outgoing = {} /\ \A j \in 1..Len(incoming) : FALSE
  BY EmptyIsSeq DEF UserInit
<1>2. TaskShape /\ \A r \in Tasks : ~ Running(r)
  BY DEF UserInit, TaskShape, Running, Finished
<1>3. \A L \in ListOps : Table(L) = ShownOf(L)
  BY DEF UserInit, Table, ShownOf
<1>4. OneEach /\ FailsWhole
  BY <1>1, <1>2 DEF OneEach, FailsWhole
<1>5. QED
  BY <1>1, <1>2, <1>3, <1>4 DEF UserInv, UpToDate, LastIsTrue

LEMMA UserStepKeeps == UserInv /\ [UserNext]_userVars => UserInv'
<1> SUFFICES ASSUME UserInv, [UserNext]_userVars PROVE UserInv'
  OBVIOUS
<1>1. ASSUME NEW c \in outgoing, Replied(c) PROVE UserInv'
  BY <1>1, GrantKeeps, DenyKeeps, UnheardKeeps DEF Replied
<1>2. ASSUME NEW i \in DOMAIN incoming, Take(i) PROVE UserInv'
  <2>1. DOMAIN incoming = 1..Len(incoming)
    BY SeqLength DEF UserInv
  <2>2. QED
    BY <1>2, <2>1, TakeKeeps
<1>3. ASSUME NEW a \in Accounts, EditRow(a) \/ openEditUser(a) PROVE UserInv'
  BY <1>3, UnnoticedKeeps DEF EditRow, openEditUser
<1>4. ASSUME NEW o \in Orgs, EditOrg(o) PROVE UserInv'
  BY <1>4, UnnoticedKeeps DEF EditOrg
<1>5. ASSUME NEW dialog, Show(dialog) PROVE UserInv'
  BY <1>5, UnnoticedKeeps DEF Show
<1>6. Type => UserInv'
  BY UnnoticedKeeps DEF Type
<1>7. ASSUME NEW r \in Tasks,
             \/ handleEditUserSave(r) \/ handleCreateUser(r) \/ handleCreateOrganization(r)
             \/ \E a \in Accounts : SaveUser(r, a) \/ handleDeactivate(r, a)
             \/ \E o \in Orgs : handleOrganizationSave(r, o) \/ handleOrganizationDisable(r, o)
      PROVE  UserInv'
  BY <1>7, ClicksKeep
<1>8. UNCHANGED userVars => UserInv'
  BY UnnoticedKeeps DEF userVars
<1>9. QED
  BY <1>1, <1>2, <1>3, <1>4, <1>5, <1>6, <1>7, <1>8 DEF UserNext

LEMMA UsersAreTrue == UserInv => AccountsAreTrue
<1> SUFFICES ASSUME UserInv, even, outgoing = {}, incoming = <<>>
             PROVE  users = ListedUsers /\ organizations = ListedOrgs
  BY DEF AccountsAreTrue
<1>1. Len(incoming) = 0 /\ \A j \in 1..Len(incoming) : FALSE
  BY EmptyIsSeq
<1>2. \A r \in Tasks : ~ Running(r)
  BY <1>1 DEF UserInv, OneEach, InNetwork
<1>3. \A L \in ListOps : Table(L) = ShownOf(L)
  BY <1>1, <1>2 DEF UserInv, UpToDate, LastIsTrue, WillReload
<1>4. QED
  BY <1>3 DEF ListOps, Table, ShownOf

\* Once every answer came in, in order, the tables of users and organizations are those of
\* the database, whichever tasks wrote beside each other (UsersPage.jsx:56-77, 124-309).
THEOREM TablesAreTrue == UserSpec => []AccountsAreTrue
<1>1. UserInit => UserInv
  BY UsersStart
<1>2. UserInv /\ [UserNext]_userVars => UserInv'
  BY UserStepKeeps
<1>3. UserInv => AccountsAreTrue
  BY UsersAreTrue
<1>4. QED
  BY <1>1, <1>2, <1>3, PTL DEF UserSpec

-----------------------------------------------------------------------------
(* Types.  What is written is an account, and what a draft belongs to is   *)
(* there; the answers carry tables.                                        *)

WellPut(plan) == \A k \in DOMAIN plan :
  /\ plan[k].op \in {"create", "update", "rename"} => plan[k].put \in Account
  /\ plan[k].op = "password" => plan[k].of \subseteq Accounts

UserTypes ==
  /\ UserTypeOK
  /\ \A i \in DOMAIN incoming : incoming[i].users \in People /\ incoming[i].orgs \in Bodies
  /\ \A a \in Accounts : edits[a] = Absent <=> users[a] = Absent
  /\ shown = "editUser" => editForm.name # 0 /\ \E a \in Accounts : editForm.of = {a}
  /\ \A r \in Tasks : Running(r) => WellPut(task[r].plan)

LEMMA AbsentIsNone == Absent \notin Account /\ Absent.org = {} /\ Absent.active = FALSE
BY DEF Absent, Account

LEMMA StillAbsent == [Absent EXCEPT !.active = FALSE] = Absent
<1>1. PICK x : x = Absent
  OBVIOUS
<1>2. x = [role |-> "none", active |-> FALSE, org |-> {}, name |-> 0]
  BY <1>1 DEF Absent
<1>3. x.active = FALSE /\ x = [f \in {"role", "active", "org", "name"} |-> x[f]]
  BY <1>2
<1>4. [x EXCEPT !.active = FALSE] = [f \in {"role", "active", "org", "name"} |->
                                     IF f = "active" THEN FALSE ELSE x[f]]
  BY <1>3
<1>5. QED
  BY <1>1, <1>3, <1>4

LEMMA SomeTypes ==
  /\ NewUser \in Account /\ NoEdit \in EditForm
  /\ \A p \in Account : \A role \in Ranks : [p EXCEPT !.role = role] \in Account
  /\ \A p \in Account : \A org \in SUBSET Orgs : [p EXCEPT !.org = org] \in Account
  /\ \A p \in Account : \A name \in 1..2 : [p EXCEPT !.name = name] \in Account
  /\ \A p \in Account : \A b \in BOOLEAN : [p EXCEPT !.active = b] \in Account
<1>1. NewUser \in Account
  BY AccountsAssumption DEF NewUser, Account
<1>2. NoEdit \in EditForm
  BY DEF NoEdit, EditForm
<1>3. \A p \in Account : \A role \in Ranks : [p EXCEPT !.role = role] \in Account
  BY DEF Account
<1>4. \A p \in Account : \A org \in SUBSET Orgs : [p EXCEPT !.org = org] \in Account
  BY DEF Account
<1>5. \A p \in Account : \A name \in 1..2 : [p EXCEPT !.name = name] \in Account
  BY DEF Account
<1>6. \A p \in Account : \A b \in BOOLEAN : [p EXCEPT !.active = b] \in Account
  BY DEF Account
<1>7. QED
  BY <1>1, <1>2, <1>3, <1>4, <1>5, <1>6

LEMMA ListedTypes ==
  /\ people \in People => ListedUsers \in People
  /\ bodies \in Bodies => ListedOrgs \in Bodies
BY DEF People, Bodies, ListedUsers, ListedOrgs

\* What the server makes of a request has the types of the database.
LEMMA WrittenTypes ==
  ASSUME people \in People, secrets \subseteq Accounts, bodies \in Bodies,
         NEW q, q \in Errand, q.op \in {"create", "update", "rename"} => q.put \in Account,
         q.op = "password" => q.of \subseteq Accounts,
         Granted(q), Written(q)
  PROVE  people' \in People /\ secrets' \subseteq Accounts /\ bodies' \in Bodies
<1>0. \A a \in Accounts : people[a] \in Account \cup {Absent}
  BY DEF People
<1>1. secrets' \subseteq Accounts
  BY DEF Written
<1>2. bodies' \in Bodies
  <2>1. ASSUME NEW status \in {"active", "disabled"}
        PROVE  [o \in Orgs |-> IF o \in q.of THEN status ELSE bodies[o]] \in Bodies
    BY DEF Bodies
  <2>2. \/ bodies' = bodies
        \/ \E status \in {"active", "disabled"} :
             bodies' = [o \in Orgs |-> IF o \in q.of THEN status ELSE bodies[o]]
    BY DEF Written
  <2>3. QED
    BY <2>1, <2>2
<1>3. CASE q.op = "create"
  <2>1. PICK e : e = [q.put EXCEPT !.org = IF @ = {} \/ manager = "admin" THEN {HomeOrg} ELSE @]
    OBVIOUS
  <2>2. e \in Account
    BY <1>3, <2>1, AccountsAssumption DEF Account
  <2>3. people' = [a \in Accounts |-> IF a \in q.of THEN e ELSE people[a]]
    BY <1>3, <2>1 DEF Written
  <2>4. QED
    BY <1>0, <1>1, <1>2, <2>2, <2>3 DEF People
<1>4. CASE q.op = "update"
  <2>1. people' = [a \in Accounts |->
          IF a \in q.of THEN [q.put EXCEPT !.name = people[a].name] ELSE people[a]]
    BY <1>4 DEF Written
  <2>2. \A a \in Accounts : a \in q.of => people[a] \in Account
    BY <1>0, <1>4 DEF Granted, Manageable
  <2>3. \A a \in Accounts : a \in q.of => people[a].name \in 1..2
    BY <2>2 DEF Account
  <2>4. \A a \in Accounts : a \in q.of => [q.put EXCEPT !.name = people[a].name] \in Account
    BY <1>4, <2>3, SomeTypes
  <2>5. QED
    BY <1>0, <1>1, <1>2, <2>1, <2>4 DEF People
<1>5. CASE q.op = "rename"
  <2>1. people' = [a \in Accounts |->
          IF a \in q.of THEN [people[a] EXCEPT !.name = q.put.name] ELSE people[a]]
    BY <1>5 DEF Written
  <2>2. \A a \in Accounts : a \in q.of => people[a] \in Account
    BY <1>0, <1>5 DEF Granted, Manageable
  <2>3. q.put.name \in 1..2
    BY <1>5 DEF Account
  <2>4. \A a \in Accounts : a \in q.of => [people[a] EXCEPT !.name = q.put.name] \in Account
    BY <2>2, <2>3, SomeTypes
  <2>5. QED
    BY <1>0, <1>1, <1>2, <2>1, <2>4 DEF People
<1>6. CASE q.op = "deactivate"
  <2>1. people' = [a \in Accounts |->
          IF a \in q.of THEN [people[a] EXCEPT !.active = FALSE] ELSE people[a]]
    BY <1>6 DEF Written
  <2>2. \A a \in Accounts : [people[a] EXCEPT !.active = FALSE] \in Account \cup {Absent}
    BY <1>0, StillAbsent, SomeTypes
  <2>3. QED
    BY <1>0, <1>1, <1>2, <2>1, <2>2 DEF People
<1>7. CASE q.op = "disableOrg"
  <2>1. people' = Disables(q)
    BY <1>7 DEF Written
  <2>2. \A a \in Accounts : [people[a] EXCEPT !.active = FALSE] \in Account \cup {Absent}
    BY <1>0, StillAbsent, SomeTypes
  <2>3. QED
    BY <1>0, <1>1, <1>2, <2>1, <2>2 DEF People, Disables
<1>8. CASE q.op \notin {"create", "update", "rename", "deactivate", "disableOrg"}
  BY <1>1, <1>2, <1>8 DEF Written
<1>9. QED
  BY <1>3, <1>4, <1>5, <1>6, <1>7, <1>8

\* The plans of those who run.
LEMMA AskedIsWell ==
  ASSUME UserInv, UserTypes, NEW c, c.by \in Tasks, Running(c.by), c.q = Head(task[c.by].plan)
  PROVE  /\ c.q \in Errand /\ (c.q.op \in {"create", "update", "rename"} => c.q.put \in Account)
         /\ (c.q.op = "password" => c.q.of \subseteq Accounts)
<1> DEFINE plan == task[c.by].plan
<1>1. plan \in Seq(Errand) /\ plan # <<>>
  BY DEF UserTypes, UserTypeOK, Running
<1>2. Head(plan) = plan[1] /\ 1 \in DOMAIN plan /\ plan[1] \in Errand
  BY <1>1
<1>3. QED
  BY <1>2 DEF UserTypes, WellPut

LEMMA ReplyTypes ==
  ASSUME UserInv, UserTypes, NEW c \in outgoing, NEW ok \in BOOLEAN, Replies(c, ok),
         people' \in People, secrets' \subseteq Accounts, bodies' \in Bodies,
         moves' \in 0..MaxMoves, even' \in BOOLEAN
  PROVE  UserTypes'
<1> DEFINE new == [call |-> c, ok |-> ok, users |-> ListedUsers', orgs |-> ListedOrgs']
<1>1. c.q \in Errand /\ outgoing' = outgoing \ {c} /\ UNCHANGED <<manager, pageVars>>
  BY DEF Replies, UserTypes, UserTypeOK
<1>2. new.users \in People /\ new.orgs \in Bodies /\ new.call = c /\ new.ok = ok
  <2>1. ListedUsers' \in People
    BY DEF ListedUsers, People
  <2>2. ListedOrgs' \in Bodies
    BY DEF ListedOrgs, Bodies
  <2>3. QED
    BY <2>1, <2>2
<1>3. incoming' = Append(incoming, new)
  BY DEF Replies
<1> HIDE DEF new
<1>4. /\ IsSeq(incoming) /\ IsSeq(incoming') /\ Len(incoming) \in Nat
      /\ Len(incoming') = Len(incoming) + 1 /\ incoming'[Len(incoming) + 1] = new
  BY <1>3, AppendedElements DEF UserInv
<1>5. \A i \in 1..Len(incoming) : incoming'[i] = incoming[i]
  BY <1>3, AppendedElements DEF UserInv
<1>6. DOMAIN incoming = 1..Len(incoming) /\ DOMAIN incoming' = 1..Len(incoming')
  BY <1>4, SeqLength
<1>7. \A i \in DOMAIN incoming' : i \in DOMAIN incoming \/ i = Len(incoming) + 1
  BY <1>4, <1>6
<1>8. \A i \in DOMAIN incoming' :
        /\ incoming'[i].call.q \in Errand /\ incoming'[i].ok \in BOOLEAN
        /\ incoming'[i].users \in People /\ incoming'[i].orgs \in Bodies
  BY <1>1, <1>2, <1>4, <1>5, <1>6, <1>7 DEF UserTypes, UserTypeOK
<1>9. /\ \A r : Running(r)' = Running(r)
      /\ UNCHANGED <<manager, users, edits, organizations, orgEdits, shown, editForm, newUser, saving, task>>
  BY <1>1 DEF Running, pageVars
<1>10. UserTypeOK'
  BY <1>1, <1>8, <1>9 DEF UserTypes, UserTypeOK
<1>11. QED
  BY <1>8, <1>9, <1>10 DEF UserTypes, WellPut

LEMMA RepliedTypes ==
  ASSUME UserInv, UserTypes, NEW c \in outgoing, Replied(c)
  PROVE  UserTypes'
<1>1. c.by \in Tasks /\ Running(c.by) /\ c.q = Head(task[c.by].plan)
  BY DEF UserInv, OneEach
<1>2. /\ c.q \in Errand /\ (c.q.op \in {"create", "update", "rename"} => c.q.put \in Account)
      /\ (c.q.op = "password" => c.q.of \subseteq Accounts)
  BY <1>1, AskedIsWell
<1>3. /\ people \in People /\ secrets \subseteq Accounts /\ bodies \in Bodies
      /\ moves \in 0..MaxMoves /\ even \in BOOLEAN
  BY DEF UserTypes, UserTypeOK
<1>4. Move => moves' \in 0..MaxMoves
  BY <1>3, AccountsAssumption DEF Move
<1>5. CASE Grant(c)
  <2>1. people' \in People /\ secrets' \subseteq Accounts /\ bodies' \in Bodies
    BY <1>2, <1>3, <1>5, WrittenTypes DEF Grant
  <2>2. QED
    BY <1>3, <1>5, <2>1, ReplyTypes DEF Grant
<1>6. CASE Deny(c)
  <2>1. moves' \in 0..MaxMoves
    BY <1>3, <1>4, <1>6 DEF Deny
  <2>2. even' \in BOOLEAN
    BY <1>3, <1>6 DEF Deny
  <2>3. Replies(c, FALSE) /\ people' = people /\ secrets' = secrets /\ bodies' = bodies
    BY <1>6 DEF Deny
  <2>4. QED
    BY <1>3, <2>1, <2>2, <2>3, ReplyTypes
<1>7. CASE GrantUnheard(c)
  <2>1. people' \in People /\ secrets' \subseteq Accounts /\ bodies' \in Bodies
    BY <1>2, <1>3, <1>7, WrittenTypes DEF GrantUnheard
  <2>2. QED
    BY <1>4, <1>7, <2>1, ReplyTypes DEF GrantUnheard
<1>8. QED
  BY <1>5, <1>6, <1>7 DEF Replied
LEMMA TakeTypes ==
  ASSUME UserInv, UserTypes, NEW i \in 1..Len(incoming), Take(i)
  PROVE  UserTypes'
<1>a. PICK a : a = incoming[i]
  OBVIOUS
<1>r. PICK r : r = a.call.by
  OBVIOUS
<1>0. /\ DOMAIN incoming = 1..Len(incoming) /\ DOMAIN incoming' = 1..Len(incoming')
      /\ \A n \in DOMAIN incoming' : \E m \in DOMAIN incoming : incoming'[n] = incoming[m]
  <2>1. /\ IsSeq(incoming') /\ Len(incoming) \in Nat /\ Len(incoming') = Len(incoming) - 1
        /\ \A n \in 1..Len(incoming') : incoming'[n] = incoming[IF n < i THEN n ELSE n + 1]
    BY TakenAnswers
  <2>2. \A n \in 1..Len(incoming') : (IF n < i THEN n ELSE n + 1) \in 1..Len(incoming)
    BY <2>1
  <2>3. DOMAIN incoming = 1..Len(incoming) /\ DOMAIN incoming' = 1..Len(incoming')
    BY <2>1, SeqLength DEF UserInv
  <2>4. QED
    BY <2>1, <2>2, <2>3
<1>1. \A n \in DOMAIN incoming' :
        /\ incoming'[n].call.q \in Errand /\ incoming'[n].ok \in BOOLEAN
        /\ incoming'[n].users \in People /\ incoming'[n].orgs \in Bodies
  BY <1>0 DEF UserTypes, UserTypeOK
<1>2. /\ a.users \in People /\ a.orgs \in Bodies
      /\ Tabulated(a) /\ Carries(a) /\ UNCHANGED <<manager, people, secrets, bodies>>
  BY <1>a, <1>0 DEF Take, UserTypes
<1>3. /\ users' \in People /\ edits' \in People /\ organizations' \in Bodies /\ orgEdits' \in Bodies
      /\ \A b \in Accounts : edits'[b] = Absent <=> users'[b] = Absent
  <2>1. UserTypeOK /\ \A b \in Accounts : edits[b] = Absent <=> users[b] = Absent
    BY DEF UserTypes
  <2>2. QED
    BY <1>2, <2>1 DEF Tabulated, UserTypeOK
<1>4. moves' \in 0..MaxMoves /\ even' \in BOOLEAN
  BY AccountsAssumption DEF Take, Move, UserTypes, UserTypeOK
<1>5. r \in Tasks /\ Running(r) /\ DOMAIN task = Tasks
  BY <1>a, <1>r DEF UserInv, OneEach, TaskShape
<1>t. /\ task[r].plan \in Seq(Errand) /\ task[r].plan # <<>> /\ WellPut(task[r].plan)
      /\ task[r].closes \in Dialogs \cup {"none"}
      /\ shown \in Dialogs \cup {"none"} /\ editForm \in EditForm /\ newUser \in Account /\ saving \in BOOLEAN
      /\ (shown = "editUser" => editForm.name # 0 /\ \E b \in Accounts : editForm.of = {b})
      /\ \A s \in Tasks :
           /\ task[s].state \in {"idle", "running", "done", "failed"}
           /\ task[s].plan \in Seq(Errand) /\ (task[s].plan # <<>> <=> task[s].state = "running")
           /\ task[s].closes \in Dialogs \cup {"none"} /\ task[s].form \in EditForm
           /\ task[s].clean \in BOOLEAN
           /\ (Running(s) => WellPut(task[s].plan))
      /\ \A c \in outgoing : c.by \in Tasks /\ c.q \in Errand
  BY <1>5 DEF UserTypes, UserTypeOK, Running
<1> DEFINE Good == /\ shown' \in Dialogs \cup {"none"} /\ editForm' \in EditForm /\ newUser' \in Account
                   /\ saving' \in BOOLEAN
                   /\ (shown' = "editUser" => editForm'.name # 0 /\ \E b \in Accounts : editForm'.of = {b})
                   /\ \A s \in Tasks :
                        /\ task'[s].state \in {"idle", "running", "done", "failed"}
                        /\ task'[s].plan \in Seq(Errand) /\ (task'[s].plan # <<>> <=> task'[s].state = "running")
                        /\ task'[s].closes \in Dialogs \cup {"none"} /\ task'[s].form \in EditForm
                        /\ task'[s].clean \in BOOLEAN
                        /\ (Running(s)' => WellPut(task'[s].plan))
                   /\ \A c \in outgoing' : c.by \in Tasks /\ c.q \in Errand
<1>6. ASSUME NEW st \in {"failed", "done"}, TaskEnds(r, st)
      PROVE  Good
  <2>1. /\ task'[r] = Finished(st) /\ \A s \in Tasks : s # r => task'[s] = task[s]
        /\ saving' = FALSE /\ UNCHANGED <<shown, editForm, newUser, outgoing>>
    BY <1>5, <1>6 DEF TaskEnds
  <2>2. /\ task'[r].state = st /\ task'[r].plan = <<>> /\ task'[r].closes = "none"
        /\ task'[r].form = NoEdit /\ task'[r].clean = FALSE /\ st # "running"
    BY <2>1 DEF Finished
  <2>3. NoEdit \in EditForm /\ <<>> \in Seq(Errand)
    BY SomeTypes
  <2>4. ASSUME NEW s \in Tasks
        PROVE  /\ task'[s].state \in {"idle", "running", "done", "failed"}
               /\ task'[s].plan \in Seq(Errand) /\ (task'[s].plan # <<>> <=> task'[s].state = "running")
               /\ task'[s].closes \in Dialogs \cup {"none"} /\ task'[s].form \in EditForm
               /\ task'[s].clean \in BOOLEAN
               /\ (Running(s)' => WellPut(task'[s].plan))
    <3>1. CASE s = r
      BY <2>2, <2>3, <3>1 DEF Running
    <3>2. CASE s # r
      BY <1>t, <2>1, <3>2 DEF Running
    <3>3. QED
      BY <3>1, <3>2
  <2>5. QED
    BY <1>t, <2>1, <2>4
<1>7. ASSUME Follows(r), Len(task[r].plan) # 1
      PROVE  Good
  <2>0. PICK next : next = Tail(task[r].plan)
    OBVIOUS
  <2>1. /\ task'[r] = [task[r] EXCEPT !.plan = next] /\ \A s \in Tasks : s # r => task'[s] = task[s]
        /\ outgoing' = outgoing \cup {[by |-> r, q |-> Head(next)]} /\ saving' = saving
        /\ DialogCloses(task[r].closes) \/ UNCHANGED <<shown, editForm, newUser>>
    BY <1>5, <1>7, <2>0 DEF Follows
  <2>2. {"state", "plan", "closes", "clean", "form"} \subseteq DOMAIN task[r]
    BY <1>5 DEF UserInv, TaskShape
  <2>3. /\ task'[r].plan = next /\ task'[r].state = task[r].state /\ task'[r].closes = task[r].closes
        /\ task'[r].form = task[r].form /\ task'[r].clean = task[r].clean
    BY <2>1, <2>2
  <2>4. PICK p : p = task[r].plan
    OBVIOUS
  <2>5. /\ p \in Seq(Errand) /\ p # <<>> /\ Len(p) # 1 /\ WellPut(p) /\ next = Tail(p)
    BY <1>t, <1>7, <2>0, <2>4
  <2>6. next \in Seq(Errand) /\ Len(next) = Len(p) - 1 /\ Len(p) \in Nat /\ \A k \in 1..Len(next) : next[k] = p[k + 1]
    BY <2>5
  <2>7. Len(p) >= 2
    <3>1. IsSeq(p)
      BY <2>5 DEF IsSeq
    <3>2. Len(p) >= 1
      BY <2>5, <3>1, TailElements
    <3>3. Len(p) \in Nat /\ Len(p) # 1
      BY <2>5
    <3>4. QED
      BY <3>2, <3>3
  <2>8. next # <<>> /\ Head(next) \in Errand
    BY <2>6, <2>7
  <2>9. WellPut(next)
    <3>1. DOMAIN next = 1..Len(next) /\ DOMAIN p = 1..Len(p)
      BY <2>5, <2>6
    <3>2. \A k \in DOMAIN next : k + 1 \in DOMAIN p /\ next[k] = p[k + 1]
      BY <2>6, <3>1
    <3>3. QED
      BY <2>5, <3>2 DEF WellPut
  <2>10. ASSUME NEW s \in Tasks
         PROVE  /\ task'[s].state \in {"idle", "running", "done", "failed"}
                /\ task'[s].plan \in Seq(Errand) /\ (task'[s].plan # <<>> <=> task'[s].state = "running")
                /\ task'[s].closes \in Dialogs \cup {"none"} /\ task'[s].form \in EditForm
                /\ task'[s].clean \in BOOLEAN
                /\ (Running(s)' => WellPut(task'[s].plan))
    <3>1. CASE s = r
      BY <1>5, <1>t, <2>3, <2>6, <2>8, <2>9, <3>1 DEF Running
    <3>2. CASE s # r
      BY <1>t, <2>1, <3>2 DEF Running
    <3>3. QED
      BY <3>1, <3>2
  <2>11. /\ shown' \in Dialogs \cup {"none"} /\ editForm' \in EditForm /\ newUser' \in Account
         /\ (shown' = "editUser" => editForm'.name # 0 /\ \E b \in Accounts : editForm'.of = {b})
    <3>1. CASE UNCHANGED <<shown, editForm, newUser>>
      BY <1>t, <3>1
    <3>2. CASE DialogCloses(task[r].closes)
      BY <1>t, <3>2, SomeTypes DEF DialogCloses
    <3>3. QED
      BY <2>1, <3>1, <3>2
  <2>12. \A c \in outgoing' : c.by \in Tasks /\ c.q \in Errand
    BY <1>5, <1>t, <2>1, <2>8
  <2>13. QED
    BY <1>t, <2>1, <2>10, <2>11, <2>12
<1>8. Good
  BY <1>2, <1>6, <1>7, <1>r DEF Carries
<1> HIDE DEF Good
<1>9. UserTypeOK'
  BY <1>1, <1>2, <1>3, <1>4, <1>8 DEF Good, UserTypes, UserTypeOK
<1>10. QED
  BY <1>1, <1>3, <1>8, <1>9 DEF Good, UserTypes

LEMMA BeginsTypes ==
  ASSUME UserInv, UserTypes, NEW r \in Tasks, NEW dialog \in Dialogs \cup {"none"},
         NEW write \in Seq(Errand), WellPut(write), NEW L \in ListOps, TaskBegins(r, dialog, write, L)
  PROVE  UserTypes'
<1>p. PICK plan : plan = Append(write, Relist(L))
  OBVIOUS
<1>1. Relist(L) \in Errand /\ Relist(L).op = L
  BY DEF Relist, Errand, ListOps
<1>2. plan \in Seq(Errand) /\ plan # <<>> /\ Head(plan) \in Errand
  BY <1>p, <1>1
<1>3. WellPut(plan)
  <2>1. /\ DOMAIN write = 1..Len(write) /\ DOMAIN plan = 1..Len(plan) /\ Len(plan) = Len(write) + 1
        /\ Len(write) \in Nat /\ plan[Len(write) + 1] = Relist(L)
        /\ \A k \in 1..Len(write) : plan[k] = write[k]
    BY <1>p, <1>1
  <2>2. \A k \in DOMAIN plan : k \in DOMAIN write \/ k = Len(write) + 1
    BY <2>1
  <2>3. QED
    BY <1>1, <2>1, <2>2 DEF WellPut, ListOps
<1>4. PICK quiet \in BOOLEAN : quiet = (\A s \in Tasks : task[s].state # "running")
  <2>1. (\A s \in Tasks : task[s].state # "running") \in BOOLEAN
    OBVIOUS
  <2>2. QED
    BY <2>1
<1>5. /\ task'[r] = [state |-> "running", plan |-> plan, closes |-> dialog, clean |-> quiet,
                     form |-> IF dialog = "editUser" THEN editForm ELSE NoEdit]
      /\ \A s \in Tasks : s # r => task'[s] = [task[s] EXCEPT !.clean = FALSE]
      /\ outgoing' = outgoing \cup {[by |-> r, q |-> Head(plan)]}
  BY <1>p, <1>4 DEF TaskBegins
<1>6. /\ task'[r].state = "running" /\ task'[r].plan = plan /\ task'[r].closes = dialog
      /\ task'[r].clean = quiet /\ task'[r].form \in {editForm, NoEdit}
  BY <1>5
<1>7. \A s \in Tasks : {"state", "plan", "closes", "clean", "form"} \subseteq DOMAIN task[s]
  BY DEF UserInv, TaskShape
<1>8. \A s \in Tasks : s # r =>
        /\ task'[s].state = task[s].state /\ task'[s].plan = task[s].plan
        /\ task'[s].closes = task[s].closes /\ task'[s].form = task[s].form /\ task'[s].clean = FALSE
  BY <1>5, <1>7
<1>9. UserTypeOK
  BY DEF UserTypes
<1>10. ASSUME NEW s \in Tasks
       PROVE  /\ task'[s].state \in {"idle", "running", "done", "failed"}
              /\ task'[s].plan \in Seq(Errand) /\ (task'[s].plan # <<>> <=> task'[s].state = "running")
              /\ task'[s].closes \in Dialogs \cup {"none"} /\ task'[s].form \in EditForm
              /\ task'[s].clean \in BOOLEAN
              /\ (Running(s)' => WellPut(task'[s].plan))
  <2>1. CASE s = r
    BY <1>2, <1>3, <1>6, <1>9, <2>1, SomeTypes DEF UserTypeOK
  <2>2. CASE s # r
    BY <1>8, <1>9, <2>2 DEF UserTypeOK, UserTypes, Running
  <2>3. QED
    BY <2>1, <2>2
<1>11. \A c \in outgoing' : c.by \in Tasks /\ c.q \in Errand
  BY <1>2, <1>5, <1>9 DEF UserTypeOK
<1>12. moves' \in 0..MaxMoves
  BY <1>9, AccountsAssumption DEF TaskBegins, Move, UserTypeOK
<1>13. /\ saving' = TRUE
       /\ UNCHANGED <<manager, people, secrets, bodies, users, edits, organizations, orgEdits, shown,
                      editForm, newUser, incoming, even>>
  BY DEF TaskBegins
<1>14. UserTypeOK'
  BY <1>9, <1>10, <1>11, <1>12, <1>13 DEF UserTypeOK
<1>15. QED
  BY <1>10, <1>13, <1>14 DEF UserTypes
LEMMA OneErrand ==
  ASSUME NEW op \in Operation, NEW x \in Accounts \cup Orgs, NEW put \in Account \cup {Absent},
         op \in {"create", "update", "rename"} => put \in Account,
         op = "password" => x \in Accounts
  PROVE  Of(op, x, put) \in Seq(Errand) /\ WellPut(Of(op, x, put))
<1>1. PICK q : q = [op |-> op, of |-> {x}, put |-> put]
  OBVIOUS
<1>2. q \in Errand /\ q.op = op /\ q.of = {x} /\ q.put = put
  BY <1>1 DEF Errand
<1>3. Of(op, x, put) = <<q>>
  BY <1>1 DEF Of
<1>4. <<q>> \in Seq(Errand) /\ DOMAIN <<q>> = {1} /\ <<q>>[1] = q
  BY <1>2
<1>5. QED
  BY <1>2, <1>3, <1>4 DEF WellPut

LEMMA ClickTypes ==
  ASSUME UserInv, UserTypes, NEW r \in Tasks,
         \/ handleEditUserSave(r) \/ handleCreateUser(r) \/ handleCreateOrganization(r)
         \/ \E a \in Accounts : SaveUser(r, a) \/ handleDeactivate(r, a)
         \/ \E o \in Orgs : handleOrganizationSave(r, o) \/ handleOrganizationDisable(r, o)
  PROVE  UserTypes'
<1>1. /\ users \in People /\ edits \in People /\ newUser \in Account /\ editForm \in EditForm
      /\ \A a \in Accounts : edits[a] = Absent <=> users[a] = Absent
      /\ shown = "editUser" => editForm.name # 0
  BY DEF UserTypes, UserTypeOK
<1>2. \A a \in Accounts : There(a) => edits[a] \in Account
  BY <1>1 DEF There, People
<1>3. Absent \in Account \cup {Absent} /\ {"users", "orgs"} \subseteq ListOps
      /\ Dialogs \subseteq Dialogs \cup {"none"}
  BY DEF ListOps
<1>4. ASSUME handleEditUserSave(r)
      PROVE  UserTypes'
  <2>1. PICK a \in editForm.of : TaskBegins(r, "editUser",
          Of("rename", a, [NewUser EXCEPT !.name = editForm.name]) \o
          (IF editForm.password THEN Of("password", a, Absent) ELSE <<>>), "users")
    BY <1>4 DEF handleEditUserSave
  <2>2. a \in Accounts /\ editForm.name \in 1..2
    BY <1>1, <1>4 DEF handleEditUserSave, EditForm
  <2>3. PICK new \in Account : new = [NewUser EXCEPT !.name = editForm.name]
    BY <2>2, SomeTypes
  <2>4. PICK first : first = Of("rename", a, new)
    OBVIOUS
  <2>5. first \in Seq(Errand) /\ WellPut(first)
    BY <2>2, <2>4, OneErrand DEF Operation
  <2>6. Len(first) = 1
    BY <2>4 DEF Of
  <2>7. PICK second : second = IF editForm.password THEN Of("password", a, Absent) ELSE <<>>
    OBVIOUS
  <2>8. second \in Seq(Errand) /\ WellPut(second)
    <3>1. CASE editForm.password
      BY <1>3, <2>2, <2>7, <3>1, OneErrand DEF Operation
    <3>2. CASE ~ editForm.password
      BY <2>7, <3>2 DEF WellPut
    <3>3. QED
      BY <3>1, <3>2
  <2>9. PICK both : both = first \o second
    OBVIOUS
  <2>10. both \in Seq(Errand) /\ \A k \in DOMAIN both :
           (k \in DOMAIN first /\ both[k] = first[k]) \/ (k - 1 \in DOMAIN second /\ both[k] = second[k - 1])
    <3>1. both \in Seq(Errand) /\ Len(both) = Len(first) + Len(second)
      BY <2>5, <2>8, <2>9
    <3>2. /\ DOMAIN both = 1..(Len(first) + Len(second)) /\ DOMAIN second = 1..Len(second)
          /\ DOMAIN first = 1..Len(first) /\ Len(second) \in Nat
      BY <2>5, <2>8, <3>1
    <3>3. \A k \in 1..(Len(first) + Len(second)) :
            both[k] = IF k <= Len(first) THEN first[k] ELSE second[k - Len(first)]
      BY <2>5, <2>8, <2>9, ConcatProperties
    <3>4. \A k \in DOMAIN both : k <= 1 \/ k - 1 \in DOMAIN second
      BY <2>6, <3>2
    <3>5. \A k \in DOMAIN both : k <= 1 => k \in DOMAIN first
      BY <2>6, <3>2
    <3>6. QED
      BY <2>6, <3>1, <3>2, <3>3, <3>4, <3>5
  <2>11. WellPut(both)
    BY <2>5, <2>8, <2>10 DEF WellPut
  <2>12. TaskBegins(r, "editUser", both, "users")
    BY <2>1, <2>3, <2>4, <2>7, <2>9
  <2>13. QED
    BY <1>3, <2>10, <2>11, <2>12, BeginsTypes DEF Dialogs
<1>5. ASSUME handleCreateUser(r)
      PROVE  UserTypes'
  <2>1. PICK a \in Accounts : TaskBegins(r, "addUser", Of("create", a, newUser), "users")
    BY <1>5 DEF handleCreateUser
  <2>2. PICK w : w = Of("create", a, newUser)
    OBVIOUS
  <2>3. w \in Seq(Errand) /\ WellPut(w)
    BY <1>1, <2>2, OneErrand DEF Operation
  <2>4. QED
    BY <1>3, <2>1, <2>2, <2>3, BeginsTypes DEF Dialogs
<1>6. ASSUME handleCreateOrganization(r)
      PROVE  UserTypes'
  <2>1. PICK o \in Orgs : TaskBegins(r, "addOrg", Of("createOrg", o, Absent), "orgs")
    BY <1>6 DEF handleCreateOrganization
  <2>2. PICK w : w = Of("createOrg", o, Absent)
    OBVIOUS
  <2>3. w \in Seq(Errand) /\ WellPut(w)
    BY <1>3, <2>2, OneErrand DEF Operation
  <2>4. QED
    BY <1>3, <2>1, <2>2, <2>3, BeginsTypes DEF Dialogs
<1>7. ASSUME NEW a \in Accounts, SaveUser(r, a)
      PROVE  UserTypes'
  <2>1. TaskBegins(r, "none", Of("update", a, edits[a]), "users") /\ There(a)
    BY <1>7 DEF SaveUser
  <2>2. PICK w : w = Of("update", a, edits[a])
    OBVIOUS
  <2>3. w \in Seq(Errand) /\ WellPut(w)
    BY <1>2, <2>1, <2>2, OneErrand DEF Operation
  <2>4. QED
    BY <1>3, <2>1, <2>2, <2>3, BeginsTypes
<1>8. ASSUME NEW a \in Accounts, handleDeactivate(r, a)
      PROVE  UserTypes'
  <2>1. TaskBegins(r, "none", Of("deactivate", a, Absent), "users")
    BY <1>8 DEF handleDeactivate
  <2>2. PICK w : w = Of("deactivate", a, Absent)
    OBVIOUS
  <2>3. w \in Seq(Errand) /\ WellPut(w)
    BY <1>3, <2>2, OneErrand DEF Operation
  <2>4. QED
    BY <1>3, <2>1, <2>2, <2>3, BeginsTypes
<1>9. ASSUME NEW o \in Orgs, handleOrganizationSave(r, o)
      PROVE  UserTypes'
  <2>1. PICK put : put = [NewUser EXCEPT !.active = (orgEdits[o] = "active")]
    OBVIOUS
  <2>2. put \in Account
    <3>1. (orgEdits[o] = "active") \in BOOLEAN
      OBVIOUS
    <3>2. QED
      BY <2>1, <3>1, SomeTypes
  <2>3. PICK w : w = Of("updateOrg", o, put)
    OBVIOUS
  <2>4. w \in Seq(Errand) /\ WellPut(w)
    BY <2>2, <2>3, OneErrand DEF Operation
  <2>5. TaskBegins(r, "none", w, "orgs")
    BY <1>9, <2>1, <2>3 DEF handleOrganizationSave
  <2>6. QED
    BY <1>3, <2>4, <2>5, BeginsTypes
<1>10. ASSUME NEW o \in Orgs, handleOrganizationDisable(r, o)
       PROVE  UserTypes'
  <2>1. TaskBegins(r, "none", Of("disableOrg", o, Absent), "orgs")
    BY <1>10 DEF handleOrganizationDisable
  <2>2. PICK w : w = Of("disableOrg", o, Absent)
    OBVIOUS
  <2>3. w \in Seq(Errand) /\ WellPut(w)
    BY <1>3, <2>2, OneErrand DEF Operation
  <2>4. QED
    BY <1>3, <2>1, <2>2, <2>3, BeginsTypes
<1>11. QED
  BY <1>4, <1>5, <1>6, <1>7, <1>8, <1>9, <1>10

\* What is typed.
LEMMA TypedTypes ==
  ASSUME UserTypes
  PROVE  /\ \A a \in Accounts : EditRow(a) \/ openEditUser(a) => UserTypes'
         /\ \A o \in Orgs : EditOrg(o) => UserTypes'
         /\ \A dialog \in {"addUser", "addOrg", "none"} : Show(dialog) => UserTypes'
         /\ Type => UserTypes'
<1>1. UserTypeOK /\ \A a \in Accounts : edits[a] = Absent <=> users[a] = Absent
  BY DEF UserTypes
<1>2. Move => moves' \in 0..MaxMoves
  BY <1>1, AccountsAssumption DEF Move, UserTypeOK
<1>3. \A org \in OrgChoices : org \in SUBSET Orgs
  BY DEF OrgChoices, OrgsThere
<1>4. ASSUME UNCHANGED task
      PROVE  /\ \A r : Running(r)' = Running(r)
             /\ \A r \in Tasks : Running(r) => WellPut(task'[r].plan)
  BY <1>4 DEF Running, UserTypes
<1>5. ASSUME NEW a \in Accounts, EditRow(a)
      PROVE  UserTypes'
  <2>1. edits[a] \in Account /\ edits \in People
    BY <1>1, <1>5 DEF EditRow, There, UserTypeOK, People
  <2>2. PICK p \in Account : edits' = [edits EXCEPT ![a] = p]
    <3>1. CASE \E role \in Ranks : edits' = [edits EXCEPT ![a].role = role]
      <4>1. PICK role \in Ranks : edits' = [edits EXCEPT ![a].role = role]
        BY <3>1
      <4>2. edits' = [edits EXCEPT ![a] = [edits[a] EXCEPT !.role = role]]
        BY <4>1
      <4>3. QED
        BY <2>1, <4>2, SomeTypes
    <3>2. CASE \E org \in OrgChoices : edits' = [edits EXCEPT ![a].org = org]
      <4>1. PICK org \in OrgChoices : edits' = [edits EXCEPT ![a].org = org]
        BY <3>2
      <4>2. edits' = [edits EXCEPT ![a] = [edits[a] EXCEPT !.org = org]]
        BY <4>1
      <4>3. QED
        BY <1>3, <2>1, <4>2, SomeTypes
    <3>3. CASE edits' = [edits EXCEPT ![a].active = ~ @]
      <4>1. edits' = [edits EXCEPT ![a] = [edits[a] EXCEPT !.active = ~ edits[a].active]]
        BY <3>3
      <4>2. (~ edits[a].active) \in BOOLEAN
        BY <2>1 DEF Account
      <4>3. QED
        BY <2>1, <4>1, <4>2, SomeTypes
    <3>4. QED
      BY <1>5, <3>1, <3>2, <3>3 DEF EditRow
  <2>3. edits' \in People /\ edits'[a] = p /\ \A b \in Accounts : b # a => edits'[b] = edits[b]
    BY <2>1, <2>2 DEF People
  <2>4. \A b \in Accounts : edits'[b] = Absent <=> users[b] = Absent
    BY <1>1, <1>5, <2>3, AbsentIsNone DEF EditRow, There
  <2>5. UserTypeOK'
    BY <1>1, <1>2, <1>5, <2>3 DEF EditRow, UserTypeOK
  <2>6. QED
    BY <1>4, <1>5, <2>4, <2>5 DEF EditRow, UserTypes
<1>6. ASSUME NEW a \in Accounts, openEditUser(a)
      PROVE  UserTypes'
  <2>1. users[a] \in Account
    BY <1>1, <1>6 DEF openEditUser, There, UserTypeOK, People
  <2>2. users[a].name \in 1..2
    BY <2>1 DEF Account
  <2>3. editForm' \in EditForm /\ editForm'.name # 0 /\ editForm'.of = {a}
    BY <1>6, <2>2 DEF openEditUser, EditForm
  <2>4. UserTypeOK'
    BY <1>1, <1>2, <1>6, <2>3 DEF openEditUser, UserTypeOK, Dialogs
  <2>5. QED
    BY <1>4, <1>6, <2>3, <2>4 DEF openEditUser, UserTypes
<1>7. ASSUME NEW o \in Orgs, EditOrg(o)
      PROVE  UserTypes'
  <2>1. orgEdits' \in Bodies
    BY <1>1, <1>7 DEF EditOrg, UserTypeOK, Bodies
  <2>2. UserTypeOK'
    BY <1>1, <1>2, <1>7, <2>1 DEF EditOrg, UserTypeOK
  <2>3. QED
    BY <1>4, <1>7, <2>2 DEF EditOrg, UserTypes
<1>8. ASSUME NEW dialog \in {"addUser", "addOrg", "none"}, Show(dialog)
      PROVE  UserTypes'
  <2>1. shown' \in Dialogs \cup {"none"} /\ shown' # "editUser"
    BY <1>8 DEF Show, Dialogs
  <2>2. UserTypeOK'
    BY <1>1, <1>2, <1>8, <2>1 DEF Show, UserTypeOK
  <2>3. QED
    BY <1>4, <1>8, <2>1, <2>2 DEF Show, UserTypes
<1>9. ASSUME Type
      PROVE  UserTypes'
  <2>1. editForm \in EditForm /\ newUser \in Account /\
        (shown = "editUser" => editForm.name \in 1..2 /\ \E b \in Accounts : editForm.of = {b})
    BY <1>1 DEF UserTypes, UserTypeOK, EditForm
  <2>2. /\ editForm' \in EditForm
        /\ shown = "editUser" => editForm'.name # 0 /\ \E b \in Accounts : editForm'.of = {b}
    <3>1. CASE editForm' = editForm
      BY <2>1, <3>1
    <3>2. CASE shown = "editUser" /\ editForm' = [editForm EXCEPT !.name = 3 - @]
      <4>1. 3 - editForm.name \in 1..2
        BY <2>1, <3>2
      <4>2. QED
        BY <2>1, <3>2, <4>1 DEF EditForm
    <3>3. CASE shown = "editUser" /\ editForm' = [editForm EXCEPT !.password = ~ @]
      <4>1. PICK b \in BOOLEAN : b = ~ editForm.password
        OBVIOUS
      <4>2. editForm' = [editForm EXCEPT !.password = b]
        BY <3>3, <4>1
      <4>3. editForm' \in EditForm /\ editForm'.of = editForm.of /\ editForm'.name = editForm.name
        BY <2>1, <4>2 DEF EditForm
      <4>4. QED
        BY <2>1, <3>3, <4>3
    <3>4. QED
      BY <1>9, <3>1, <3>2, <3>3 DEF Type
  <2>3. newUser' \in Account
    BY <1>3, <1>9, <2>1, SomeTypes DEF Type
  <2>4. UserTypeOK'
    BY <1>1, <1>2, <1>9, <2>2, <2>3 DEF Type, UserTypeOK
  <2>5. QED
    BY <1>4, <1>9, <2>2, <2>4 DEF Type, UserTypes
<1>10. QED
  BY <1>5, <1>6, <1>7, <1>8, <1>9

LEMMA UserTypesStart == UserInit => UserTypes
<1> SUFFICES ASSUME UserInit PROVE UserTypes
  OBVIOUS
<1>1. people \in People
  <2>1. manager \in Ranks
    BY AccountsAssumption DEF UserInit
  <2>2. [NewUser EXCEPT !.role = manager] \in Account
    BY <2>1, SomeTypes
  <2>3. QED
    BY <2>2, SomeTypes DEF UserInit, People
<1>2. bodies \in Bodies
  BY DEF UserInit, Bodies
<1>3. users \in People /\ edits = users /\ organizations \in Bodies /\ orgEdits = organizations
  BY <1>1, <1>2, ListedTypes DEF UserInit
<1>4. \A r \in Tasks : task[r] = Finished("idle")
  BY DEF UserInit
<1>5. \A r \in Tasks : /\ task[r].state = "idle" /\ task[r].plan = <<>> /\ task[r].closes = "none"
                       /\ task[r].form = NoEdit /\ task[r].clean = FALSE
  BY <1>4 DEF Finished
<1>6. <<>> \in Seq(Errand) /\ \A i \in DOMAIN incoming : FALSE
  BY DEF UserInit
<1>7. UserTypeOK
  <2>1. /\ manager \in Admins /\ secrets = {} /\ shown = "none" /\ editForm = NoEdit
        /\ newUser = NewUser /\ saving = FALSE /\ outgoing = {} /\ incoming = <<>>
        /\ moves = 0 /\ even = TRUE
    BY DEF UserInit
  <2>2. \A r \in Tasks :
          /\ task[r].state \in {"idle", "running", "done", "failed"}
          /\ task[r].plan \in Seq(Errand) /\ (task[r].plan # <<>> <=> task[r].state = "running")
          /\ task[r].closes \in Dialogs \cup {"none"} /\ task[r].form \in EditForm
          /\ task[r].clean \in BOOLEAN
    BY <1>5, <1>6, SomeTypes
  <2>3. moves \in 0..MaxMoves
    BY <2>1, AccountsAssumption
  <2>4. QED
    BY <1>1, <1>2, <1>3, <1>6, <2>1, <2>2, <2>3, SomeTypes DEF UserTypeOK
<1>8. QED
  BY <1>3, <1>5, <1>6, <1>7 DEF UserInit, UserTypes, Running

LEMMA UserStepTypes == UserInv /\ UserTypes /\ [UserNext]_userVars => UserTypes'
<1> SUFFICES ASSUME UserInv, UserTypes, [UserNext]_userVars PROVE UserTypes'
  OBVIOUS
<1>1. ASSUME NEW c \in outgoing, Replied(c) PROVE UserTypes'
  BY <1>1, RepliedTypes
<1>2. ASSUME NEW i \in DOMAIN incoming, Take(i) PROVE UserTypes'
  <2>1. DOMAIN incoming = 1..Len(incoming)
    BY SeqLength DEF UserInv
  <2>2. QED
    BY <1>2, <2>1, TakeTypes
<1>3. UNCHANGED userVars => UserTypes'
  BY DEF userVars, UserTypes, UserTypeOK, WellPut, Running
<1>4. QED
  BY <1>1, <1>2, <1>3, TypedTypes, ClickTypes DEF UserNext
-----------------------------------------------------------------------------
(* An edit of a user.  While it runs alone, what it has not written yet is *)
(* ahead in its plan: to be asked, or asked and not answered well.         *)

ForEdit(q, a, f) ==
  /\ q.op \in {"rename", "password", "users"}
  /\ q.op = "rename" => q.of = {a} /\ q.put.name = f.name
  /\ q.op = "password" => q.of = {a}

NoneIsOk == \A i \in 1..Len(incoming) : ~ incoming[i].ok

WritesAhead(r, a) ==
  /\ \A s \in Tasks : Running(s) => s = r
  /\ \A k \in 1..Len(task[r].plan) : ForEdit(task[r].plan[k], a, task[r].form)
  /\ \/ people[a].name = task[r].form.name
     \/ task[r].plan[1].op = "rename" /\ NoneIsOk
  /\ task[r].form.password =>
       \/ a \in secrets
       \/ task[r].plan[1].op = "password" /\ NoneIsOk
       \/ Len(task[r].plan) > 1 /\ task[r].plan[2].op = "password"

Edits(r, a) == Running(r) /\ task[r].clean /\ task[r].form.of = {a}

EditGoesOn == \A r \in Tasks, a \in Accounts : Edits(r, a) => WritesAhead(r, a)

\* What the form of a user asks for.
AsksFor(plan, a, f) ==
  /\ \A k \in 1..Len(plan) : ForEdit(plan[k], a, f)
  /\ plan[1].op = "rename"
  /\ f.password => Len(plan) > 1 /\ plan[2].op = "password"

LEMMA EditAsks ==
  ASSUME NEW a, NEW put, NEW f, f.name = put.name, f.password \in BOOLEAN, NEW plan,
         plan = Append(Of("rename", a, put) \o (IF f.password THEN Of("password", a, Absent) ELSE <<>>),
                       Relist("users"))
  PROVE  AsksFor(plan, a, f)
<1> SUFFICES /\ \A k \in 1..Len(plan) : ForEdit(plan[k], a, f)
             /\ plan[1].op = "rename"
             /\ f.password => Len(plan) > 1 /\ plan[2].op = "password"
  BY DEF AsksFor
<1>1. PICK x : x = [op |-> "rename", of |-> {a}, put |-> put]
  OBVIOUS
<1>2. PICK y : y = [op |-> "password", of |-> {a}, put |-> Absent]
  OBVIOUS
<1>3. PICK z : z = Relist("users")
  OBVIOUS
<1>4. PICK w : w = <<x>> \o (IF f.password THEN <<y>> ELSE <<>>)
  OBVIOUS
<1>5. plan = Append(w, z)
  BY <1>1, <1>2, <1>3, <1>4 DEF Of
<1>6. /\ ForEdit(x, a, f) /\ ForEdit(y, a, f) /\ ForEdit(z, a, f)
      /\ x.op = "rename" /\ y.op = "password"
  BY <1>1, <1>2, <1>3 DEF ForEdit, Relist
<1>7. CASE f.password
  <2>1. <<x>> \in Seq({x, y}) /\ <<y>> \in Seq({x, y}) /\ w = <<x>> \o <<y>>
    BY <1>4, <1>7
  <2>2. w \in Seq({x, y}) /\ Len(w) = 2 /\ w[1] = x /\ w[2] = y
    BY <2>1
  <2>3. IsSeq(w)
    BY <2>2 DEF IsSeq
  <2>4. Len(plan) = 3 /\ plan[1] = x /\ plan[2] = y /\ plan[3] = z
    <3>1. Len(plan) = 2 + 1 /\ plan[2 + 1] = z
      BY SMTT(30), <1>5, <2>2, <2>3, AppendedElements
    <3>2. \A k \in 1..2 : plan[k] = w[k]
      BY <1>5, <2>2, <2>3, AppendedElements
    <3>3. QED
      BY <2>2, <3>1, <3>2
  <2>5. \A k \in 1..Len(plan) : k = 1 \/ k = 2 \/ k = 3
    BY <2>4
  <2>6. QED
    BY <1>6, <2>4, <2>5
<1>8. CASE ~ f.password
  <2>1. w = <<x>>
    BY <1>4, <1>8
  <2>2. IsSeq(w) /\ Len(w) = 1 /\ w[1] = x
    BY <2>1, SingleIsSeq
  <2>3. Len(plan) = 2 /\ plan[1] = x /\ plan[2] = z
    <3>0. IsSeq(w)
      BY <2>2
    <3>1. /\ Len(plan) = Len(w) + 1 /\ plan[Len(w) + 1] = z
          /\ \A k \in 1..Len(w) : plan[k] = w[k]
      BY <1>5, <3>0, AppendedElements
    <3>2. 1 \in 1..Len(w) /\ Len(w) + 1 = 2
      BY <2>2
    <3>3. QED
      BY <2>2, <3>1, <3>2
  <2>4. \A k \in 1..Len(plan) : k = 1 \/ k = 2
    BY <2>3
  <2>5. QED
    BY <1>6, <1>8, <2>3, <2>4
<1>9. QED
  BY <1>7, <1>8

LEMMA BeginsGoesOn ==
  ASSUME UserInv, EditGoesOn, NEW r \in Tasks, NEW dialog, NEW write, NEW L,
         TaskBegins(r, dialog, write, L),
         NEW plan, plan = Append(write, Relist(L)),
         NEW a \in Accounts, dialog = "editUser" /\ editForm.of = {a} => AsksFor(plan, a, editForm),
         NEW s \in Tasks, Edits(s, a)'
  PROVE  WritesAhead(s, a)'
<1>1. \A t \in Tasks : {"state", "plan", "closes", "clean", "form"} \subseteq DOMAIN task[t]
  BY DEF UserInv, TaskShape
<1>2. /\ \A t \in Tasks : t # r => task'[t] = [task[t] EXCEPT !.clean = FALSE]
      /\ task'[r] = [state |-> "running", plan |-> plan, closes |-> dialog,
                     clean |-> \A t \in Tasks : task[t].state # "running",
                     form |-> IF dialog = "editUser" THEN editForm ELSE NoEdit]
  BY DEF TaskBegins
<1>3. \A t \in Tasks : t # r => task'[t].clean = FALSE /\ task'[t].state = task[t].state
  BY <1>1, <1>2
<1>4. /\ task'[r].plan = plan /\ task'[r].form = (IF dialog = "editUser" THEN editForm ELSE NoEdit)
      /\ (task'[r].clean => \A t \in Tasks : task[t].state # "running")
  BY <1>2
<1>5. s = r
  BY <1>3 DEF Edits
<1>6. dialog = "editUser" /\ editForm.of = {a} /\ task'[r].form = editForm
  <2>1. NoEdit.of # {a}
    BY DEF NoEdit
  <2>2. QED
    BY <1>4, <1>5, <2>1 DEF Edits
<1>7. \A t \in Tasks : ~ Running(t)
  BY <1>4, <1>5 DEF Edits, Running
<1>8. \A t \in Tasks : Running(t)' => t = r
  BY <1>3, <1>7 DEF Running
<1>9. NoneIsOk'
  BY <1>7 DEF TaskBegins, NoneIsOk, UserInv, OneEach
<1>10. QED
  BY <1>4, <1>5, <1>6, <1>8, <1>9 DEF WritesAhead, AsksFor

LEMMA ClicksGoOn ==
  ASSUME UserInv, UserTypes, EditGoesOn, NEW r \in Tasks,
         \/ handleEditUserSave(r) \/ handleCreateUser(r) \/ handleCreateOrganization(r)
         \/ \E a \in Accounts : SaveUser(r, a) \/ handleDeactivate(r, a)
         \/ \E o \in Orgs : handleOrganizationSave(r, o) \/ handleOrganizationDisable(r, o)
  PROVE  EditGoesOn'
<1> SUFFICES ASSUME NEW s \in Tasks, NEW a \in Accounts, Edits(s, a)'
             PROVE  WritesAhead(s, a)'
  BY DEF EditGoesOn
<1>1. ASSUME NEW dialog, dialog # "editUser", NEW write, NEW L, TaskBegins(r, dialog, write, L)
      PROVE  WritesAhead(s, a)'
  <2>1. PICK plan : plan = Append(write, Relist(L))
    OBVIOUS
  <2>2. dialog = "editUser" /\ editForm.of = {a} => AsksFor(plan, a, editForm)
    BY <1>1
  <2>3. QED
    BY <1>1, <2>1, <2>2, BeginsGoesOn
<1>2. CASE handleEditUserSave(r)
  <2>1. PICK b \in editForm.of : TaskBegins(r, "editUser",
          Of("rename", b, [NewUser EXCEPT !.name = editForm.name]) \o
          (IF editForm.password THEN Of("password", b, Absent) ELSE <<>>), "users")
    BY <1>2 DEF handleEditUserSave
  <2>2. PICK put : put = [NewUser EXCEPT !.name = editForm.name]
    OBVIOUS
  <2>3. put.name = editForm.name /\ editForm.password \in BOOLEAN
    BY <2>2 DEF NewUser, UserTypes, UserTypeOK, EditForm
  <2>4. PICK write : write = Of("rename", b, put) \o
          (IF editForm.password THEN Of("password", b, Absent) ELSE <<>>)
    OBVIOUS
  <2>5. TaskBegins(r, "editUser", write, "users")
    BY <2>1, <2>2, <2>4
  <2>6. PICK plan : plan = Append(write, Relist("users"))
    OBVIOUS
  <2>7. AsksFor(plan, b, editForm)
    <3>1. plan = Append(Of("rename", b, put) \o
                 (IF editForm.password THEN Of("password", b, Absent) ELSE <<>>), Relist("users"))
      BY <2>4, <2>6
    <3>2. QED
      BY <2>3, <3>1, EditAsks
  <2>8. editForm.of = {a} => b = a
    BY <2>1
  <2>9. QED
    BY <2>5, <2>6, <2>7, <2>8, BeginsGoesOn
<1>3. CASE handleCreateUser(r) \/ handleCreateOrganization(r)
  BY <1>1, <1>3 DEF handleCreateUser, handleCreateOrganization
<1>4. ASSUME NEW b \in Accounts, SaveUser(r, b) \/ handleDeactivate(r, b)
      PROVE  WritesAhead(s, a)'
  BY <1>1, <1>4 DEF SaveUser, handleDeactivate
<1>5. ASSUME NEW o \in Orgs, handleOrganizationSave(r, o) \/ handleOrganizationDisable(r, o)
      PROVE  WritesAhead(s, a)'
  BY <1>1, <1>5 DEF handleOrganizationSave, handleOrganizationDisable
<1>6. QED
  BY <1>2, <1>3, <1>4, <1>5

\* Who edits is the only one to be answered.
LEMMA RepliedGoesOn ==
  ASSUME UserInv, UserTypes, EditGoesOn, NEW c \in outgoing, NEW ok, Replies(c, ok),
         \/ Granted(c.q) /\ Written(c.q)
         \/ ~ ok /\ people' = people /\ secrets' = secrets
  PROVE  EditGoesOn'
<1>1. /\ task' = task
      /\ Len(incoming) \in Nat /\ Len(incoming') = Len(incoming) + 1
      /\ \A i \in 1..Len(incoming) : incoming'[i] = incoming[i]
      /\ incoming'[Len(incoming) + 1].ok = ok
  BY ReplyEffect
<1> SUFFICES ASSUME NEW r \in Tasks, NEW a \in Accounts, Edits(r, a)
             PROVE  WritesAhead(r, a)'
  BY <1>1 DEF EditGoesOn, Edits, Running
<1>2. WritesAhead(r, a)
  BY DEF EditGoesOn
<1>p. PICK p, f : p = task[r].plan /\ f = task[r].form
  OBVIOUS
<1>3. c.by = r
  BY <1>2 DEF WritesAhead, UserInv, OneEach
<1>4. c.q = p[1] /\ 1 \in 1..Len(p)
  <2>1. p \in Seq(Errand) /\ p # <<>>
    BY <1>p DEF Edits, Running, UserTypes, UserTypeOK
  <2>2. Head(p) = p[1] /\ 1 \in 1..Len(p)
    BY <2>1
  <2>3. QED
    BY <1>3, <1>p, <2>2 DEF UserInv, OneEach
<1>5. ForEdit(c.q, a, f)
  BY <1>2, <1>4, <1>p DEF WritesAhead
<1>6. ~ ok /\ NoneIsOk => NoneIsOk'
  <2>1. \A i \in 1..Len(incoming') : i \in 1..Len(incoming) \/ i = Len(incoming) + 1
    BY <1>1
  <2>2. QED
    BY <1>1, <2>1 DEF NoneIsOk
<1>7. /\ people'[a].name = f.name \/ (p[1].op = "rename" /\ NoneIsOk')
      /\ f.password => a \in secrets' \/ (p[1].op = "password" /\ NoneIsOk')
                                     \/ (Len(p) > 1 /\ p[2].op = "password")
  <2>1. CASE ~ ok /\ people' = people /\ secrets' = secrets
    BY <1>2, <1>6, <1>p, <2>1 DEF WritesAhead
  <2>2. CASE Granted(c.q) /\ Written(c.q) /\ c.q.op = "rename"
    <3>1. people[a] \in Account
      BY <1>5, <2>2 DEF ForEdit, Granted, Manageable, UserTypes, UserTypeOK, People
    <3>2. people' = [b \in Accounts |->
            IF b \in c.q.of THEN [people[b] EXCEPT !.name = c.q.put.name] ELSE people[b]]
      BY <2>2 DEF Written
    <3>3. people'[a] = [people[a] EXCEPT !.name = f.name]
      BY <1>5, <2>2, <3>2 DEF ForEdit
    <3>4. people'[a].name = f.name
      BY <3>1, <3>3 DEF Account
    <3>5. secrets' = secrets
      BY <2>2 DEF Written
    <3>6. QED
      BY <1>2, <1>4, <1>p, <2>2, <3>4, <3>5 DEF WritesAhead
  <2>3. CASE Granted(c.q) /\ Written(c.q) /\ c.q.op = "password"
    <3>1. people' = people /\ a \in secrets'
      BY <1>5, <2>3 DEF Written, ForEdit
    <3>2. QED
      BY <1>2, <1>4, <1>p, <2>3, <3>1 DEF WritesAhead
  <2>4. CASE Granted(c.q) /\ Written(c.q) /\ c.q.op = "users"
    <3>1. people' = people /\ secrets' = secrets
      BY SMTT(30), <2>4 DEF Written
    <3>2. QED
      BY <1>2, <1>4, <1>p, <2>4, <3>1 DEF WritesAhead
  <2>5. QED
    BY <1>5, <2>1, <2>2, <2>3, <2>4 DEF ForEdit
<1>8. QED
  BY <1>1, <1>2, <1>7, <1>p DEF WritesAhead, Running

\* What becomes of a task that is answered.
LEMMA TaskCarried ==
  ASSUME UserInv, NEW i \in 1..Len(incoming), Take(i), NEW r, r = incoming[i].call.by
  PROVE  /\ r \in Tasks /\ Running(r) /\ incoming[i].call.q = Head(task[r].plan)
         /\ \A s \in Tasks : s # r => task'[s] = task[s]
         /\ task'[r].state \in {"failed", "done", "running"}
         /\ task'[r].state = "done" => Len(task[r].plan) = 1
         /\ task'[r].state = "running" =>
               /\ Len(task[r].plan) # 1
               /\ incoming[i].ok \/ incoming[i].call.q.op = "users"
               /\ task'[r].plan = Tail(task[r].plan)
               /\ task'[r].clean = task[r].clean /\ task'[r].form = task[r].form
               /\ [by |-> r, q |-> Head(Tail(task[r].plan))] \in outgoing'
<1>1. r \in Tasks /\ Running(r) /\ incoming[i].call.q = Head(task[r].plan)
  BY DEF UserInv, OneEach
<1>2. /\ DOMAIN task = Tasks
      /\ {"state", "plan", "closes", "clean", "form"} \subseteq DOMAIN task[r]
  BY <1>1 DEF UserInv, TaskShape
<1>3. \/ TaskEnds(r, "failed")
      \/ TaskEnds(r, "done") /\ Len(task[r].plan) = 1
      \/ /\ Follows(r) /\ Len(task[r].plan) # 1
         /\ incoming[i].ok \/ incoming[i].call.q.op = "users"
  BY DEF Take, Carries
<1>4. ASSUME NEW st, TaskEnds(r, st)
      PROVE  task'[r].state = st /\ \A s \in Tasks : s # r => task'[s] = task[s]
  BY <1>1, <1>2, <1>4 DEF TaskEnds, Finished
<1>5. ASSUME Follows(r)
      PROVE  /\ task'[r].state = task[r].state /\ task'[r].plan = Tail(task[r].plan)
             /\ task'[r].clean = task[r].clean /\ task'[r].form = task[r].form
             /\ \A s \in Tasks : s # r => task'[s] = task[s]
             /\ [by |-> r, q |-> Head(Tail(task[r].plan))] \in outgoing'
  <2>1. /\ task'[r] = [task[r] EXCEPT !.plan = Tail(task[r].plan)]
        /\ \A s \in Tasks : s # r => task'[s] = task[s]
        /\ [by |-> r, q |-> Head(Tail(task[r].plan))] \in outgoing'
    BY <1>1, <1>2, <1>5 DEF Follows
  <2>2. QED
    BY <1>2, <2>1
<1>6. CASE TaskEnds(r, "failed")
  BY <1>1, <1>4, <1>6
<1>7. CASE TaskEnds(r, "done") /\ Len(task[r].plan) = 1
  BY SMTT(30), <1>1, <1>4, <1>7
<1>8. CASE /\ Follows(r) /\ Len(task[r].plan) # 1
           /\ incoming[i].ok \/ incoming[i].call.q.op = "users"
  BY <1>1, <1>5, <1>8 DEF Running
<1>9. QED
  BY <1>3, <1>6, <1>7, <1>8

LEMMA TakenGoesOn ==
  ASSUME UserInv, UserInv', UserTypes, EditGoesOn, NEW i \in 1..Len(incoming), Take(i)
  PROVE  EditGoesOn'
<1> SUFFICES ASSUME NEW r \in Tasks, NEW a \in Accounts, Edits(r, a)'
             PROVE  WritesAhead(r, a)'
  BY DEF EditGoesOn
<1>0. PICK r0 : r0 = incoming[i].call.by
  OBVIOUS
<1>1. /\ r0 \in Tasks /\ Running(r0) /\ incoming[i].call.q = Head(task[r0].plan)
      /\ \A s \in Tasks : s # r0 => task'[s] = task[s]
  <2>1. r0 \in Tasks /\ Running(r0) /\ incoming[i].call.q = Head(task[r0].plan)
    BY <1>0 DEF UserInv, OneEach
  <2>2. \A s \in Tasks : s # r0 => task'[s] = task[s]
    BY <1>0, <2>1, TaskCarried
  <2>3. QED
    BY <2>1, <2>2
<1>2. r = r0
  <2>1. ASSUME r # r0
        PROVE  FALSE
    <3>1. Edits(r, a)
      BY <1>1, <2>1 DEF Edits, Running
    <3>2. QED
      BY <1>1, <2>1, <3>1 DEF EditGoesOn, WritesAhead
  <2>2. QED
    BY <2>1
<1>3. /\ Len(task[r].plan) # 1
      /\ incoming[i].ok \/ incoming[i].call.q.op = "users"
      /\ task'[r].plan = Tail(task[r].plan)
      /\ task'[r].clean = task[r].clean /\ task'[r].form = task[r].form
      /\ [by |-> r, q |-> Head(Tail(task[r].plan))] \in outgoing'
  <2>1. task'[r].state = "running"
    BY DEF Edits, Running
  <2>2. QED
    BY <1>0, <1>2, <2>1, TaskCarried
<1>4. WritesAhead(r, a)
  BY <1>1, <1>2, <1>3 DEF EditGoesOn, Edits
<1>5. \A s \in Tasks : Running(s)' => s = r
  BY <1>1, <1>2, <1>4 DEF WritesAhead, Running
<1>6. NoneIsOk'
  <2>1. [by |-> r, q |-> Head(Tail(task[r].plan))].by = r
    OBVIOUS
  <2>2. \A n \in 1..Len(incoming') : incoming'[n].call.by # r
    BY <1>3, <2>1 DEF UserInv, OneEach
  <2>3. \A n \in 1..Len(incoming') : \A s : s = incoming'[n].call.by => s \in Tasks /\ Running(s)'
    BY DEF UserInv, OneEach, Running
  <2>4. \A n \in 1..Len(incoming') : FALSE
    BY <1>5, <2>2, <2>3
  <2>5. QED
    BY <2>4 DEF NoneIsOk
<1>p. PICK p, f, n : p = task[r].plan /\ f = task[r].form /\ n = Tail(p)
  OBVIOUS
<1>7. p \in Seq(Errand) /\ p # <<>>
  BY <1>1, <1>2, <1>p DEF Running, UserTypes, UserTypeOK
<1>8. /\ Head(p) = p[1] /\ Len(p) \in Nat /\ Len(p) >= 1 /\ Len(n) = Len(p) - 1
      /\ \A k \in 1..Len(n) : n[k] = p[k + 1]
  <2>1. IsSeq(p)
    BY <1>7 DEF IsSeq
  <2>2. QED
    BY <1>7, <1>p, <2>1, TailElements
<1>9. Len(p) >= 2 /\ 1 \in 1..Len(n) /\ \A k \in 1..Len(n) : k + 1 \in 1..Len(p)
  <2>1. Len(p) # 1
    BY <1>3, <1>p
  <2>2. Len(p) \in Nat /\ Len(p) >= 1 /\ Len(n) = Len(p) - 1
    BY <1>8
  <2>3. QED
    BY <2>1, <2>2
<1>10. \A k \in 1..Len(n) : ForEdit(n[k], a, f)
  BY <1>4, <1>8, <1>9, <1>p DEF WritesAhead
<1>11. n[1] = p[2]
  BY <1>8, <1>9
<1>12. incoming[i].ok \/ p[1].op = "users"
  <2>1. incoming[i].call.q = Head(p)
    BY <1>1, <1>2, <1>p
  <2>2. incoming[i].call.q = p[1]
    BY <1>8, <2>1
  <2>3. QED
    BY <1>3, <2>2
<1>13. people'[a].name = f.name
  BY <1>4, <1>12, <1>p DEF WritesAhead, NoneIsOk, Take
<1>14. f.password => a \in secrets' \/ n[1].op = "password"
  BY <1>4, <1>11, <1>12, <1>p DEF WritesAhead, NoneIsOk, Take
<1>15. task'[r].plan = n /\ task'[r].form = f
  BY <1>3, <1>p
<1>16. QED
  BY <1>5, <1>6, <1>10, <1>13, <1>14, <1>15 DEF WritesAhead

LEMMA EditsStart == UserInit => EditGoesOn
<1> SUFFICES ASSUME UserInit PROVE EditGoesOn
  OBVIOUS
<1>1. \A r \in Tasks : task[r].state = "idle"
  BY DEF UserInit, Finished
<1>2. QED
  BY <1>1 DEF EditGoesOn, Edits, Running

LEMMA EditStepGoesOn ==
  ASSUME UserInv, UserInv', UserTypes, EditGoesOn, [UserNext]_userVars
  PROVE  EditGoesOn'
<1>1. ASSUME NEW c \in outgoing, Replied(c) PROVE EditGoesOn'
  <2>1. CASE Grant(c)
    BY <2>1, RepliedGoesOn DEF Grant
  <2>2. CASE Deny(c)
    BY <2>2, RepliedGoesOn DEF Deny
  <2>3. CASE GrantUnheard(c)
    BY <2>3, RepliedGoesOn DEF GrantUnheard
  <2>4. QED
    BY <1>1, <2>1, <2>2, <2>3 DEF Replied
<1>2. ASSUME NEW i \in DOMAIN incoming, Take(i) PROVE EditGoesOn'
  <2>1. DOMAIN incoming = 1..Len(incoming)
    BY SeqLength DEF UserInv
  <2>2. QED
    BY <1>2, <2>1, TakenGoesOn
<1>3. ASSUME UNCHANGED <<people, secrets, task, incoming>> PROVE EditGoesOn'
  BY <1>3 DEF EditGoesOn, Edits, WritesAhead, Running, NoneIsOk
<1>4. ASSUME NEW a \in Accounts, EditRow(a) \/ openEditUser(a) PROVE EditGoesOn'
  BY <1>3, <1>4 DEF EditRow, openEditUser
<1>5. ASSUME NEW o \in Orgs, EditOrg(o) PROVE EditGoesOn'
  BY <1>3, <1>5 DEF EditOrg
<1>6. ASSUME NEW dialog, Show(dialog) PROVE EditGoesOn'
  BY <1>3, <1>6 DEF Show
<1>7. Type => EditGoesOn'
  BY <1>3 DEF Type
<1>8. UNCHANGED userVars => EditGoesOn'
  BY <1>3 DEF userVars
<1>9. QED
  BY <1>1, <1>2, <1>4, <1>5, <1>6, <1>7, <1>8, ClicksGoOn DEF UserNext

\* An edit that ends well has written everything.
LEMMA EditIsDone ==
  ASSUME UserInv, UserTypes, EditGoesOn, [UserNext]_userVars,
         NEW r \in Tasks, NEW a \in Accounts, Edits(r, a), task'[r].state = "done"
  PROVE  people[a].name = task[r].form.name /\ (task[r].form.password => a \in secrets)
<1>1. task[r].state = "running"
  BY DEF Edits, Running
<1>2. ASSUME task'[r].state = task[r].state \/ task'[r].state = "running"
      PROVE  FALSE
  BY <1>1, <1>2
<1>3. ASSUME NEW s \in Tasks, NEW dialog, NEW write, NEW L, TaskBegins(s, dialog, write, L)
      PROVE  FALSE
  <2>1. {"state", "plan", "closes", "clean", "form"} \subseteq DOMAIN task[r]
    BY DEF UserInv, TaskShape
  <2>2. CASE r = s
    <3>1. task'[r].state = "running"
      BY <1>3, <2>2 DEF TaskBegins
    <3>2. QED
      BY <1>2, <3>1
  <2>3. CASE r # s
    <3>1. task'[r] = [task[r] EXCEPT !.clean = FALSE]
      BY <1>3, <2>3 DEF TaskBegins
    <3>2. task'[r].state = task[r].state
      BY <2>1, <3>1
    <3>3. QED
      BY <1>2, <3>2
  <2>4. QED
    BY <2>2, <2>3
<1>4. ASSUME UNCHANGED task PROVE FALSE
  BY <1>2, <1>4
<1>5. PICK i \in 1..Len(incoming) : Take(i)
  <2>1. DOMAIN incoming = 1..Len(incoming)
    BY SeqLength DEF UserInv
  <2>2. \A c \in outgoing : ~ Replied(c)
    BY <1>4 DEF Replied, Grant, Deny, GrantUnheard, Replies, pageVars
  <2>3. /\ \A b \in Accounts : ~ EditRow(b) /\ ~ openEditUser(b)
        /\ \A o \in Orgs : ~ EditOrg(o)
        /\ \A dialog : ~ Show(dialog)
        /\ ~ Type /\ ~ UNCHANGED userVars
    BY <1>4 DEF EditRow, openEditUser, EditOrg, Show, Type, userVars
  <2>4. \A s \in Tasks : ~ handleEditUserSave(s) /\ ~ handleCreateUser(s) /\ ~ handleCreateOrganization(s)
    BY <1>3 DEF handleEditUserSave, handleCreateUser, handleCreateOrganization
  <2>5. \A s \in Tasks, b \in Accounts : ~ SaveUser(s, b) /\ ~ handleDeactivate(s, b)
    BY <1>3 DEF SaveUser, handleDeactivate
  <2>6. \A s \in Tasks, o \in Orgs : ~ handleOrganizationSave(s, o) /\ ~ handleOrganizationDisable(s, o)
    BY <1>3 DEF handleOrganizationSave, handleOrganizationDisable
  <2>7. QED
    BY <2>1, <2>2, <2>3, <2>4, <2>5, <2>6 DEF UserNext
<1>6. Len(task[r].plan) = 1 /\ WritesAhead(r, a)
  <2>1. PICK s : s = incoming[i].call.by
    OBVIOUS
  <2>2. s = r
    BY <1>2, <1>5, <2>1, TaskCarried
  <2>3. QED
    BY <1>5, <2>1, <2>2, TaskCarried DEF EditGoesOn
<1>7. PICK L \in ListOps : PlanOf(task[r].plan, L)
  BY DEF Edits, UserInv, TaskShape
<1>8. task[r].plan[1].op = L /\ 1 \in 1..Len(task[r].plan)
  BY <1>6, <1>7 DEF PlanOf
<1>9. task[r].plan[1].op = "users"
  BY <1>6, <1>8 DEF WritesAhead, ForEdit, ListOps
<1>10. QED
  BY <1>6, <1>9 DEF WritesAhead

LEMMA EditsKeepWord ==
  UserInv /\ UserTypes /\ EditGoesOn /\ [UserNext]_userVars =>
    [\A r \in Tasks, a \in Accounts :
       task[r].clean /\ task[r].form.of = {a} /\ task[r].state = "running" /\ task'[r].state = "done" =>
         /\ people[a].name = task[r].form.name
         /\ task[r].form.password => a \in secrets]_userVars
<1>1. ASSUME UserInv, UserTypes, EditGoesOn, [UserNext]_userVars, NEW r \in Tasks, NEW a \in Accounts,
             task[r].clean, task[r].form.of = {a}, task[r].state = "running", task'[r].state = "done"
      PROVE  people[a].name = task[r].form.name /\ (task[r].form.password => a \in secrets)
  <2>1. Edits(r, a)
    BY <1>1 DEF Edits, Running
  <2>2. QED
    BY <1>1, <2>1, EditIsDone
<1>2. QED
  BY <1>1

\* An edit of a user that tells success, and that no other click came between, has given the
\* user the name of the form, and the password, if one was typed; whatever was written before,
\* and however many users and tasks there are (UsersPage.jsx:215-241).
THEOREM EditsAreTrue == UserSpec => EditDoesWhatItSays
<1>1. UserInit => UserInv /\ UserTypes /\ EditGoesOn
  BY UsersStart, UserTypesStart, EditsStart
<1>2. UserInv /\ UserTypes /\ EditGoesOn /\ [UserNext]_userVars => (UserInv /\ UserTypes /\ EditGoesOn)'
  BY UserStepKeeps, UserStepTypes, EditStepGoesOn
<1>3. QED
  BY <1>1, <1>2, EditsKeepWord, PTL DEF UserSpec, EditDoesWhatItSays

\* The users page keeps its types, for any accounts, organizations, roles and tasks.
THEOREM UsersTyped == UserSpec => []UserTypeOK
<1>1. UserInit => UserInv /\ UserTypes
  BY UsersStart, UserTypesStart
<1>2. UserInv /\ UserTypes /\ [UserNext]_userVars => (UserInv /\ UserTypes)'
  BY UserStepKeeps, UserStepTypes
<1>3. UserTypes => UserTypeOK
  BY DEF UserTypes
<1>4. QED
  BY <1>1, <1>2, <1>3, PTL DEF UserSpec

-----------------------------------------------------------------------------
(***************************************************************************)
(* The fleet page.                                                         *)
(***************************************************************************)

(* The pages of the fleet.                                                 *)

\* What is asked for names what there may be.
WellAsked(q) ==
  /\ q.op \in {"createFleet", "updateFleet", "deleteFleet", "assignUsers", "removeUser"} \cup Modals =>
       q.of \subseteq Fleets
  /\ q.op \in {"createVehicle", "updateVehicle", "deleteVehicle"} =>
       q.of \subseteq Craft /\ q.to \subseteq Fleets
  /\ q.op \in {"assignUsers", "removeUser"} => q.to \subseteq Members
  /\ q.op = "deleteVehicle" => q.to = {}

WellPlanned(plan) == IsSeq(plan) /\ \A k \in 1..Len(plan) : \A q \in plan[k] : WellAsked(q)

WellFilled(m, f) ==
  /\ f \in Form
  /\ f.of \subseteq IF m = "vehicle" THEN Craft ELSE Fleets

WellAnswered(a) == WellAsked(a.call.q) /\ a.now \in Database /\ a.page \subseteq a.now.vehicles

FleetShape ==
  /\ srv \in Database /\ store \in Stored
  /\ modal \in Modals \cup {"none"}
  /\ DOMAIN form = Modals /\ \A m \in Modals : WellFilled(m, form[m])
  /\ DOMAIN run = Runs
  /\ \A r \in Runs : {"state", "plan", "closes", "clean", "fleet", "form"} \subseteq DOMAIN run[r]
  /\ \A r \in Runs : run[r].state = "running" => WellPlanned(run[r].plan) /\ run[r].plan # <<>>
  /\ \A c \in pending : WellAsked(c.q)
  /\ IsSeq(answers)
  /\ \A i \in 1..Len(answers) : WellAnswered(answers[i])

View == [fleets |-> srv.fleets, vehicles |-> srv.vehicles, at |-> srv.at]

\* What a store that listed everything would make of an answer.
FullMerged(t, q, now) ==
  IF q.op = "listVehicles" THEN [fleets |-> t.fleets, vehicles |-> now.vehicles, at |-> now.at]
  ELSE Merged(t, q, now, {})

TakenIn(t, a) == IF a.ok THEN FullMerged(t, a.call.q, a.now) ELSE t

\* A store that lists some of the vehicles, or all of them.
PartOf(s, all, t) ==
  /\ s.fleets = t.fleets
  /\ s.vehicles \subseteq t.vehicles /\ (all => s.vehicles = t.vehicles)
  /\ \A v \in Craft : s.at[v] = IF v \in s.vehicles THEN t.at[v] ELSE {}

\* The answers, taken in one after the other, make of what the store shows what the
\* database is.
CatchesUp == \E T :
  /\ T[0] \in Stored /\ PartOf(store, whole, T[0]) /\ T[Len(answers)] = View
  /\ \A i \in 1..Len(answers) : T[i] = TakenIn(T[i - 1], answers[i])

FleetInv == FleetShape /\ (smooth => CatchesUp)

-----------------------------------------------------------------------------
(* Plans.                                                                  *)

LEMMA NothingPlanned == WellPlanned(<<>>)
<1>1. IsSeq(<<>>) /\ \A k \in 1..Len(<<>>) : FALSE
  BY EmptyIsSeq
<1>2. QED
  BY <1>1 DEF WellPlanned

LEMMA OneStage == ASSUME NEW S, \A q \in S : WellAsked(q) PROVE WellPlanned(<<S>>) /\ <<S>> # <<>>
<1>1. IsSeq(<<S>>) /\ Len(<<S>>) = 1 /\ <<S>>[1] = S
  BY SingleIsSeq
<1>2. QED
  BY <1>1, NotEmpty DEF WellPlanned

LEMMA TwoStages ==
  ASSUME NEW S, NEW T, \A q \in S : WellAsked(q), \A q \in T : WellAsked(q)
  PROVE  WellPlanned(<<S, T>>)
<1>1. <<S, T>> \in Seq({S, T}) /\ Len(<<S, T>>) = 2 /\ \A k \in 1..2 : <<S, T>>[k] \in {S, T}
  OBVIOUS
<1>2. QED
  BY <1>1 DEF WellPlanned, IsSeq

LEMMA StagesJoined ==
  ASSUME NEW s, NEW t, WellPlanned(s), WellPlanned(t)
  PROVE  WellPlanned(s \o t) /\ (s # <<>> => s \o t # <<>>)
<1>1. PICK S : s \in Seq(S)
  BY DEF WellPlanned, IsSeq
<1>2. PICK U : t \in Seq(U)
  BY DEF WellPlanned, IsSeq
<1>3. s \in Seq(S \cup U) /\ t \in Seq(S \cup U)
  BY <1>1, <1>2, SeqMonotonic
<1>4. s \o t \in Seq(S \cup U) /\ (s # <<>> => s \o t # <<>>)
  BY <1>3
<1>5. ASSUME NEW k \in 1..Len(s \o t)
      PROVE  \A q \in (s \o t)[k] : WellAsked(q)
  <2>1. CASE k <= Len(s)
    <3>1. k \in 1..Len(s) /\ (s \o t)[k] = s[k]
      BY <1>3, <1>5, <2>1
    <3>2. QED
      BY <3>1 DEF WellPlanned
  <2>2. CASE ~ (k <= Len(s))
    <3>1. k - Len(s) \in 1..Len(t) /\ (s \o t)[k] = t[k - Len(s)]
      BY <1>3, <1>5, <2>2
    <3>2. QED
      BY <3>1 DEF WellPlanned
  <2>3. QED
    BY <2>1, <2>2
<1>6. IsSeq(s \o t)
  BY <1>4 DEF IsSeq
<1>7. QED
  BY <1>4, <1>5, <1>6 DEF WellPlanned

LEMMA StagesLeft ==
  ASSUME NEW plan, WellPlanned(plan), plan # <<>>
  PROVE  WellPlanned(Tail(plan)) /\ \A q \in Head(plan) : WellAsked(q)
<1> DEFINE rest == Tail(plan)
<1>1. /\ IsSeq(rest) /\ Len(plan) \in Nat /\ Len(plan) >= 1 /\ Len(rest) = Len(plan) - 1
      /\ Head(plan) = plan[1] /\ \A j \in 1..Len(rest) : rest[j] = plan[j + 1]
  BY TailElements DEF WellPlanned
<1> HIDE DEF rest
<1>2. WellPlanned(rest)
  <2>1. \A j \in 1..Len(rest) : j + 1 \in 1..Len(plan)
    BY <1>1
  <2>2. QED
    BY <1>1, <2>1 DEF WellPlanned
<1>3. 1 \in 1..Len(plan)
  BY <1>1
<1>4. QED
  BY <1>1, <1>2, <1>3 DEF WellPlanned, rest

LEMMA InSomeOrder ==
  ASSUME NEW S, IsFiniteSet(S), NEW leave \in SetToSeqs(S)
  PROVE  leave \in Seq(S)
<1>1. Cardinality(S) \in Nat
  BY FS_CardinalityType
<1>2. leave \in [1..Cardinality(S) -> S]
  BY DEF SetToSeqs
<1>3. QED
  BY <1>1, <1>2

\* What a form makes of a fleet and its members is well asked.
LEMMA VehiclesPlanned ==
  ASSUME NEW f \in Fleets, NEW fm \in Form
  PROVE  WellPlanned(VehicleStage(f, fm))
<1> DEFINE S == {[op |-> "updateVehicle", of |-> {v}, to |-> {f}] : v \in fm.vehicles \ fm.hadVehicles}
                \cup {[op |-> "updateVehicle", of |-> {v}, to |-> {}] : v \in fm.hadVehicles \ fm.vehicles}
<1>1. fm.vehicles \subseteq Craft /\ fm.hadVehicles \subseteq Craft
  BY DEF Form
<1>2. \A q \in S : q.op = "updateVehicle" /\ q.of \subseteq Craft /\ q.to \subseteq Fleets
  BY <1>1
<1>3. \A q \in S : WellAsked(q)
  BY <1>2 DEF WellAsked, Modals
<1>4. WellPlanned(<<>>) /\ WellPlanned(<<S>>)
  BY <1>3, NothingPlanned, OneStage
<1>5. QED
  BY <1>4 DEF VehicleStage, Unless

LEMMA MembersPlanned ==
  ASSUME NEW f \in Fleets, NEW fm \in Form, NEW leave \in SetToSeqs(fm.hadMembers \ fm.members)
  PROVE  WellPlanned(MemberStages(f, fm, leave))
<1> DEFINE join == fm.members \ fm.hadMembers
           joins == {[op |-> "assignUsers", of |-> {f}, to |-> join]}
           first == IF join = {} THEN <<>> ELSE <<joins>>
           leaves == [i \in DOMAIN leave |-> {[op |-> "removeUser", of |-> {f}, to |-> {leave[i]}]}]
<1>1. fm.members \subseteq Members /\ fm.hadMembers \subseteq Members
  BY DEF Form
<1>2. IsFiniteSet(fm.hadMembers \ fm.members)
  BY <1>1, FS_Subset, WorldAssumption
<1>3. leave \in Seq(fm.hadMembers \ fm.members)
  BY <1>2, InSomeOrder
<1>4. \A q \in joins : WellAsked(q)
  BY <1>1 DEF WellAsked, Modals
<1>5. WellPlanned(first)
  BY <1>4, NothingPlanned, OneStage
<1>6. WellPlanned(leaves)
  <2>1. /\ DOMAIN leave = 1..Len(leave) /\ Len(leave) \in Nat
        /\ \A i \in 1..Len(leave) : leave[i] \in Members
    BY <1>1, <1>3
  <2> DEFINE all == {{[op |-> "removeUser", of |-> {f}, to |-> {u}]} : u \in Members}
  <2>2. leaves \in Seq(all) /\ Len(leaves) = Len(leave)
    <3>1. \A i \in 1..Len(leave) : {[op |-> "removeUser", of |-> {f}, to |-> {leave[i]}]} \in all
      BY <2>1
    <3> HIDE DEF all
    <3>2. leaves \in [1..Len(leave) -> all]
      BY <2>1, <3>1
    <3> HIDE DEF leaves
    <3>3. QED
      BY <2>1, <3>2
  <2>3. ASSUME NEW i \in 1..Len(leaves)
        PROVE  \A q \in leaves[i] : WellAsked(q)
    <3>1. leaves[i] = {[op |-> "removeUser", of |-> {f}, to |-> {leave[i]}]} /\ leave[i] \in Members
      BY <2>1, <2>2
    <3>2. \A q \in leaves[i] : q.op = "removeUser" /\ q.of = {f} /\ q.to \subseteq Members
      BY <3>1
    <3>3. QED
      BY <3>2 DEF WellAsked, Modals
  <2>5. IsSeq(leaves)
    BY <2>2 DEF IsSeq
  <2>6. QED
    BY <2>3, <2>5 DEF WellPlanned
<1>7. MemberStages(f, fm, leave) = first \o leaves
  BY DEF MemberStages
<1> HIDE DEF first, leaves
<1>8. QED
  BY <1>5, <1>6, <1>7, StagesJoined

LEMMA FleetPlanned ==
  ASSUME NEW f \in Fleets, NEW fm \in Form, NEW op \in {"createFleet", "updateFleet"},
         NEW leave \in SetToSeqs(fm.hadMembers \ fm.members)
  PROVE  WellPlanned(<<{[op |-> op, of |-> {f}, to |-> {}]}>> \o VehicleStage(f, fm)
                     \o MemberStages(f, fm, leave) \o <<{Get(o) : o \in Lists}>>)
<1> DEFINE put == <<{[op |-> op, of |-> {f}, to |-> {}]}>>
           lists == <<{Get(o) : o \in Lists}>>
<1>1. WellPlanned(put)
  <2>1. \A q \in {[op |-> op, of |-> {f}, to |-> {}]} : WellAsked(q)
    BY DEF WellAsked, Modals
  <2>2. QED
    BY <2>1, OneStage
<1>2. WellPlanned(lists)
  <2>1. \A q \in {Get(o) : o \in Lists} : q.op \in {"listVehicles", "listFleets"}
    BY DEF Get, Lists
  <2>2. \A q \in {Get(o) : o \in Lists} : WellAsked(q)
    BY <2>1 DEF WellAsked, Modals
  <2>3. QED
    BY <2>2, OneStage
<1>3. WellPlanned(VehicleStage(f, fm)) /\ WellPlanned(MemberStages(f, fm, leave))
  BY VehiclesPlanned, MembersPlanned
<1> HIDE DEF put, lists
<1>4. WellPlanned(put \o VehicleStage(f, fm))
  BY <1>1, <1>3, StagesJoined
<1>5. WellPlanned(put \o VehicleStage(f, fm) \o MemberStages(f, fm, leave))
  BY <1>3, <1>4, StagesJoined
<1>6. WellPlanned(put \o VehicleStage(f, fm) \o MemberStages(f, fm, leave) \o lists)
  BY <1>2, <1>5, StagesJoined
<1>7. QED
  BY <1>6 DEF put, lists

-----------------------------------------------------------------------------
(* The server.                                                             *)

LEMMA CarriedKeeps ==
  ASSUME srv \in Database, NEW q, WellAsked(q), Carried(q)
  PROVE  srv' \in Database
<1> DEFINE put == [v \in Craft |-> IF v \in q.of THEN q.to ELSE srv.at[v]]
           freed == [v \in Craft |-> srv.at[v] \ q.of]
           gone == [f \in Fleets |-> IF f \in q.of THEN {} ELSE srv.members[f]]
           joined == [f \in Fleets |-> IF f \in q.of THEN srv.members[f] \cup q.to ELSE srv.members[f]]
           left == [f \in Fleets |-> IF f \in q.of THEN srv.members[f] \ q.to ELSE srv.members[f]]
<1>1. /\ srv.fleets \in SUBSET Fleets /\ srv.vehicles \in SUBSET Craft
      /\ srv.at \in [Craft -> SUBSET Fleets] /\ srv.members \in [Fleets -> SUBSET Members]
  BY DEF Database
<1>2. q.to \subseteq Fleets => put \in [Craft -> SUBSET Fleets]
  BY <1>1
<1>3. freed \in [Craft -> SUBSET Fleets] /\ gone \in [Fleets -> SUBSET Members]
      /\ left \in [Fleets -> SUBSET Members]
  BY <1>1
<1>4. q.to \subseteq Members => joined \in [Fleets -> SUBSET Members]
  BY <1>1
<1>5. srv' = CASE q.op = "createFleet" -> [srv EXCEPT !.fleets = @ \cup q.of]
               [] q.op = "deleteFleet" -> [srv EXCEPT !.fleets = @ \ q.of, !.at = freed, !.members = gone]
               [] q.op = "createVehicle" -> [srv EXCEPT !.vehicles = @ \cup q.of, !.at = put]
               [] q.op = "updateVehicle" -> [srv EXCEPT !.at = put]
               [] q.op = "deleteVehicle" -> [srv EXCEPT !.vehicles = @ \ q.of, !.at = put]
               [] q.op = "assignUsers" -> [srv EXCEPT !.members = joined]
               [] q.op = "removeUser" -> [srv EXCEPT !.members = left]
               [] OTHER -> srv
  BY DEF Carried
<1> HIDE DEF put, freed, gone, joined, left
<1>6. CASE q.op \in {"createFleet", "deleteFleet"}
  <2>1. q.of \subseteq Fleets
    BY <1>6 DEF WellAsked
  <2>2. QED
    BY <1>1, <1>3, <1>5, <1>6, <2>1 DEF Database
<1>7. CASE q.op \in {"createVehicle", "updateVehicle", "deleteVehicle"}
  <2>1. q.of \subseteq Craft /\ q.to \subseteq Fleets
    BY <1>7 DEF WellAsked
  <2>2. QED
    BY <1>1, <1>2, <1>5, <1>7, <2>1 DEF Database
<1>8. CASE q.op \in {"assignUsers", "removeUser"}
  <2>1. q.to \subseteq Members
    BY <1>8 DEF WellAsked
  <2>2. QED
    BY <1>1, <1>3, <1>4, <1>5, <1>8, <2>1 DEF Database
<1>9. QED
  BY <1>5, <1>6, <1>7, <1>8

\* What the server does to the database the store does to what it holds of it.
LEMMA CarriedShown ==
  ASSUME srv \in Database, NEW q, WellAsked(q), Possible(q), Carried(q)
  PROVE  View' = FullMerged(View, q, srv')
<1>1. /\ View.fleets = srv.fleets /\ View.vehicles = srv.vehicles /\ View.at = srv.at
      /\ \A x : [View EXCEPT !.fleets = x] = [fleets |-> x, vehicles |-> srv.vehicles, at |-> srv.at]
      /\ \A y : [View EXCEPT !.at = y] = [fleets |-> srv.fleets, vehicles |-> srv.vehicles, at |-> y]
  <2>1. View.fleets = srv.fleets /\ View.vehicles = srv.vehicles /\ View.at = srv.at
    BY DEF View
  <2>2. \A x : [View EXCEPT !.fleets = x] = [fleets |-> x, vehicles |-> srv.vehicles, at |-> srv.at]
    BY DEF View
  <2>3. \A y : [View EXCEPT !.at = y] = [fleets |-> srv.fleets, vehicles |-> srv.vehicles, at |-> y]
    BY DEF View
  <2>4. QED
    BY <2>1, <2>2, <2>3
<1>2. View' = [fleets |-> srv'.fleets, vehicles |-> srv'.vehicles, at |-> srv'.at]
  BY DEF View
<1>3. DOMAIN srv = {"fleets", "vehicles", "at", "members"}
  BY DEF Database
<1> DEFINE put == [v \in Craft |-> IF v \in q.of THEN q.to ELSE srv.at[v]]
<1>4. CASE q.op \in {"createVehicle", "updateVehicle", "deleteVehicle"}
  <2>1. srv' = CASE q.op = "createVehicle" -> [srv EXCEPT !.vehicles = @ \cup q.of, !.at = put]
                 [] q.op = "updateVehicle" -> [srv EXCEPT !.at = put]
                 [] q.op = "deleteVehicle" -> [srv EXCEPT !.vehicles = @ \ q.of, !.at = put]
    BY <1>4 DEF Carried
  <2>2. \A v \in Craft : put[v] = IF v \in q.of THEN q.to ELSE srv.at[v]
    OBVIOUS
  <2>3. put = [v \in Craft |-> IF v \in q.of THEN put[v] ELSE srv.at[v]]
    BY <2>2
  <2>4. q.op = "updateVehicle" => put = [v \in Craft |-> IF v \in q.of \cap srv.vehicles THEN put[v] ELSE srv.at[v]]
    BY <2>2 DEF Possible
  <2>5. q.op = "deleteVehicle" => put = [v \in Craft |-> IF v \in q.of THEN {} ELSE srv.at[v]]
    BY <2>2 DEF WellAsked
  <2> HIDE DEF put
  <2>6. srv'.at = put /\ srv'.fleets = srv.fleets
    BY <1>3, <1>4, <2>1
  <2>7. CASE q.op = "createVehicle"
    <3>1. srv'.vehicles = srv.vehicles \cup q.of
      BY <1>3, <2>1, <2>7
    <3>2. FullMerged(View, q, srv') = [fleets |-> srv.fleets, vehicles |-> srv.vehicles \cup q.of,
            at |-> [v \in Craft |-> IF v \in q.of THEN put[v] ELSE srv.at[v]]]
      BY <1>1, <2>6, <2>7 DEF FullMerged, Merged, createVehicle, updateVehicle, deleteVehicle, deleteFleet
    <3>3. QED
      BY <1>2, <2>3, <2>6, <3>1, <3>2
  <2>8. CASE q.op = "updateVehicle"
    <3>1. srv'.vehicles = srv.vehicles
      BY <1>3, <2>1, <2>8
    <3>2. FullMerged(View, q, srv') = [fleets |-> srv.fleets, vehicles |-> srv.vehicles,
            at |-> [v \in Craft |-> IF v \in q.of \cap srv.vehicles THEN put[v] ELSE srv.at[v]]]
      BY <1>1, <2>6, <2>8 DEF FullMerged, Merged, createVehicle, updateVehicle, deleteVehicle, deleteFleet
    <3>3. QED
      BY <1>2, <2>4, <2>6, <2>8, <3>1, <3>2
  <2>9. CASE q.op = "deleteVehicle"
    <3>1. srv'.vehicles = srv.vehicles \ q.of
      BY <1>3, <2>1, <2>9
    <3>2. FullMerged(View, q, srv') = [fleets |-> srv.fleets, vehicles |-> srv.vehicles \ q.of,
            at |-> [v \in Craft |-> IF v \in q.of THEN {} ELSE srv.at[v]]]
      BY <1>1, <2>9 DEF FullMerged, Merged, createVehicle, updateVehicle, deleteVehicle, deleteFleet
    <3>3. QED
      BY <1>2, <2>5, <2>6, <2>9, <3>1, <3>2
  <2>10. QED
    BY <1>4, <2>7, <2>8, <2>9
<1>5. CASE q.op = "createFleet"
  <2>1. srv'.fleets = srv.fleets \cup q.of /\ srv'.vehicles = srv.vehicles /\ srv'.at = srv.at
    BY <1>3, <1>5 DEF Carried
  <2>2. FullMerged(View, q, srv') = [fleets |-> srv.fleets \cup q.of, vehicles |-> srv.vehicles, at |-> srv.at]
    BY <1>1, <1>5 DEF FullMerged, Merged, createVehicle, updateVehicle, deleteVehicle, deleteFleet
  <2>3. QED
    BY <1>2, <2>1, <2>2
<1>6. CASE q.op = "deleteFleet"
  <2>1. /\ srv'.fleets = srv.fleets \ q.of /\ srv'.vehicles = srv.vehicles
        /\ srv'.at = [v \in Craft |-> srv.at[v] \ q.of]
    BY <1>3, <1>6 DEF Carried
  <2>2. FullMerged(View, q, srv') = [fleets |-> srv.fleets \ q.of, vehicles |-> srv.vehicles,
                                   at |-> [v \in Craft |-> srv.at[v] \ q.of]]
    BY <1>1, <1>6 DEF FullMerged, Merged, createVehicle, updateVehicle, deleteVehicle, deleteFleet
  <2>3. QED
    BY <1>2, <2>1, <2>2
<1>7. CASE q.op \in Lists
  <2>1. srv' = srv
    BY <1>7 DEF Carried, Lists
  <2>2. FullMerged(View, q, srv') = [fleets |-> srv.fleets, vehicles |-> srv.vehicles, at |-> srv.at]
    BY <1>1, <1>7, <2>1 DEF FullMerged, Merged, Lists
  <2>3. QED
    BY <1>2, <2>1, <2>2
<1>8. CASE q.op \notin {"createVehicle", "updateVehicle", "deleteVehicle", "createFleet", "deleteFleet"} \cup Lists
  <2>1. srv'.fleets = srv.fleets /\ srv'.vehicles = srv.vehicles /\ srv'.at = srv.at
    BY <1>3, <1>8 DEF Carried
  <2>2. FullMerged(View, q, srv') = View
    BY <1>8 DEF FullMerged, Merged, Lists
  <2>3. QED
    BY <2>1, <2>2 DEF View
<1>9. QED
  BY <1>4, <1>5, <1>6, <1>7, <1>8

\* What is answered, whatever page of the vehicles is told.
LEMMA AnswerGiven ==
  ASSUME NEW c, NEW ok, Responds(c, ok)
  PROVE  \E a : /\ answers' = Append(answers, a)
               /\ a.call = c /\ a.ok = ok /\ a.now = srv' /\ a.page \subseteq srv'.vehicles
<1>1. PICK P \in IF ok /\ c.q.op = "listVehicles" THEN FirstPages(srv'.vehicles) ELSE {{}} :
        answers' = Append(answers, [call |-> c, ok |-> ok, now |-> srv', page |-> P])
  BY DEF Responds
<1>2. P \subseteq srv'.vehicles
  BY DEF FirstPages
<1>3. PICK a : a = [call |-> c, ok |-> ok, now |-> srv', page |-> P]
  OBVIOUS
<1>4. QED
  BY <1>1, <1>2, <1>3

LEMMA RespondsKeeps ==
  ASSUME FleetShape, NEW c \in pending, NEW ok, Responds(c, ok), srv' \in Database
  PROVE  FleetShape'
<1>0. PICK a : /\ answers' = Append(answers, a)
               /\ a.call = c /\ a.ok = ok /\ a.now = srv' /\ a.page \subseteq srv'.vehicles
  BY AnswerGiven
<1>1. answers' = Append(answers, a) /\ pending' = pending \ {c} /\ UNCHANGED <<store, modal, form, run>>
  BY <1>0 DEF Responds
<1>2. WellAsked(c.q) => WellAnswered(a)
  BY <1>0 DEF WellAnswered
<1>3. /\ IsSeq(answers') /\ Len(answers) \in Nat /\ Len(answers') = Len(answers) + 1
      /\ answers'[Len(answers) + 1] = a
  BY ZenonT(40), <1>1, AppendedElements DEF FleetShape
<1>4. \A i \in 1..Len(answers) : answers'[i] = answers[i]
  BY <1>1, AppendedElements DEF FleetShape
<1>5. ASSUME NEW i \in 1..Len(answers')
      PROVE  WellAnswered(answers'[i])
  <2>1. i \in 1..Len(answers) \/ i = Len(answers) + 1
    BY <1>3
  <2>2. WellAsked(c.q)
    BY DEF FleetShape
  <2>3. QED
    BY <1>2, <1>3, <1>4, <2>1, <2>2 DEF FleetShape
<1>6. \A r \in Runs : run'[r].state = "running" => WellPlanned(run'[r].plan) /\ run'[r].plan # <<>>
  BY <1>1 DEF FleetShape
<1>7. QED
  BY <1>1, <1>3, <1>5, <1>6 DEF FleetShape

LEMMA AnswerComesLast ==
  ASSUME FleetShape, CatchesUp, NEW c \in pending, NEW ok, Responds(c, ok),
         View' = IF ok THEN FullMerged(View, c.q, srv') ELSE View
  PROVE  CatchesUp'
<1>0. PICK a : /\ answers' = Append(answers, a)
               /\ a.call = c /\ a.ok = ok /\ a.now = srv' /\ a.page \subseteq srv'.vehicles
  BY AnswerGiven
<1>1. PICK n : n = Len(answers)
  OBVIOUS
<1>2. /\ n \in Nat /\ Len(answers') = n + 1 /\ answers'[n + 1] = a /\ store' = store /\ whole' = whole
      /\ \A i \in 1..n : answers'[i] = answers[i]
  <2>1. answers' = Append(answers, a) /\ store' = store /\ whole' = whole
    BY <1>0 DEF Responds
  <2>2. n \in Nat /\ Len(answers') = n + 1 /\ answers'[n + 1] = a
    BY <1>1, <2>1, AppendedElements DEF FleetShape
  <2>3. \A i \in 1..n : answers'[i] = answers[i]
    BY <1>1, <2>1, AppendedElements DEF FleetShape
  <2>4. QED
    BY <2>1, <2>2, <2>3
<1>3. PICK T : /\ T[0] \in Stored /\ PartOf(store, whole, T[0]) /\ T[n] = View
               /\ \A i \in 1..n : T[i] = TakenIn(T[i - 1], answers[i])
  BY <1>1 DEF CatchesUp
<1>4. PICK U : U = [i \in 0..(n + 1) |-> IF i <= n THEN T[i] ELSE View']
  OBVIOUS
<1>5. /\ \A i \in 0..n : U[i] = T[i]
      /\ U[n + 1] = View'
  BY <1>2, <1>4
<1>6. TakenIn(View, a) = View'
  BY <1>0 DEF TakenIn
<1>7. ASSUME NEW i \in 1..(n + 1)
      PROVE  U[i] = TakenIn(U[i - 1], answers'[i])
  <2>1. CASE i = n + 1
    <3>1. U[i - 1] = View
      BY <1>2, <1>3, <1>5, <2>1
    <3>2. QED
      BY <1>2, <1>5, <1>6, <2>1, <3>1
  <2>2. CASE i # n + 1
    <3>1. i \in 1..n /\ i \in 0..n /\ i - 1 \in 0..n
      BY <1>2, <2>2
    <3>2. QED
      BY <1>2, <1>3, <1>5, <3>1
  <2>3. QED
    BY <2>1, <2>2
<1>8. U[0] \in Stored /\ PartOf(store', whole', U[0])
  BY <1>2, <1>3, <1>5
<1>9. QED
  BY <1>2, <1>5, <1>7, <1>8 DEF CatchesUp

LEMMA ServedKeeps ==
  ASSUME FleetInv, NEW c \in pending, Served(c)
  PROVE  FleetInv'
<1>1. WellAsked(c.q) /\ FleetShape /\ srv \in Database
  BY DEF FleetInv, FleetShape
<1>2. CASE Serve(c)
  <2>1. Carried(c.q) /\ Possible(c.q) /\ Responds(c, TRUE) /\ smooth' = smooth
    BY <1>2 DEF Serve
  <2>2. srv' \in Database /\ View' = FullMerged(View, c.q, srv')
    BY <1>1, <2>1, CarriedKeeps, CarriedShown
  <2>3. QED
    BY <1>1, <2>1, <2>2, RespondsKeeps, AnswerComesLast DEF FleetInv
<1>3. CASE NotFound(c) \/ Refuse(c)
  <2>1. srv' = srv /\ Responds(c, FALSE) /\ (smooth' => smooth)
    <3>1. NotFound(c) => srv' = srv /\ Responds(c, FALSE) /\ (smooth' => smooth)
      <4>1. NotFound(c) => smooth' = smooth
        BY DEF NotFound
      <4>2. NotFound(c) => srv' = srv /\ Responds(c, FALSE)
        BY DEF NotFound
      <4>3. QED
        BY <4>1, <4>2
    <3>2. Refuse(c) => srv' = srv /\ Responds(c, FALSE) /\ (smooth' => smooth)
      BY DEF Refuse
    <3>3. QED
      BY <1>3, <3>1, <3>2
  <2>2. srv' \in Database /\ View' = View
    BY <1>1, <2>1 DEF View
  <2>3. QED
    BY <1>1, <2>1, <2>2, RespondsKeeps, AnswerComesLast DEF FleetInv
<1>4. CASE LoseAnswer(c)
  <2>1. Carried(c.q) /\ Responds(c, FALSE) /\ smooth' = FALSE
    BY <1>4 DEF LoseAnswer
  <2>2. QED
    BY <1>1, <2>1, CarriedKeeps, RespondsKeeps DEF FleetInv
<1>5. QED
  BY <1>2, <1>3, <1>4 DEF Served

-----------------------------------------------------------------------------
(* The page takes an answer in.                                            *)

LEMMA MergedKeeps ==
  ASSUME NEW s \in Stored, NEW q, WellAsked(q), NEW now \in Database, NEW page \in SUBSET Craft
  PROVE  Merged(s, q, now, page) \in Stored /\ FullMerged(s, q, now) \in Stored
<1>1. /\ s.fleets \in SUBSET Fleets /\ s.vehicles \in SUBSET Craft /\ s.at \in [Craft -> SUBSET Fleets]
      /\ now.fleets \in SUBSET Fleets /\ now.vehicles \in SUBSET Craft
      /\ now.at \in [Craft -> SUBSET Fleets]
  BY DEF Stored, Database
<1>2. CASE q.op \in {"createVehicle", "updateVehicle", "deleteVehicle"}
  <2>1. q.of \subseteq Craft
    BY <1>2 DEF WellAsked
  <2>2. createVehicle(s, q, now) \in Stored
    BY <1>1, <2>1 DEF createVehicle, Stored
  <2>3. updateVehicle(s, q, now) \in Stored
    BY <1>1, <2>1 DEF updateVehicle, Stored
  <2>4. deleteVehicle(s, q) \in Stored
    BY <1>1, <2>1 DEF deleteVehicle, Stored
  <2>5. QED
    BY <1>2, <2>2, <2>3, <2>4 DEF Merged, FullMerged
<1>3. CASE q.op \in {"createFleet", "deleteFleet"}
  <2>1. q.of \subseteq Fleets
    BY <1>3 DEF WellAsked
  <2>2. deleteFleet(s, q) \in Stored
    BY <1>1, <2>1 DEF deleteFleet, Stored
  <2>3. [s EXCEPT !.fleets = @ \cup q.of] \in Stored
    BY <1>1, <2>1 DEF Stored
  <2>4. QED
    BY <1>3, <2>2, <2>3 DEF Merged, FullMerged
<1>4. CASE q.op \in Lists
  <2>1. [fleets |-> s.fleets, vehicles |-> now.vehicles, at |-> now.at] \in Stored
    BY <1>1 DEF Stored
  <2>2. [s EXCEPT !.fleets = now.fleets] \in Stored
    BY <1>1 DEF Stored
  <2>3. Located(page, now.at) \in [Craft -> SUBSET Fleets]
    BY <1>1 DEF Located
  <2>4. [fleets |-> s.fleets, vehicles |-> page, at |-> Located(page, now.at)] \in Stored
    BY <1>1, <2>3 DEF Stored
  <2>5. QED
    BY <1>4, <2>1, <2>2, <2>4 DEF Merged, FullMerged, Lists
<1>5. CASE q.op \notin {"createVehicle", "updateVehicle", "deleteVehicle", "createFleet", "deleteFleet"} \cup Lists
  BY <1>5 DEF Merged, FullMerged, Lists
<1>6. QED
  BY <1>2, <1>3, <1>4, <1>5

\* What lists some of the vehicles goes on to list some, and where they are; the next
\* list settles whether it lists all.
LEMMA MergedIsPart ==
  ASSUME NEW s \in Stored, NEW t \in Stored, NEW all, PartOf(s, all, t),
         NEW q, NEW now \in Database, NEW page \in SUBSET now.vehicles
  PROVE  PartOf(Merged(s, q, now, page),
               IF q.op = "listVehicles" THEN page = now.vehicles ELSE all, FullMerged(t, q, now))
<1>1. PICK u, w : u = Merged(s, q, now, page) /\ w = FullMerged(t, q, now)
  OBVIOUS
<1>2. /\ s.fleets = t.fleets /\ s.vehicles \subseteq t.vehicles /\ (all => s.vehicles = t.vehicles)
      /\ \A v \in Craft : s.at[v] = IF v \in s.vehicles THEN t.at[v] ELSE {}
  BY DEF PartOf
<1>3. DOMAIN s = {"fleets", "vehicles", "at"} /\ DOMAIN t = {"fleets", "vehicles", "at"}
  BY DEF Stored
<1>4. CASE q.op = "listVehicles"
  <2>1. u.fleets = s.fleets /\ u.vehicles = page /\ u.at = Located(page, now.at)
    BY <1>1, <1>4 DEF Merged
  <2>2. w.fleets = t.fleets /\ w.vehicles = now.vehicles /\ w.at = now.at
    BY <1>1, <1>4 DEF FullMerged
  <2>3. \A v \in Craft : u.at[v] = IF v \in page THEN w.at[v] ELSE {}
    BY <2>1, <2>2 DEF Located
  <2>4. QED
    BY <1>1, <1>2, <1>4, <2>1, <2>2, <2>3 DEF PartOf
<1>5. CASE q.op \in {"listFleets", "createFleet"}
  <2>1. u.vehicles = s.vehicles /\ u.at = s.at /\ w.vehicles = t.vehicles /\ w.at = t.at
    BY <1>1, <1>3, <1>5 DEF Merged, FullMerged
  <2>2. u.fleets = w.fleets
    BY <1>1, <1>2, <1>3, <1>5 DEF Merged, FullMerged
  <2>3. QED
    BY <1>1, <1>2, <1>5, <2>1, <2>2 DEF PartOf
<1>6. CASE q.op = "deleteFleet"
  <2>1. /\ u.fleets = s.fleets \ q.of /\ u.vehicles = s.vehicles
        /\ u.at = [v \in Craft |-> s.at[v] \ q.of]
    BY <1>1, <1>6 DEF Merged, deleteFleet
  <2>2. /\ w.fleets = t.fleets \ q.of /\ w.vehicles = t.vehicles
        /\ w.at = [v \in Craft |-> t.at[v] \ q.of]
    BY <1>1, <1>6 DEF Merged, FullMerged, deleteFleet
  <2>3. \A v \in Craft : u.at[v] = IF v \in u.vehicles THEN w.at[v] ELSE {}
    BY <1>2, <2>1, <2>2
  <2>4. QED
    BY <1>1, <1>2, <1>6, <2>1, <2>2, <2>3 DEF PartOf
<1>7. CASE q.op = "createVehicle"
  <2>1. /\ u.fleets = s.fleets /\ u.vehicles = s.vehicles \cup q.of
        /\ u.at = [v \in Craft |-> IF v \in q.of THEN now.at[v] ELSE s.at[v]]
    BY <1>1, <1>7 DEF Merged, createVehicle
  <2>2. /\ w.fleets = t.fleets /\ w.vehicles = t.vehicles \cup q.of
        /\ w.at = [v \in Craft |-> IF v \in q.of THEN now.at[v] ELSE t.at[v]]
    BY <1>1, <1>7 DEF Merged, FullMerged, createVehicle
  <2>3. \A v \in Craft : u.at[v] = IF v \in u.vehicles THEN w.at[v] ELSE {}
    BY <1>2, <2>1, <2>2
  <2>4. QED
    BY <1>1, <1>2, <1>7, <2>1, <2>2, <2>3 DEF PartOf
<1>8. CASE q.op = "updateVehicle"
  <2>1. PICK g, h : /\ g = [v \in Craft |-> IF v \in q.of \cap s.vehicles THEN now.at[v] ELSE s.at[v]]
                    /\ h = [v \in Craft |-> IF v \in q.of \cap t.vehicles THEN now.at[v] ELSE t.at[v]]
    OBVIOUS
  <2>2. u = [s EXCEPT !.at = g] /\ w = [t EXCEPT !.at = h]
    BY <1>1, <1>8, <2>1 DEF Merged, FullMerged, updateVehicle
  <2>3. /\ u.fleets = s.fleets /\ u.vehicles = s.vehicles /\ u.at = g
        /\ w.fleets = t.fleets /\ w.vehicles = t.vehicles /\ w.at = h
    BY <1>3, <2>2
  <2>4. \A v \in Craft : g[v] = IF v \in s.vehicles THEN h[v] ELSE {}
    BY <1>2, <2>1
  <2>5. QED
    BY <1>1, <1>2, <1>8, <2>3, <2>4 DEF PartOf
<1>9. CASE q.op = "deleteVehicle"
  <2>1. /\ u.fleets = s.fleets /\ u.vehicles = s.vehicles \ q.of
        /\ u.at = [v \in Craft |-> IF v \in q.of THEN {} ELSE s.at[v]]
    BY <1>1, <1>9 DEF Merged, deleteVehicle
  <2>2. /\ w.fleets = t.fleets /\ w.vehicles = t.vehicles \ q.of
        /\ w.at = [v \in Craft |-> IF v \in q.of THEN {} ELSE t.at[v]]
    BY <1>1, <1>9 DEF Merged, FullMerged, deleteVehicle
  <2>3. \A v \in Craft : u.at[v] = IF v \in u.vehicles THEN w.at[v] ELSE {}
    BY <1>2, <2>1, <2>2
  <2>4. QED
    BY <1>1, <1>2, <1>9, <2>1, <2>2, <2>3 DEF PartOf
<1>10. CASE q.op \notin {"listVehicles", "listFleets", "createFleet", "deleteFleet", "createVehicle",
                         "updateVehicle", "deleteVehicle"}
  <2>1. u = s /\ w = t
    BY <1>1, <1>10 DEF Merged, FullMerged
  <2>2. QED
    BY <1>1, <1>10, <2>1
<1>11. QED
  BY <1>4, <1>5, <1>6, <1>7, <1>8, <1>9, <1>10

LEMMA KeptWell ==
  ASSUME NEW f, DOMAIN f = Modals, \A m \in Modals : WellFilled(m, f[m]), NEW which
  PROVE  DOMAIN Kept(f, which) = Modals /\ \A m \in Modals : WellFilled(m, Kept(f, which)[m])
<1>1. ASSUME NEW m \in Modals
      PROVE  WellFilled(m, Kept(f, which)[m])
  <2>1. WellFilled(m, f[m])
    OBVIOUS
  <2>2. WellFilled(m, [Blank EXCEPT !.members = f[m].members, !.hadMembers = f[m].hadMembers])
    <3>1. f[m].members \in SUBSET Members /\ f[m].hadMembers \in SUBSET Members
      BY <2>1 DEF WellFilled, Form
    <3>2. \A S, U \in SUBSET Members : /\ [Blank EXCEPT !.members = S, !.hadMembers = U] \in Form
                                      /\ [Blank EXCEPT !.members = S, !.hadMembers = U].of = {}
      BY DEF Blank, Form
    <3>3. QED
      BY <3>1, <3>2 DEF WellFilled
  <2>3. QED
    BY <2>1, <2>2 DEF Kept
<1>2. QED
  BY <1>1 DEF Kept

LEMMA LoadedWell ==
  ASSUME FleetShape, NEW a, WellAsked(a.call.q), a.now \in Database
  PROVE  DOMAIN Loaded(a) = Modals /\ \A m \in Modals : WellFilled(m, Loaded(a)[m])
<1>1. PICK m : m = a.call.q.op
  OBVIOUS
<1>2. PICK now : now = IF a.ok THEN UNION {a.now.members[f] : f \in a.call.q.of} ELSE {}
  OBVIOUS
<1>3. CASE m \notin Modals \/ (m = "members" /\ ~ a.ok)
  BY <1>1, <1>3 DEF Loaded, FleetShape
<1>4. CASE m \in Modals /\ ~ (m = "members" /\ ~ a.ok)
  <2>1. now \in SUBSET Members
    <3>1. a.call.q.of \subseteq Fleets /\ a.now.members \in [Fleets -> SUBSET Members]
      BY <1>1, <1>4 DEF WellAsked, Database
    <3>2. QED
      BY <1>2, <3>1
  <2>2. Loaded(a) = [form EXCEPT ![m] = [form[m] EXCEPT !.members = now, !.hadMembers = now]]
    BY <1>1, <1>2, <1>4 DEF Loaded, FleetShape
  <2>3. WellFilled(m, [form[m] EXCEPT !.members = now, !.hadMembers = now])
    <3>1. form[m] \in Form /\ WellFilled(m, form[m])
      BY <1>4 DEF FleetShape, WellFilled
    <3>2. /\ [form[m] EXCEPT !.members = now, !.hadMembers = now] \in Form
          /\ [form[m] EXCEPT !.members = now, !.hadMembers = now].of = form[m].of
      BY <2>1, <3>1 DEF Form
    <3>3. QED
      BY <3>1, <3>2 DEF WellFilled
  <2>4. QED
    BY <1>4, <2>2, <2>3 DEF FleetShape
<1>5. QED
  BY <1>3, <1>4

RunShape ==
  /\ DOMAIN run = Runs
  /\ \A r \in Runs : {"state", "plan", "closes", "clean", "fleet", "form"} \subseteq DOMAIN run[r]
  /\ \A r \in Runs : run[r].state = "running" => WellPlanned(run[r].plan) /\ run[r].plan # <<>>

LEMMA ProceedsKeeps ==
  ASSUME FleetShape, NEW r \in Runs, run[r].state = "running", NEW left, WellPlanned(left), Proceeds(r, left)
  PROVE  RunShape' /\ (\A c \in pending' : WellAsked(c.q)) /\ modal' \in Modals \cup {"none"}
<1>1. RunShape
  BY DEF FleetShape, RunShape
<1>2. CASE left = <<>>
  <2>1. run' = [run EXCEPT ![r] = Over("done")] /\ pending' = pending
    BY <1>2 DEF Proceeds
  <2>2. /\ Over("done").state # "running"
        /\ {"state", "plan", "closes", "clean", "fleet", "form"} \subseteq DOMAIN Over("done")
    BY DEF Over
  <2>3. RunShape'
    BY <1>1, <2>1, <2>2 DEF RunShape
  <2>4. QED
    BY <1>2, <2>1, <2>3 DEF Proceeds, FleetShape
<1>3. CASE left # <<>>
  <2>1. run' = [run EXCEPT ![r] = [run[r] EXCEPT !.plan = left]]
    BY <1>3 DEF Proceeds
  <2>2. /\ DOMAIN run' = Runs /\ run'[r] = [run[r] EXCEPT !.plan = left]
        /\ \A s \in Runs : s # r => run'[s] = run[s]
    BY <1>1, <2>1 DEF RunShape
  <2>3. run'[r].plan = left /\ DOMAIN run'[r] = DOMAIN run[r]
    BY <1>1, <2>2 DEF RunShape
  <2>4. RunShape'
    BY <1>1, <1>3, <2>2, <2>3 DEF RunShape
  <2>5. \A q \in Head(left) : WellAsked(q)
    BY <1>3, StagesLeft
  <2>6. pending' \subseteq pending \cup {[by |-> r, q |-> q] : q \in Head(left)}
    BY <1>3 DEF Proceeds
  <2>7. \A c \in pending' : WellAsked(c.q)
    BY <2>5, <2>6 DEF FleetShape
  <2>8. QED
    BY <1>3, <2>4, <2>7 DEF Proceeds, FleetShape
<1>4. QED
  BY <1>2, <1>3

LEMMA ContinuesKeeps ==
  ASSUME FleetShape, NEW a, Continues(a)
  PROVE  RunShape' /\ (\A c \in pending' : WellAsked(c.q)) /\ modal' \in Modals \cup {"none"}
<1>1. PICK r : r = a.call.by
  OBVIOUS
<1>2. RunShape
  BY DEF FleetShape, RunShape
<1>3. CASE UNCHANGED <<run, modal, pending>>
  BY <1>2, <1>3 DEF RunShape, FleetShape
<1>4. ASSUME r \in Runs, run[r].state = "running", Fails(r)
      PROVE  RunShape' /\ (\A c \in pending' : WellAsked(c.q)) /\ modal' \in Modals \cup {"none"}
  <2>1. run' = [run EXCEPT ![r] = Over("failed")] /\ pending' = pending /\ modal' = modal
    BY <1>4 DEF Fails
  <2>2. /\ Over("failed").state # "running"
        /\ {"state", "plan", "closes", "clean", "fleet", "form"} \subseteq DOMAIN Over("failed")
    BY DEF Over
  <2>3. RunShape'
    BY <1>2, <2>1, <2>2 DEF RunShape
  <2>4. QED
    BY <2>1, <2>3 DEF FleetShape
<1>5. ASSUME r \in Runs, run[r].state = "running", NEW rest, rest = Head(run[r].plan) \ {a.call.q},
             Proceeds(r, IF rest = {} THEN Tail(run[r].plan) ELSE <<rest>> \o Tail(run[r].plan))
      PROVE  RunShape' /\ (\A c \in pending' : WellAsked(c.q)) /\ modal' \in Modals \cup {"none"}
  <2>1. WellPlanned(run[r].plan) /\ run[r].plan # <<>>
    BY <1>2, <1>5 DEF RunShape
  <2>2. WellPlanned(Tail(run[r].plan)) /\ \A q \in Head(run[r].plan) : WellAsked(q)
    BY <2>1, StagesLeft
  <2>3. WellPlanned(<<rest>>)
    BY <1>5, <2>2, OneStage
  <2>4. WellPlanned(<<rest>> \o Tail(run[r].plan))
    BY <2>2, <2>3, StagesJoined
  <2>5. CASE rest = {}
    BY <1>5, <2>2, <2>5, ProceedsKeeps
  <2>6. CASE rest # {}
    BY <1>5, <2>4, <2>6, ProceedsKeeps
  <2>7. QED
    BY <2>5, <2>6
<1>6. QED
  BY <1>1, <1>3, <1>4, <1>5 DEF Continues

LEMMA ReceiveShape ==
  ASSUME FleetShape, NEW i \in 1..Len(answers), Receive(i)
  PROVE  FleetShape'
<1>1. PICK a : a = answers[i]
  OBVIOUS
<1>2. WellAsked(a.call.q) /\ a.now \in Database /\ a.page \in SUBSET Craft
  BY <1>1 DEF FleetShape, WellAnswered, Database
<1>3. RunShape' /\ (\A c \in pending' : WellAsked(c.q)) /\ modal' \in Modals \cup {"none"}
  BY <1>1, ContinuesKeeps DEF Receive
<1>4. DOMAIN form' = Modals /\ \A m \in Modals : WellFilled(m, form'[m])
  <2>1. form' = Kept(Loaded(a), modal')
    BY <1>1 DEF Receive
  <2>2. QED
    BY <1>2, <2>1, LoadedWell, KeptWell
<1>5. store' \in Stored
  <2>1. store \in Stored /\ store' = IF a.ok THEN Merged(store, a.call.q, a.now, a.page) ELSE store
    BY <1>1 DEF Receive, FleetShape
  <2>2. QED
    BY <1>2, <2>1, MergedKeeps
<1>6. IsSeq(answers') /\ \A j \in 1..Len(answers') : WellAnswered(answers'[j])
  <2>1. answers' = RemoveAt(answers, i) /\ IsSeq(answers)
    BY DEF Receive, FleetShape
  <2>2. IsSeq(answers') /\ Len(answers) \in Nat /\ Len(answers') = Len(answers) - 1
    BY <2>1, RemainingElements
  <2>3. \A j \in 1..Len(answers') : answers'[j] = IF j < i THEN answers[j] ELSE answers[j + 1]
    BY <2>1, RemainingElements
  <2>4. \A j \in 1..Len(answers') : \E k \in 1..Len(answers) : answers'[j] = answers[k]
    BY <2>2, <2>3
  <2>5. QED
    BY <2>2, <2>4 DEF FleetShape
<1>7. srv' \in Database
  BY DEF Receive, FleetShape
<1>8. QED
  BY <1>3, <1>4, <1>5, <1>6, <1>7 DEF FleetShape, RunShape

LEMMA ReceiveCatchesUp ==
  ASSUME FleetShape, CatchesUp, 1 \in 1..Len(answers), Receive(1)
  PROVE  CatchesUp'
<1>1. PICK n : n = Len(answers)
  OBVIOUS
<1>2. /\ n \in Nat /\ Len(answers') = n - 1
      /\ \A j \in 1..(n - 1) : answers'[j] = answers[j + 1]
  <2>1. answers' = RemoveAt(answers, 1) /\ IsSeq(answers)
    BY DEF Receive, FleetShape
  <2>2. Len(answers) \in Nat /\ Len(answers') = Len(answers) - 1
    BY <2>1, RemainingElements
  <2>3. \A j \in 1..Len(answers') : answers'[j] = IF j < 1 THEN answers[j] ELSE answers[j + 1]
    BY <2>1, RemainingElements
  <2>4. QED
    BY <1>1, <2>2, <2>3
<1>3. PICK T : /\ T[0] \in Stored /\ PartOf(store, whole, T[0]) /\ T[n] = View
               /\ \A i \in 1..n : T[i] = TakenIn(T[i - 1], answers[i])
  BY <1>1 DEF CatchesUp
<1>4. View' = View
  BY DEF Receive, View
<1>5. PICK U : U = [i \in 0..(n - 1) |-> T[i + 1]]
  OBVIOUS
<1>6. \A i \in 0..(n - 1) : U[i] = T[i + 1]
  BY <1>5
<1>7. n >= 1
  BY <1>1, <1>2
<1>8. U[0] \in Stored /\ PartOf(store', whole', U[0])
  <2>1. PICK a, t : a = answers[1] /\ t = T[0]
    OBVIOUS
  <2>2. U[0] = TakenIn(t, a)
    <3>1. 1 \in 1..n /\ 1 - 1 = 0 /\ 0 \in 0..(n - 1) /\ 0 + 1 = 1
      BY <1>2, <1>7
    <3>2. QED
      BY <1>3, <1>6, <2>1, <3>1
  <2>3. /\ store' = IF a.ok THEN Merged(store, a.call.q, a.now, a.page) ELSE store
        /\ whole' = IF a.ok /\ a.call.q.op = "listVehicles" THEN a.page = a.now.vehicles ELSE whole
    BY <2>1 DEF Receive
  <2>4. WellAsked(a.call.q) /\ a.now \in Database /\ a.page \in SUBSET a.now.vehicles
    BY <2>1 DEF FleetShape, WellAnswered
  <2>5. t \in Stored /\ store \in Stored /\ PartOf(store, whole, t)
    BY <1>3, <2>1 DEF FleetShape
  <2>6. CASE a.ok
    <3>1. U[0] = FullMerged(t, a.call.q, a.now) /\ store' = Merged(store, a.call.q, a.now, a.page)
          /\ whole' = IF a.call.q.op = "listVehicles" THEN a.page = a.now.vehicles ELSE whole
      BY <2>2, <2>3, <2>6 DEF TakenIn
    <3>2. PartOf(store', whole', U[0])
      BY <2>4, <2>5, <3>1, MergedIsPart
    <3>3. {} \in SUBSET Craft /\ U[0] \in Stored
      BY <2>4, <2>5, <3>1, MergedKeeps
    <3>4. QED
      BY <3>2, <3>3
  <2>7. CASE ~ a.ok
    BY <2>2, <2>3, <2>5, <2>7 DEF TakenIn
  <2>8. QED
    BY <2>6, <2>7
<1>9. U[n - 1] = View'
  BY <1>2, <1>3, <1>4, <1>6, <1>7
<1>10. ASSUME NEW i \in 1..(n - 1)
       PROVE  U[i] = TakenIn(U[i - 1], answers'[i])
  <2>1. i + 1 \in 1..n /\ i \in 0..(n - 1) /\ i - 1 \in 0..(n - 1) /\ (i - 1) + 1 = i /\ (i + 1) - 1 = i
    BY <1>2
  <2>2. T[i + 1] = TakenIn(T[i], answers[i + 1])
    BY <1>3, <2>1
  <2>3. U[i] = T[i + 1] /\ U[i - 1] = T[i]
    BY <1>6, <2>1
  <2>4. QED
    BY <1>2, <2>2, <2>3
<1>11. QED
  BY <1>2, <1>8, <1>9, <1>10 DEF CatchesUp

LEMMA ReceiveKeeps ==
  ASSUME FleetInv, NEW i \in 1..Len(answers), Receive(i)
  PROVE  FleetInv'
<1>1. FleetShape'
  BY ReceiveShape DEF FleetInv
<1>2. smooth' => smooth /\ i = 1
  BY DEF Receive
<1>3. smooth' => CatchesUp'
  BY <1>2, ReceiveCatchesUp DEF FleetInv
<1>4. QED
  BY <1>1, <1>3 DEF FleetInv

-----------------------------------------------------------------------------
(* The dialogs.                                                            *)

\* What a dialog asks for and holds is all that changes.
LEMMA DialogKeeps ==
  ASSUME FleetInv, UNCHANGED <<srv, store, whole, run, answers, smooth>>,
         modal' \in Modals \cup {"none"},
         DOMAIN form' = Modals, \A m \in Modals : WellFilled(m, form'[m]),
         \A c \in pending' : WellAsked(c.q)
  PROVE  FleetInv'
<1>1. FleetShape'
  <2>1. \A r \in Runs : run'[r].state = "running" => WellPlanned(run'[r].plan) /\ run'[r].plan # <<>>
    BY DEF FleetInv, FleetShape
  <2>2. \A i \in 1..Len(answers') : WellAnswered(answers'[i])
    BY DEF FleetInv, FleetShape
  <2>3. QED
    BY <2>1, <2>2 DEF FleetInv, FleetShape
<1>2. CatchesUp => CatchesUp'
  <2>1. View' = View /\ store' = store /\ whole' = whole /\ answers' = answers
    BY DEF View
  <2>2. QED
    BY <2>1 DEF CatchesUp
<1>3. QED
  BY <1>1, <1>2 DEF FleetInv

LEMMA OpenedWell ==
  ASSUME FleetShape, NEW m \in Modals, NEW f, WellFilled(m, f), form' = [form EXCEPT ![m] = f]
  PROVE  DOMAIN form' = Modals /\ \A n \in Modals : WellFilled(n, form'[n])
BY DEF FleetShape

LEMMA FormsFilled ==
  ASSUME FleetShape
  PROVE  \A m \in Modals : /\ form[m] \in Form
                           /\ WellFilled(m, form[m])
BY DEF FleetShape, WellFilled

LEMMA LoadsWell ==
  ASSUME FleetShape, NEW m \in Modals, NEW f \in Fleets, LoadsMembers(m, f)
  PROVE  \A c \in pending' : WellAsked(c.q)
<1>1. PICK q : q = [op |-> m, of |-> {f}, to |-> {}]
  OBVIOUS
<1>2. WellAsked(q)
  BY <1>1 DEF WellAsked, Modals
<1>3. pending' = pending \cup {[by |-> MaxRuns + acts', q |-> q]}
  BY <1>1 DEF LoadsMembers
<1>4. QED
  BY <1>2, <1>3 DEF FleetShape

LEMMA BlankFilled == \A m \in Modals : WellFilled(m, Blank)
BY DEF WellFilled, Blank, Form

LEMMA OpensKeep ==
  ASSUME FleetInv
  PROVE  /\ openFleetCreate => FleetInv'
         /\ \A f \in Fleets : openFleetEdit(f) => FleetInv'
         /\ \A f \in Fleets : openMembersModal(f) => FleetInv'
         /\ \A of : openVehicle(of) => FleetInv'
         /\ Cancel => FleetInv'
<1>1. FleetShape
  BY DEF FleetInv
<1>2. \A c \in pending : WellAsked(c.q)
  BY <1>1 DEF FleetShape
<1>3. /\ store.fleets \in SUBSET Fleets /\ store.vehicles \in SUBSET Craft
      /\ store.at \in [Craft -> SUBSET Fleets]
  BY <1>1 DEF FleetShape, Stored
<1>4. ASSUME openFleetCreate
      PROVE  FleetInv'
  <2>1. form' = [form EXCEPT !["fleet"] = Blank] /\ modal' = "fleet" /\ "fleet" \in Modals
    BY <1>4 DEF openFleetCreate, Opens, Modals
  <2>2. DOMAIN form' = Modals /\ \A n \in Modals : WellFilled(n, form'[n])
    BY <1>1, <2>1, BlankFilled, OpenedWell
  <2>3. QED
    BY <1>2, <1>4, <2>1, <2>2, DialogKeeps DEF openFleetCreate
<1>5. ASSUME NEW f \in Fleets, openFleetEdit(f)
      PROVE  FleetInv'
  <2>1. PICK its : its = {v \in Craft : store.at[v] = {f}}
    OBVIOUS
  <2>2. PICK g : g = [form["fleet"] EXCEPT !.of = {f}, !.vehicles = its, !.hadVehicles = its]
    OBVIOUS
  <2>3. "fleet" \in Modals
    BY DEF Modals
  <2>4. form' = [form EXCEPT !["fleet"] = g] /\ modal' = "fleet" /\ LoadsMembers("fleet", f)
    BY <1>5, <2>1, <2>2 DEF openFleetEdit, Opens
  <2>5. WellFilled("fleet", g)
    <3>1. form["fleet"] \in Form /\ its \in SUBSET Craft /\ {f} \in SUBSET (Fleets \cup Craft)
      BY <1>1, <2>1, <2>3, FormsFilled
    <3>2. g \in Form /\ g.of = {f}
      BY <2>2, <3>1 DEF Form
    <3>3. QED
      BY <3>2 DEF WellFilled
  <2>6. DOMAIN form' = Modals /\ \A n \in Modals : WellFilled(n, form'[n])
    BY <1>1, <2>3, <2>4, <2>5, OpenedWell
  <2>7. \A c \in pending' : WellAsked(c.q)
    BY <1>1, <2>3, <2>4, LoadsWell
  <2>8. QED
    BY <1>5, <2>3, <2>4, <2>6, <2>7, DialogKeeps DEF openFleetEdit
<1>6. ASSUME NEW f \in Fleets, openMembersModal(f)
      PROVE  FleetInv'
  <2>1. PICK g : g = [form["members"] EXCEPT !.of = {f}]
    OBVIOUS
  <2>2. "members" \in Modals
    BY DEF Modals
  <2>3. form' = [form EXCEPT !["members"] = g] /\ modal' = "members" /\ LoadsMembers("members", f)
    BY <1>6, <2>1 DEF openMembersModal, Opens
  <2>4. WellFilled("members", g)
    <3>1. form["members"] \in Form /\ {f} \in SUBSET (Fleets \cup Craft)
      BY <1>1, <2>2, FormsFilled
    <3>2. g \in Form /\ g.of = {f}
      BY <2>1, <3>1 DEF Form
    <3>3. QED
      BY <3>2 DEF WellFilled
  <2>5. DOMAIN form' = Modals /\ \A n \in Modals : WellFilled(n, form'[n])
    BY <1>1, <2>2, <2>3, <2>4, OpenedWell
  <2>6. \A c \in pending' : WellAsked(c.q)
    BY <1>1, <2>2, <2>3, LoadsWell
  <2>7. QED
    BY <1>6, <2>2, <2>3, <2>5, <2>6, DialogKeeps DEF openMembersModal
<1>7. ASSUME NEW of, openVehicle(of)
      PROVE  FleetInv'
  <2>1. PICK g : g = [Blank EXCEPT !.of = of, !.at = UNION {store.at[v] : v \in of}]
    OBVIOUS
  <2>2. "vehicle" \in Modals
    BY DEF Modals
  <2>3. form' = [form EXCEPT !["vehicle"] = g] /\ modal' = "vehicle" /\ of \subseteq Craft
    BY <1>3, <1>7, <2>1 DEF openVehicle, Opens
  <2>4. WellFilled("vehicle", g)
    <3>1. UNION {store.at[v] : v \in of} \in SUBSET Fleets /\ of \in SUBSET (Fleets \cup Craft)
      BY SMTT(30), <1>3, <2>3
    <3>2. g \in Form /\ g.of = of
      BY <2>1, <3>1 DEF Form, Blank
    <3>3. QED
      BY <2>3, <3>2 DEF WellFilled
  <2>5. DOMAIN form' = Modals /\ \A n \in Modals : WellFilled(n, form'[n])
    BY <1>1, <2>2, <2>3, <2>4, OpenedWell
  <2>6. QED
    BY <1>2, <1>7, <2>2, <2>3, <2>5, DialogKeeps DEF openVehicle
<1>8. ASSUME Cancel
      PROVE  FleetInv'
  <2>1. form' = Kept(form, "none") /\ modal' = "none"
    BY <1>8 DEF Cancel
  <2>2. DOMAIN form' = Modals /\ \A m \in Modals : WellFilled(m, form'[m])
    BY <1>1, <2>1, KeptWell DEF FleetShape
  <2>3. QED
    BY <1>2, <1>8, <2>1, <2>2, DialogKeeps DEF Cancel
<1>9. QED
  BY <1>4, <1>5, <1>6, <1>7, <1>8

LEMMA EditKeeps ==
  ASSUME FleetInv, Edit
  PROVE  FleetInv'
<1>1. FleetShape
  BY DEF FleetInv
<1>2. \A c \in pending : WellAsked(c.q)
  BY <1>1 DEF FleetShape
<1>3. store.fleets \in SUBSET Fleets /\ store.vehicles \in SUBSET Craft /\ modal \in Modals \cup {"none"}
  BY <1>1 DEF FleetShape, Stored
<1>4. \E m \in Modals : \E f : WellFilled(m, f) /\ form' = [form EXCEPT ![m] = f]
  <2>1. ASSUME NEW v \in eligibleFleetVehicles, form' = [form EXCEPT !["fleet"].vehicles = Flipped(@, v)]
        PROVE  \E m \in Modals : \E f : WellFilled(m, f) /\ form' = [form EXCEPT ![m] = f]
    <3>1. PICK S : S = Flipped(form["fleet"].vehicles, v)
      OBVIOUS
    <3>2. "fleet" \in Modals /\ form["fleet"] \in Form /\ WellFilled("fleet", form["fleet"])
      BY <1>1, FormsFilled DEF Modals
    <3>3. S \in SUBSET Craft
      BY <1>3, <3>1, <3>2 DEF eligibleFleetVehicles, Flipped, Form
    <3>4. [form["fleet"] EXCEPT !.vehicles = S] \in Form /\ [form["fleet"] EXCEPT !.vehicles = S].of = form["fleet"].of
      BY <3>2, <3>3 DEF Form
    <3>5. form' = [form EXCEPT !["fleet"] = [form["fleet"] EXCEPT !.vehicles = S]]
      BY <2>1, <3>1
    <3>6. QED
      BY <3>2, <3>4, <3>5 DEF WellFilled
  <2>2. ASSUME NEW u \in Members, modal \in Modals, form' = [form EXCEPT ![modal].members = Flipped(@, u)]
        PROVE  \E m \in Modals : \E f : WellFilled(m, f) /\ form' = [form EXCEPT ![m] = f]
    <3>1. PICK S : S = Flipped(form[modal].members, u)
      OBVIOUS
    <3>2. form[modal] \in Form /\ WellFilled(modal, form[modal])
      BY <1>1, <2>2, FormsFilled
    <3>3. S \in SUBSET Members
      BY <3>1, <3>2 DEF Flipped, Form
    <3>4. [form[modal] EXCEPT !.members = S] \in Form /\ [form[modal] EXCEPT !.members = S].of = form[modal].of
      BY <3>2, <3>3 DEF Form
    <3>5. form' = [form EXCEPT ![modal] = [form[modal] EXCEPT !.members = S]]
      BY <2>2, <3>1
    <3>6. QED
      BY <2>2, <3>2, <3>4, <3>5 DEF WellFilled
  <2>3. ASSUME NEW at \in {{}} \cup {{f} : f \in store.fleets}, form' = [form EXCEPT !["vehicle"].at = at]
        PROVE  \E m \in Modals : \E f : WellFilled(m, f) /\ form' = [form EXCEPT ![m] = f]
    <3>1. "vehicle" \in Modals /\ form["vehicle"] \in Form /\ WellFilled("vehicle", form["vehicle"])
      BY <1>1, FormsFilled DEF Modals
    <3>2. at \in SUBSET Fleets
      BY <1>3
    <3>3. [form["vehicle"] EXCEPT !.at = at] \in Form /\ [form["vehicle"] EXCEPT !.at = at].of = form["vehicle"].of
      BY <3>1, <3>2 DEF Form
    <3>4. form' = [form EXCEPT !["vehicle"] = [form["vehicle"] EXCEPT !.at = at]]
      BY <2>3
    <3>5. QED
      BY <3>1, <3>3, <3>4 DEF WellFilled
  <2>4. QED
    BY <2>1, <2>2, <2>3 DEF Edit, Modals
<1>5. DOMAIN form' = Modals /\ \A n \in Modals : WellFilled(n, form'[n])
  BY <1>1, <1>4, OpenedWell
<1>6. QED
  BY <1>2, <1>3, <1>5, DialogKeeps DEF Edit

-----------------------------------------------------------------------------
(* What a click sets out to do.                                            *)

LEMMA StartsKeeps ==
  ASSUME FleetInv, NEW r \in Runs, NEW plan, WellPlanned(plan), NEW closes, NEW f, NEW fm, NEW clean,
         Starts(r, plan, closes, f, fm, clean)
  PROVE  FleetInv'
<1>1. FleetShape /\ UNCHANGED <<srv, store, whole, form, answers, smooth>>
  BY DEF FleetInv, Starts
<1>2. PICK new : new = IF plan = <<>> THEN Over("done")
                       ELSE [state |-> "running", plan |-> plan, closes |-> closes, clean |-> clean,
                             fleet |-> f, form |-> IF clean THEN fm ELSE Blank]
  OBVIOUS
<1>3. /\ DOMAIN run' = Runs /\ run'[r] = new
      /\ \A s \in Runs : s # r => run'[s] = [run[s] EXCEPT !.clean = @ /\ run[s].state # "running"]
  BY <1>2 DEF Starts
<1>4. /\ {"state", "plan", "closes", "clean", "fleet", "form"} \subseteq DOMAIN new
      /\ new.state = "running" => WellPlanned(new.plan) /\ new.plan # <<>>
  BY <1>2 DEF Over
<1>5. \A s \in Runs : s # r => /\ DOMAIN run'[s] = DOMAIN run[s]
                              /\ run'[s].state = run[s].state /\ run'[s].plan = run[s].plan
  BY <1>1, <1>3 DEF FleetShape
<1>6. \A s \in Runs : {"state", "plan", "closes", "clean", "fleet", "form"} \subseteq DOMAIN run'[s]
  BY <1>1, <1>3, <1>4, <1>5 DEF FleetShape
<1>7. \A s \in Runs : run'[s].state = "running" => WellPlanned(run'[s].plan) /\ run'[s].plan # <<>>
  BY <1>1, <1>3, <1>4, <1>5 DEF FleetShape
<1>8. \A c \in pending' : WellAsked(c.q)
  <2>1. /\ plan = <<>> => pending' = pending
        /\ plan # <<>> => pending' = pending \cup {[by |-> r, q |-> q] : q \in Head(plan)}
    BY DEF Starts
  <2>2. plan # <<>> => \A q \in Head(plan) : WellAsked(q)
    BY StagesLeft
  <2>3. QED
    BY <1>1, <2>1, <2>2 DEF FleetShape
<1>9. modal' \in Modals \cup {"none"}
  BY <1>1 DEF Starts, FleetShape
<1>10. FleetShape'
  <2>1. \A m \in Modals : WellFilled(m, form'[m])
    BY <1>1 DEF FleetShape
  <2>2. \A i \in 1..Len(answers') : WellAnswered(answers'[i])
    BY <1>1 DEF FleetShape
  <2>3. QED
    BY <1>1, <1>3, <1>6, <1>7, <1>8, <1>9, <2>1, <2>2 DEF FleetShape
<1>11. CatchesUp => CatchesUp'
  <2>1. View' = View /\ store' = store /\ whole' = whole /\ answers' = answers
    BY <1>1 DEF View
  <2>2. QED
    BY <2>1 DEF CatchesUp
<1>12. QED
  BY <1>1, <1>10, <1>11 DEF FleetInv

LEMMA ClicksStart ==
  ASSUME FleetInv, NEW r \in Runs
  PROVE  /\ handleFleetSave(r) => FleetInv'
         /\ handleFleetDelete(r) => FleetInv'
         /\ handleSaveMembers(r) => FleetInv'
         /\ handleSave(r) => FleetInv'
         /\ handleDelete(r) => FleetInv'
<1>1. FleetShape
  BY DEF FleetInv
<1>2. /\ form["fleet"] \in Form /\ form["fleet"].of \subseteq Fleets
      /\ form["members"] \in Form /\ form["members"].of \subseteq Fleets
      /\ form["vehicle"] \in Form /\ form["vehicle"].of \subseteq Craft /\ form["vehicle"].at \subseteq Fleets
  BY <1>1, FormsFilled DEF WellFilled, Modals, Form
<1>3. store.fleets \subseteq Fleets /\ store.vehicles \subseteq Craft
  BY <1>1 DEF FleetShape, Stored
<1>4. ASSUME handleFleetSave(r)
      PROVE  FleetInv'
  <2>1. PICK fm : fm = form["fleet"]
    OBVIOUS
  <2>2. PICK op : op = IF fm.of = {} THEN "createFleet" ELSE "updateFleet"
    OBVIOUS
  <2>3. PICK f \in (IF fm.of = {} THEN Fleets \ usedIds ELSE fm.of),
             leave \in SetToSeqs(fm.hadMembers \ fm.members) :
          Starts(r, <<{[op |-> op, of |-> {f}, to |-> {}]}>> \o VehicleStage(f, fm)
                    \o MemberStages(f, fm, leave) \o <<{Get(o) : o \in Lists}>>,
                 "fleet", {f}, fm, Clean(f, fm))
    BY <1>4, <2>1, <2>2 DEF handleFleetSave
  <2>4. f \in Fleets /\ fm \in Form /\ op \in {"createFleet", "updateFleet"}
    BY <1>2, <2>1, <2>2
  <2>5. WellPlanned(<<{[op |-> op, of |-> {f}, to |-> {}]}>> \o VehicleStage(f, fm)
                    \o MemberStages(f, fm, leave) \o <<{Get(o) : o \in Lists}>>)
    BY <2>4, FleetPlanned
  <2>6. QED
    BY <2>3, <2>5, StartsKeeps
<1>5. ASSUME handleFleetDelete(r)
      PROVE  FleetInv'
  <2>1. PICK f \in store.fleets :
          Starts(r, <<{[op |-> "deleteFleet", of |-> {f}, to |-> {}]}>>, "none", {}, Blank, FALSE)
    BY <1>5 DEF handleFleetDelete
  <2>2. \A q \in {[op |-> "deleteFleet", of |-> {f}, to |-> {}]} : WellAsked(q)
    BY <1>3 DEF WellAsked, Modals
  <2>3. QED
    BY <2>1, <2>2, OneStage, StartsKeeps
<1>6. ASSUME handleSaveMembers(r)
      PROVE  FleetInv'
  <2>1. PICK fm : fm = form["members"]
    OBVIOUS
  <2>2. PICK f \in fm.of, leave \in SetToSeqs(fm.hadMembers \ fm.members) :
          Starts(r, MemberStages(f, fm, leave), "members", {f}, fm, Quiet /\ fm.hadMembers = srv.members[f])
    BY <1>6, <2>1 DEF handleSaveMembers
  <2>3. f \in Fleets /\ fm \in Form
    BY <1>2, <2>1
  <2>4. WellPlanned(MemberStages(f, fm, leave))
    BY <2>3, MembersPlanned
  <2>5. QED
    BY <2>2, <2>4, StartsKeeps
<1>7. ASSUME handleSave(r)
      PROVE  FleetInv'
  <2>1. PICK fm : fm = form["vehicle"]
    OBVIOUS
  <2>2. PICK op : op = IF fm.of = {} THEN "createVehicle" ELSE "updateVehicle"
    OBVIOUS
  <2>3. PICK v \in (IF fm.of = {} THEN Craft \ usedIds ELSE fm.of) :
          Starts(r, <<{[op |-> op, of |-> {v}, to |-> fm.at]}>>, "vehicle", {}, Blank, FALSE)
    BY <1>7, <2>1, <2>2 DEF handleSave
  <2>4. v \in Craft /\ fm.at \subseteq Fleets /\ op \in {"createVehicle", "updateVehicle"}
    BY <1>2, <2>1, <2>2
  <2>5. \A q \in {[op |-> op, of |-> {v}, to |-> fm.at]} : WellAsked(q)
    BY <2>4 DEF WellAsked, Modals
  <2>6. QED
    BY <2>3, <2>5, OneStage, StartsKeeps
<1>8. ASSUME handleDelete(r)
      PROVE  FleetInv'
  <2>1. PICK v \in store.vehicles :
          Starts(r, <<{[op |-> "deleteVehicle", of |-> {v}, to |-> {}]}, {Get("listVehicles")}>>,
                 "none", {}, Blank, FALSE)
    BY <1>8 DEF handleDelete
  <2>2. PICK gone : gone = {[op |-> "deleteVehicle", of |-> {v}, to |-> {}]}
    OBVIOUS
  <2>3. PICK list : list = {Get("listVehicles")}
    OBVIOUS
  <2>4. \A q \in gone : WellAsked(q)
    BY <1>3, <2>2 DEF WellAsked, Modals
  <2>5. \A q \in list : WellAsked(q)
    BY <2>3 DEF WellAsked, Modals, Get
  <2>7. WellPlanned(<<gone, list>>)
    BY <2>4, <2>5, TwoStages
  <2>8. QED
    BY <2>1, <2>2, <2>3, <2>7, StartsKeeps
<1>9. QED
  BY <1>4, <1>5, <1>6, <1>7, <1>8

-----------------------------------------------------------------------------
LEMMA FleetStarts == FleetInit => FleetInv
<1> SUFFICES ASSUME FleetInit PROVE FleetInv
  OBVIOUS
<1>1. srv \in Database
  BY WorldAssumption DEF FleetInit
<1>2. IsSeq(answers) /\ Len(answers) = 0 /\ \A i \in 1..Len(answers) : FALSE
  BY EmptyIsSeq DEF FleetInit
<1>3. store \in Stored /\ View \in Stored /\ PartOf(store, whole, View)
  <2>1. PICK P \in FirstPages(srv.vehicles) :
          /\ store = [fleets |-> srv.fleets, vehicles |-> P, at |-> Located(P, srv.at)]
          /\ whole = (P = srv.vehicles)
    BY DEF FleetInit
  <2>2. P \subseteq srv.vehicles
    BY DEF FirstPages
  <2>3. View.fleets = srv.fleets /\ View.vehicles = srv.vehicles /\ View.at = srv.at
    BY DEF View
  <2>4. View \in Stored
    BY <1>1 DEF View, Database, Stored
  <2>5. Located(P, srv.at) \in [Craft -> SUBSET Fleets]
        /\ \A v \in Craft : Located(P, srv.at)[v] = IF v \in P THEN srv.at[v] ELSE {}
    BY <1>1 DEF Located, Database
  <2>6. store \in Stored
    BY <1>1, <2>1, <2>2, <2>5 DEF Database, Stored
  <2>7. PartOf(store, whole, View)
    BY <2>1, <2>2, <2>3, <2>5 DEF PartOf
  <2>8. QED
    BY <2>4, <2>6, <2>7
<1>4. DOMAIN form = Modals /\ \A m \in Modals : WellFilled(m, form[m])
  BY BlankFilled DEF FleetInit
<1>5. /\ DOMAIN run = Runs /\ \A r \in Runs : run[r].state # "running"
      /\ \A r \in Runs : {"state", "plan", "closes", "clean", "fleet", "form"} \subseteq DOMAIN run[r]
  BY DEF FleetInit, Over
<1>6. FleetShape
  BY <1>1, <1>2, <1>3, <1>4, <1>5 DEF FleetInit, FleetShape
<1>7. CatchesUp
  <2>1. PICK T : T = [i \in {0} |-> View]
    OBVIOUS
  <2>2. T[0] = View
    BY <2>1
  <2>3. QED
    BY <1>2, <1>3, <2>2 DEF CatchesUp
<1>8. QED
  BY <1>6, <1>7 DEF FleetInv

LEMMA FleetStepKeeps == FleetInv /\ [FleetNext]_fleetVars => FleetInv'
<1> SUFFICES ASSUME FleetInv, [FleetNext]_fleetVars PROVE FleetInv'
  OBVIOUS
<1>1. ASSUME NEW c \in pending, Served(c) PROVE FleetInv'
  BY <1>1, ServedKeeps
<1>2. ASSUME NEW i \in DOMAIN answers, Receive(i) PROVE FleetInv'
  <2>1. DOMAIN answers = 1..Len(answers)
    BY SeqLength DEF FleetInv, FleetShape
  <2>2. QED
    BY <1>2, <2>1, ReceiveKeeps
<1>3. openFleetCreate \/ Cancel => FleetInv'
  BY OpensKeep
<1>4. Edit => FleetInv'
  BY EditKeeps
<1>5. ASSUME NEW f \in Fleets, openFleetEdit(f) \/ openMembersModal(f) PROVE FleetInv'
  BY <1>5, OpensKeep
<1>6. ASSUME NEW of, openVehicle(of) PROVE FleetInv'
  BY <1>6, OpensKeep
<1>7. ASSUME NEW r \in Runs, \/ handleFleetSave(r) \/ handleFleetDelete(r) \/ handleSaveMembers(r)
                            \/ handleSave(r) \/ handleDelete(r)
      PROVE  FleetInv'
  BY <1>7, ClicksStart
<1>8. UNCHANGED fleetVars => FleetInv'
  BY DialogKeeps DEF fleetVars, FleetInv, FleetShape
<1>9. QED
  BY <1>1, <1>2, <1>3, <1>4, <1>5, <1>6, <1>7, <1>8 DEF FleetNext

LEMMA FleetIsTrue == FleetInv => StoreIsTrue
<1> SUFFICES ASSUME FleetInv, smooth, answers = <<>>
             PROVE  /\ store.fleets = srv.fleets
                    /\ store.vehicles \subseteq srv.vehicles
                    /\ \A v \in store.vehicles : store.at[v] = srv.at[v]
                    /\ whole => store.vehicles = srv.vehicles
  BY DEF StoreIsTrue
<1>1. Len(answers) = 0
  BY EmptyIsSeq
<1>2. PartOf(store, whole, View)
  BY <1>1 DEF FleetInv, CatchesUp
<1>3. View.fleets = srv.fleets /\ View.vehicles = srv.vehicles /\ View.at = srv.at
  BY DEF View
<1>4. store.vehicles \subseteq Craft
  BY DEF FleetInv, FleetShape, Stored
<1>5. QED
  BY <1>2, <1>3, <1>4 DEF PartOf

\* As long as no answer was lost or overtaken, the page shows what is in the database when
\* nothing is under way, however its reads and writes are interleaved: the fleets, no
\* vehicle that is gone or elsewhere, and all vehicles unless the last list was cut
\* (fleetStore.js:191-318, FleetPage.jsx:404-453).
THEOREM PageShowsTheFleets == FleetSpec => []StoreIsTrue
<1>1. FleetInit => FleetInv
  BY FleetStarts
<1>2. FleetInv /\ [FleetNext]_fleetVars => FleetInv'
  BY FleetStepKeeps
<1>3. FleetInv => StoreIsTrue
  BY FleetIsTrue
<1>4. QED
  BY <1>1, <1>2, <1>3, PTL DEF FleetSpec

-----------------------------------------------------------------------------
(* A save of a fleet.  While it runs alone, what it has not written yet is *)
(* ahead in its plan - to be asked, or asked and not answered - or one of  *)
(* its requests has failed, so that it will not tell success.              *)

InPlan(plan, q) == \E k \in 1..Len(plan) : q \in plan[k]

ToPut(v, f, fm) == [op |-> "updateVehicle", of |-> {v}, to |-> IF v \in fm.vehicles THEN {f} ELSE {}]

ForSave(q, f, fm, closes) ==
  /\ q.op \in {"createFleet", "updateFleet", "updateVehicle", "assignUsers", "removeUser"} \cup Lists
  /\ q.op \in {"assignUsers", "removeUser"} => q.of = {f}
  /\ q.op = "updateVehicle" => closes = "fleet" /\ \E v \in Craft : q = ToPut(v, f, fm)
  /\ q.op = "assignUsers" => q.to \subseteq fm.members
  /\ q.op = "removeUser" => q.to \cap fm.members = {}

\* No other click writes, and what it asked for is of its stage, asked or answered, once.
Alone(r) ==
  /\ \A s \in Runs : run[s].state = "running" => s = r
  /\ \A c \in pending : c.by \in Runs => c.by = r

AskedOnce(r) ==
  /\ \A c \in pending : c.by = r => c.q \in Head(run[r].plan)
  /\ \A i \in 1..Len(answers) : answers[i].call.by = r =>
       /\ answers[i].call.q \in Head(run[r].plan)
       /\ \A c \in pending : c.by = r => c.q # answers[i].call.q
       /\ \A j \in 1..Len(answers) :
            answers[j].call.by = r /\ answers[j].call.q = answers[i].call.q => j = i

HasFailed(r) == \E i \in 1..Len(answers) :
  answers[i].call.by = r /\ ~ answers[i].ok /\ answers[i].call.q.op \notin Lists

Ahead(r, q) == [by |-> r, q |-> q] \in pending \/ InPlan(Tail(run[r].plan), q)

MembersAhead(r, f) ==
  /\ \A u \in run[r].form.members : u \in srv.members[f] \/
       \E q : Ahead(r, q) /\ q.op = "assignUsers" /\ u \in q.to
  /\ \A u \in srv.members[f] : u \in run[r].form.members \/
       \E q : Ahead(r, q) /\ q.op = "removeUser" /\ u \in q.to

VehiclesAhead(r, f) == \A v \in Craft :
  \/ srv.at[v] = {f} <=> v \in run[r].form.vehicles
  \/ Ahead(r, ToPut(v, f, run[r].form))

SavesOn(r, f) ==
  /\ \A q : InPlan(run[r].plan, q) => ForSave(q, f, run[r].form, run[r].closes)
  /\ HasFailed(r) \/ (MembersAhead(r, f) /\ (run[r].closes = "fleet" => VehiclesAhead(r, f)))

Saves(r) == run[r].state = "running" /\ run[r].clean

SaveGoesOn(r) ==
  /\ run[r].form \in Form
  /\ Alone(r) /\ AskedOnce(r)
  /\ \E f \in Fleets : run[r].fleet = {f} /\ SavesOn(r, f)

\* Who asks: a click, or a dialog for the members of a fleet.
WhoAsks ==
  /\ acts \in Nat
  /\ \A c \in pending : c = [by |-> c.by, q |-> c.q] /\ (c.by \in Runs \/ c.q.op \in Modals)
  /\ \A r \in Runs : run[r].state = "idle" =>
       /\ \A c \in pending : c.by # r
       /\ \A i \in 1..Len(answers) : answers[i].call.by # r

SaveInv == WhoAsks /\ \A r \in Runs : Saves(r) => SaveGoesOn(r)

-----------------------------------------------------------------------------
(* What is in a plan.                                                      *)

LEMMA NoneInPlan == \A q : ~ InPlan(<<>>, q)
<1>1. Len(<<>>) = 0
  BY EmptyIsSeq
<1>2. QED
  BY <1>1 DEF InPlan

LEMMA StageInPlan == ASSUME NEW S PROVE \A q : InPlan(<<S>>, q) <=> q \in S
<1>1. Len(<<S>>) = 1 /\ <<S>>[1] = S
  BY SingleIsSeq
<1>2. QED
  BY <1>1 DEF InPlan

LEMMA JoinedInPlan ==
  ASSUME NEW s, IsSeq(s), NEW t, IsSeq(t)
  PROVE  IsSeq(s \o t) /\ \A q : InPlan(s \o t, q) <=> InPlan(s, q) \/ InPlan(t, q)
<1>1. PICK S : s \in Seq(S)
  BY DEF IsSeq
<1>2. PICK U : t \in Seq(U)
  BY DEF IsSeq
<1>3. s \in Seq(S \cup U) /\ t \in Seq(S \cup U)
  BY <1>1, <1>2, SeqMonotonic
<1>4. PICK w : w = s \o t
  OBVIOUS
<1>5. w \in Seq(S \cup U) /\ Len(w) = Len(s) + Len(t) /\ Len(s) \in Nat /\ Len(t) \in Nat
  BY <1>3, <1>4
<1>6. \A k \in 1..Len(s) : w[k] = s[k]
  BY <1>3, <1>4
<1>7. \A k \in 1..Len(t) : w[Len(s) + k] = t[k]
  BY <1>3, <1>4
<1>8. ASSUME NEW q, InPlan(w, q)
      PROVE  InPlan(s, q) \/ InPlan(t, q)
  <2>1. PICK k \in 1..Len(w) : q \in w[k]
    BY <1>8 DEF InPlan
  <2>2. CASE k <= Len(s)
    <3>1. k \in 1..Len(s)
      BY <1>5, <2>2
    <3>2. q \in s[k]
      BY <1>6, <2>1, <3>1
    <3>3. QED
      BY <3>1, <3>2 DEF InPlan
  <2>3. CASE ~ (k <= Len(s))
    <3>1. k - Len(s) \in 1..Len(t) /\ k = Len(s) + (k - Len(s))
      BY <1>5, <2>3
    <3>2. q \in t[k - Len(s)]
      BY <1>7, <2>1, <3>1
    <3>3. QED
      BY <3>1, <3>2 DEF InPlan
  <2>4. QED
    BY <2>2, <2>3
<1>9. ASSUME NEW q, InPlan(s, q)
      PROVE  InPlan(w, q)
  <2>1. PICK k \in 1..Len(s) : q \in s[k]
    BY <1>9 DEF InPlan
  <2>2. k \in 1..Len(w)
    BY <1>5
  <2>3. QED
    BY <1>6, <2>1, <2>2 DEF InPlan
<1>10. ASSUME NEW q, InPlan(t, q)
       PROVE  InPlan(w, q)
  <2>1. PICK k \in 1..Len(t) : q \in t[k]
    BY <1>10 DEF InPlan
  <2>2. Len(s) + k \in 1..Len(w)
    BY <1>5
  <2>3. QED
    BY <1>7, <2>1, <2>2 DEF InPlan
<1>11. IsSeq(w)
  BY <1>5 DEF IsSeq
<1>12. QED
  BY <1>4, <1>8, <1>9, <1>10, <1>11

LEMMA RestInPlan ==
  ASSUME NEW s, IsSeq(s), s # <<>>
  PROVE  \A q : InPlan(s, q) <=> q \in Head(s) \/ InPlan(Tail(s), q)
<1>1. PICK t : t = Tail(s)
  OBVIOUS
<1>2. /\ Len(s) \in Nat /\ Len(s) >= 1 /\ Len(t) = Len(s) - 1
      /\ Head(s) = s[1] /\ \A j \in 1..Len(t) : t[j] = s[j + 1]
  BY <1>1, TailElements
<1>3. ASSUME NEW q, InPlan(s, q)
      PROVE  q \in Head(s) \/ InPlan(t, q)
  <2>1. PICK k \in 1..Len(s) : q \in s[k]
    BY <1>3 DEF InPlan
  <2>2. CASE k = 1
    BY <1>2, <2>1, <2>2
  <2>3. CASE k # 1
    <3>1. k - 1 \in 1..Len(t) /\ (k - 1) + 1 = k
      BY <1>2, <2>3
    <3>2. q \in t[k - 1]
      BY <1>2, <2>1, <3>1
    <3>3. QED
      BY <3>1, <3>2 DEF InPlan
  <2>4. QED
    BY <2>2, <2>3
<1>4. ASSUME NEW q, InPlan(t, q)
      PROVE  InPlan(s, q)
  <2>1. PICK k \in 1..Len(t) : q \in t[k]
    BY <1>4 DEF InPlan
  <2>2. k + 1 \in 1..Len(s)
    BY <1>2
  <2>3. QED
    BY <1>2, <2>1, <2>2 DEF InPlan
<1>5. ASSUME NEW q, q \in Head(s)
      PROVE  InPlan(s, q)
  <2>1. 1 \in 1..Len(s)
    BY <1>2
  <2>2. QED
    BY <1>2, <1>5, <2>1 DEF InPlan
<1>6. QED
  BY <1>1, <1>3, <1>4, <1>5

LEMMA StageFirst ==
  ASSUME NEW S, NEW t, IsSeq(t), NEW p, p = <<S>> \o t
  PROVE  IsSeq(p) /\ p # <<>> /\ Head(p) = S /\ Tail(p) = t
<1>1. PICK U : t \in Seq(U)
  BY DEF IsSeq
<1>2. <<S>> \in Seq(U \cup {S}) /\ t \in Seq(U \cup {S})
  BY <1>1, SeqMonotonic
<1>3. p \in Seq(U \cup {S}) /\ p # <<>> /\ Head(p) = S
  BY <1>2
<1>4. Tail(p) = t
  <2>1. Len(p) = 1 + Len(t) /\ Len(t) \in Nat /\ \A j \in 1..Len(t) : p[1 + j] = t[j]
    BY <1>2
  <2>2. Tail(p) \in Seq(U \cup {S}) /\ Len(Tail(p)) = Len(t) /\ \A j \in 1..Len(t) : Tail(p)[j] = t[j]
    BY <1>3, <2>1
  <2>3. QED
    BY <1>2, <2>2, SeqEqual
<1>5. QED
  BY <1>3, <1>4 DEF IsSeq

-----------------------------------------------------------------------------
(* What a form asks for.                                                   *)

LEMMA AllLeave ==
  ASSUME NEW S, IsFiniteSet(S), NEW leave \in SetToSeqs(S)
  PROVE  /\ \A i \in DOMAIN leave : leave[i] \in S
         /\ \A u \in S : \E i \in DOMAIN leave : leave[i] = u
<1>1. PICK n : n = Cardinality(S)
  OBVIOUS
<1>2. n \in Nat
  BY <1>1, FS_CardinalityType
<1>3. leave \in [1..n -> S] /\ \A i, j \in 1..n : i # j => leave[i] # leave[j]
  BY <1>1 DEF SetToSeqs
<1>4. ASSUME NEW u \in S, \A i \in 1..n : leave[i] # u
      PROVE  FALSE
  <2>1. IsFiniteSet(1..n) /\ Cardinality(1..n) = n
    <3>1. IsFiniteSet(1..n) /\ Cardinality(1..n) = IF 1 > n THEN 0 ELSE n - 1 + 1
      BY <1>2, FS_Interval
    <3>2. QED
      BY <1>2, <3>1
  <2>2. IsFiniteSet(S \ {u}) /\ Cardinality(S \ {u}) = n - 1
    BY <1>1, FS_RemoveElement
  <2>3. leave \in [1..n -> S \ {u}]
    BY <1>3, <1>4
  <2>4. Cardinality(S \ {u}) < Cardinality(1..n)
    BY <1>2, <2>1, <2>2
  <2>5. \E i, j \in 1..n : i # j /\ leave[i] = leave[j]
    BY <2>1, <2>2, <2>3, <2>4, FS_PigeonHole
  <2>6. QED
    BY <1>3, <2>5
<1>5. DOMAIN leave = 1..n
  BY <1>3
<1>6. QED
  BY <1>3, <1>4, <1>5

\* All that makes a fleet what the form shows, and nothing else.
AsksForFleet(plan, f, fm, closes) ==
  /\ \A q : InPlan(plan, q) => ForSave(q, f, fm, closes)
  /\ \A u \in fm.members \ fm.hadMembers : \E q : InPlan(plan, q) /\ q.op = "assignUsers" /\ u \in q.to
  /\ \A u \in fm.hadMembers \ fm.members : \E q : InPlan(plan, q) /\ q.op = "removeUser" /\ u \in q.to
  /\ closes = "fleet" =>
       \A v \in Craft : (v \in fm.vehicles <=> v \in fm.hadVehicles) \/ InPlan(plan, ToPut(v, f, fm))

LEMMA MembersAsked ==
  ASSUME NEW f \in Fleets, NEW fm \in Form, NEW leave \in SetToSeqs(fm.hadMembers \ fm.members),
         NEW plan, plan = MemberStages(f, fm, leave), NEW closes
  PROVE  /\ \A q : InPlan(plan, q) => ForSave(q, f, fm, closes)
         /\ \A u \in fm.members \ fm.hadMembers :
              \E q : InPlan(plan, q) /\ q.op = "assignUsers" /\ u \in q.to
         /\ \A u \in fm.hadMembers \ fm.members :
              \E q : InPlan(plan, q) /\ q.op = "removeUser" /\ u \in q.to
<1>1. PICK join : join = fm.members \ fm.hadMembers
  OBVIOUS
<1>2. PICK out : out = fm.hadMembers \ fm.members
  OBVIOUS
<1>3. IsFiniteSet(out) /\ leave \in SetToSeqs(out)
  BY <1>2, FS_Subset, WorldAssumption DEF Form
<1>4. /\ leave \in Seq(out)
      /\ \A i \in DOMAIN leave : leave[i] \in out
      /\ \A u \in out : \E i \in DOMAIN leave : leave[i] = u
  BY <1>3, InSomeOrder, AllLeave
<1>5. PICK enter : enter = [op |-> "assignUsers", of |-> {f}, to |-> join]
  OBVIOUS
<1>6. PICK first : first = IF join = {} THEN <<>> ELSE <<{enter}>>
  OBVIOUS
<1>7. PICK leaves : leaves = [i \in DOMAIN leave |-> {[op |-> "removeUser", of |-> {f}, to |-> {leave[i]}]}]
  OBVIOUS
<1>8. plan = first \o leaves
  BY <1>1, <1>5, <1>6, <1>7 DEF MemberStages
<1>9. IsSeq(first) /\ \A q : InPlan(first, q) <=> join # {} /\ q = enter
  BY <1>6, EmptyIsSeq, SingleIsSeq, NoneInPlan, StageInPlan
<1>10. IsSeq(leaves) /\ Len(leaves) = Len(leave) /\ DOMAIN leave = 1..Len(leave)
  <2>1. DOMAIN leave = 1..Len(leave) /\ Len(leave) \in Nat
    BY <1>4
  <2> DEFINE all == {leaves[i] : i \in 1..Len(leave)}
  <2>2. leaves \in [1..Len(leave) -> all]
    BY <1>7, <2>1
  <2> HIDE DEF all
  <2>3. leaves \in Seq(all) /\ Len(leaves) = Len(leave)
    BY <2>1, <2>2
  <2>4. QED
    BY <2>1, <2>3 DEF IsSeq
<1>11. \A q : InPlan(leaves, q) <=> \E i \in DOMAIN leave : q = [op |-> "removeUser", of |-> {f}, to |-> {leave[i]}]
  BY <1>7, <1>10 DEF InPlan
<1>12. \A q : InPlan(plan, q) <=> InPlan(first, q) \/ InPlan(leaves, q)
  BY <1>8, <1>9, <1>10, JoinedInPlan
<1>13. ForSave(enter, f, fm, closes)
  BY <1>1, <1>5 DEF ForSave, Lists
<1>14. ASSUME NEW i \in DOMAIN leave, NEW q, q = [op |-> "removeUser", of |-> {f}, to |-> {leave[i]}]
       PROVE  ForSave(q, f, fm, closes)
  <2>1. q.op = "removeUser" /\ q.of = {f} /\ q.to = {leave[i]}
    BY <1>14
  <2>2. leave[i] \notin fm.members
    BY <1>2, <1>4
  <2>3. q.to \cap fm.members = {}
    BY <2>1, <2>2
  <2>4. QED
    BY <2>1, <2>3 DEF ForSave, Lists
<1>15. \A u \in fm.members \ fm.hadMembers : \E q : InPlan(plan, q) /\ q.op = "assignUsers" /\ u \in q.to
  <2>1. enter.op = "assignUsers" /\ enter.to = join
    BY <1>5
  <2>2. join # {} => InPlan(plan, enter)
    BY <1>9, <1>12
  <2>3. QED
    BY <1>1, <2>1, <2>2
<1>16. ASSUME NEW u \in fm.hadMembers \ fm.members
       PROVE  \E q : InPlan(plan, q) /\ q.op = "removeUser" /\ u \in q.to
  <2>1. PICK i \in DOMAIN leave : leave[i] = u
    BY <1>2, <1>4
  <2>2. PICK q : q = [op |-> "removeUser", of |-> {f}, to |-> {leave[i]}]
    OBVIOUS
  <2>3. InPlan(plan, q)
    BY <1>11, <1>12, <2>2
  <2>4. q.op = "removeUser" /\ u \in q.to
    BY <2>1, <2>2
  <2>5. QED
    BY <2>3, <2>4
<1>17. QED
  BY <1>9, <1>11, <1>12, <1>13, <1>14, <1>15, <1>16

LEMMA VehiclesAsked ==
  ASSUME NEW f \in Fleets, NEW fm \in Form, NEW plan, plan = VehicleStage(f, fm)
  PROVE  /\ \A q : InPlan(plan, q) => ForSave(q, f, fm, "fleet")
         /\ \A v \in Craft : (v \in fm.vehicles <=> v \in fm.hadVehicles) \/ InPlan(plan, ToPut(v, f, fm))
<1>1. PICK S : S =
        {[op |-> "updateVehicle", of |-> {v}, to |-> {f}] : v \in fm.vehicles \ fm.hadVehicles}
        \cup {[op |-> "updateVehicle", of |-> {v}, to |-> {}] : v \in fm.hadVehicles \ fm.vehicles}
  OBVIOUS
<1>2. plan = IF S = {} THEN <<>> ELSE <<S>>
  BY <1>1 DEF VehicleStage, Unless
<1>3. \A q : InPlan(plan, q) <=> q \in S
  BY <1>2, NoneInPlan, StageInPlan
<1>4. fm.vehicles \subseteq Craft /\ fm.hadVehicles \subseteq Craft
  BY DEF Form
<1>5. \A q \in S : \E v \in Craft : q = ToPut(v, f, fm)
  BY <1>1, <1>4 DEF ToPut
<1>6. \A v \in Craft : (v \in fm.vehicles <=> v \in fm.hadVehicles) \/ ToPut(v, f, fm) \in S
  BY <1>1 DEF ToPut
<1>7. \A v : ToPut(v, f, fm).op = "updateVehicle"
  BY DEF ToPut
<1>8. \A q \in S : ForSave(q, f, fm, "fleet")
  <2> SUFFICES ASSUME NEW q \in S PROVE ForSave(q, f, fm, "fleet")
    OBVIOUS
  <2>1. PICK v \in Craft : q = ToPut(v, f, fm)
    BY <1>5
  <2>2. q.op = "updateVehicle"
    BY <1>7, <2>1
  <2>3. QED
    BY <2>1, <2>2 DEF ForSave, Lists
<1>9. QED
  BY <1>3, <1>6, <1>8

LEMMA MembersSaved ==
  ASSUME NEW f \in Fleets, NEW fm \in Form, NEW leave \in SetToSeqs(fm.hadMembers \ fm.members)
  PROVE  AsksForFleet(MemberStages(f, fm, leave), f, fm, "members")
BY MembersAsked DEF AsksForFleet

LEMMA FleetSaved ==
  ASSUME NEW f \in Fleets, NEW fm \in Form, NEW op \in {"createFleet", "updateFleet"},
         NEW leave \in SetToSeqs(fm.hadMembers \ fm.members)
  PROVE  AsksForFleet(<<{[op |-> op, of |-> {f}, to |-> {}]}>> \o VehicleStage(f, fm)
                      \o MemberStages(f, fm, leave) \o <<{Get(o) : o \in Lists}>>, f, fm, "fleet")
<1>1. PICK q0 : q0 = [op |-> op, of |-> {f}, to |-> {}]
  OBVIOUS
<1>2. PICK put : put = <<{q0}>>
  OBVIOUS
<1>3. PICK V : V = VehicleStage(f, fm)
  OBVIOUS
<1>4. PICK M : M = MemberStages(f, fm, leave)
  OBVIOUS
<1>5. PICK L : L = <<{Get(o) : o \in Lists}>>
  OBVIOUS
<1>6. IsSeq(put) /\ \A q : InPlan(put, q) <=> q = q0
  BY <1>2, SingleIsSeq, StageInPlan
<1>7. IsSeq(V) /\ IsSeq(M)
  BY <1>3, <1>4, VehiclesPlanned, MembersPlanned DEF WellPlanned
<1>8. IsSeq(L) /\ \A q : InPlan(L, q) <=> q \in {Get(o) : o \in Lists}
  BY <1>5, SingleIsSeq, StageInPlan
<1>9. IsSeq(put \o V) /\ \A q : InPlan(put \o V, q) <=> InPlan(put, q) \/ InPlan(V, q)
  BY <1>6, <1>7, JoinedInPlan
<1>10. /\ IsSeq(put \o V \o M)
       /\ \A q : InPlan(put \o V \o M, q) <=> InPlan(put \o V, q) \/ InPlan(M, q)
  BY <1>7, <1>9, JoinedInPlan
<1>11. PICK plan : plan = put \o V \o M \o L
  OBVIOUS
<1>12. \A q : InPlan(plan, q) <=> InPlan(put \o V \o M, q) \/ InPlan(L, q)
  BY <1>8, <1>10, <1>11, JoinedInPlan
<1>13. \A q : InPlan(plan, q) <=> q = q0 \/ InPlan(V, q) \/ InPlan(M, q) \/ q \in {Get(o) : o \in Lists}
  BY <1>6, <1>8, <1>9, <1>10, <1>12
<1>14. ForSave(q0, f, fm, "fleet")
  BY <1>1 DEF ForSave, Lists
<1>15. \A q \in {Get(o) : o \in Lists} : ForSave(q, f, fm, "fleet")
  BY DEF ForSave, Lists, Get
<1>16. /\ \A q : InPlan(V, q) => ForSave(q, f, fm, "fleet")
       /\ \A v \in Craft : (v \in fm.vehicles <=> v \in fm.hadVehicles) \/ InPlan(V, ToPut(v, f, fm))
  BY <1>3, VehiclesAsked
<1>17. /\ \A q : InPlan(M, q) => ForSave(q, f, fm, "fleet")
       /\ \A u \in fm.members \ fm.hadMembers :
            \E q : InPlan(M, q) /\ q.op = "assignUsers" /\ u \in q.to
       /\ \A u \in fm.hadMembers \ fm.members :
            \E q : InPlan(M, q) /\ q.op = "removeUser" /\ u \in q.to
  BY <1>4, MembersAsked
<1>18. AsksForFleet(plan, f, fm, "fleet")
  <2>1. \A q : InPlan(plan, q) => ForSave(q, f, fm, "fleet")
    BY <1>13, <1>14, <1>15, <1>16, <1>17
  <2>2. \A u \in fm.members \ fm.hadMembers :
          \E q : InPlan(plan, q) /\ q.op = "assignUsers" /\ u \in q.to
    BY <1>13, <1>17
  <2>3. \A u \in fm.hadMembers \ fm.members :
          \E q : InPlan(plan, q) /\ q.op = "removeUser" /\ u \in q.to
    BY <1>13, <1>17
  <2>4. \A v \in Craft : (v \in fm.vehicles <=> v \in fm.hadVehicles) \/ InPlan(plan, ToPut(v, f, fm))
    BY <1>13, <1>16
  <2>5. QED
    BY <2>1, <2>2, <2>3, <2>4 DEF AsksForFleet
<1>19. QED
  BY <1>1, <1>2, <1>3, <1>4, <1>5, <1>11, <1>18

-----------------------------------------------------------------------------
(* The server answers.                                                     *)

LEMMA ListsOps == Lists \cap (Operations \cup Modals) = {}
BY DEF Lists, Operations, Modals

\* What a request of the save does to the fleet.
LEMMA SaveCarried ==
  ASSUME srv \in Database, NEW f \in Fleets, NEW fm, NEW closes, NEW q, ForSave(q, f, fm, closes), Carried(q)
  PROVE  /\ q.op = "assignUsers" => srv'.members[f] = srv.members[f] \cup q.to
         /\ q.op = "removeUser" => srv'.members[f] = srv.members[f] \ q.to
         /\ q.op \notin {"assignUsers", "removeUser"} => srv'.members[f] = srv.members[f]
         /\ \A v \in Craft : srv'.at[v] = IF q.op = "updateVehicle" /\ v \in q.of THEN q.to ELSE srv.at[v]
<1> DEFINE put == [v \in Craft |-> IF v \in q.of THEN q.to ELSE srv.at[v]]
           joined == [g \in Fleets |-> IF g \in q.of THEN srv.members[g] \cup q.to ELSE srv.members[g]]
           left == [g \in Fleets |-> IF g \in q.of THEN srv.members[g] \ q.to ELSE srv.members[g]]
<1>1. DOMAIN srv = {"fleets", "vehicles", "at", "members"}
  BY DEF Database
<1>2. q.op \in {"createFleet", "updateFleet", "updateVehicle", "assignUsers", "removeUser",
                "listVehicles", "listFleets"}
  BY DEF ForSave, Lists
<1>3. srv' = CASE q.op = "createFleet" -> [srv EXCEPT !.fleets = @ \cup q.of]
               [] q.op = "updateVehicle" -> [srv EXCEPT !.at = put]
               [] q.op = "assignUsers" -> [srv EXCEPT !.members = joined]
               [] q.op = "removeUser" -> [srv EXCEPT !.members = left]
               [] OTHER -> srv
  BY <1>2 DEF Carried
<1>4. \A v \in Craft : put[v] = IF v \in q.of THEN q.to ELSE srv.at[v]
  OBVIOUS
<1>5. q.op \in {"assignUsers", "removeUser"} =>
        joined[f] = srv.members[f] \cup q.to /\ left[f] = srv.members[f] \ q.to
  BY DEF ForSave
<1> HIDE DEF put, joined, left
<1>6. CASE q.op = "updateVehicle"
  <2>1. srv' = [srv EXCEPT !.at = put]
    BY <1>3, <1>6
  <2>2. srv'.at = put /\ srv'.members = srv.members
    BY <1>1, <2>1
  <2>3. QED
    BY <1>4, <1>6, <2>2
<1>7. CASE q.op \in {"assignUsers", "removeUser"}
  <2>1. srv' = [srv EXCEPT !.members = IF q.op = "assignUsers" THEN joined ELSE left]
    BY <1>3, <1>7
  <2>2. srv'.at = srv.at /\ srv'.members = IF q.op = "assignUsers" THEN joined ELSE left
    BY <1>1, <2>1
  <2>3. QED
    BY <1>5, <1>7, <2>2
<1>8. CASE q.op \in {"createFleet", "updateFleet", "listVehicles", "listFleets"}
  <2>1. srv' = srv \/ srv' = [srv EXCEPT !.fleets = @ \cup q.of]
    BY <1>3, <1>8
  <2>2. srv'.at = srv.at /\ srv'.members = srv.members
    BY <1>1, <2>1
  <2>3. QED
    BY <1>8, <2>2
<1>9. QED
  BY <1>2, <1>6, <1>7, <1>8

\* The answer takes the place of the request.
LEMMA RespondsWho ==
  ASSUME FleetShape, WhoAsks, NEW c \in pending, NEW ok, Responds(c, ok), acts' \in Nat
  PROVE  WhoAsks'
<1>1. PICK a : /\ answers' = Append(answers, a)
               /\ a.call = c /\ a.ok = ok /\ a.now = srv' /\ a.page \subseteq srv'.vehicles
  BY AnswerGiven
<1>2. answers' = Append(answers, a) /\ pending' = pending \ {c} /\ run' = run /\ a.call = c
  BY <1>1 DEF Responds
<1>3. /\ Len(answers) \in Nat /\ Len(answers') = Len(answers) + 1
      /\ answers'[Len(answers) + 1] = a
  BY <1>2, AppendedElements DEF FleetShape
<1>4. \A i \in 1..Len(answers) : answers'[i] = answers[i]
  BY <1>2, AppendedElements DEF FleetShape
<1>5. \A i \in 1..Len(answers') : i \in 1..Len(answers) \/ i = Len(answers) + 1
  BY <1>3
<1>6. ASSUME NEW r \in Runs, run'[r].state = "idle"
      PROVE  /\ \A d \in pending' : d.by # r
             /\ \A i \in 1..Len(answers') : answers'[i].call.by # r
  <2>1. (\A d \in pending : d.by # r) /\ \A i \in 1..Len(answers) : answers[i].call.by # r
    BY <1>2, <1>6 DEF WhoAsks
  <2>2. c.by # r
    BY <2>1
  <2>3. QED
    BY <1>2, <1>3, <1>4, <1>5, <2>1, <2>2
<1>7. \A d \in pending' : d = [by |-> d.by, q |-> d.q] /\ (d.by \in Runs \/ d.q.op \in Modals)
  BY <1>2 DEF WhoAsks
<1>8. QED
  BY <1>6, <1>7 DEF WhoAsks

LEMMA RespondsOnce ==
  ASSUME FleetShape, WhoAsks, NEW c \in pending, NEW ok, Responds(c, ok),
         NEW r \in Runs, Alone(r), AskedOnce(r)
  PROVE  Alone(r)' /\ AskedOnce(r)'
<1>1. PICK a : /\ answers' = Append(answers, a)
               /\ a.call = c /\ a.ok = ok /\ a.now = srv' /\ a.page \subseteq srv'.vehicles
  BY AnswerGiven
<1>2. answers' = Append(answers, a) /\ pending' = pending \ {c} /\ run' = run /\ a.call = c
  BY <1>1 DEF Responds
<1>3. PICK n : n = Len(answers)
  OBVIOUS
<1>4. n \in Nat /\ Len(answers') = n + 1 /\ answers'[n + 1] = a
  BY <1>2, <1>3, AppendedElements DEF FleetShape
<1>5. \A i \in 1..n : answers'[i] = answers[i]
  BY <1>2, <1>3, AppendedElements DEF FleetShape
<1>6. \A i \in 1..(n + 1) : i \in 1..n \/ i = n + 1
  BY <1>4
<1>7. Alone(r)'
  BY <1>2 DEF Alone
<1>8. /\ \A d \in pending : d.by = r => d.q \in Head(run[r].plan)
      /\ \A i \in 1..n : answers[i].call.by = r =>
           /\ answers[i].call.q \in Head(run[r].plan)
           /\ \A d \in pending : d.by = r => d.q # answers[i].call.q
           /\ \A j \in 1..n : answers[j].call.by = r /\ answers[j].call.q = answers[i].call.q => j = i
  BY <1>3 DEF AskedOnce
<1>9. \A d \in pending' : d.by = r => d.q \in Head(run'[r].plan)
  BY <1>2, <1>8
<1>10. ASSUME NEW i \in 1..(n + 1), answers'[i].call.by = r
       PROVE  /\ answers'[i].call.q \in Head(run'[r].plan)
              /\ \A d \in pending' : d.by = r => d.q # answers'[i].call.q
              /\ \A j \in 1..(n + 1) :
                   answers'[j].call.by = r /\ answers'[j].call.q = answers'[i].call.q => j = i
  <2>1. CASE i \in 1..n
    <3>1. answers'[i] = answers[i]
      BY <1>5, <2>1
    <3>2. ASSUME NEW j \in 1..(n + 1), answers'[j].call.by = r, answers'[j].call.q = answers'[i].call.q
          PROVE  j = i
      <4>1. CASE j \in 1..n
        BY <1>5, <1>8, <1>10, <2>1, <3>1, <3>2, <4>1
      <4>2. CASE j = n + 1
        <5>1. c.by = r /\ c.q = answers[i].call.q
          BY <1>2, <1>4, <3>1, <3>2, <4>2
        <5>2. QED
          BY <1>8, <1>10, <2>1, <3>1, <5>1
      <4>3. QED
        BY <1>6, <4>1, <4>2
    <3>3. QED
      BY <1>2, <1>8, <1>10, <2>1, <3>1, <3>2
  <2>2. CASE i = n + 1
    <3>1. answers'[i].call = c
      BY <1>2, <1>4, <2>2
    <3>2. ASSUME NEW d \in pending', d.by = r
          PROVE  d.q # c.q
      <4>1. d # c /\ d = [by |-> d.by, q |-> d.q] /\ c = [by |-> c.by, q |-> c.q]
        BY <1>2 DEF WhoAsks
      <4>2. QED
        BY <1>10, <3>1, <3>2, <4>1
    <3>3. ASSUME NEW j \in 1..(n + 1), answers'[j].call.by = r, answers'[j].call.q = c.q
          PROVE  j = n + 1
      <4>1. CASE j \in 1..n
        BY <1>5, <1>8, <1>10, <3>1, <3>3, <4>1
      <4>2. QED
        BY <1>6, <4>1
    <3>4. QED
      BY <1>2, <1>8, <1>10, <2>2, <3>1, <3>2, <3>3
  <2>3. QED
    BY <1>6, <2>1, <2>2
<1>11. AskedOnce(r)'
  BY <1>4, <1>9, <1>10 DEF AskedOnce
<1>12. QED
  BY <1>7, <1>11

\* What was ahead still is, apart from what was answered; a failure is not forgotten.
LEMMA RespondsAhead ==
  ASSUME FleetShape, WhoAsks, NEW c \in pending, NEW ok, Responds(c, ok), NEW r \in Runs
  PROVE  /\ \A q : Ahead(r, q) /\ ~ (c.by = r /\ q = c.q) => Ahead(r, q)'
         /\ HasFailed(r) => HasFailed(r)'
         /\ c.by = r /\ ~ ok /\ c.q.op \notin Lists => HasFailed(r)'
<1>1. PICK a : /\ answers' = Append(answers, a)
               /\ a.call = c /\ a.ok = ok /\ a.now = srv' /\ a.page \subseteq srv'.vehicles
  BY AnswerGiven
<1>2. answers' = Append(answers, a) /\ pending' = pending \ {c} /\ run' = run /\ a.call = c /\ a.ok = ok
  BY <1>1 DEF Responds
<1>3. PICK n : n = Len(answers)
  OBVIOUS
<1>4. n \in Nat /\ Len(answers') = n + 1 /\ answers'[n + 1] = a
  BY <1>2, <1>3, AppendedElements DEF FleetShape
<1>5. \A i \in 1..n : answers'[i] = answers[i]
  BY <1>2, <1>3, AppendedElements DEF FleetShape
<1>6. \A i \in 1..n : i \in 1..(n + 1)
  BY <1>4
<1>7. n + 1 \in 1..(n + 1)
  BY <1>4
<1>8. ASSUME NEW q, Ahead(r, q), ~ (c.by = r /\ q = c.q)
      PROVE  Ahead(r, q)'
  <2>1. PICK d : d = [by |-> r, q |-> q]
    OBVIOUS
  <2>2. d # c
    <3>1. d.by = r /\ d.q = q
      BY <2>1
    <3>2. QED
      BY <1>8, <3>1
  <2>3. d \in pending => d \in pending'
    BY <1>2, <2>2
  <2>4. QED
    BY <1>2, <1>8, <2>1, <2>3 DEF Ahead
<1>9. HasFailed(r) => HasFailed(r)'
  BY <1>3, <1>4, <1>5, <1>6 DEF HasFailed
<1>10. c.by = r /\ ~ ok /\ c.q.op \notin Lists => HasFailed(r)'
  BY <1>2, <1>4, <1>7 DEF HasFailed
<1>11. QED
  BY <1>8, <1>9, <1>10

\* A request that changes nothing about the fleet, or a step that is no request of the save.
LEMMA AheadStays ==
  ASSUME NEW r \in Runs, NEW f, run' = run, srv'.members[f] = srv.members[f],
         \A v \in Craft : srv'.at[v] = srv.at[v],
         \A q : q.op \in {"assignUsers", "removeUser", "updateVehicle"} /\ Ahead(r, q) => Ahead(r, q)'
  PROVE  (MembersAhead(r, f) => MembersAhead(r, f)') /\ (VehiclesAhead(r, f) => VehiclesAhead(r, f)')
<1>1. ASSUME MembersAhead(r, f) PROVE MembersAhead(r, f)'
  <2>1. ASSUME NEW u \in run[r].form.members
        PROVE  u \in srv'.members[f] \/ \E q : Ahead(r, q)' /\ q.op = "assignUsers" /\ u \in q.to
    BY <1>1 DEF MembersAhead
  <2>2. ASSUME NEW u \in srv.members[f]
        PROVE  u \in run[r].form.members \/ \E q : Ahead(r, q)' /\ q.op = "removeUser" /\ u \in q.to
    BY <1>1 DEF MembersAhead
  <2>3. QED
    BY <2>1, <2>2 DEF MembersAhead
<1>2. ASSUME VehiclesAhead(r, f) PROVE VehiclesAhead(r, f)'
  <2>1. \A v : ToPut(v, f, run[r].form).op = "updateVehicle"
    BY DEF ToPut
  <2>2. QED
    BY <1>2, <2>1 DEF VehiclesAhead
<1>3. QED
  BY <1>1, <1>2

LEMMA SaveIsServed ==
  ASSUME FleetShape, WhoAsks, NEW r \in Runs, NEW f \in Fleets, SavesOn(r, f),
         NEW c \in pending, c.by = r, InPlan(run[r].plan, c.q), Carried(c.q), Responds(c, TRUE)
  PROVE  (MembersAhead(r, f) => MembersAhead(r, f)')
         /\ (run[r].closes = "fleet" /\ VehiclesAhead(r, f) => VehiclesAhead(r, f)')
<1>0. PICK fm : fm = run[r].form
  OBVIOUS
<1>1. ForSave(c.q, f, fm, run[r].closes) /\ run' = run
  BY <1>0 DEF SavesOn, Responds
<1>2. srv \in Database
  BY DEF FleetShape
<1>3. /\ c.q.op = "assignUsers" => srv'.members[f] = srv.members[f] \cup c.q.to
      /\ c.q.op = "removeUser" => srv'.members[f] = srv.members[f] \ c.q.to
      /\ c.q.op \notin {"assignUsers", "removeUser"} => srv'.members[f] = srv.members[f]
      /\ \A v \in Craft : srv'.at[v] = IF c.q.op = "updateVehicle" /\ v \in c.q.of THEN c.q.to ELSE srv.at[v]
  BY <1>1, <1>2, SaveCarried
<1>4. \A q : Ahead(r, q) /\ q # c.q => Ahead(r, q)'
  BY RespondsAhead
<1>5. /\ c.q.op = "assignUsers" => c.q.to \subseteq fm.members
      /\ c.q.op = "removeUser" => c.q.to \cap fm.members = {}
      /\ c.q.op = "updateVehicle" => \E v \in Craft : c.q = ToPut(v, f, fm)
  BY <1>1 DEF ForSave
<1>6. ASSUME MembersAhead(r, f) PROVE MembersAhead(r, f)'
  <2>1. ASSUME NEW u \in fm.members
        PROVE  u \in srv'.members[f] \/ \E q : Ahead(r, q)' /\ q.op = "assignUsers" /\ u \in q.to
    <3>1. CASE u \in srv.members[f]
      BY <1>3, <1>5, <3>1
    <3>2. ASSUME NEW q, Ahead(r, q), q.op = "assignUsers", u \in q.to
          PROVE  u \in srv'.members[f] \/ \E p : Ahead(r, p)' /\ p.op = "assignUsers" /\ u \in p.to
      <4>1. CASE q = c.q
        BY <1>3, <3>2, <4>1
      <4>2. CASE q # c.q
        BY <1>4, <3>2, <4>2
      <4>3. QED
        BY <4>1, <4>2
    <3>3. u \in srv.members[f] \/ \E q : Ahead(r, q) /\ q.op = "assignUsers" /\ u \in q.to
      BY <1>0, <1>6 DEF MembersAhead
    <3>4. QED
      BY <3>1, <3>2, <3>3
  <2>2. ASSUME NEW u \in srv'.members[f], u \notin fm.members
        PROVE  \E q : Ahead(r, q)' /\ q.op = "removeUser" /\ u \in q.to
    <3>1. u \in srv.members[f] /\ ~ (c.q.op = "removeUser" /\ u \in c.q.to)
      BY <1>3, <1>5, <2>2
    <3>2. PICK q : Ahead(r, q) /\ q.op = "removeUser" /\ u \in q.to
      BY <1>0, <1>6, <2>2, <3>1 DEF MembersAhead
    <3>3. q # c.q
      BY <3>1, <3>2
    <3>4. QED
      BY <1>4, <3>2, <3>3
  <2>3. run'[r].form = fm
    BY <1>0, <1>1
  <2>4. QED
    BY <2>1, <2>2, <2>3 DEF MembersAhead
<1>7. ASSUME run[r].closes = "fleet", VehiclesAhead(r, f) PROVE VehiclesAhead(r, f)'
  <2>1. ASSUME NEW v \in Craft
        PROVE  (srv'.at[v] = {f} <=> v \in fm.vehicles) \/ Ahead(r, ToPut(v, f, fm))'
    <3>1. CASE c.q = ToPut(v, f, fm)
      <4>1. c.q.op = "updateVehicle" /\ v \in c.q.of /\ c.q.to = IF v \in fm.vehicles THEN {f} ELSE {}
        BY <3>1 DEF ToPut
      <4>2. QED
        BY <1>3, <4>1
    <3>2. CASE c.q # ToPut(v, f, fm)
      <4>1. Ahead(r, ToPut(v, f, fm)) => Ahead(r, ToPut(v, f, fm))'
        BY <1>4, <3>2
      <4>2. srv'.at[v] = srv.at[v]
        <5>1. ASSUME c.q.op = "updateVehicle", v \in c.q.of PROVE FALSE
          <6>1. PICK w \in Craft : c.q = ToPut(w, f, fm)
            BY <1>5, <5>1
          <6>2. c.q.of = {w}
            BY <6>1 DEF ToPut
          <6>3. QED
            BY <3>2, <5>1, <6>1, <6>2
        <5>2. QED
          BY <1>3, <5>1
      <4>3. QED
        BY <1>0, <1>7, <4>1, <4>2 DEF VehiclesAhead
    <3>3. QED
      BY <3>1, <3>2
  <2>2. run'[r].form = fm
    BY <1>0, <1>1
  <2>3. QED
    BY <2>1, <2>2 DEF VehiclesAhead
<1>8. QED
  BY <1>6, <1>7

LEMMA ServedGoesOn ==
  ASSUME FleetShape, SaveInv, NEW c \in pending, Served(c), NEW r \in Runs, Saves(r)
  PROVE  SaveGoesOn(r)'
<1>1. WhoAsks /\ SaveGoesOn(r)
  BY DEF SaveInv
<1>2. PICK f \in Fleets : run[r].fleet = {f} /\ SavesOn(r, f)
  BY <1>1 DEF SaveGoesOn
<1>3. PICK ok \in BOOLEAN : Responds(c, ok) /\ (srv' = srv \/ Carried(c.q))
                            /\ (ok => Carried(c.q)) /\ (srv' = srv \/ ok \/ c.q.op \in Operations)
  <2>1. Serve(c) => Responds(c, TRUE) /\ Carried(c.q)
    BY DEF Serve
  <2>2. NotFound(c) => Responds(c, FALSE) /\ srv' = srv
    BY DEF NotFound
  <2>3. Refuse(c) => Responds(c, FALSE) /\ srv' = srv
    BY DEF Refuse
  <2>4. LoseAnswer(c) => Responds(c, FALSE) /\ Carried(c.q) /\ c.q.op \in Operations
    BY DEF LoseAnswer
  <2>5. QED
    BY <2>1, <2>2, <2>3, <2>4 DEF Served
<1>4. run' = run
  BY <1>3 DEF Responds
<1>5. Alone(r)' /\ AskedOnce(r)'
  BY <1>1, <1>3, RespondsOnce DEF SaveGoesOn
<1>6. /\ \A q : Ahead(r, q) /\ ~ (c.by = r /\ q = c.q) => Ahead(r, q)'
      /\ HasFailed(r) => HasFailed(r)'
      /\ c.by = r /\ ~ ok /\ c.q.op \notin Lists => HasFailed(r)'
  BY <1>1, <1>3, RespondsAhead
<1>7. HasFailed(r)' \/ ((MembersAhead(r, f) => MembersAhead(r, f)')
                        /\ (run[r].closes = "fleet" /\ VehiclesAhead(r, f) => VehiclesAhead(r, f)'))
  <2>1. CASE c.by # r
    <3>1. c.by \notin Runs
      BY <1>1, <2>1 DEF SaveGoesOn, Alone
    <3>2. c.q.op \in Modals
      BY <1>1, <3>1 DEF WhoAsks
    <3>3. srv' = srv
      <4>1. Carried(c.q) => srv' = srv
        BY <3>2 DEF Carried, Modals
      <4>2. QED
        BY <1>3, <4>1
    <3>4. QED
      BY <1>4, <1>6, <2>1, <3>3, AheadStays
  <2>2. CASE c.by = r /\ ok
    <3>1. c.q \in Head(run[r].plan)
      BY <1>1, <2>2 DEF SaveGoesOn, AskedOnce
    <3>2. InPlan(run[r].plan, c.q)
      <4>1. IsSeq(run[r].plan) /\ run[r].plan # <<>>
        BY DEF FleetShape, WellPlanned, Saves
      <4>2. QED
        BY <3>1, <4>1, RestInPlan
    <3>3. Responds(c, TRUE) /\ Carried(c.q)
      <4>1. ok = TRUE
        BY <2>2
      <4>2. QED
        BY <1>3, <4>1
    <3>4. QED
      BY <1>1, <1>2, <2>2, <3>2, <3>3, SaveIsServed
  <2>3. CASE c.by = r /\ ~ ok
    <3>1. CASE c.q.op \notin Lists
      BY <1>6, <2>3, <3>1
    <3>2. CASE c.q.op \in Lists
      <4>1. srv' = srv
        BY <1>3, <2>3, <3>2, ListsOps
      <4>2. c.q.op \notin {"assignUsers", "removeUser", "updateVehicle"}
        BY <3>2 DEF Lists
      <4>3. \A q : q.op \in {"assignUsers", "removeUser", "updateVehicle"} /\ Ahead(r, q) => Ahead(r, q)'
        BY <1>6, <4>2
      <4>4. QED
        BY <1>4, <4>1, <4>3, AheadStays
    <3>3. QED
      BY <3>1, <3>2
  <2>4. QED
    BY <2>1, <2>2, <2>3
<1>8. SavesOn(r, f)'
  BY <1>2, <1>4, <1>6, <1>7 DEF SavesOn
<1>9. QED
  BY <1>1, <1>2, <1>4, <1>5, <1>8 DEF SaveGoesOn

LEMMA ActsCounted == ASSUME acts \in Nat, acts' = acts \/ Acts PROVE acts' \in Nat
BY DEF Acts

LEMMA ServedSaves ==
  ASSUME FleetShape, SaveInv, NEW c \in pending, Served(c)
  PROVE  SaveInv'
<1>1. acts' = acts \/ Acts
  BY DEF Served, Serve, NotFound, Refuse, LoseAnswer
<1>2. PICK ok : Responds(c, ok)
  BY DEF Served, Serve, NotFound, Refuse, LoseAnswer
<1>3. WhoAsks'
  BY <1>1, <1>2, ActsCounted, RespondsWho DEF SaveInv, WhoAsks
<1>4. run' = run
  BY <1>2 DEF Responds
<1>5. \A r \in Runs : Saves(r)' => Saves(r)
  BY <1>4 DEF Saves
<1>6. \A r \in Runs : Saves(r) => SaveGoesOn(r)'
  BY ServedGoesOn
<1>7. QED
  BY <1>3, <1>5, <1>6 DEF SaveInv

-----------------------------------------------------------------------------
(* The page takes an answer in.                                            *)

\* The click goes on: from its stage the request is gone that was answered.
GoesTo(s, q, rest, left) ==
  /\ rest = Head(run[s].plan) \ {q}
  /\ left = IF rest = {} THEN Tail(run[s].plan) ELSE <<rest>> \o Tail(run[s].plan)
  /\ Proceeds(s, left)

LEMMA Continued ==
  ASSUME NEW a, Continues(a), NEW s \in Runs, run[s].state = "running", a.call.by = s
  PROVE  \/ ~ a.ok /\ a.call.q.op \notin Lists /\ Fails(s)
         \/ (a.ok \/ a.call.q.op \in Lists) /\ \E rest, left : GoesTo(s, a.call.q, rest, left)
BY DEF Continues, GoesTo

LEMMA NotContinued ==
  ASSUME NEW a, Continues(a), ~ (a.call.by \in Runs /\ run[a.call.by].state = "running")
  PROVE  UNCHANGED <<run, modal, pending>>
BY DEF Continues

\* A click that goes on is at the rest of its stage, or at the next one, which is asked for.
LEMMA Proceeded ==
  ASSUME FleetShape, NEW s \in Runs, run[s].state = "running", NEW q, NEW rest, NEW left,
         GoesTo(s, q, rest, left)
  PROVE  /\ IsSeq(left) /\ IsSeq(Tail(run[s].plan))
         /\ \A t \in Runs : t # s => run'[t] = run[t]
         /\ left = <<>> => run' = [run EXCEPT ![s] = Over("done")] /\ pending' = pending /\ rest = {}
         /\ left # <<>> =>
              /\ run'[s].plan = left /\ run'[s].state = "running" /\ run'[s].clean = run[s].clean
              /\ run'[s].form = run[s].form /\ run'[s].fleet = run[s].fleet /\ run'[s].closes = run[s].closes
         /\ rest # {} => /\ left # <<>> /\ Head(left) = rest /\ Tail(left) = Tail(run[s].plan)
                         /\ pending' = pending
         /\ rest = {} => /\ left = Tail(run[s].plan)
                         /\ left # <<>> => pending' = pending \cup {[by |-> s, q |-> p] : p \in Head(left)}
<1>0. /\ rest = Head(run[s].plan) \ {q}
      /\ left = IF rest = {} THEN Tail(run[s].plan) ELSE <<rest>> \o Tail(run[s].plan)
      /\ Proceeds(s, left)
  BY DEF GoesTo
<1>1. PICK plan : plan = run[s].plan
  OBVIOUS
<1>2. IsSeq(plan) /\ plan # <<>>
  BY <1>1 DEF FleetShape, WellPlanned
<1>3. PICK tail : tail = Tail(plan)
  OBVIOUS
<1>4. IsSeq(tail) /\ Len(plan) \in Nat /\ Len(plan) >= 1 /\ Len(tail) = Len(plan) - 1
  BY <1>2, <1>3, TailElements
<1>5. left = IF rest = {} THEN tail ELSE <<rest>> \o tail
  BY <1>0, <1>1, <1>3
<1>6. rest # {} => IsSeq(left) /\ left # <<>> /\ Head(left) = rest /\ Tail(left) = tail /\ Len(left) = Len(plan)
  <2>1. SUFFICES ASSUME rest # {}
                 PROVE  IsSeq(left) /\ left # <<>> /\ Head(left) = rest /\ Tail(left) = tail /\ Len(left) = Len(plan)
    OBVIOUS
  <2>2. left = <<rest>> \o tail
    BY <1>5, <2>1
  <2>3. IsSeq(left) /\ left # <<>> /\ Head(left) = rest /\ Tail(left) = tail
    BY <1>4, <2>2, StageFirst
  <2>4. Len(left) \in Nat /\ Len(tail) = Len(left) - 1
    BY <2>3, TailElements
  <2>5. Len(left) = Len(plan)
    BY <1>4, <2>4
  <2>6. QED
    BY <2>3, <2>5
<1>7. IsSeq(left) /\ IsSeq(tail)
  BY <1>4, <1>5, <1>6
<1>8. DOMAIN run = Runs /\ {"state", "plan", "closes", "clean", "fleet", "form"} \subseteq DOMAIN run[s]
  BY DEF FleetShape
<1>9. left = <<>> => run' = [run EXCEPT ![s] = Over("done")] /\ pending' = pending /\ rest = {}
  BY <1>0, <1>6 DEF Proceeds
<1>10. left # <<>> => run' = [run EXCEPT ![s] = [run[s] EXCEPT !.plan = left]]
  BY <1>0 DEF Proceeds
<1>11. left # <<>> =>
         /\ run'[s].plan = left /\ run'[s].state = "running" /\ run'[s].clean = run[s].clean
         /\ run'[s].form = run[s].form /\ run'[s].fleet = run[s].fleet /\ run'[s].closes = run[s].closes
  BY <1>8, <1>10
<1>12. \A t \in Runs : t # s => run'[t] = run[t]
  BY <1>8, <1>9, <1>10
<1>13. left # <<>> => pending' = IF Len(left) < Len(plan)
                                 THEN pending \cup {[by |-> s, q |-> p] : p \in Head(left)} ELSE pending
  BY <1>0, <1>1 DEF Proceeds
<1>14. rest # {} => pending' = pending
  BY <1>4, <1>6, <1>13
<1>15. rest = {} => left = tail /\ (left # <<>> => pending' = pending \cup {[by |-> s, q |-> p] : p \in Head(left)})
  BY <1>4, <1>5, <1>13
<1>16. QED
  BY <1>1, <1>3, <1>6, <1>7, <1>9, <1>11, <1>12, <1>14, <1>15

\* The answers that are left, each where it was, or one place further on.
LEMMA AnswersLeft ==
  ASSUME FleetShape, NEW i \in 1..Len(answers), Receive(i)
  PROVE  \E at \in [1..Len(answers') -> 1..Len(answers)] :
           /\ \A j \in 1..Len(answers') : answers'[j] = answers[at[j]] /\ at[j] # i
           /\ \A j, k \in 1..Len(answers') : at[j] = at[k] => j = k
           /\ \A k \in 1..Len(answers) : k # i => \E j \in 1..Len(answers') : at[j] = k
<1>1. PICK n : n = Len(answers)
  OBVIOUS
<1>2. answers' = RemoveAt(answers, i) /\ IsSeq(answers)
  BY DEF Receive, FleetShape
<1>3. n \in Nat /\ Len(answers') = n - 1
  BY <1>1, <1>2, RemainingElements
<1>4. \A j \in 1..(n - 1) : answers'[j] = IF j < i THEN answers[j] ELSE answers[j + 1]
  BY <1>1, <1>2, <1>3, RemainingElements
<1>5. i \in 1..n
  BY <1>1
<1>6. PICK at : at = [j \in 1..(n - 1) |-> IF j < i THEN j ELSE j + 1]
  OBVIOUS
<1>7. at \in [1..(n - 1) -> 1..n]
  BY <1>3, <1>5, <1>6
<1>8. \A j \in 1..(n - 1) : at[j] = IF j < i THEN j ELSE j + 1
  BY <1>6
<1>9. \A j \in 1..(n - 1) : at[j] # i /\ answers'[j] = answers[at[j]]
  BY <1>3, <1>4, <1>5, <1>8
<1>10. \A j, k \in 1..(n - 1) : at[j] = at[k] => j = k
  BY <1>3, <1>5, <1>8
<1>11. ASSUME NEW k \in 1..n, k # i
       PROVE  \E j \in 1..(n - 1) : at[j] = k
  <2>1. CASE k < i
    <3>1. k \in 1..(n - 1) /\ at[k] = k
      BY <1>3, <1>5, <1>8, <2>1
    <3>2. QED
      BY <3>1
  <2>2. CASE ~ (k < i)
    <3>1. k - 1 \in 1..(n - 1) /\ ~ (k - 1 < i) /\ (k - 1) + 1 = k
      BY <1>3, <1>5, <1>11, <2>2
    <3>2. at[k - 1] = k
      BY <1>8, <3>1
    <3>3. QED
      BY <3>1, <3>2
  <2>3. QED
    BY <2>1, <2>2
<1>12. QED
  BY SMTT(30), <1>1, <1>3, <1>7, <1>9, <1>10, <1>11

LEMMA ContinuesWho ==
  ASSUME FleetShape, NEW a, Continues(a)
  PROVE  /\ \A c \in pending' : c \in pending \/
              \E s \in Runs : \E p : run[s].state = "running" /\ c = [by |-> s, q |-> p]
         /\ \A r \in Runs : run'[r].state = "idle" => run[r].state = "idle"
<1>1. CASE ~ (a.call.by \in Runs /\ run[a.call.by].state = "running")
  <2>1. run' = run /\ pending' = pending
    BY <1>1, NotContinued
  <2>2. QED
    BY <2>1
<1>2. ASSUME NEW s \in Runs, a.call.by = s, run[s].state = "running"
      PROVE  /\ \A c \in pending' : c \in pending \/
                  \E t \in Runs : \E p : run[t].state = "running" /\ c = [by |-> t, q |-> p]
             /\ \A r \in Runs : run'[r].state = "idle" => run[r].state = "idle"
  <2>0. DOMAIN run = Runs /\ Over("failed").state = "failed" /\ Over("done").state = "done"
    BY DEF FleetShape, Over
  <2>1. CASE Fails(s)
    <3>1. run' = [run EXCEPT ![s] = Over("failed")] /\ pending' = pending
      BY <2>1 DEF Fails
    <3>2. QED
      BY <2>0, <3>1
  <2>2. ASSUME NEW rest, NEW left, GoesTo(s, a.call.q, rest, left)
        PROVE  /\ \A c \in pending' : c \in pending \/
                    \E t \in Runs : \E p : run[t].state = "running" /\ c = [by |-> t, q |-> p]
               /\ \A r \in Runs : run'[r].state = "idle" => run[r].state = "idle"
    <3>2. /\ \A t \in Runs : t # s => run'[t] = run[t]
          /\ left = <<>> => run' = [run EXCEPT ![s] = Over("done")] /\ pending' = pending
          /\ left # <<>> => run'[s].state = "running"
          /\ rest # {} => pending' = pending
          /\ rest = {} /\ left # <<>> => pending' = pending \cup {[by |-> s, q |-> p] : p \in Head(left)}
      BY <1>2, <2>2, Proceeded
    <3>3. \A c \in pending' : c \in pending \/ \E p : c = [by |-> s, q |-> p]
      BY <3>2
    <3>4. run'[s].state # "idle"
      BY <2>0, <3>2
    <3>5. QED
      BY <1>2, <3>2, <3>3, <3>4
  <2>3. QED
    BY <1>2, <2>1, <2>2, Continued
<1>3. QED
  BY <1>1, <1>2

LEMMA ReceivesWho ==
  ASSUME FleetShape, WhoAsks, NEW i \in 1..Len(answers), Receive(i)
  PROVE  WhoAsks'
<1>1. PICK at \in [1..Len(answers') -> 1..Len(answers)] :
        \A j \in 1..Len(answers') : answers'[j] = answers[at[j]]
  BY AnswersLeft
<1>2. PICK a : a = answers[i]
  OBVIOUS
<1>3. Continues(a) /\ (acts' = acts \/ Acts)
  BY <1>2 DEF Receive
<1>4. /\ \A c \in pending' : c \in pending \/
           \E s \in Runs : \E p : run[s].state = "running" /\ c = [by |-> s, q |-> p]
      /\ \A r \in Runs : run'[r].state = "idle" => run[r].state = "idle"
  BY <1>3, ContinuesWho
<1>5. ASSUME NEW c \in pending'
      PROVE  /\ c = [by |-> c.by, q |-> c.q] /\ (c.by \in Runs \/ c.q.op \in Modals)
             /\ \A r \in Runs : run'[r].state = "idle" => c.by # r
  <2>1. CASE c \in pending
    BY <1>4, <2>1 DEF WhoAsks
  <2>2. ASSUME NEW s \in Runs, NEW p, run[s].state = "running", c = [by |-> s, q |-> p]
        PROVE  /\ c = [by |-> c.by, q |-> c.q] /\ (c.by \in Runs \/ c.q.op \in Modals)
               /\ \A r \in Runs : run'[r].state = "idle" => c.by # r
    <3>1. c.by = s /\ c.q = p
      BY <2>2
    <3>2. QED
      BY <1>4, <2>2, <3>1
  <2>3. QED
    BY <1>4, <2>1, <2>2
<1>6. \A r \in Runs : run'[r].state = "idle" => \A j \in 1..Len(answers') : answers'[j].call.by # r
  BY <1>1, <1>4 DEF WhoAsks
<1>7. acts' \in Nat
  BY <1>3, ActsCounted DEF WhoAsks
<1>8. QED
  BY <1>5, <1>6, <1>7 DEF WhoAsks

\* An answer to somebody else.
LEMMA OthersAnswer ==
  ASSUME FleetShape, SaveInv, NEW i \in 1..Len(answers), Receive(i), NEW r \in Runs, Saves(r)',
         answers[i].call.by # r
  PROVE  SaveGoesOn(r)'
<1>1. PICK a : a = answers[i]
  OBVIOUS
<1>2. Continues(a) /\ srv' = srv
  BY <1>1 DEF Receive
<1>3. PICK at \in [1..Len(answers') -> 1..Len(answers)] :
        /\ \A j \in 1..Len(answers') : answers'[j] = answers[at[j]] /\ at[j] # i
        /\ \A j, k \in 1..Len(answers') : at[j] = at[k] => j = k
        /\ \A k \in 1..Len(answers) : k # i => \E j \in 1..Len(answers') : at[j] = k
  BY AnswersLeft
<1>4. run'[r] = run[r]
  <2>1. CASE ~ (a.call.by \in Runs /\ run[a.call.by].state = "running")
    BY <1>2, <2>1, NotContinued
  <2>2. ASSUME NEW s \in Runs, a.call.by = s, run[s].state = "running"
        PROVE  run'[r] = run[r]
    <3>1. s # r /\ DOMAIN run = Runs
      BY <1>1, <2>2 DEF FleetShape
    <3>2. Fails(s) => run'[r] = run[r]
      BY <3>1 DEF Fails
    <3>3. ASSUME NEW rest, NEW left, GoesTo(s, a.call.q, rest, left)
          PROVE  run'[r] = run[r]
      BY <2>2, <3>1, <3>3, Proceeded
    <3>4. QED
      BY <1>2, <2>2, <3>2, <3>3, Continued
  <2>3. QED
    BY <2>1, <2>2
<1>5. Saves(r) /\ SaveGoesOn(r)
  BY <1>4 DEF Saves, SaveInv
<1>6. run' = run /\ pending' = pending
  <2>1. ~ (a.call.by \in Runs /\ run[a.call.by].state = "running")
    BY <1>1, <1>5 DEF SaveGoesOn, Alone
  <2>2. QED
    BY <1>2, <2>1, NotContinued
<1>7. Alone(r)'
  BY <1>5, <1>6 DEF SaveGoesOn, Alone
<1>8. AskedOnce(r)'
  <2>1. AskedOnce(r)
    BY <1>5 DEF SaveGoesOn
  <2>2. ASSUME NEW j \in 1..Len(answers'), answers'[j].call.by = r
        PROVE  /\ answers'[j].call.q \in Head(run[r].plan)
               /\ \A c \in pending : c.by = r => c.q # answers'[j].call.q
               /\ \A k \in 1..Len(answers') :
                    answers'[k].call.by = r /\ answers'[k].call.q = answers'[j].call.q => k = j
    <3>1. at[j] \in 1..Len(answers) /\ answers'[j] = answers[at[j]]
      BY <1>3
    <3>2. /\ answers[at[j]].call.q \in Head(run[r].plan)
          /\ \A c \in pending : c.by = r => c.q # answers[at[j]].call.q
      BY <2>1, <2>2, <3>1 DEF AskedOnce
    <3>3. ASSUME NEW k \in 1..Len(answers'), answers'[k].call.by = r,
                 answers'[k].call.q = answers'[j].call.q
          PROVE  k = j
      <4>1. at[k] \in 1..Len(answers) /\ answers'[k] = answers[at[k]]
        BY <1>3
      <4>2. at[k] = at[j]
        BY <2>1, <2>2, <3>1, <3>3, <4>1 DEF AskedOnce
      <4>3. QED
        BY <1>3, <4>2
    <3>4. QED
      BY <3>1, <3>2, <3>3
  <2>3. \A c \in pending' : c.by = r => c.q \in Head(run'[r].plan)
    BY <1>6, <2>1 DEF AskedOnce
  <2>4. QED
    BY <1>6, <2>2, <2>3 DEF AskedOnce
<1>9. HasFailed(r) => HasFailed(r)'
  <2>1. SUFFICES ASSUME NEW k \in 1..Len(answers), answers[k].call.by = r, ~ answers[k].ok,
                        answers[k].call.q.op \notin Lists
                 PROVE  HasFailed(r)'
    BY DEF HasFailed
  <2>2. k # i
    BY <2>1
  <2>3. PICK j \in 1..Len(answers') : at[j] = k
    BY <1>3, <2>2
  <2>4. QED
    BY <1>3, <2>1, <2>3 DEF HasFailed
<1>10. PICK f \in Fleets : run[r].fleet = {f} /\ SavesOn(r, f)
  BY <1>5 DEF SaveGoesOn
<1>11. \A q : Ahead(r, q) => Ahead(r, q)'
  BY <1>6 DEF Ahead
<1>12. (MembersAhead(r, f) => MembersAhead(r, f)') /\ (VehiclesAhead(r, f) => VehiclesAhead(r, f)')
  BY <1>2, <1>6, <1>11, AheadStays
<1>13. SavesOn(r, f)'
  BY <1>6, <1>9, <1>10, <1>12 DEF SavesOn
<1>14. QED
  BY <1>5, <1>6, <1>7, <1>8, <1>10, <1>13 DEF SaveGoesOn

\* An answer to the save itself.
LEMMA OwnAnswer ==
  ASSUME FleetShape, SaveInv, NEW i \in 1..Len(answers), Receive(i), NEW r \in Runs, Saves(r)',
         answers[i].call.by = r
  PROVE  SaveGoesOn(r)'
<1>1. PICK a : a = answers[i]
  OBVIOUS
<1>2. Continues(a) /\ srv' = srv /\ a.call.by = r
  BY <1>1 DEF Receive
<1>3. PICK at \in [1..Len(answers') -> 1..Len(answers)] :
        /\ \A j \in 1..Len(answers') : answers'[j] = answers[at[j]] /\ at[j] # i
        /\ \A j, k \in 1..Len(answers') : at[j] = at[k] => j = k
        /\ \A k \in 1..Len(answers) : k # i => \E j \in 1..Len(answers') : at[j] = k
  BY AnswersLeft
<1>4. DOMAIN run = Runs /\ Over("failed").state = "failed" /\ Over("done").state = "done"
  BY DEF FleetShape, Over
<1>5. run[r].state = "running"
  <2>1. SUFFICES ASSUME run[r].state # "running" PROVE FALSE
    OBVIOUS
  <2>2. run' = run
    BY <1>2, <2>1, NotContinued
  <2>3. QED
    BY <2>1, <2>2 DEF Saves
<1>6. ~ Fails(r)
  BY <1>4 DEF Fails, Saves
<1>7. a.ok \/ a.call.q.op \in Lists
  BY <1>2, <1>5, <1>6, Continued
<1>8. PICK q : q = a.call.q
  OBVIOUS
<1>9. PICK rest, left : GoesTo(r, q, rest, left)
  BY <1>2, <1>5, <1>6, <1>8, Continued
<1>10. left # <<>>
  <2>1. left = <<>> => run' = [run EXCEPT ![r] = Over("done")]
    BY <1>5, <1>9, Proceeded
  <2>2. QED
    BY <1>4, <2>1 DEF Saves
<1>11. PICK plan : plan = run[r].plan
  OBVIOUS
<1>12. /\ IsSeq(left) /\ IsSeq(Tail(plan))
       /\ \A t \in Runs : t # r => run'[t] = run[t]
       /\ run'[r].plan = left /\ run'[r].state = "running" /\ run'[r].clean = run[r].clean
       /\ run'[r].form = run[r].form /\ run'[r].fleet = run[r].fleet /\ run'[r].closes = run[r].closes
  BY <1>5, <1>9, <1>10, <1>11, Proceeded
<1>13. /\ rest # {} => Head(left) = rest /\ Tail(left) = Tail(plan) /\ pending' = pending
       /\ rest = {} => left = Tail(plan) /\ pending' = pending \cup {[by |-> r, q |-> p] : p \in Head(left)}
  BY <1>5, <1>9, <1>10, <1>11, Proceeded
<1>14. rest = Head(plan) \ {q}
  BY <1>9, <1>11 DEF GoesTo
<1>15. Saves(r) /\ SaveGoesOn(r)
  BY <1>5, <1>12 DEF Saves, SaveInv
<1>16. IsSeq(plan) /\ plan # <<>>
  BY <1>5, <1>11 DEF FleetShape, WellPlanned
<1>17. \A p : InPlan(plan, p) <=> p \in Head(plan) \/ InPlan(Tail(plan), p)
  BY <1>16, RestInPlan
<1>18. \A p : InPlan(left, p) <=> p \in Head(left) \/ InPlan(Tail(left), p)
  BY <1>10, <1>12, RestInPlan
<1>19. /\ \A c \in pending : c.by = r => c.q \in Head(plan)
       /\ \A k \in 1..Len(answers) : answers[k].call.by = r =>
            /\ answers[k].call.q \in Head(plan)
            /\ \A c \in pending : c.by = r => c.q # answers[k].call.q
            /\ \A j \in 1..Len(answers) :
                 answers[j].call.by = r /\ answers[j].call.q = answers[k].call.q => j = k
  BY <1>11, <1>15 DEF SaveGoesOn, AskedOnce
<1>20. \A c \in pending : c.by = r => c.q \in rest
  BY <1>1, <1>2, <1>8, <1>14, <1>19
<1>21. ASSUME NEW j \in 1..Len(answers'), answers'[j].call.by = r
       PROVE  /\ answers'[j].call.q \in rest
              /\ \A c \in pending : c.by = r => c.q # answers'[j].call.q
              /\ \A k \in 1..Len(answers') :
                   answers'[k].call.by = r /\ answers'[k].call.q = answers'[j].call.q => k = j
  <2>1. at[j] \in 1..Len(answers) /\ answers'[j] = answers[at[j]] /\ at[j] # i
    BY <1>3
  <2>2. answers[at[j]].call.q # q
    BY <1>1, <1>2, <1>8, <1>19, <1>21, <2>1
  <2>3. ASSUME NEW k \in 1..Len(answers'), answers'[k].call.by = r,
               answers'[k].call.q = answers'[j].call.q
        PROVE  k = j
    <3>1. at[k] \in 1..Len(answers) /\ answers'[k] = answers[at[k]]
      BY <1>3
    <3>2. at[k] = at[j]
      BY <1>19, <1>21, <2>1, <2>3, <3>1
    <3>3. QED
      BY <1>3, <3>2
  <2>4. QED
    BY <1>14, <1>19, <1>21, <2>1, <2>2, <2>3
<1>22. AskedOnce(r)'
  <2>1. CASE rest # {}
    <3>1. Head(run'[r].plan) = rest /\ pending' = pending
      BY <1>12, <1>13, <2>1
    <3>2. QED
      BY <1>20, <1>21, <3>1 DEF AskedOnce
  <2>2. CASE rest = {}
    <3>1. Head(run'[r].plan) = Head(left) /\ pending' = pending \cup {[by |-> r, q |-> p] : p \in Head(left)}
      BY <1>12, <1>13, <2>2
    <3>2. \A c \in pending : c.by # r
      BY <1>20, <2>2
    <3>3. \A j \in 1..Len(answers') : answers'[j].call.by # r
      BY <1>21, <2>2
    <3>4. \A c \in pending' : c.by = r => c.q \in Head(left)
      BY <3>1, <3>2
    <3>5. QED
      BY <3>1, <3>3, <3>4 DEF AskedOnce
  <2>3. QED
    BY <2>1, <2>2
<1>23. Alone(r)'
  <2>1. Alone(r)
    BY <1>15 DEF SaveGoesOn
  <2>2. \A s \in Runs : run'[s].state = "running" => s = r
    BY <1>12, <2>1 DEF Alone
  <2>3. \A c \in pending' : c \in pending \/ c.by = r
    BY <1>13
  <2>4. QED
    BY <2>1, <2>2, <2>3 DEF Alone
<1>24. HasFailed(r) => HasFailed(r)'
  <2>1. SUFFICES ASSUME NEW k \in 1..Len(answers), answers[k].call.by = r, ~ answers[k].ok,
                        answers[k].call.q.op \notin Lists
                 PROVE  HasFailed(r)'
    BY DEF HasFailed
  <2>2. k # i
    BY <1>1, <1>7, <2>1
  <2>3. PICK j \in 1..Len(answers') : at[j] = k
    BY <1>3, <2>2
  <2>4. QED
    BY <1>3, <2>1, <2>3 DEF HasFailed
<1>25. ASSUME NEW p, Ahead(r, p)
       PROVE  Ahead(r, p)'
  <2>1. [by |-> r, q |-> p] \in pending \/ InPlan(Tail(plan), p)
    BY <1>11, <1>25 DEF Ahead
  <2>2. [by |-> r, q |-> p] \in pending => [by |-> r, q |-> p] \in pending'
    BY <1>13
  <2>3. InPlan(Tail(plan), p) => InPlan(Tail(left), p) \/ [by |-> r, q |-> p] \in pending'
    BY <1>13, <1>18
  <2>4. QED
    BY <1>12, <2>1, <2>2, <2>3 DEF Ahead
<1>26. PICK f \in Fleets : run[r].fleet = {f} /\ SavesOn(r, f)
  BY <1>15 DEF SaveGoesOn
<1>27. \A p : InPlan(left, p) => InPlan(plan, p)
  BY <1>13, <1>14, <1>17, <1>18
<1>28. MembersAhead(r, f) => MembersAhead(r, f)'
  BY <1>2, <1>12, <1>25 DEF MembersAhead
<1>29. VehiclesAhead(r, f) => VehiclesAhead(r, f)'
  BY <1>2, <1>12, <1>25 DEF VehiclesAhead
<1>30. SavesOn(r, f)'
  BY <1>11, <1>12, <1>24, <1>26, <1>27, <1>28, <1>29 DEF SavesOn
<1>31. QED
  BY <1>12, <1>15, <1>22, <1>23, <1>26, <1>30 DEF SaveGoesOn

LEMMA ReceiveSaves ==
  ASSUME FleetShape, SaveInv, NEW i \in 1..Len(answers), Receive(i)
  PROVE  SaveInv'
<1>1. WhoAsks'
  BY ReceivesWho DEF SaveInv
<1>2. \A r \in Runs : Saves(r)' => SaveGoesOn(r)'
  BY OwnAnswer, OthersAnswer
<1>3. QED
  BY <1>1, <1>2 DEF SaveInv

-----------------------------------------------------------------------------
(* Dialogs and clicks.                                                     *)

\* A dialog asks in its own name.
LEMMA DialogSaves ==
  ASSUME SaveInv, UNCHANGED <<srv, run, answers>>, acts' \in Nat,
         pending \subseteq pending',
         \A c \in pending' : c \in pending \/
           (c = [by |-> c.by, q |-> c.q] /\ c.by \notin Runs /\ c.q.op \in Modals)
  PROVE  SaveInv'
<1>1. WhoAsks'
  BY DEF SaveInv, WhoAsks
<1>2. ASSUME NEW r \in Runs, Saves(r)'
      PROVE  SaveGoesOn(r)'
  <2>1. Saves(r) /\ SaveGoesOn(r)
    BY <1>2 DEF Saves, SaveInv
  <2>2. \A c \in pending' : c.by = r => c \in pending
    OBVIOUS
  <2>3. Alone(r)' /\ AskedOnce(r)'
    <3>1. Alone(r)'
      BY <2>1 DEF SaveGoesOn, Alone
    <3>2. AskedOnce(r)'
      BY <2>1, <2>2 DEF SaveGoesOn, AskedOnce
    <3>3. QED
      BY <3>1, <3>2
  <2>4. HasFailed(r) => HasFailed(r)'
    BY DEF HasFailed
  <2>5. \A q : Ahead(r, q) => Ahead(r, q)'
    BY DEF Ahead
  <2>6. PICK f \in Fleets : run[r].fleet = {f} /\ SavesOn(r, f)
    BY <2>1 DEF SaveGoesOn
  <2>7. (MembersAhead(r, f) => MembersAhead(r, f)') /\ (VehiclesAhead(r, f) => VehiclesAhead(r, f)')
    BY <2>5, AheadStays
  <2>8. SavesOn(r, f)'
    BY <2>4, <2>6, <2>7 DEF SavesOn
  <2>9. QED
    BY <2>1, <2>3, <2>6, <2>8 DEF SaveGoesOn
<1>3. QED
  BY <1>1, <1>2 DEF SaveInv

LEMMA LoadsSaves ==
  ASSUME SaveInv, UNCHANGED <<srv, run, answers>>, Acts, NEW m \in Modals, NEW f, LoadsMembers(m, f)
  PROVE  SaveInv'
<1>1. acts \in Nat /\ acts' = acts + 1
  BY DEF SaveInv, WhoAsks, Acts
<1>2. MaxRuns + acts' \notin Runs
  BY <1>1, WorldAssumption DEF Runs
<1>3. PICK d : d = [by |-> MaxRuns + acts', q |-> [op |-> m, of |-> {f}, to |-> {}]]
  OBVIOUS
<1>4. pending' = pending \cup {d} /\ d = [by |-> d.by, q |-> d.q] /\ d.by \notin Runs /\ d.q.op \in Modals
  BY <1>2, <1>3 DEF LoadsMembers
<1>5. QED
  BY <1>1, <1>4, DialogSaves

LEMMA DialogsSave ==
  ASSUME SaveInv
  PROVE  /\ openFleetCreate => SaveInv'
         /\ \A f : openFleetEdit(f) => SaveInv'
         /\ \A f : openMembersModal(f) => SaveInv'
         /\ \A of : openVehicle(of) => SaveInv'
         /\ Cancel => SaveInv'
         /\ Edit => SaveInv'
<1>1. acts \in Nat /\ (Acts => acts' \in Nat)
  BY ActsCounted DEF SaveInv, WhoAsks
<1>2. UNCHANGED <<srv, run, answers, pending>> /\ Acts => SaveInv'
  BY <1>1, DialogSaves
<1>3. openFleetCreate => SaveInv'
  BY <1>2 DEF openFleetCreate, Opens
<1>4. \A of : openVehicle(of) => SaveInv'
  BY <1>2 DEF openVehicle, Opens
<1>5. Cancel => SaveInv'
  BY <1>2 DEF Cancel
<1>6. Edit => SaveInv'
  BY <1>2 DEF Edit
<1>7. "fleet" \in Modals /\ "members" \in Modals
  BY DEF Modals
<1>8. \A f : openFleetEdit(f) => SaveInv'
  BY <1>7, LoadsSaves DEF openFleetEdit, Opens
<1>9. \A f : openMembersModal(f) => SaveInv'
  BY <1>7, LoadsSaves DEF openMembersModal, Opens
<1>10. QED
  BY <1>3, <1>4, <1>5, <1>6, <1>8, <1>9

\* A save that is clean starts from the fleet as it is, and asks for all that is to change.
StartsClean(plan, closes, fleet, fm) ==
  /\ Quiet /\ fm \in Form
  /\ \E f \in Fleets : /\ fleet = {f} /\ AsksForFleet(plan, f, fm, closes)
                       /\ fm.hadMembers = srv.members[f]
                       /\ closes = "fleet" => fm.hadVehicles = In({f})

LEMMA ClickSaves ==
  ASSUME FleetShape, SaveInv, NEW r \in Runs, NEW plan, WellPlanned(plan), NEW closes, NEW fleet, NEW fm,
         NEW clean \in BOOLEAN, Starts(r, plan, closes, fleet, fm, clean),
         clean => StartsClean(plan, closes, fleet, fm)
  PROVE  SaveInv'
<1>1. /\ run[r].state = "idle" /\ Acts
      /\ UNCHANGED <<srv, answers>>
  BY DEF Starts
<1>2. PICK new : new = IF plan = <<>> THEN Over("done")
                       ELSE [state |-> "running", plan |-> plan, closes |-> closes, clean |-> clean,
                             fleet |-> fleet, form |-> IF clean THEN fm ELSE Blank]
  OBVIOUS
<1>3. /\ run'[r] = new
      /\ \A s \in Runs : s # r => run'[s] = [run[s] EXCEPT !.clean = @ /\ run[s].state # "running"]
  BY <1>2 DEF Starts
<1>4. /\ plan = <<>> => pending' = pending
      /\ plan # <<>> => pending' = pending \cup {[by |-> r, q |-> q] : q \in Head(plan)}
  BY DEF Starts
<1>5. \A s \in Runs : s # r => run'[s].state = run[s].state
  BY <1>3 DEF FleetShape
<1>6. new.state # "idle"
  BY <1>2 DEF Over
<1>7. (\A c \in pending : c.by # r) /\ \A i \in 1..Len(answers) : answers[i].call.by # r
  BY <1>1 DEF SaveInv, WhoAsks
<1>8. \A c \in pending' : c \in pending \/ \E q : c = [by |-> r, q |-> q]
  BY <1>4
<1>9. WhoAsks'
  <2>1. ASSUME NEW c \in pending'
        PROVE  /\ c = [by |-> c.by, q |-> c.q] /\ (c.by \in Runs \/ c.q.op \in Modals)
               /\ \A s \in Runs : run'[s].state = "idle" => c.by # s
    <3>1. CASE c \in pending
      BY <1>3, <1>5, <1>6, <3>1 DEF SaveInv, WhoAsks
    <3>2. ASSUME NEW q, c = [by |-> r, q |-> q]
          PROVE  /\ c = [by |-> c.by, q |-> c.q] /\ (c.by \in Runs \/ c.q.op \in Modals)
                 /\ \A s \in Runs : run'[s].state = "idle" => c.by # s
      <4>1. c.by = r /\ c.q = q
        BY <3>2
      <4>2. QED
        BY <1>3, <1>6, <3>2, <4>1
    <3>3. QED
      BY <1>8, <3>1, <3>2
  <2>2. \A s \in Runs : run'[s].state = "idle" => \A i \in 1..Len(answers') : answers'[i].call.by # s
    BY <1>1, <1>3, <1>5, <1>6 DEF SaveInv, WhoAsks
  <2>3. acts' \in Nat
    BY <1>1, ActsCounted DEF SaveInv, WhoAsks
  <2>4. QED
    BY <2>1, <2>2, <2>3 DEF WhoAsks
<1>10. \A s \in Runs : s # r => ~ Saves(s)'
  <2>1. SUFFICES ASSUME NEW s \in Runs, s # r, run'[s].state = "running", run'[s].clean PROVE FALSE
    BY DEF Saves
  <2>2. PICK b \in BOOLEAN : b <=> (run[s].clean /\ run[s].state # "running")
    OBVIOUS
  <2>3. "clean" \in DOMAIN run[s] /\ run'[s] = [run[s] EXCEPT !.clean = run[s].clean /\ run[s].state # "running"]
    BY <1>3, <2>1 DEF FleetShape
  <2>4. b = (run[s].clean /\ run[s].state # "running")
    BY <2>2
  <2>5. run'[s] = [run[s] EXCEPT !.clean = b]
    BY <2>3, <2>4, Zenon
  <2>6. run'[s].clean = b
    BY <2>3, <2>5
  <2>7. run[s].state = "running"
    BY <1>5, <2>1
  <2>8. QED
    BY <2>1, <2>2, <2>6, <2>7
<1>11. ASSUME Saves(r)'
       PROVE  SaveGoesOn(r)'
  <2>1. plan # <<>>
    BY <1>2, <1>3, <1>11 DEF Saves, Over
  <2>2. /\ run'[r].state = "running" /\ run'[r].plan = plan /\ run'[r].closes = closes
        /\ run'[r].clean = clean /\ run'[r].fleet = fleet /\ run'[r].form = IF clean THEN fm ELSE Blank
    BY <1>2, <1>3, <2>1
  <2>3. clean /\ run'[r].form = fm
    BY <1>11, <2>2 DEF Saves
  <2>4. Quiet /\ fm \in Form
    BY <2>3 DEF StartsClean
  <2>5. PICK f \in Fleets : /\ fleet = {f} /\ AsksForFleet(plan, f, fm, closes)
                            /\ fm.hadMembers = srv.members[f]
                            /\ closes = "fleet" => fm.hadVehicles = In({f})
    BY <2>3 DEF StartsClean
  <2>6. Alone(r)'
    <3>1. \A s \in Runs : run'[s].state = "running" => s = r
      BY <1>5, <2>4 DEF Quiet
    <3>2. \A c \in pending' : c.by \in Runs => c.by = r
      BY <1>8, <2>4 DEF Quiet
    <3>3. QED
      BY <3>1, <3>2 DEF Alone
  <2>7. AskedOnce(r)'
    <3>1. \A c \in pending' : c.by = r => c.q \in Head(plan)
      BY <1>4, <1>7, <2>1
    <3>2. \A i \in 1..Len(answers') : answers'[i].call.by # r
      BY <1>1, <1>7
    <3>3. QED
      BY <2>2, <3>1, <3>2 DEF AskedOnce
  <2>8. \A q : InPlan(plan, q) => Ahead(r, q)'
    <3>1. IsSeq(plan)
      BY DEF WellPlanned
    <3>2. \A q : InPlan(plan, q) <=> q \in Head(plan) \/ InPlan(Tail(plan), q)
      BY <2>1, <3>1, RestInPlan
    <3>3. QED
      BY <1>4, <2>1, <2>2, <3>2 DEF Ahead
  <2>9. MembersAhead(r, f)'
    <3>1. ASSUME NEW u \in fm.members
          PROVE  u \in srv.members[f] \/ \E q : Ahead(r, q)' /\ q.op = "assignUsers" /\ u \in q.to
      BY <2>5, <2>8 DEF AsksForFleet
    <3>2. ASSUME NEW u \in srv.members[f]
          PROVE  u \in fm.members \/ \E q : Ahead(r, q)' /\ q.op = "removeUser" /\ u \in q.to
      BY <2>5, <2>8 DEF AsksForFleet
    <3>3. QED
      BY <1>1, <2>3, <3>1, <3>2 DEF MembersAhead
  <2>10. closes = "fleet" => VehiclesAhead(r, f)'
    <3>1. SUFFICES ASSUME closes = "fleet", NEW v \in Craft
                   PROVE  (srv.at[v] = {f} <=> v \in fm.vehicles) \/ Ahead(r, ToPut(v, f, fm))'
      BY <1>1, <2>3 DEF VehiclesAhead
    <3>2. srv.at[v] = {f} <=> v \in fm.hadVehicles
      BY <2>5, <3>1 DEF In
    <3>3. (v \in fm.vehicles <=> v \in fm.hadVehicles) \/ InPlan(plan, ToPut(v, f, fm))
      BY <2>5, <3>1 DEF AsksForFleet
    <3>4. QED
      BY <2>8, <3>2, <3>3
  <2>11. SavesOn(r, f)'
    <3>1. \A q : InPlan(plan, q) => ForSave(q, f, fm, closes)
      BY <2>5 DEF AsksForFleet
    <3>2. QED
      BY <2>2, <2>3, <2>9, <2>10, <3>1 DEF SavesOn
  <2>12. QED
    BY <2>2, <2>3, <2>4, <2>5, <2>6, <2>7, <2>11 DEF SaveGoesOn
<1>12. QED
  BY <1>9, <1>10, <1>11 DEF SaveInv

LEMMA ClicksSave ==
  ASSUME FleetShape, SaveInv, NEW r \in Runs
  PROVE  /\ handleFleetSave(r) => SaveInv'
         /\ handleFleetDelete(r) => SaveInv'
         /\ handleSaveMembers(r) => SaveInv'
         /\ handleSave(r) => SaveInv'
         /\ handleDelete(r) => SaveInv'
<1>1. /\ form["fleet"] \in Form /\ form["fleet"].of \subseteq Fleets
      /\ form["members"] \in Form /\ form["members"].of \subseteq Fleets
      /\ form["vehicle"] \in Form /\ form["vehicle"].of \subseteq Craft /\ form["vehicle"].at \subseteq Fleets
  BY FormsFilled DEF WellFilled, Modals, Form
<1>2. store.fleets \subseteq Fleets /\ store.vehicles \subseteq Craft
  BY DEF FleetShape, Stored
<1>3. ASSUME handleFleetSave(r)
      PROVE  SaveInv'
  <2>1. PICK fm : fm = form["fleet"]
    OBVIOUS
  <2>2. PICK op : op = IF fm.of = {} THEN "createFleet" ELSE "updateFleet"
    OBVIOUS
  <2>3. PICK f \in (IF fm.of = {} THEN Fleets \ usedIds ELSE fm.of),
             leave \in SetToSeqs(fm.hadMembers \ fm.members) :
          Starts(r, <<{[op |-> op, of |-> {f}, to |-> {}]}>> \o VehicleStage(f, fm)
                    \o MemberStages(f, fm, leave) \o <<{Get(o) : o \in Lists}>>,
                 "fleet", {f}, fm, Clean(f, fm))
    BY <1>3, <2>1, <2>2 DEF handleFleetSave
  <2>4. f \in Fleets /\ fm \in Form /\ op \in {"createFleet", "updateFleet"}
    BY <1>1, <2>1, <2>2
  <2>5. PICK plan : plan = <<{[op |-> op, of |-> {f}, to |-> {}]}>> \o VehicleStage(f, fm)
                           \o MemberStages(f, fm, leave) \o <<{Get(o) : o \in Lists}>>
    OBVIOUS
  <2>6. WellPlanned(plan) /\ AsksForFleet(plan, f, fm, "fleet")
    BY <2>4, <2>5, FleetPlanned, FleetSaved
  <2>7. Clean(f, fm) => StartsClean(plan, "fleet", {f}, fm)
    BY <2>4, <2>6 DEF Clean, StartsClean
  <2>8. Clean(f, fm) \in BOOLEAN /\ Starts(r, plan, "fleet", {f}, fm, Clean(f, fm))
    BY <2>3, <2>5 DEF Clean
  <2>9. QED
    BY <2>6, <2>7, <2>8, ClickSaves
<1>4. ASSUME handleFleetDelete(r)
      PROVE  SaveInv'
  <2>1. PICK f \in store.fleets :
          Starts(r, <<{[op |-> "deleteFleet", of |-> {f}, to |-> {}]}>>, "none", {}, Blank, FALSE)
    BY <1>4 DEF handleFleetDelete
  <2>2. \A q \in {[op |-> "deleteFleet", of |-> {f}, to |-> {}]} : WellAsked(q)
    BY <1>2 DEF WellAsked, Modals
  <2>3. QED
    BY <2>1, <2>2, OneStage, ClickSaves
<1>5. ASSUME handleSaveMembers(r)
      PROVE  SaveInv'
  <2>1. PICK fm : fm = form["members"]
    OBVIOUS
  <2>2. PICK f \in fm.of, leave \in SetToSeqs(fm.hadMembers \ fm.members) :
          Starts(r, MemberStages(f, fm, leave), "members", {f}, fm, Quiet /\ fm.hadMembers = srv.members[f])
    BY <1>5, <2>1 DEF handleSaveMembers
  <2>3. f \in Fleets /\ fm \in Form
    BY <1>1, <2>1
  <2>4. PICK plan : plan = MemberStages(f, fm, leave)
    OBVIOUS
  <2>5. WellPlanned(plan) /\ AsksForFleet(plan, f, fm, "members")
    BY <2>3, <2>4, MembersPlanned, MembersSaved
  <2>6. PICK clean \in BOOLEAN : clean = (Quiet /\ fm.hadMembers = srv.members[f])
    OBVIOUS
  <2>7. clean => StartsClean(plan, "members", {f}, fm)
    BY <2>3, <2>5, <2>6 DEF StartsClean
  <2>8. Starts(r, plan, "members", {f}, fm, clean)
    BY <2>2, <2>4, <2>6, Zenon
  <2>9. QED
    BY <2>5, <2>7, <2>8, ClickSaves
<1>6. ASSUME handleSave(r)
      PROVE  SaveInv'
  <2>1. PICK fm : fm = form["vehicle"]
    OBVIOUS
  <2>2. PICK op : op = IF fm.of = {} THEN "createVehicle" ELSE "updateVehicle"
    OBVIOUS
  <2>3. PICK v \in (IF fm.of = {} THEN Craft \ usedIds ELSE fm.of) :
          Starts(r, <<{[op |-> op, of |-> {v}, to |-> fm.at]}>>, "vehicle", {}, Blank, FALSE)
    BY <1>6, <2>1, <2>2 DEF handleSave
  <2>4. v \in Craft /\ fm.at \subseteq Fleets /\ op \in {"createVehicle", "updateVehicle"}
    BY <1>1, <2>1, <2>2
  <2>5. \A q \in {[op |-> op, of |-> {v}, to |-> fm.at]} : WellAsked(q)
    BY <2>4 DEF WellAsked, Modals
  <2>6. QED
    BY <2>3, <2>5, OneStage, ClickSaves
<1>7. ASSUME handleDelete(r)
      PROVE  SaveInv'
  <2>1. PICK v \in store.vehicles :
          Starts(r, <<{[op |-> "deleteVehicle", of |-> {v}, to |-> {}]}, {Get("listVehicles")}>>,
                 "none", {}, Blank, FALSE)
    BY <1>7 DEF handleDelete
  <2>2. PICK gone : gone = {[op |-> "deleteVehicle", of |-> {v}, to |-> {}]}
    OBVIOUS
  <2>3. PICK list : list = {Get("listVehicles")}
    OBVIOUS
  <2>4. \A q \in gone : WellAsked(q)
    BY <1>2, <2>2 DEF WellAsked, Modals
  <2>5. \A q \in list : WellAsked(q)
    BY <2>3 DEF WellAsked, Modals, Get
  <2>6. WellPlanned(<<gone, list>>)
    BY <2>4, <2>5, TwoStages
  <2>7. QED
    BY <2>1, <2>2, <2>3, <2>6, ClickSaves
<1>8. QED
  BY <1>3, <1>4, <1>5, <1>6, <1>7

-----------------------------------------------------------------------------
LEMMA SavesStart == FleetInit => SaveInv
<1> SUFFICES ASSUME FleetInit PROVE SaveInv
  OBVIOUS
<1>1. pending = {} /\ acts = 0 /\ Len(answers) = 0 /\ \A r \in Runs : run[r].state = "idle"
  BY EmptyIsSeq DEF FleetInit, Over
<1>2. QED
  BY <1>1 DEF SaveInv, WhoAsks, Saves

LEMMA SaveStepGoesOn == FleetInv /\ SaveInv /\ [FleetNext]_fleetVars => SaveInv'
<1> SUFFICES ASSUME FleetInv, SaveInv, [FleetNext]_fleetVars PROVE SaveInv'
  OBVIOUS
<1>0. FleetShape /\ IsSeq(answers)
  BY DEF FleetInv, FleetShape
<1>1. ASSUME NEW c \in pending, Served(c) PROVE SaveInv'
  BY <1>0, <1>1, ServedSaves
<1>2. ASSUME NEW i \in DOMAIN answers, Receive(i) PROVE SaveInv'
  <2>1. DOMAIN answers = 1..Len(answers)
    BY <1>0, SeqLength
  <2>2. QED
    BY <1>0, <1>2, <2>1, ReceiveSaves
<1>3. openFleetCreate \/ Cancel \/ Edit => SaveInv'
  BY DialogsSave
<1>4. ASSUME NEW f \in Fleets, openFleetEdit(f) \/ openMembersModal(f) PROVE SaveInv'
  BY <1>4, DialogsSave
<1>5. ASSUME NEW of, openVehicle(of) PROVE SaveInv'
  BY <1>5, DialogsSave
<1>6. ASSUME NEW r \in Runs, \/ handleFleetSave(r) \/ handleFleetDelete(r) \/ handleSaveMembers(r)
                            \/ handleSave(r) \/ handleDelete(r)
      PROVE  SaveInv'
  BY <1>0, <1>6, ClicksSave
<1>7. UNCHANGED fleetVars => SaveInv'
  BY DialogSaves DEF fleetVars, SaveInv, WhoAsks
<1>8. QED
  BY <1>1, <1>2, <1>3, <1>4, <1>5, <1>6, <1>7 DEF FleetNext

\* A step of the property.
SavesTruly == \A r \in Runs, f \in Fleets :
  run[r].clean /\ run[r].state = "running" /\ run'[r].state = "done" /\ run[r].fleet = {f} =>
    /\ srv.members[f] = run[r].form.members
    /\ run[r].closes = "fleet" => In({f}) = run[r].form.vehicles

\* The last answer of a save: nothing is ahead any more, and nothing has failed.
LEMMA LastAnswer ==
  ASSUME FleetShape, SaveInv, NEW i \in 1..Len(answers), Receive(i),
         NEW r \in Runs, Saves(r), run'[r].state = "done", NEW f \in Fleets, run[r].fleet = {f}
  PROVE  /\ srv.members[f] = run[r].form.members
         /\ run[r].closes = "fleet" => In({f}) = run[r].form.vehicles
<1>1. PICK a : a = answers[i]
  OBVIOUS
<1>2. Continues(a) /\ SaveGoesOn(r)
  BY <1>1 DEF Receive, SaveInv
<1>3. DOMAIN run = Runs /\ Over("failed").state = "failed" /\ Over("done").state = "done"
  BY DEF FleetShape, Over
<1>4. run[r].state = "running" /\ run' # run
  BY DEF Saves
<1>5. a.call.by \in Runs /\ run[a.call.by].state = "running"
  BY <1>2, <1>4, NotContinued
<1>6. a.call.by = r
  BY <1>2, <1>5 DEF SaveGoesOn, Alone
<1>7. ~ Fails(r)
  BY <1>3 DEF Fails
<1>8. PICK q : q = a.call.q
  OBVIOUS
<1>9. a.ok \/ q.op \in Lists
  BY <1>2, <1>4, <1>6, <1>7, <1>8, Continued
<1>10. PICK rest, left : GoesTo(r, q, rest, left)
  BY <1>2, <1>4, <1>6, <1>7, <1>8, Continued
<1>11. left = <<>>
  <2>1. left # <<>> => run'[r].state = "running"
    BY <1>4, <1>10, Proceeded
  <2>2. QED
    BY <2>1
<1>12. rest = {}
  BY <1>4, <1>10, <1>11, Proceeded
<1>13. Tail(run[r].plan) = <<>> /\ \A p \in Head(run[r].plan) : p = q
  BY <1>10, <1>11, <1>12 DEF GoesTo
<1>14. /\ \A c \in pending : c.by = r => c.q \in Head(run[r].plan)
       /\ \A c \in pending : c.by = r => c.q # q
       /\ \A k \in 1..Len(answers) : answers[k].call.by = r => answers[k].call.q \in Head(run[r].plan)
       /\ \A k \in 1..Len(answers) : answers[k].call.by = r /\ answers[k].call.q = q => k = i
  BY <1>1, <1>2, <1>6, <1>8 DEF SaveGoesOn, AskedOnce
<1>15. \A p : ~ Ahead(r, p)
  <2>1. \A p : [by |-> r, q |-> p].by = r /\ [by |-> r, q |-> p].q = p
    OBVIOUS
  <2>2. \A p : [by |-> r, q |-> p] \notin pending
    BY <1>13, <1>14, <2>1
  <2>3. QED
    BY <1>13, <2>2, NoneInPlan DEF Ahead
<1>16. ~ HasFailed(r)
  <2>1. SUFFICES ASSUME NEW k \in 1..Len(answers), answers[k].call.by = r, ~ answers[k].ok,
                        answers[k].call.q.op \notin Lists
                 PROVE  FALSE
    BY DEF HasFailed
  <2>2. k = i
    BY <1>13, <1>14, <2>1
  <2>3. QED
    BY <1>1, <1>8, <1>9, <2>1, <2>2
<1>17. MembersAhead(r, f) /\ (run[r].closes = "fleet" => VehiclesAhead(r, f))
  BY <1>2, <1>16 DEF SaveGoesOn, SavesOn
<1>18. run[r].form \in Form
  BY <1>2 DEF SaveGoesOn
<1>19. srv.members[f] = run[r].form.members
  BY <1>15, <1>17 DEF MembersAhead
<1>20. ASSUME run[r].closes = "fleet" PROVE In({f}) = run[r].form.vehicles
  <2>1. \A v \in Craft : srv.at[v] = {f} <=> v \in run[r].form.vehicles
    BY <1>15, <1>17, <1>20 DEF VehiclesAhead
  <2>2. run[r].form.vehicles \subseteq Craft
    BY <1>18 DEF Form
  <2>3. QED
    BY <2>1, <2>2 DEF In
<1>21. QED
  BY <1>19, <1>20

LEMMA SavesAreDone == FleetInv /\ SaveInv /\ [FleetNext]_fleetVars => SavesTruly
<1> SUFFICES ASSUME FleetInv, SaveInv, [FleetNext]_fleetVars,
                    NEW r \in Runs, NEW f \in Fleets,
                    run[r].clean, run[r].state = "running", run'[r].state = "done", run[r].fleet = {f}
             PROVE  /\ srv.members[f] = run[r].form.members
                    /\ run[r].closes = "fleet" => In({f}) = run[r].form.vehicles
  BY DEF SavesTruly
<1>1. FleetShape /\ IsSeq(answers) /\ Saves(r) /\ run' # run
  BY DEF FleetInv, FleetShape, Saves
<1>2. ASSUME NEW i \in DOMAIN answers, Receive(i)
      PROVE  /\ srv.members[f] = run[r].form.members
             /\ run[r].closes = "fleet" => In({f}) = run[r].form.vehicles
  <2>1. DOMAIN answers = 1..Len(answers)
    BY <1>1, SeqLength
  <2>2. QED
    BY <1>1, <1>2, <2>1, LastAnswer
<1>3. ASSUME NEW c \in pending, Served(c) PROVE FALSE
  <2>1. \E ok : Responds(c, ok)
    BY <1>3 DEF Served, Serve, NotFound, Refuse, LoseAnswer
  <2>2. QED
    BY <1>1, <2>1 DEF Responds
<1>4. ~ (openFleetCreate \/ Cancel \/ Edit \/ UNCHANGED fleetVars)
  BY <1>1 DEF openFleetCreate, Cancel, Edit, fleetVars
<1>5. \A g : ~ (openFleetEdit(g) \/ openMembersModal(g) \/ openVehicle(g))
  BY <1>1 DEF openFleetEdit, openMembersModal, openVehicle
<1>6. ASSUME NEW s \in Runs, NEW plan, NEW closes, NEW g, NEW fm, NEW clean, Starts(s, plan, closes, g, fm, clean)
      PROVE  FALSE
  <2>1. s # r
    BY <1>6 DEF Starts
  <2>2. run'[r] = [run[r] EXCEPT !.clean = @ /\ run[r].state # "running"]
    BY <1>6, <2>1 DEF Starts
  <2>3. run'[r].state = run[r].state
    BY <1>1, <2>2 DEF FleetShape
  <2>4. QED
    BY <2>3
<1>7. \A s \in Runs : ~ (handleFleetSave(s) \/ handleFleetDelete(s) \/ handleSaveMembers(s)
                        \/ handleSave(s) \/ handleDelete(s))
  BY <1>6 DEF handleFleetSave, handleFleetDelete, handleSaveMembers, handleSave, handleDelete
<1>8. QED
  BY <1>2, <1>3, <1>4, <1>5, <1>7 DEF FleetNext

\* A save of a fleet that tells success, beside which nothing was written and whose form
\* held the fleet as it was, has given it the vehicles and members of the form
\* (FleetPage.jsx:357-391, 476-485).
THEOREM SavesAreTrue == FleetSpec => SaveDoesWhatItSays
<1>1. FleetInit => FleetInv /\ SaveInv
  BY FleetStarts, SavesStart
<1>2. FleetInv /\ SaveInv /\ [FleetNext]_fleetVars => (FleetInv /\ SaveInv)'
  BY FleetStepKeeps, SaveStepGoesOn
<1>3. FleetInv /\ SaveInv /\ [FleetNext]_fleetVars => [SavesTruly]_fleetVars
  BY SavesAreDone
<1>4. FleetSpec => [][SavesTruly]_fleetVars
  BY <1>1, <1>2, <1>3, PTL DEF FleetSpec
<1>5. QED
  BY <1>4 DEF SaveDoesWhatItSays, SavesTruly

-----------------------------------------------------------------------------
(* The types of the fleets, the requests and the clicks.                   *)

\* A vehicle is asked to be put in one fleet at most.
PlacedOp == {q \in Op : q.op \in {"createVehicle", "updateVehicle", "deleteVehicle"} => OneAtMost(q.to)}
PlacedCall == [by : 1..(MaxRuns + MaxActs), q : PlacedOp]
TypedRun == [state : {"idle", "running", "done", "failed"}, plan : Seq(SUBSET PlacedOp),
             closes : Modals \cup {"none"}, clean : BOOLEAN, fleet : SUBSET Fleets, form : Form]
TypedAnswer(a) == a.call \in PlacedCall /\ a.ok \in BOOLEAN /\ Placed(a.now)

RunTypes ==
  /\ run \in [Runs -> TypedRun] /\ \A r \in Runs : run[r].plan # <<>> <=> run[r].state = "running"
  /\ pending \subseteq PlacedCall

FormTypes ==
  /\ form \in [Modals -> Form] /\ OneAtMost(form["vehicle"].at)
  /\ loadingUsers \in [Modals -> BOOLEAN]

FleetTypes ==
  /\ Placed(srv) /\ Placed(store) /\ whole \in BOOLEAN
  /\ FormTypes /\ RunTypes
  /\ \A i \in 1..Len(answers) : TypedAnswer(answers[i])
  /\ acts \in 0..MaxActs /\ usedIds \subseteq Fleets \cup Craft /\ smooth \in BOOLEAN

LEMMA Bounds == MaxRuns \in Nat /\ MaxActs \in Nat
BY WorldAssumption

LEMMA OneAlone == OneAtMost({}) /\ \A x : OneAtMost({x})
BY DEF OneAtMost

LEMMA OpTypes ==
  ASSUME NEW o \in Operations \cup Lists \cup Modals, NEW S \in SUBSET (Fleets \cup Craft),
         NEW U \in SUBSET (Fleets \cup Members),
         o \in {"createVehicle", "updateVehicle", "deleteVehicle"} => OneAtMost(U)
  PROVE  [op |-> o, of |-> S, to |-> U] \in PlacedOp
BY DEF PlacedOp, Op

LEMMA AloneTyped ==
  ASSUME NEW S \in SUBSET PlacedOp
  PROVE  /\ <<S>> \in Seq(SUBSET PlacedOp) /\ <<S>> # <<>> /\ <<>> \in Seq(SUBSET PlacedOp)
OBVIOUS

LEMMA VehiclesTyped ==
  ASSUME NEW f \in Fleets, NEW fm \in Form
  PROVE  VehicleStage(f, fm) \in Seq(SUBSET PlacedOp)
<1> DEFINE S == {[op |-> "updateVehicle", of |-> {v}, to |-> {f}] : v \in fm.vehicles \ fm.hadVehicles}
                \cup {[op |-> "updateVehicle", of |-> {v}, to |-> {}] : v \in fm.hadVehicles \ fm.vehicles}
<1>1. fm.vehicles \subseteq Craft /\ fm.hadVehicles \subseteq Craft
  BY DEF Form
<1>2. ASSUME NEW v \in Craft
      PROVE  /\ [op |-> "updateVehicle", of |-> {v}, to |-> {f}] \in PlacedOp
             /\ [op |-> "updateVehicle", of |-> {v}, to |-> {}] \in PlacedOp
  BY OpTypes, OneAlone DEF Operations
<1>3. S \in SUBSET PlacedOp
  BY <1>1, <1>2
<1>4. VehicleStage(f, fm) = IF S = {} THEN <<>> ELSE <<S>>
  BY DEF VehicleStage, Unless
<1> HIDE DEF S
<1>5. CASE S = {}
  BY <1>3, <1>4, <1>5, AloneTyped
<1>6. CASE S # {}
  BY <1>3, <1>4, <1>6, AloneTyped
<1>7. QED
  BY <1>5, <1>6

LEMMA MembersTyped ==
  ASSUME NEW f \in Fleets, NEW fm \in Form, NEW leave \in SetToSeqs(fm.hadMembers \ fm.members)
  PROVE  MemberStages(f, fm, leave) \in Seq(SUBSET PlacedOp)
<1> DEFINE join == fm.members \ fm.hadMembers
           joins == {[op |-> "assignUsers", of |-> {f}, to |-> join]}
           first == IF join = {} THEN <<>> ELSE <<joins>>
           leaves == [i \in DOMAIN leave |-> {[op |-> "removeUser", of |-> {f}, to |-> {leave[i]}]}]
<1>1. fm.members \subseteq Members /\ fm.hadMembers \subseteq Members
  BY DEF Form
<1>2. IsFiniteSet(fm.hadMembers \ fm.members)
  BY <1>1, FS_Subset, WorldAssumption
<1>3. leave \in Seq(fm.hadMembers \ fm.members)
  BY <1>2, InSomeOrder
<1>4. joins \in SUBSET PlacedOp
  <2>1. [op |-> "assignUsers", of |-> {f}, to |-> join] \in PlacedOp
    BY <1>1, OpTypes DEF Operations
  <2>2. QED
    BY <2>1
<1>5. first \in Seq(SUBSET PlacedOp)
  <2> HIDE DEF joins, join
  <2>1. CASE join = {}
    BY <1>4, <2>1, AloneTyped
  <2>2. CASE join # {}
    BY <1>4, <2>2, AloneTyped
  <2>3. QED
    BY <2>1, <2>2
<1>6. leaves \in Seq(SUBSET PlacedOp)
  <2>1. DOMAIN leave = 1..Len(leave) /\ Len(leave) \in Nat /\ \A i \in 1..Len(leave) : leave[i] \in Members
    BY <1>1, <1>3
  <2>2. ASSUME NEW i \in 1..Len(leave)
        PROVE  {[op |-> "removeUser", of |-> {f}, to |-> {leave[i]}]} \in SUBSET PlacedOp
    <3>1. [op |-> "removeUser", of |-> {f}, to |-> {leave[i]}] \in PlacedOp
      BY <2>1, OpTypes DEF Operations
    <3>2. QED
      BY <3>1
  <2>3. leaves \in [1..Len(leave) -> SUBSET PlacedOp]
    BY <2>1, <2>2
  <2> HIDE DEF leaves
  <2>4. QED
    BY <2>1, <2>3
<1>7. MemberStages(f, fm, leave) = first \o leaves
  BY DEF MemberStages
<1> HIDE DEF first, leaves
<1>8. QED
  BY <1>5, <1>6, <1>7, ConcatProperties

LEMMA FleetPlanTyped ==
  ASSUME NEW f \in Fleets, NEW fm \in Form, NEW op \in {"createFleet", "updateFleet"},
         NEW leave \in SetToSeqs(fm.hadMembers \ fm.members)
  PROVE  <<{[op |-> op, of |-> {f}, to |-> {}]}>> \o VehicleStage(f, fm)
           \o MemberStages(f, fm, leave) \o <<{Get(o) : o \in Lists}>> \in Seq(SUBSET PlacedOp)
<1>1. PICK put : put = <<{[op |-> op, of |-> {f}, to |-> {}]}>>
  OBVIOUS
<1>2. PICK lists : lists = <<{Get(o) : o \in Lists}>>
  OBVIOUS
<1>3. put \in Seq(SUBSET PlacedOp)
  <2>1. [op |-> op, of |-> {f}, to |-> {}] \in PlacedOp
    BY OpTypes DEF Operations
  <2>2. {[op |-> op, of |-> {f}, to |-> {}]} \in SUBSET PlacedOp
    BY <2>1
  <2>3. QED
    BY <1>1, <2>2, AloneTyped
<1>4. lists \in Seq(SUBSET PlacedOp)
  <2>1. \A o \in Lists : Get(o) \in PlacedOp
    BY OpTypes DEF Get, Lists
  <2>2. {Get(o) : o \in Lists} \in SUBSET PlacedOp
    BY <2>1
  <2>3. QED
    BY <1>2, <2>2, AloneTyped
<1>5. PICK s, t : s = VehicleStage(f, fm) /\ t = MemberStages(f, fm, leave)
  OBVIOUS
<1>6. s \in Seq(SUBSET PlacedOp) /\ t \in Seq(SUBSET PlacedOp)
  BY <1>5, VehiclesTyped, MembersTyped
<1>7. put \o s \in Seq(SUBSET PlacedOp)
  BY <1>3, <1>6, ConcatProperties
<1>8. put \o s \o t \in Seq(SUBSET PlacedOp)
  BY <1>6, <1>7, ConcatProperties
<1>9. put \o s \o t \o lists \in Seq(SUBSET PlacedOp)
  BY <1>4, <1>8, ConcatProperties
<1>10. QED
  BY <1>1, <1>2, <1>5, <1>9

\* The server puts a vehicle in one fleet at most, and the vehicle is there.
LEMMA CarriedPlaced ==
  ASSUME srv \in Database, Placed(srv), NEW q \in PlacedOp, WellAsked(q), Possible(q), Carried(q)
  PROVE  Placed(srv')
<1> DEFINE put == [v \in Craft |-> IF v \in q.of THEN q.to ELSE srv.at[v]]
           freed == [v \in Craft |-> srv.at[v] \ q.of]
<1>1. q.op \in {"createVehicle", "updateVehicle", "deleteVehicle"} => OneAtMost(q.to)
  BY DEF PlacedOp
<1>2. \A v \in Craft : OneAtMost(srv.at[v]) /\ (v \notin srv.vehicles => srv.at[v] = {})
  BY DEF Placed
<1>3. \A v \in Craft : put[v] = IF v \in q.of THEN q.to ELSE srv.at[v]
  OBVIOUS
<1>4. \A v \in Craft : freed[v] = srv.at[v] \ q.of
  OBVIOUS
<1>5. DOMAIN srv = {"fleets", "vehicles", "at", "members"}
  BY DEF Database
<1>6. CASE q.op \in {"createVehicle", "updateVehicle", "deleteVehicle"}
  <2>1. srv'.at = put
    BY <1>5, <1>6 DEF Carried
  <2>2. srv'.vehicles = IF q.op = "createVehicle" THEN srv.vehicles \cup q.of
                        ELSE IF q.op = "deleteVehicle" THEN srv.vehicles \ q.of ELSE srv.vehicles
    BY <1>5, <1>6 DEF Carried
  <2> HIDE DEF put
  <2>3. q.op = "updateVehicle" => q.of \subseteq srv.vehicles
    BY DEF Possible
  <2>4. q.op = "deleteVehicle" => q.to = {}
    BY DEF WellAsked
  <2>5. ASSUME NEW v \in Craft PROVE OneAtMost(put[v]) /\ (v \notin srv'.vehicles => put[v] = {})
    BY <1>1, <1>2, <1>3, <1>6, <2>2, <2>3, <2>4
  <2>6. QED
    BY <2>1, <2>5 DEF Placed
<1>7. CASE q.op = "deleteFleet"
  <2>1. srv'.at = freed /\ srv'.vehicles = srv.vehicles
    BY <1>5, <1>7 DEF Carried
  <2> HIDE DEF freed
  <2>2. ASSUME NEW v \in Craft PROVE OneAtMost(freed[v]) /\ (v \notin srv.vehicles => freed[v] = {})
    BY <1>2, <1>4 DEF OneAtMost
  <2>3. QED
    BY <2>1, <2>2 DEF Placed
<1>8. CASE q.op \notin {"createVehicle", "updateVehicle", "deleteVehicle", "deleteFleet"}
  <2>1. srv'.at = srv.at /\ srv'.vehicles = srv.vehicles
    BY <1>5, <1>8 DEF Carried
  <2>2. QED
    BY <1>2, <2>1 DEF Placed
<1>9. QED
  BY <1>6, <1>7, <1>8

\* The store does too, if the answer does.
LEMMA MergedPlaced ==
  ASSUME NEW s \in Stored, Placed(s), NEW q, NEW now \in Database, Placed(now), NEW page
  PROVE  Placed(Merged(s, q, now, page))
<1>1. PICK t : t = Merged(s, q, now, page)
  OBVIOUS
<1>2. /\ \A v \in Craft : OneAtMost(s.at[v]) /\ (v \notin s.vehicles => s.at[v] = {})
      /\ \A v \in Craft : OneAtMost(now.at[v]) /\ (v \notin now.vehicles => now.at[v] = {})
  BY DEF Placed
<1>3. DOMAIN s = {"fleets", "vehicles", "at"}
  BY DEF Stored
<1>4. CASE q.op = "listVehicles"
  <2>1. t.at = Located(page, now.at) /\ t.vehicles = page
    BY <1>1, <1>4 DEF Merged
  <2>2. \A v \in Craft : t.at[v] = IF v \in page THEN now.at[v] ELSE {}
    BY <2>1 DEF Located
  <2>3. QED
    BY <1>1, <1>2, <2>1, <2>2, OneAlone DEF Placed
<1>5. CASE q.op = "deleteFleet"
  <2>1. t.vehicles = s.vehicles /\ \A v \in Craft : t.at[v] = s.at[v] \ q.of
    BY <1>1, <1>5 DEF Merged, deleteFleet
  <2>2. \A v \in Craft : OneAtMost(s.at[v] \ q.of)
    BY <1>2 DEF OneAtMost
  <2>3. QED
    BY <1>1, <1>2, <2>1, <2>2 DEF Placed
<1>6. CASE q.op = "createVehicle"
  <2>1. t.vehicles = s.vehicles \cup q.of
    BY <1>1, <1>6 DEF Merged, createVehicle
  <2>2. \A v \in Craft : t.at[v] = IF v \in q.of THEN now.at[v] ELSE s.at[v]
    BY <1>1, <1>6 DEF Merged, createVehicle
  <2>3. QED
    BY <1>1, <1>2, <2>1, <2>2 DEF Placed
<1>7. CASE q.op = "updateVehicle"
  <2>1. PICK g : g = [v \in Craft |-> IF v \in q.of \cap s.vehicles THEN now.at[v] ELSE s.at[v]]
    OBVIOUS
  <2>2. t = [s EXCEPT !.at = g]
    BY <1>1, <1>7, <2>1 DEF Merged, updateVehicle
  <2>3. t.vehicles = s.vehicles /\ t.at = g
    BY <1>3, <2>2
  <2>4. \A v \in Craft : g[v] = IF v \in q.of \cap s.vehicles THEN now.at[v] ELSE s.at[v]
    BY <2>1
  <2>5. QED
    BY <1>1, <1>2, <2>3, <2>4 DEF Placed
<1>8. CASE q.op = "deleteVehicle"
  <2>1. t.vehicles = s.vehicles \ q.of
    BY <1>1, <1>8 DEF Merged, deleteVehicle
  <2>2. \A v \in Craft : t.at[v] = IF v \in q.of THEN {} ELSE s.at[v]
    BY <1>1, <1>8 DEF Merged, deleteVehicle
  <2>3. QED
    BY <1>1, <1>2, <2>1, <2>2, OneAlone DEF Placed
<1>9. CASE q.op \notin {"listVehicles", "deleteFleet", "createVehicle", "updateVehicle", "deleteVehicle"}
  <2>1. t.vehicles = s.vehicles /\ t.at = s.at
    BY <1>1, <1>3, <1>9 DEF Merged
  <2>2. QED
    BY <1>1, <1>2, <2>1 DEF Placed
<1>10. QED
  BY <1>4, <1>5, <1>6, <1>7, <1>8, <1>9

LEMMA ActTypes == ASSUME FleetTypes, Acts \/ acts' = acts PROVE acts' \in 0..MaxActs
BY Bounds DEF FleetTypes, Acts

LEMMA ServedTypes ==
  ASSUME FleetShape, FleetTypes, NEW c \in pending, Served(c)
  PROVE  FleetTypes'
<1>1. PICK ok \in BOOLEAN : Responds(c, ok)
  BY Zenon DEF Served, Serve, NotFound, Refuse, LoseAnswer
<1>2. c \in PlacedCall /\ c.q \in PlacedOp /\ WellAsked(c.q) /\ srv \in Database
  BY DEF FleetTypes, RunTypes, PlacedCall, FleetShape
<1>3. Placed(srv')
  <2>1. srv' = srv \/ (Possible(c.q) /\ Carried(c.q))
    BY Zenon DEF Served, Serve, NotFound, Refuse, LoseAnswer
  <2>2. CASE srv' = srv
    BY <2>2 DEF FleetTypes
  <2>3. CASE Possible(c.q) /\ Carried(c.q)
    BY <1>2, <2>3, CarriedPlaced DEF FleetTypes
  <2>4. QED
    BY <2>1, <2>2, <2>3
<1>4. UNCHANGED <<store, whole, modal, form, loadingUsers, run, usedIds>> /\ pending' \subseteq pending
  BY <1>1 DEF Responds
<1>5. PICK a : /\ answers' = Append(answers, a)
               /\ a.call = c /\ a.ok = ok /\ a.now = srv' /\ a.page \subseteq srv'.vehicles
  BY <1>1, AnswerGiven
<1>6. TypedAnswer(a)
  BY <1>2, <1>3, <1>5 DEF TypedAnswer
<1>7. \A i \in 1..Len(answers') : TypedAnswer(answers'[i])
  <2>1. PICK u, w : u = answers /\ w = answers'
    OBVIOUS
  <2>2. IsSeq(u) /\ w = Append(u, a)
    BY <1>5, <2>1 DEF FleetShape
  <2>3. IsSeq(w) /\ Len(u) \in Nat /\ Len(w) = Len(u) + 1 /\ w[Len(u) + 1] = a
    BY <2>2, AppendedElements
  <2>4. \A i \in 1..Len(u) : w[i] = u[i]
    BY <2>2, AppendedElements
  <2>5. \A i \in 1..Len(w) : TypedAnswer(w[i])
    BY <1>6, <2>1, <2>3, <2>4 DEF FleetTypes
  <2>6. QED
    BY <2>1, <2>5
<1>8. acts' \in 0..MaxActs
  BY ActTypes DEF Served, Serve, NotFound, Refuse, LoseAnswer
<1>9. smooth' \in BOOLEAN
  BY DEF Served, Serve, NotFound, Refuse, LoseAnswer, FleetTypes
<1>10. FormTypes' /\ RunTypes'
  BY <1>4 DEF FleetTypes, FormTypes, RunTypes
<1>11. Placed(store') /\ whole' \in BOOLEAN /\ usedIds' \subseteq Fleets \cup Craft
  BY <1>4 DEF FleetTypes
<1>12. QED
  BY <1>3, <1>7, <1>8, <1>9, <1>10, <1>11 DEF FleetTypes


-----------------------------------------------------------------------------
(* The types after an answer is taken in.                                  *)

LEMMA OverTypes ==
  ASSUME NEW s \in {"idle", "done", "failed"}
  PROVE  Over(s) \in TypedRun /\ Over(s).plan = <<>> /\ Over(s).state = s
<1>1. PICK e : e = Over(s)
  OBVIOUS
<1>2. PICK b : b = Blank
  OBVIOUS
<1>3. b \in Form
  BY <1>2 DEF Blank, Form
<1>4. e = [state |-> s, plan |-> <<>>, closes |-> "none", clean |-> FALSE, fleet |-> {}, form |-> b]
  BY <1>1, <1>2 DEF Over
<1>5. e \in TypedRun
  BY <1>3, <1>4 DEF TypedRun
<1>6. e.plan = <<>> /\ e.state = s
  BY <1>4
<1>7. QED
  BY <1>1, <1>5, <1>6

LEMMA RunGoesOnTypes ==
  ASSUME FleetTypes, NEW r \in Runs, NEW e \in TypedRun, run' = [run EXCEPT ![r] = e],
         e.plan # <<>> <=> e.state = "running"
  PROVE  run' \in [Runs -> TypedRun] /\ \A s \in Runs : run'[s].plan # <<>> <=> run'[s].state = "running"
BY DEF FleetTypes, RunTypes

LEMMA StageTypes ==
  ASSUME NEW r \in Runs, NEW S \in SUBSET PlacedOp
  PROVE  {[by |-> r, q |-> q] : q \in S} \subseteq PlacedCall
<1>1. r \in 1..(MaxRuns + MaxActs)
  BY Bounds DEF Runs
<1>2. QED
  BY <1>1 DEF PlacedCall

LEMMA ProceedsTypes ==
  ASSUME FleetTypes, NEW r \in Runs, run[r].state = "running", NEW left \in Seq(SUBSET PlacedOp), Proceeds(r, left)
  PROVE  RunTypes'
<1>1. run \in [Runs -> TypedRun] /\ pending \subseteq PlacedCall
  BY DEF FleetTypes, RunTypes
<1>2. CASE left = <<>>
  <2>1. run' = [run EXCEPT ![r] = Over("done")] /\ pending' = pending
    BY <1>2 DEF Proceeds
  <2>2. run' \in [Runs -> TypedRun] /\ \A s \in Runs : run'[s].plan # <<>> <=> run'[s].state = "running"
    BY <2>1, OverTypes, RunGoesOnTypes
  <2>3. QED
    BY <1>1, <2>1, <2>2 DEF RunTypes
<1>3. CASE left # <<>>
  <2>1. PICK e, n : e = run[r] /\ n = [e EXCEPT !.plan = left]
    OBVIOUS
  <2>2. e \in TypedRun /\ e.state = "running"
    BY <1>1, <2>1
  <2>3. n \in TypedRun
    BY <2>1, <2>2 DEF TypedRun
  <2>4. n.plan = left /\ n.state = "running"
    BY <2>1, <2>2 DEF TypedRun
  <2>5. run' = [run EXCEPT ![r] = n]
    <3>1. run' = [run EXCEPT ![r].plan = left]
      BY <1>3 DEF Proceeds
    <3>2. QED
      BY <2>1, <3>1
  <2>6. run' \in [Runs -> TypedRun] /\ \A s \in Runs : run'[s].plan # <<>> <=> run'[s].state = "running"
    BY <1>3, <2>3, <2>4, <2>5, RunGoesOnTypes
  <2>7. Head(left) \in SUBSET PlacedOp
    BY <1>3, HeadTailProperties
  <2>8. pending' \subseteq pending \cup {[by |-> r, q |-> q] : q \in Head(left)}
    BY <1>3 DEF Proceeds
  <2>9. pending' \subseteq PlacedCall
    BY <1>1, <2>7, <2>8, StageTypes
  <2>10. QED
    BY <2>6, <2>9 DEF RunTypes
<1>4. QED
  BY <1>2, <1>3

LEMMA ContinuesTypes ==
  ASSUME FleetTypes, NEW a, Continues(a)
  PROVE  RunTypes'
<1>1. PICK r : r = a.call.by
  OBVIOUS
<1>2. CASE UNCHANGED <<run, modal, pending>>
  BY <1>2 DEF FleetTypes, RunTypes
<1>3. ASSUME r \in Runs, Fails(r) PROVE RunTypes'
  <2>1. run' = [run EXCEPT ![r] = Over("failed")] /\ pending' = pending
    BY <1>3 DEF Fails
  <2>2. run' \in [Runs -> TypedRun] /\ \A s \in Runs : run'[s].plan # <<>> <=> run'[s].state = "running"
    BY <1>3, <2>1, OverTypes, RunGoesOnTypes
  <2>3. QED
    BY <2>1, <2>2 DEF FleetTypes, RunTypes
<1>4. ASSUME r \in Runs, run[r].state = "running", NEW rest, rest = Head(run[r].plan) \ {a.call.q},
             Proceeds(r, IF rest = {} THEN Tail(run[r].plan) ELSE <<rest>> \o Tail(run[r].plan))
      PROVE  RunTypes'
  <2>1. PICK p : p = run[r].plan
    OBVIOUS
  <2>2. p \in Seq(SUBSET PlacedOp) /\ p # <<>>
    BY <1>4, <2>1 DEF FleetTypes, RunTypes, TypedRun
  <2>3. Head(p) \in SUBSET PlacedOp /\ Tail(p) \in Seq(SUBSET PlacedOp)
    BY <2>2, HeadTailProperties
  <2>4. rest \in SUBSET PlacedOp
    BY <1>4, <2>1, <2>3
  <2>5. <<rest>> \o Tail(p) \in Seq(SUBSET PlacedOp)
    BY <2>3, <2>4, AloneTyped, ConcatProperties
  <2>6. CASE rest = {}
    BY <1>4, <2>1, <2>3, <2>6, ProceedsTypes
  <2>7. CASE rest # {}
    BY <1>4, <2>1, <2>5, <2>7, ProceedsTypes
  <2>8. QED
    BY <2>6, <2>7
<1>5. QED
  BY <1>1, <1>2, <1>3, <1>4 DEF Continues

\* Where the form of the vehicle puts it is not what an answer fills in.
LEMMA FormReceived ==
  ASSUME FleetTypes, NEW a, NEW which
  PROVE  OneAtMost(Kept(Loaded(a), which)["vehicle"].at)
<1>1. form \in [Modals -> Form] /\ OneAtMost(form["vehicle"].at) /\ "vehicle" \in Modals
  BY DEF FleetTypes, FormTypes, Modals
<1>2. PICK g : g = Loaded(a)
  OBVIOUS
<1>3. g["vehicle"].at = form["vehicle"].at
  <2>1. PICK m, now : m = a.call.q.op /\ now = IF a.ok THEN UNION {a.now.members[f] : f \in a.call.q.of} ELSE {}
    OBVIOUS
  <2>2. CASE m \notin Modals \/ (m = "members" /\ ~ a.ok)
    BY <1>2, <2>1, <2>2 DEF Loaded
  <2>3. CASE m \in Modals /\ ~ (m = "members" /\ ~ a.ok)
    <3>1. PICK e, d : e = form[m] /\ d = [e EXCEPT !.members = now, !.hadMembers = now]
      OBVIOUS
    <3>2. e \in Form /\ d.at = e.at
      BY SMTT(30), <1>1, <2>3, <3>1 DEF Form
    <3>3. g = [form EXCEPT ![m] = d]
      BY <1>1, <1>2, <2>1, <2>3, <3>1 DEF Loaded
    <3>4. QED
      BY <1>1, <3>1, <3>2, <3>3
  <2>4. QED
    BY <2>2, <2>3
<1>4. PICK k : k = Kept(g, which)
  OBVIOUS
<1>5. k["vehicle"] = IF "vehicle" = which THEN g["vehicle"]
      ELSE [Blank EXCEPT !.members = g["vehicle"].members, !.hadMembers = g["vehicle"].hadMembers]
  BY <1>1, <1>4 DEF Kept
<1>6. \A S, T : [Blank EXCEPT !.members = S, !.hadMembers = T].at = {}
  BY DEF Blank
<1>7. OneAtMost(k["vehicle"].at)
  BY <1>1, <1>3, <1>5, <1>6, OneAlone
<1>8. QED
  BY <1>2, <1>4, <1>7

LEMMA ReceiveTypes ==
  ASSUME FleetShape, FleetShape', FleetTypes, NEW i \in 1..Len(answers), Receive(i)
  PROVE  FleetTypes'
<1>1. PICK a : a = answers[i]
  OBVIOUS
<1>2. TypedAnswer(a) /\ a.now \in Database
  BY <1>1 DEF FleetTypes, FleetShape, WellAnswered
<1>3. RunTypes'
  BY <1>1, ContinuesTypes DEF Receive
<1>4. Placed(store')
  <2>1. store \in Stored /\ Placed(store) /\ store' = IF a.ok THEN Merged(store, a.call.q, a.now, a.page) ELSE store
    BY <1>1 DEF Receive, FleetShape, FleetTypes
  <2>2. Placed(Merged(store, a.call.q, a.now, a.page))
    BY <1>2, <2>1, MergedPlaced DEF TypedAnswer
  <2>3. QED
    BY <2>1, <2>2
<1>5. form' \in [Modals -> Form]
  <2>1. DOMAIN form' = Modals /\ \A m \in Modals : form'[m] \in Form
    BY DEF FleetShape, WellFilled
  <2>2. form' = Kept(Loaded(a), modal')
    BY <1>1 DEF Receive
  <2>3. form' = [m \in Modals |-> form'[m]]
    BY <2>1, <2>2 DEF Kept
  <2>4. QED
    BY <2>1, <2>3
<1>6. OneAtMost(form'["vehicle"].at)
  <2>1. form' = Kept(Loaded(a), modal')
    BY <1>1 DEF Receive
  <2>2. QED
    BY <2>1, FormReceived
<1>7. loadingUsers' \in [Modals -> BOOLEAN]
  BY DEF Receive
<1>8. \A j \in 1..Len(answers') : TypedAnswer(answers'[j])
  <2>1. answers' = RemoveAt(answers, i) /\ IsSeq(answers)
    BY DEF Receive, FleetShape
  <2>2. IsSeq(answers') /\ Len(answers) \in Nat /\ Len(answers') = Len(answers) - 1
    BY <2>1, RemainingElements
  <2>3. \A j \in 1..Len(answers') : answers'[j] = IF j < i THEN answers[j] ELSE answers[j + 1]
    BY <2>1, RemainingElements
  <2>4. ASSUME NEW j \in 1..Len(answers') PROVE TypedAnswer(answers'[j])
    <3>1. j \in 1..Len(answers) /\ j + 1 \in 1..Len(answers)
      BY <2>2
    <3>2. QED
      BY <2>3, <3>1 DEF FleetTypes
  <2>5. QED
    BY <2>4
<1>9. acts' \in 0..MaxActs
  BY ActTypes DEF Receive
<1>10. smooth' \in BOOLEAN /\ whole' \in BOOLEAN
  <2>1. whole \in BOOLEAN
    BY DEF FleetTypes
  <2>2. smooth' = (smooth /\ i = 1)
    BY DEF Receive
  <2>3. whole' = IF a.ok /\ a.call.q.op = "listVehicles" THEN a.page = a.now.vehicles ELSE whole
    BY <1>1 DEF Receive
  <2>4. QED
    BY <2>1, <2>2, <2>3
<1>11. Placed(srv') /\ usedIds' \subseteq Fleets \cup Craft
  BY DEF Receive, FleetTypes
<1>12. FormTypes'
  BY <1>5, <1>6, <1>7 DEF FormTypes
<1>13. QED
  BY <1>3, <1>4, <1>8, <1>9, <1>10, <1>11, <1>12 DEF FleetTypes

-----------------------------------------------------------------------------
(* The types after a click.                                                *)

LEMMA DialogOpensTypes ==
  ASSUME FleetTypes, UNCHANGED <<srv, store, whole, run, answers, usedIds, smooth>>, Acts \/ acts' = acts,
         FormTypes', pending' \subseteq PlacedCall
  PROVE  FleetTypes'
<1>1. RunTypes'
  BY DEF FleetTypes, RunTypes
<1>2. acts' \in 0..MaxActs
  BY ActTypes
<1>3. smooth' \in BOOLEAN /\ whole' \in BOOLEAN
  BY DEF FleetTypes
<1>4. Placed(srv') /\ Placed(store') /\ usedIds' \subseteq Fleets \cup Craft
  BY DEF FleetTypes
<1>5. \A j \in 1..Len(answers') : TypedAnswer(answers'[j])
  BY DEF FleetTypes
<1>6. QED
  BY <1>1, <1>2, <1>3, <1>4, <1>5 DEF FleetTypes

LEMMA LoadsTypes ==
  ASSUME FleetTypes, Acts, NEW m \in Modals, NEW f \in Fleets, LoadsMembers(m, f)
  PROVE  pending' \subseteq PlacedCall /\ loadingUsers' \in [Modals -> BOOLEAN]
<1>1. PICK c : c = [by |-> MaxRuns + acts', q |-> [op |-> m, of |-> {f}, to |-> {}]]
  OBVIOUS
<1>2. MaxRuns + acts' \in 1..(MaxRuns + MaxActs)
  BY Bounds DEF Acts, FleetTypes
<1>3. [op |-> m, of |-> {f}, to |-> {}] \in PlacedOp
  BY OpTypes, OneAlone DEF Modals
<1>4. c \in PlacedCall
  BY <1>1, <1>2, <1>3 DEF PlacedCall
<1>5. pending' = pending \cup {c}
  BY <1>1 DEF LoadsMembers
<1>6. loadingUsers' \in [Modals -> BOOLEAN]
  BY DEF LoadsMembers, FleetTypes, FormTypes
<1>7. QED
  BY <1>4, <1>5, <1>6 DEF FleetTypes, RunTypes

LEMMA FormOpens ==
  ASSUME FleetTypes, NEW m \in Modals, NEW f \in Form, form' = [form EXCEPT ![m] = f],
         m = "vehicle" => OneAtMost(f.at), loadingUsers' \in [Modals -> BOOLEAN]
  PROVE  FormTypes'
BY DEF FleetTypes, FormTypes, Modals

LEMMA BlankForm == Blank \in Form /\ Blank.at = {} /\ DOMAIN Blank = {"of", "at", "vehicles", "hadVehicles", "members", "hadMembers"}
BY DEF Blank, Form

LEMMA OpensTypes ==
  ASSUME FleetShape, FleetTypes
  PROVE  /\ openFleetCreate => FleetTypes'
         /\ \A f \in Fleets : openFleetEdit(f) => FleetTypes'
         /\ \A f \in Fleets : openMembersModal(f) => FleetTypes'
         /\ \A of \in {{}} \cup {{v} : v \in Craft} : openVehicle(of) => FleetTypes'
         /\ Cancel => FleetTypes'
<1>1. /\ form \in [Modals -> Form] /\ loadingUsers \in [Modals -> BOOLEAN] /\ pending \subseteq PlacedCall
      /\ Modals = {"fleet", "members", "vehicle"} /\ store.at \in [Craft -> SUBSET Fleets]
      /\ store.vehicles \subseteq Craft
  BY DEF FleetTypes, FormTypes, RunTypes, Modals, FleetShape, Stored
<1>2. ASSUME openFleetCreate PROVE FleetTypes'
  <2>1. /\ form' = [form EXCEPT !["fleet"] = Blank] /\ loadingUsers' = loadingUsers /\ Acts
        /\ UNCHANGED <<srv, store, whole, run, pending, answers, usedIds, smooth>>
    BY <1>2 DEF openFleetCreate, Opens
  <2>2. FormTypes'
    BY <1>1, <2>1, BlankForm, FormOpens
  <2>3. QED
    BY <1>1, <2>1, <2>2, DialogOpensTypes
<1>3. ASSUME NEW f \in Fleets, openFleetEdit(f) PROVE FleetTypes'
  <2>1. PICK its : its = {v \in Craft : store.at[v] = {f}}
    OBVIOUS
  <2>2. PICK e, n : e = form["fleet"] /\ n = [e EXCEPT !.of = {f}, !.vehicles = its, !.hadVehicles = its]
    OBVIOUS
  <2>3. e \in Form
    BY <1>1, <2>2
  <2>4. its \in SUBSET Craft
    BY <2>1
  <2>5. n \in Form
    BY <2>2, <2>3, <2>4 DEF Form
  <2>6. /\ form' = [form EXCEPT !["fleet"] = n] /\ Acts /\ LoadsMembers("fleet", f)
        /\ UNCHANGED <<srv, store, whole, run, answers, usedIds, smooth>>
    BY <1>3, <2>1, <2>2 DEF openFleetEdit, Opens
  <2>7. pending' \subseteq PlacedCall /\ loadingUsers' \in [Modals -> BOOLEAN]
    BY <1>1, <2>6, LoadsTypes
  <2>8. FormTypes'
    BY <1>1, <2>5, <2>6, <2>7, FormOpens
  <2>9. QED
    BY <2>6, <2>7, <2>8, DialogOpensTypes
<1>4. ASSUME NEW f \in Fleets, openMembersModal(f) PROVE FleetTypes'
  <2>1. PICK e, n : e = form["members"] /\ n = [e EXCEPT !.of = {f}]
    OBVIOUS
  <2>2. e \in Form
    BY <1>1, <2>1
  <2>3. n \in Form
    BY <2>1, <2>2 DEF Form
  <2>4. /\ form' = [form EXCEPT !["members"] = n] /\ Acts /\ LoadsMembers("members", f)
        /\ UNCHANGED <<srv, store, whole, run, answers, usedIds, smooth>>
    BY <1>4, <2>1 DEF openMembersModal, Opens
  <2>5. pending' \subseteq PlacedCall /\ loadingUsers' \in [Modals -> BOOLEAN]
    BY <1>1, <2>4, LoadsTypes
  <2>6. FormTypes'
    BY <1>1, <2>3, <2>4, <2>5, FormOpens
  <2>7. QED
    BY <2>4, <2>5, <2>6, DialogOpensTypes
<1>5. ASSUME NEW of \in {{}} \cup {{v} : v \in Craft}, openVehicle(of) PROVE FleetTypes'
  <2>1. PICK at : at = UNION {store.at[v] : v \in of}
    OBVIOUS
  <2>2. at \in SUBSET Fleets /\ OneAtMost(at)
    <3>1. CASE of = {}
      BY <2>1, <3>1 DEF OneAtMost
    <3>2. CASE \E v \in Craft : of = {v}
      <4>1. PICK v \in Craft : of = {v}
        BY <3>2
      <4>2. at = store.at[v]
        BY <2>1, <4>1
      <4>3. OneAtMost(store.at[v])
        BY DEF FleetTypes, Placed
      <4>4. QED
        BY <1>1, <4>2, <4>3
    <3>3. QED
      BY <3>1, <3>2
  <2>3. PICK n : n = [Blank EXCEPT !.of = of, !.at = at]
    OBVIOUS
  <2>4. of \in SUBSET (Fleets \cup Craft)
    OBVIOUS
  <2>5. n \in Form /\ n.at = at
    BY <2>2, <2>3, <2>4 DEF Blank, Form
  <2>6. /\ form' = [form EXCEPT !["vehicle"] = n] /\ loadingUsers' = loadingUsers /\ Acts
        /\ UNCHANGED <<srv, store, whole, run, pending, answers, usedIds, smooth>>
    BY <1>5, <2>1, <2>3 DEF openVehicle, Opens
  <2>7. FormTypes'
    BY <1>1, <2>2, <2>5, <2>6, FormOpens
  <2>8. QED
    BY <1>1, <2>6, <2>7, DialogOpensTypes
<1>6. ASSUME Cancel PROVE FleetTypes'
  <2>1. /\ form' = Kept(form, "none") /\ loadingUsers' = loadingUsers /\ Acts
        /\ UNCHANGED <<srv, store, whole, run, pending, answers, usedIds, smooth>>
    BY <1>6 DEF Cancel
  <2>2. \A S, T \in SUBSET Members : /\ [Blank EXCEPT !.members = S, !.hadMembers = T] \in Form
                                     /\ [Blank EXCEPT !.members = S, !.hadMembers = T].at = {}
    BY DEF Blank, Form
  <2>3. \A m \in Modals : form[m].members \in SUBSET Members /\ form[m].hadMembers \in SUBSET Members
    BY <1>1 DEF Form
  <2>4. form' = [m \in Modals |-> [Blank EXCEPT !.members = form[m].members, !.hadMembers = form[m].hadMembers]]
    BY <1>1, <2>1 DEF Kept
  <2>5. form' \in [Modals -> Form] /\ form'["vehicle"].at = {}
    BY <1>1, <2>2, <2>3, <2>4
  <2>6. FormTypes'
    BY <1>1, <2>1, <2>5, OneAlone DEF FormTypes
  <2>7. QED
    BY <1>1, <2>1, <2>6, DialogOpensTypes
<1>7. QED
  BY <1>2, <1>3, <1>4, <1>5, <1>6

LEMMA EditTypes ==
  ASSUME FleetShape, FleetTypes, Edit
  PROVE  FleetTypes'
<1>1. /\ form \in [Modals -> Form] /\ loadingUsers \in [Modals -> BOOLEAN] /\ pending \subseteq PlacedCall
      /\ Modals = {"fleet", "members", "vehicle"} /\ store.fleets \subseteq Fleets /\ store.vehicles \subseteq Craft
  BY DEF FleetTypes, FormTypes, RunTypes, Modals, FleetShape, Stored
<1>2. Acts /\ UNCHANGED <<srv, store, whole, modal, loadingUsers, run, pending, answers, usedIds, smooth>>
  BY DEF Edit
<1>3. ASSUME NEW m \in Modals, NEW f \in Form, form' = [form EXCEPT ![m] = f], m = "vehicle" => OneAtMost(f.at)
      PROVE  FleetTypes'
  <2>1. FormTypes'
    BY <1>1, <1>2, <1>3, FormOpens
  <2>2. QED
    BY <1>1, <1>2, <2>1, DialogOpensTypes
<1>4. ASSUME NEW v \in eligibleFleetVehicles, form' = [form EXCEPT !["fleet"].vehicles = Flipped(@, v)]
      PROVE  FleetTypes'
  <2>1. PICK e, S : e = form["fleet"] /\ S = Flipped(e.vehicles, v)
    OBVIOUS
  <2>2. e \in Form /\ v \in Craft
    BY <1>1, <1>4, <2>1 DEF eligibleFleetVehicles
  <2>3. S \in SUBSET Craft
    BY <2>1, <2>2 DEF Flipped, Form
  <2>4. [e EXCEPT !.vehicles = S] \in Form
    BY <2>2, <2>3 DEF Form
  <2>5. form' = [form EXCEPT !["fleet"] = [e EXCEPT !.vehicles = S]]
    BY <1>1, <1>4, <2>1 DEF Form
  <2>6. QED
    BY <1>1, <1>3, <2>4, <2>5
<1>5. ASSUME NEW u \in Members, modal \in {"fleet", "members"}, form' = [form EXCEPT ![modal].members = Flipped(@, u)]
      PROVE  FleetTypes'
  <2>1. PICK e, S : e = form[modal] /\ S = Flipped(e.members, u)
    OBVIOUS
  <2>2. e \in Form
    BY <1>1, <1>5, <2>1
  <2>3. S \in SUBSET Members
    BY <2>1, <2>2 DEF Flipped, Form
  <2>4. [e EXCEPT !.members = S] \in Form
    BY <2>2, <2>3 DEF Form
  <2>5. form' = [form EXCEPT ![modal] = [e EXCEPT !.members = S]]
    BY <1>1, <1>5, <2>1 DEF Form
  <2>6. QED
    BY <1>1, <1>3, <1>5, <2>4, <2>5
<1>6. ASSUME NEW at \in {{}} \cup {{f} : f \in store.fleets}, form' = [form EXCEPT !["vehicle"].at = at]
      PROVE  FleetTypes'
  <2>1. at \in SUBSET Fleets /\ OneAtMost(at)
    BY <1>1, OneAlone
  <2>2. PICK e : e = form["vehicle"]
    OBVIOUS
  <2>3. e \in Form
    BY <1>1, <2>2
  <2>4. [e EXCEPT !.at = at] \in Form /\ [e EXCEPT !.at = at].at = at
    BY <2>1, <2>3 DEF Form
  <2>5. form' = [form EXCEPT !["vehicle"] = [e EXCEPT !.at = at]]
    BY <1>1, <1>6, <2>2 DEF Form
  <2>6. QED
    BY <1>1, <1>3, <2>1, <2>4, <2>5
<1>7. QED
  BY <1>4, <1>5, <1>6, Zenon DEF Edit


\* The plan is of requests of the page, and its first stage is sent.
LEMMA StartsTypes ==
  ASSUME FleetTypes, NEW r \in Runs, NEW plan \in Seq(SUBSET PlacedOp), NEW closes \in Modals \cup {"none"},
         NEW f \in SUBSET Fleets, NEW fm \in Form, NEW clean \in BOOLEAN,
         Starts(r, plan, closes, f, fm, clean), usedIds' \subseteq Fleets \cup Craft
  PROVE  FleetTypes'
<1>1. /\ run \in [Runs -> TypedRun] /\ pending \subseteq PlacedCall
      /\ \A s \in Runs : run[s].plan # <<>> <=> run[s].state = "running"
  BY DEF FleetTypes, RunTypes
<1>2. Acts /\ UNCHANGED <<srv, store, whole, form, loadingUsers, answers, smooth>>
  BY DEF Starts
<1>3. PICK b : b = IF clean THEN fm ELSE Blank
  OBVIOUS
<1>4. b \in Form
  BY <1>3, BlankForm
<1>5. PICK e : e = [state |-> "running", plan |-> plan, closes |-> closes, clean |-> clean, fleet |-> f, form |-> b]
  OBVIOUS
<1>6. e \in TypedRun /\ e.plan = plan /\ e.state = "running"
  BY <1>4, <1>5 DEF TypedRun
<1>7. PICK n : n = IF plan = <<>> THEN Over("done") ELSE e
  OBVIOUS
<1>8. n \in TypedRun /\ (n.plan # <<>> <=> n.state = "running")
  BY <1>6, <1>7, OverTypes
<1>9. DOMAIN run' = Runs /\ run'[r] = n
        /\ \A s \in Runs \ {r} : run'[s] = [run[s] EXCEPT !.clean = @ /\ run[s].state # "running"]
  <2>1. run' = [s \in Runs |-> IF s = r THEN IF plan = <<>> THEN Over("done") ELSE e
                               ELSE [run[s] EXCEPT !.clean = @ /\ run[s].state # "running"]]
    BY <1>3, <1>5 DEF Starts
  <2>2. QED
    BY <1>7, <2>1
<1>10. ASSUME NEW s \in Runs \ {r}
       PROVE  run'[s] \in TypedRun /\ run'[s].plan = run[s].plan /\ run'[s].state = run[s].state
  <2>1. PICK o, c : o = run[s] /\ c = (o.clean /\ o.state # "running")
    OBVIOUS
  <2>2. o \in TypedRun
    BY <1>1, <2>1
  <2>3. c \in BOOLEAN
    BY <2>1
  <2>4. run'[s] = [o EXCEPT !.clean = o.clean /\ o.state # "running"]
    BY <1>9, <2>1
  <2>5. run'[s] = [o EXCEPT !.clean = c]
    BY <2>1, <2>4
  <2>6. [o EXCEPT !.clean = c] \in TypedRun
    BY <2>2, <2>3 DEF TypedRun
  <2>7. [o EXCEPT !.clean = c].plan = o.plan /\ [o EXCEPT !.clean = c].state = o.state
    BY <2>2 DEF TypedRun
  <2>8. QED
    BY <2>1, <2>5, <2>6, <2>7
<1>11. \A s \in Runs : run'[s] \in TypedRun /\ (run'[s].plan # <<>> <=> run'[s].state = "running")
  BY <1>1, <1>8, <1>9, <1>10
<1>12. run' = [s \in Runs |-> run'[s]]
  BY DEF Starts
<1>13. run' \in [Runs -> TypedRun]
  BY <1>11, <1>12
<1>14. pending' \subseteq PlacedCall
  <2>1. CASE plan = <<>>
    BY <1>1, <2>1 DEF Starts
  <2>2. CASE plan # <<>>
    <3>1. Head(plan) \in SUBSET PlacedOp
      BY <2>2, HeadTailProperties
    <3>2. pending' = pending \cup {[by |-> r, q |-> q] : q \in Head(plan)}
      BY <2>2 DEF Starts
    <3>3. QED
      BY <1>1, <3>1, <3>2, StageTypes
  <2>3. QED
    BY <2>1, <2>2
<1>15. RunTypes'
  BY <1>11, <1>13, <1>14 DEF RunTypes
<1>16. FormTypes'
  BY <1>2 DEF FleetTypes, FormTypes
<1>17. acts' \in 0..MaxActs
  BY <1>2, ActTypes
<1>18. smooth' \in BOOLEAN /\ whole' \in BOOLEAN
  BY <1>2 DEF FleetTypes
<1>19. Placed(srv') /\ Placed(store') /\ \A i \in 1..Len(answers') : TypedAnswer(answers'[i])
  BY <1>2 DEF FleetTypes
<1>20. QED
  BY <1>15, <1>16, <1>17, <1>18, <1>19 DEF FleetTypes

LEMMA SaveTypes ==
  ASSUME FleetShape, FleetTypes, NEW r \in Runs
  PROVE  /\ handleFleetSave(r) => FleetTypes'
         /\ handleSaveMembers(r) => FleetTypes'
<1>1. form \in [Modals -> Form] /\ usedIds \subseteq Fleets \cup Craft /\ Modals = {"fleet", "members", "vehicle"}
  BY DEF FleetTypes, FormTypes, Modals
<1>2. ASSUME handleFleetSave(r) PROVE FleetTypes'
  <2>1. PICK fm : fm = form["fleet"]
    OBVIOUS
  <2>2. fm \in Form
    BY <1>1, <2>1
  <2>3. PICK op : op = IF fm.of = {} THEN "createFleet" ELSE "updateFleet"
    OBVIOUS
  <2>4. PICK f \in IF fm.of = {} THEN Fleets \ usedIds ELSE fm.of, leave \in SetToSeqs(fm.hadMembers \ fm.members) :
          /\ Starts(r, <<{[op |-> op, of |-> {f}, to |-> {}]}>> \o VehicleStage(f, fm)
                         \o MemberStages(f, fm, leave) \o <<{Get(o) : o \in Lists}>>,
                    "fleet", {f}, fm, Clean(f, fm))
          /\ usedIds' = usedIds \cup {f}
    BY <1>2, <2>1, <2>3, Zenon DEF handleFleetSave
  <2>5. f \in Fleets
    <3>1. WellFilled("fleet", fm)
      BY <1>1, <2>1 DEF FleetShape
    <3>2. fm.of \subseteq Fleets
      BY <3>1 DEF WellFilled
    <3>3. QED
      BY <2>4, <3>2
  <2>6. op \in {"createFleet", "updateFleet"}
    BY <2>3
  <2>7. PICK plan : plan = <<{[op |-> op, of |-> {f}, to |-> {}]}>> \o VehicleStage(f, fm)
                         \o MemberStages(f, fm, leave) \o <<{Get(o) : o \in Lists}>>
    OBVIOUS
  <2>8. plan \in Seq(SUBSET PlacedOp)
    BY <2>2, <2>4, <2>5, <2>6, <2>7, FleetPlanTyped
  <2>9. PICK clean : clean = Clean(f, fm)
    OBVIOUS
  <2>10. clean \in BOOLEAN
    BY <2>9 DEF Clean
  <2>11. Starts(r, plan, "fleet", {f}, fm, clean) /\ usedIds' = usedIds \cup {f}
    BY <2>4, <2>7, <2>9
  <2>12. usedIds' \subseteq Fleets \cup Craft
    BY <1>1, <2>5, <2>11
  <2>13. QED
    BY <1>1, <2>2, <2>5, <2>8, <2>10, <2>11, <2>12, StartsTypes
<1>3. ASSUME handleSaveMembers(r) PROVE FleetTypes'
  <2>1. PICK fm : fm = form["members"]
    OBVIOUS
  <2>2. fm \in Form
    BY <1>1, <2>1
  <2>3. PICK f \in fm.of, leave \in SetToSeqs(fm.hadMembers \ fm.members) :
          /\ Starts(r, MemberStages(f, fm, leave), "members", {f}, fm, Quiet /\ fm.hadMembers = srv.members[f])
          /\ usedIds' = usedIds
    BY <1>3, <2>1, Zenon DEF handleSaveMembers
  <2>4. f \in Fleets
    <3>1. WellFilled("members", fm)
      BY <1>1, <2>1 DEF FleetShape
    <3>2. fm.of \subseteq Fleets
      BY <3>1 DEF WellFilled
    <3>3. QED
      BY <2>3, <3>2
  <2>5. PICK plan : plan = MemberStages(f, fm, leave)
    OBVIOUS
  <2>6. plan \in Seq(SUBSET PlacedOp)
    BY <2>2, <2>3, <2>4, <2>5, MembersTyped
  <2>7. PICK clean : clean = (Quiet /\ fm.hadMembers = srv.members[f])
    OBVIOUS
  <2>8. clean \in BOOLEAN
    BY <2>7
  <2>9. Starts(r, plan, "members", {f}, fm, clean) /\ usedIds' = usedIds
    BY <2>3, <2>5, <2>7
  <2>10. QED
    BY <1>1, <2>2, <2>4, <2>6, <2>8, <2>9, StartsTypes
<1>4. QED
  BY <1>2, <1>3

LEMMA DeleteTypes ==
  ASSUME FleetShape, FleetTypes, NEW r \in Runs
  PROVE  /\ handleFleetDelete(r) => FleetTypes'
         /\ handleDelete(r) => FleetTypes'
<1>1. usedIds \subseteq Fleets \cup Craft /\ store.fleets \subseteq Fleets /\ store.vehicles \subseteq Craft
  BY DEF FleetTypes, FleetShape, Stored
<1>2. ASSUME NEW plan \in Seq(SUBSET PlacedOp), Starts(r, plan, "none", {}, Blank, FALSE), usedIds' = usedIds
      PROVE  FleetTypes'
  <2>1. {} \in SUBSET Fleets /\ FALSE \in BOOLEAN
    OBVIOUS
  <2>2. QED
    BY <1>1, <1>2, <2>1, BlankForm, StartsTypes
<1>3. ASSUME handleFleetDelete(r) PROVE FleetTypes'
  <2>1. PICK f \in store.fleets :
          Starts(r, <<{[op |-> "deleteFleet", of |-> {f}, to |-> {}]}>>, "none", {}, Blank, FALSE) /\ usedIds' = usedIds
    BY <1>3 DEF handleFleetDelete
  <2>2. [op |-> "deleteFleet", of |-> {f}, to |-> {}] \in PlacedOp
    BY <1>1, <2>1, OpTypes DEF Operations
  <2>3. {[op |-> "deleteFleet", of |-> {f}, to |-> {}]} \in SUBSET PlacedOp
    BY <2>2
  <2>4. <<{[op |-> "deleteFleet", of |-> {f}, to |-> {}]}>> \in Seq(SUBSET PlacedOp)
    BY <2>3, AloneTyped
  <2>5. QED
    BY <1>2, <2>1, <2>4
<1>4. ASSUME handleDelete(r) PROVE FleetTypes'
  <2>1. PICK v \in store.vehicles :
          /\ Starts(r, <<{[op |-> "deleteVehicle", of |-> {v}, to |-> {}]}, {Get("listVehicles")}>>, "none", {}, Blank, FALSE)
          /\ usedIds' = usedIds
    BY <1>4 DEF handleDelete
  <2>2. [op |-> "deleteVehicle", of |-> {v}, to |-> {}] \in PlacedOp
    BY <1>1, <2>1, OpTypes, OneAlone DEF Operations
  <2>3. Get("listVehicles") \in PlacedOp
    BY OpTypes DEF Get, Lists
  <2>4. PICK S, T : S = {[op |-> "deleteVehicle", of |-> {v}, to |-> {}]} /\ T = {Get("listVehicles")}
    OBVIOUS
  <2>5. S \in SUBSET PlacedOp /\ T \in SUBSET PlacedOp
    BY <2>2, <2>3, <2>4
  <2>6. <<S, T>> \in Seq(SUBSET PlacedOp)
    BY <2>5
  <2>7. QED
    BY <1>2, <2>1, <2>4, <2>6
<1>5. QED
  BY <1>3, <1>4

LEMMA VehicleTypes ==
  ASSUME FleetShape, FleetTypes, NEW r \in Runs, handleSave(r)
  PROVE  FleetTypes'
<1>1. /\ form \in [Modals -> Form] /\ OneAtMost(form["vehicle"].at)
      /\ usedIds \subseteq Fleets \cup Craft /\ "vehicle" \in Modals
  BY DEF FleetTypes, FormTypes, Modals
<1>2. PICK fm : fm = form["vehicle"]
  OBVIOUS
<1>3. PICK op : op = IF fm.of = {} THEN "createVehicle" ELSE "updateVehicle"
  OBVIOUS
<1>4. PICK v \in IF fm.of = {} THEN Craft \ usedIds ELSE fm.of :
        /\ Starts(r, <<{[op |-> op, of |-> {v}, to |-> fm.at]}>>, "vehicle", {}, Blank, FALSE)
        /\ usedIds' = usedIds \cup {v}
  BY <1>2, <1>3, Zenon DEF handleSave
<1>5. fm \in Form /\ fm.at \in SUBSET Fleets /\ OneAtMost(fm.at)
  BY <1>1, <1>2 DEF Form
<1>6. v \in Craft
  <2>1. WellFilled("vehicle", fm)
    BY <1>1, <1>2 DEF FleetShape
  <2>2. fm.of \subseteq Craft
    BY <2>1 DEF WellFilled
  <2>3. QED
    BY <1>4, <2>2
<1>7. op \in Operations
  BY <1>3 DEF Operations
<1>8. [op |-> op, of |-> {v}, to |-> fm.at] \in PlacedOp
  BY <1>5, <1>6, <1>7, OpTypes
<1>9. PICK S : S = {[op |-> op, of |-> {v}, to |-> fm.at]}
  OBVIOUS
<1>10. S \in SUBSET PlacedOp
  BY <1>8, <1>9
<1>11. <<S>> \in Seq(SUBSET PlacedOp)
  BY <1>10, AloneTyped
<1>12. {} \in SUBSET Fleets /\ FALSE \in BOOLEAN
  OBVIOUS
<1>13. usedIds' \subseteq Fleets \cup Craft
  BY <1>1, <1>4, <1>6
<1>14. QED
  BY <1>1, <1>4, <1>9, <1>11, <1>12, <1>13, BlankForm, StartsTypes

LEMMA FleetTypesStart == FleetInit => FleetTypes
<1> SUFFICES ASSUME FleetInit PROVE FleetTypes
  OBVIOUS
<1>1. Placed(srv) /\ srv \in Database
  BY WorldAssumption DEF FleetInit
<1>2. PICK P : /\ store = [fleets |-> srv.fleets, vehicles |-> P, at |-> Located(P, srv.at)]
               /\ whole = (P = srv.vehicles)
  BY DEF FleetInit
<1>3. Placed(store) /\ whole \in BOOLEAN
  <2>1. \A v \in Craft : store.at[v] = IF v \in P THEN srv.at[v] ELSE {}
    BY <1>2 DEF Located
  <2>2. \A v \in Craft : OneAtMost(srv.at[v])
    BY <1>1 DEF Placed
  <2>3. QED
    BY <1>2, <2>1, <2>2, OneAlone DEF Placed
<1>4. FormTypes
  <2>1. form \in [Modals -> Form] /\ form["vehicle"] = Blank
    BY BlankForm DEF FleetInit, Modals
  <2>2. OneAtMost(form["vehicle"].at)
    BY <2>1, BlankForm, OneAlone
  <2>3. loadingUsers \in [Modals -> BOOLEAN]
    BY DEF FleetInit
  <2>4. QED
    BY <2>1, <2>2, <2>3 DEF FormTypes
<1>5. RunTypes
  BY OverTypes DEF FleetInit, RunTypes
<1>6. Len(answers) = 0
  BY DEF FleetInit
<1>7. \A i \in 1..Len(answers) : TypedAnswer(answers[i])
  BY <1>6
<1>8. acts \in 0..MaxActs /\ usedIds \subseteq Fleets \cup Craft /\ smooth \in BOOLEAN
  BY <1>1, Bounds DEF FleetInit, Database
<1>9. QED
  BY <1>1, <1>3, <1>4, <1>5, <1>7, <1>8 DEF FleetTypes

LEMMA FleetTypesKept == FleetInv /\ FleetInv' /\ FleetTypes /\ [FleetNext]_fleetVars => FleetTypes'
<1> SUFFICES ASSUME FleetInv, FleetInv', FleetTypes, [FleetNext]_fleetVars PROVE FleetTypes'
  OBVIOUS
<1>1. FleetShape /\ FleetShape' /\ DOMAIN answers = 1..Len(answers)
  BY SeqLength DEF FleetInv, FleetShape, IsSeq
<1>2. CASE \E c \in pending : Served(c)
  BY <1>1, <1>2, ServedTypes
<1>3. CASE \E i \in DOMAIN answers : Receive(i)
  BY <1>1, <1>3, ReceiveTypes
<1>4. CASE openFleetCreate \/ Cancel \/ Edit
  BY <1>1, <1>4, OpensTypes, EditTypes
<1>5. CASE \E f \in Fleets : openFleetEdit(f) \/ openMembersModal(f)
  BY <1>1, <1>5, OpensTypes
<1>6. CASE \E of \in {{}} \cup {{v} : v \in Craft} : openVehicle(of)
  BY <1>1, <1>6, OpensTypes
<1>7. CASE \E r \in Runs : \/ handleFleetSave(r) \/ handleFleetDelete(r) \/ handleSaveMembers(r)
                           \/ handleSave(r) \/ handleDelete(r)
  BY <1>1, <1>7, SaveTypes, DeleteTypes, VehicleTypes
<1>8. CASE UNCHANGED fleetVars
  BY <1>8 DEF fleetVars, FleetTypes, FormTypes, RunTypes
<1>9. QED
  BY <1>2, <1>3, <1>4, <1>5, <1>6, <1>7, <1>8, Zenon DEF FleetNext

LEMMA FleetIsTyped == FleetInv /\ FleetTypes => FleetTypeOK
<1> SUFFICES ASSUME FleetInv, FleetTypes PROVE FleetTypeOK
  OBVIOUS
<1>1. FleetShape /\ DOMAIN answers = 1..Len(answers)
  BY SeqLength DEF FleetInv, FleetShape, IsSeq
<1>2. srv \in Database /\ store \in Stored /\ modal \in Modals \cup {"none"}
  BY <1>1 DEF FleetShape
<1>3. \A r \in Runs : run[r] \in TypedRun /\ (run[r].plan # <<>> <=> run[r].state = "running")
  BY DEF FleetTypes, RunTypes
<1>4. SUBSET PlacedOp \subseteq SUBSET Op /\ PlacedCall \subseteq Call
  BY DEF PlacedOp, PlacedCall, Call
<1>5. ASSUME NEW p \in Seq(SUBSET PlacedOp) PROVE p \in Seq(SUBSET Op)
  <2>1. Len(p) \in Nat /\ p \in [1..Len(p) -> SUBSET PlacedOp]
    OBVIOUS
  <2>2. p \in [1..Len(p) -> SUBSET Op]
    BY <1>4, <2>1
  <2>3. QED
    BY <2>1, <2>2
<1>6. ASSUME NEW r \in Runs
      PROVE  /\ run[r].state \in {"idle", "running", "done", "failed"}
             /\ run[r].plan \in Seq(SUBSET Op) /\ (run[r].plan # <<>> <=> run[r].state = "running")
             /\ run[r].closes \in Modals \cup {"none"}
             /\ run[r].fleet \in SUBSET Fleets
             /\ run[r].form \in Form /\ run[r].clean \in BOOLEAN
  <2>1. PICK e : e = run[r]
    OBVIOUS
  <2>2. e \in TypedRun /\ (e.plan # <<>> <=> e.state = "running")
    BY <1>3, <2>1
  <2>3. e.plan \in Seq(SUBSET PlacedOp)
    BY <2>2 DEF TypedRun
  <2>4. e.plan \in Seq(SUBSET Op)
    BY <1>5, <2>3
  <2>5. e.state \in {"idle", "running", "done", "failed"} /\ e.closes \in Modals \cup {"none"}
        /\ e.fleet \in SUBSET Fleets /\ e.form \in Form
    BY <2>2 DEF TypedRun
  <2>6. e.clean \in BOOLEAN
    BY <2>2 DEF TypedRun
  <2>7. QED
    BY <2>1, <2>2, <2>4, <2>5, <2>6
<1>7. pending \subseteq Call
  BY <1>4 DEF FleetTypes, RunTypes
<1>8. \A i \in DOMAIN answers : answers[i].call \in Call /\ answers[i].ok \in BOOLEAN
  BY <1>1, <1>4 DEF FleetTypes, TypedAnswer
<1>9. form \in [Modals -> Form] /\ loadingUsers \in [Modals -> BOOLEAN]
  BY DEF FleetTypes, FormTypes
<1>10. Placed(srv) /\ Placed(store) /\ acts \in 0..MaxActs /\ usedIds \subseteq Fleets \cup Craft
  BY DEF FleetTypes
<1>11. smooth \in BOOLEAN /\ whole \in BOOLEAN
  BY DEF FleetTypes
<1>12. QED
  BY <1>2, <1>6, <1>7, <1>8, <1>9, <1>10, <1>11 DEF FleetTypeOK
=============================================================================
