------------------------------- MODULE Locks -------------------------------
(***************************************************************************)
(* Who waits for whom: the row locks of every transaction of the service,  *)
(* in the order in which its statements take them. What the rows hold and  *)
(* who reads them is in the other modules.                                 *)
(*                                                                         *)
(* No use case was written with a lock order in mind, and a request may    *)
(* lock rows of three or four tables on its way to the commit.             *)
(***************************************************************************)
EXTENDS Integers, Sequences, FiniteSets

CONSTANTS
  Requests,      \* transactions that can be open at the same time
  Users, Libraries, Addresses,
  Issued,        \* refresh tokens and links, by name
  Owner,         \* the user each was issued to
  Entries        \* the sets of addresses whose index entries the save of an account touches

ASSUME LocksAssumption ==
  /\ Owner \in [Issued -> Users]
  /\ Entries \subseteq SUBSET Addresses

VARIABLE req     \* the open transaction of each request slot

vars == <<req>>

\* uq_users_email_active is an index; the others are tables.
Tables ==
  {"email_change_tokens", "password_reset_tokens", "refresh_tokens", "libraries",
   "user_library_memberships", "users", "uq_users_email_active"}

Modes == {"key_share", "no_key_update", "update"}

-----------------------------------------------------------------------------
(* Statements: the rows that one of them locks, and how. A row that a       *)
(* request inserts is nobody else's concern before its commit. Which of the *)
(* rows exist and match is left open.                                       *)

\* One that finds no row locks nothing.
Statement(table, rows, mode) ==
  IF rows = {} THEN <<>> ELSE <<[table |-> table, rows |-> rows, mode |-> mode]>>

\* UPDATE of columns that no foreign key refers to; entries of a unique index.
Update(table, rows) == Statement(table, rows, "no_key_update")

\* DELETE and SELECT ... FOR UPDATE.
Exclude(table, rows) == Statement(table, rows, "update")

\* The check of a foreign key that is inserted or changed.
Refer(table, rows) == Statement(table, rows, "key_share")

Conflict(m, n) ==
  \/ "update" \in {m, n}
  \/ m = "no_key_update" /\ n = "no_key_update"

AtMost(n, S) == {T \in SUBSET S : Cardinality(T) <= n}

OwnedBy(u) == {i \in Issued : Owner[i] = u}

MembershipsOf(u) == {u} \X Libraries

\* The saves of memberships, and of an account with its entries in the index of
\* addresses: none, or the one that goes and the one that comes.
SaveMembership(ms) == Update("user_library_memberships", ms)

SaveAccount(u, as) == Update("users", {u}) \o Update("uq_users_email_active", as)

\* lock_active_admins locks whatever it finds in the library.
LockActiveAdmins(ms) == Exclude("user_library_memberships", ms)

Checks(l) == SUBSET (Users \X {l})

-----------------------------------------------------------------------------
(* Requests *)

Idle == [kind |-> "none", plan |-> <<>>, at |-> 0, todo |-> {}]

Open(r, kind, plan) ==
  /\ req[r] = Idle
  /\ plan # <<>>
  /\ req' = [req EXCEPT ![r] = [kind |-> kind, plan |-> plan, at |-> 1, todo |-> plan[1].rows]]

Serve(r, plan) == Open(r, "request", plan)

Finish(r) == req' = [req EXCEPT ![r] = Idle]

Now(x) == x.plan[x.at]

\* The rows that x has by statement i.
Got(x, i) == IF i = x.at THEN x.plan[i].rows \ x.todo ELSE x.plan[i].rows

\* y has row v locked, in a mode that makes the statement of x wait.
Blocks(y, x, v) ==
  \E i \in 1..y.at :
    /\ y.plan[i].table = Now(x).table
    /\ Conflict(y.plan[i].mode, Now(x).mode)
    /\ v \in Got(y, i)

WaitsFor(r, q) ==
  /\ q # r
  /\ \E v \in req[r].todo : Blocks(req[q], req[r], v)

Circle(S) == \A p \in S : \E q \in S : WaitsFor(p, q)

Deadlocked(r) ==
  /\ \E q \in Requests : WaitsFor(r, q)
  /\ \E S \in SUBSET Requests : r \in S /\ Circle(S)

Last(x) == x.at = Len(x.plan)

NextStatement(x) == [x EXCEPT !.at = @ + 1, !.todo = x.plan[x.at + 1].rows]

\* The rows of one statement are locked one by one, in whatever order it finds
\* them; after the last of them comes the next statement.
LockRow(r, v) ==
  /\ v \in req[r].todo
  /\ \A q \in Requests \ {r} : ~Blocks(req[q], req[r], v)
  /\ LET x == [req[r] EXCEPT !.todo = @ \ {v}]
     IN req' = [req EXCEPT ![r] = IF x.todo = {} /\ ~Last(x) THEN NextStatement(x) ELSE x]

Commit(r) ==
  /\ req[r].kind # "none"
  /\ req[r].todo = {}
  /\ Last(req[r])
  /\ Finish(r)

\* A guard that fails, an exception, a lost connection: at any point.
Rollback(r) == req[r].kind # "none" /\ Finish(r)

\* Mutated form of AbortDeadlock: the request is tried again from its beginning.
RetryDeadlocked(r) ==
  /\ Deadlocked(r)
  /\ req' = [req EXCEPT ![r].at = 1, ![r].todo = req[r].plan[1].rows]

\* PostgreSQL ends one of the transactions that wait for each other.
AbortDeadlock(r) == Deadlocked(r) /\ Finish(r)

-----------------------------------------------------------------------------
(* What each operation locks, statement by statement: sessions *)

\* last_accessed_at of the chosen membership; a refresh token is inserted.
Login(r) ==
  \E u \in Users : \E ms \in AtMost(1, MembershipsOf(u)) :
    Serve(r, SaveMembership(ms) \o Refer("users", {u}))

RefreshToken(r) ==
  \E t \in Issued : \E ms \in AtMost(1, MembershipsOf(Owner[t])) :
    Serve(r, Update("refresh_tokens", {t}) \o SaveMembership(ms) \o Refer("users", {Owner[t]}))

Logout(r) ==
  \E t \in Issued : Serve(r, Update("refresh_tokens", {t}))

RevokeSessions(r) ==
  \E ts \in SUBSET Issued : Serve(r, Update("refresh_tokens", ts))

Cleanup(r) ==
  \E ks, ts \in SUBSET Issued :
    Serve(r, Exclude("password_reset_tokens", ks) \o Exclude("refresh_tokens", ts))

-----------------------------------------------------------------------------
(* Links *)

RequestReset(r) ==
  \E u \in Users : Serve(r, Refer("users", {u}))

ResendInvite(r) ==
  \E u \in Users : \E ks \in SUBSET OwnedBy(u) :
    Serve(r, Update("password_reset_tokens", ks) \o Refer("users", {u}))

RequestEmail(r) ==
  \E u \in Users : \E ks \in SUBSET OwnedBy(u) :
    Serve(r, Update("email_change_tokens", ks) \o Refer("users", {u}))

\* Mutated form of ResetPassword: the password is saved before the link is claimed.
ResetAccountFirst(r) ==
  \E k \in Issued, as \in Entries :
    Serve(r, SaveAccount(Owner[k], as) \o Update("password_reset_tokens", {k}))

ResetPassword(r) ==
  \E k \in Issued, as \in Entries :
    Serve(r, Update("password_reset_tokens", {k}) \o SaveAccount(Owner[k], as))

ConfirmEmail(r) ==
  \E k \in Issued, as \in Entries :
    Serve(r, Update("email_change_tokens", {k}) \o SaveAccount(Owner[k], as))

-----------------------------------------------------------------------------
(* Accounts and memberships *)

\* Picture, tour.
Profile(r) ==
  \E u \in Users, as \in Entries : Serve(r, SaveAccount(u, as))

\* Mutated form of SelectLibrary: the selection is saved before the membership.
SelectAccountFirst(r) ==
  \E u \in Users, l \in Libraries, as \in Entries :
    Serve(r, SaveAccount(u, as) \o Refer("libraries", {l}) \o SaveMembership({<<u, l>>}))

SelectLibrary(r) ==
  \E u \in Users, l \in Libraries, as \in Entries :
    Serve(r, SaveMembership({<<u, l>>}) \o SaveAccount(u, as) \o Refer("libraries", {l}))

\* The body decides whether the membership is saved, and whether that is checked.
UpdateUser(r) ==
  \E u \in Users, l \in Libraries, as \in Entries :
    \E locked \in Checks(l), ms \in SUBSET {<<u, l>>} :
      /\ locked # {} => ms # {}
      /\ Serve(r, LockActiveAdmins(locked) \o SaveMembership(ms) \o SaveAccount(u, as))

\* PATCH and DELETE of a member.
ChangeMembership(r) ==
  \E u \in Users, l \in Libraries : \E locked \in Checks(l) :
    Serve(r, LockActiveAdmins(locked) \o SaveMembership({<<u, l>>}))

\* Accept, decline.
AnswerInvitation(r) ==
  \E u \in Users, l \in Libraries :
    Serve(r, SaveMembership({<<u, l>>}))

\* A row that is used again refers to another inviter, a new one to its user as well.
Invite(r) ==
  \E u \in Users, l \in Libraries, inviter \in Users :
    Serve(r,
      SaveMembership({<<u, l>>}) \o Refer("users", {u, inviter}) \o Refer("libraries", {l}))

-----------------------------------------------------------------------------
(* Creation and deletion *)

\* The account, its membership and its link are new; its address need not be.
CreateAccount(e, l) ==
  Update("uq_users_email_active", {e}) \o Refer("libraries", {l})

Register(r) ==
  \E e \in Addresses : Serve(r, Update("uq_users_email_active", {e}))

\* By create_user, invite_member or create_child_account.
Create(r) ==
  \E e \in Addresses, l \in Libraries, inviters \in AtMost(1, Users) :
    Serve(r, CreateAccount(e, l) \o Refer("users", inviters))

RenameLibrary(r) ==
  \E l \in Libraries : Serve(r, Update("libraries", {l}))

\* Two items, the first of which may be an admin who is deactivated again: a longer
\* list repeats the two kinds of wait.
Import(r) ==
  \E e, f \in Addresses, l \in Libraries : \E locked \in Checks(l) :
    Open(r, "import",
      CreateAccount(e, l) \o LockActiveAdmins(locked) \o Update("uq_users_email_active", {f}))

\* The rows that ON DELETE CASCADE reaches.
Cascade(us) ==
  LET owned == {i \in Issued : Owner[i] \in us}
  IN Exclude("users", us) \o Exclude("refresh_tokens", owned)
       \o Exclude("password_reset_tokens", owned)
       \o Exclude("user_library_memberships", us \X Libraries)
       \o Exclude("email_change_tokens", owned)

\* With a check of its own, over accounts.
DeleteUser(r) ==
  \E u \in Users : \E locked \in SUBSET Users :
    Open(r, "deletion", Exclude("users", locked) \o Cascade({u}))

DeleteLibrary(r) ==
  \E l \in Libraries, us \in SUBSET Users :
    Open(r, "deletion",
      Exclude("libraries", {l}) \o Cascade(us)
        \o Exclude("user_library_memberships", Users \X {l}))

-----------------------------------------------------------------------------
Init == req = [r \in Requests |-> Idle]

Start(r) ==
  \/ Login(r) \/ RefreshToken(r) \/ Logout(r) \/ RevokeSessions(r) \/ Cleanup(r)
  \/ RequestReset(r) \/ ResendInvite(r) \/ RequestEmail(r)
  \/ ResetPassword(r) \/ ConfirmEmail(r)
  \/ Profile(r) \/ SelectLibrary(r) \/ UpdateUser(r)
  \/ ChangeMembership(r) \/ AnswerInvitation(r) \/ Invite(r)
  \/ Register(r) \/ Create(r) \/ RenameLibrary(r) \/ Import(r)
  \/ DeleteUser(r) \/ DeleteLibrary(r)

Work(r) ==
  \/ \E v \in req[r].todo : LockRow(r, v)
  \/ Commit(r)

Next == \E r \in Requests : Start(r) \/ Work(r) \/ Rollback(r) \/ AbortDeadlock(r)

Spec == Init /\ [][Next]_vars

\* The event loop runs an accepted request, the waiters of a row are queued, and the
\* deadlock detector ends a request that cannot go on.
Fairness == \A r \in Requests : SF_vars(Work(r) \/ AbortDeadlock(r))

FairSpec == Spec /\ Fairness

-----------------------------------------------------------------------------
(* Properties *)

Rows == Users \cup Libraries \cup Addresses \cup Issued \cup (Users \X Libraries)

Statements == [table : Tables, rows : SUBSET Rows, mode : Modes]

Transaction ==
  [kind : {"none", "request", "import", "deletion"}, plan : Seq(Statements),
   at : Nat, todo : SUBSET Rows]

TypeOK ==
  /\ req \in [Requests -> Transaction]
  /\ \A r \in Requests :
       LET x == req[r]
       IN IF x.kind = "none" THEN x = Idle
          ELSE x.at \in 1..Len(x.plan) /\ x.todo \subseteq Now(x).rows

\* No two requests have the same row in modes that exclude each other.
OneHolder ==
  \A p, q \in Requests :
    p # q =>
      \A i \in 1..req[p].at, j \in 1..req[q].at :
        LET s == req[p].plan[i]
            t == req[q].plan[j]
        IN s.table = t.table /\ Conflict(s.mode, t.mode)
             => Got(req[p], i) \cap Got(req[q], j) = {}

\* The order that the use cases keep to, though none of them names it.
Rank(table) ==
  CASE table = "libraries" -> 1
    [] table = "email_change_tokens" -> 2
    [] table = "password_reset_tokens" -> 3
    [] table = "refresh_tokens" -> 4
    [] table = "user_library_memberships" -> 5
    [] table = "users" -> 6
    [] table = "uq_users_email_active" -> 7

\* A foreign key is checked at any point, but the rows it refers to are deleted by
\* nobody who is in order.
Exempt(s) == s.mode = "key_share"

InOrder(plan) ==
  \A j \in 1..Len(plan) :
    IF Exempt(plan[j]) THEN plan[j].table \in {"users", "libraries"}
    ELSE /\ plan[j].table \in {"users", "libraries"} => plan[j].mode = "no_key_update"
         /\ \A i \in 1..(j - 1) :
              Exempt(plan[i]) \/ Rank(plan[i].table) <= Rank(plan[j].table)

\* What keeps the waits in order: every request locks its tables in one order,
\* whichever use case it runs, and no two hold a row against each other.
LocksInv ==
  /\ TypeOK
  /\ OneHolder
  /\ \A r \in Requests : req[r].kind = "request" => InOrder(req[r].plan)

\* x locks, in the course of its plan, more than one row of the table.
Many(x, table) ==
  \E i, j \in 1..Len(x.plan) :
    /\ x.plan[i].table = table /\ x.plan[j].table = table
    /\ \E v \in x.plan[i].rows, w \in x.plan[j].rows : v # w

\* No two statements of the use cases lock in opposite order. A circle of waits has
\* a deletion or an import in it, or two requests that each lock several rows of
\* one and the same table: bulk statements, last-admin checks, changes of address.
\* Requests that lock one row of each table never deadlock, however many there are.
DeadlocksNeedMany ==
  \A S \in SUBSET Requests :
    S # {} /\ Circle(S) =>
      \/ \E p \in S : req[p].kind \in {"deletion", "import"}
      \/ \E p, q \in S : \E table \in Tables :
           p # q /\ Many(req[p], table) /\ Many(req[q], table)

\* Every request ends, although bulk statements, checks and deletions may lock the
\* same rows in different orders.
RequestsFinish == \A r \in Requests : req[r].kind # "none" ~> req[r].kind = "none"
=============================================================================
