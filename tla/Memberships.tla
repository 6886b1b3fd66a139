---------------------------- MODULE Memberships ----------------------------
(***************************************************************************)
(* The memberships of one library under concurrent requests: who may do    *)
(* what in it, and whether anybody is left to administer it.               *)
(*                                                                         *)
(* A request reads a membership without a lock, edits its copy, and saves  *)
(* the copy with session.merge: merge reads the row again, flush updates   *)
(* the columns in which the copy differs from that second reading, commit  *)
(* publishes them. What others committed between the first reading and the *)
(* flush is therefore overwritten, kept, or mixed column by column. Only a *)
(* request that takes an active admin away first locks the active rows.    *)
(* The rows of other tables that a request locks before and after its      *)
(* membership are in Locks.                                                *)
(***************************************************************************)
EXTENDS Integers, FiniteSets

CONSTANTS
  Requests,      \* transactions that can be open at the same time
  Users,         \* accounts that exist; the library's founder among them
  Founder,
  Roles,         \* roles an invitation may grant
  Edits,         \* bodies of PATCH .../members/{user_id}
  Ops,           \* operations of the instance
  MaxRollbacks,  \* bound on transactions lost to errors, crashes, disconnects
  None

AllRoles == {"admin", "editor", "viewer", "child"}
AllOps == {"touch", "invite", "accept", "decline", "update", "remove"}
AllEdits == [role : AllRoles \cup {None}, status : {"active", "suspended", None}]

ASSUME MembershipsAssumption ==
  /\ Founder \in Users
  /\ None \notin Users
  /\ None \notin AllRoles \cup {"active", "suspended"}
  /\ Roles \subseteq AllRoles
  /\ Edits \subseteq AllEdits
  /\ Ops \subseteq AllOps
  /\ MaxRollbacks \in Nat

VARIABLES
  row,           \* committed membership of each user
  req,           \* the open transaction of each request slot
  rollbacks

vars == <<row, req, rollbacks>>

Statuses == {"absent", "invited", "active", "suspended", "revoked"}
Membership == [role : AllRoles, status : Statuses]
Absent == [role |-> "viewer", status |-> "absent"]

Steps == {"idle", "lock", "locking", "save", "merged", "flushed"}

\* base: the row as it was first read; ent: the edited copy; diff: the columns
\* the UPDATE sets; todo: rows that lock_active_admins selected and has not
\* locked yet; locked: rows this transaction holds.
Transaction ==
  [op : AllOps \cup {"none"}, pc : Steps, user : Users \cup {None},
   base : Membership, ent : Membership, diff : SUBSET {"role", "status"},
   todo : SUBSET Users, locked : SUBSET Users]

Idle ==
  [op |-> "none", pc |-> "idle", user |-> None, base |-> Absent, ent |-> Absent,
   diff |-> {}, todo |-> {}, locked |-> {}]

TypeOK ==
  /\ row \in [Users -> Membership]
  /\ req \in [Requests -> Transaction]
  /\ rollbacks \in Nat

ActiveAdmin(m) == m.role = "admin" /\ m.status = "active"

HasActiveAdmin == \E u \in Users : ActiveAdmin(row[u])

Registered == [role |-> "admin", status |-> "active"]

\* The founder registered the library; others have no row yet or are members.
Init ==
  /\ row \in [Users -> {Absent, Registered} \cup [role : Roles, status : {"active"}]]
  /\ row[Founder] = Registered
  /\ req = [r \in Requests |-> Idle]
  /\ rollbacks = 0

-----------------------------------------------------------------------------
(* Rows and locks *)

\* Mutated form of LockedByOther: SELECT without FOR UPDATE, writers do not wait.
NoRowLock(r, u) == FALSE

LockedByOther(r, u) == \E q \in Requests \ {r} : u \in req[q].locked

WaitsFor(r, q) ==
  /\ q # r
  /\ \/ req[r].pc = "locking" /\ req[r].todo \cap req[q].locked # {}
     \/ req[r].pc = "merged" /\ req[r].user \in req[q].locked

Circle(S) == \A p \in S : \E q \in S : WaitsFor(p, q)

Deadlocked(r) == \E S \in SUBSET Requests : r \in S /\ Circle(S)

Finish(r) == req' = [req EXCEPT ![r] = Idle]

-----------------------------------------------------------------------------
(* The operations up to their first save: reading, guards, edited copy *)

\* Mutated form of DropsAdmin: only demotions are checked.
DemotesAdmin(base, ent) == ActiveAdmin(base) /\ ent.role # "admin"

\* Exactly the demotions, suspensions and removals of an active admin.
DropsAdmin(base, ent) == ActiveAdmin(base) /\ ~ActiveAdmin(ent)

Open(r, op, u, ent) ==
  /\ op \in Ops
  /\ req[r].pc = "idle"
  /\ req' = [req EXCEPT ![r] =
       [Idle EXCEPT !.op = op, !.user = u, !.base = row[u], !.ent = ent,
                    !.pc = IF op \in {"update", "remove"} /\ DropsAdmin(row[u], ent)
                           THEN "lock" ELSE "save"]]
  /\ UNCHANGED <<row, rollbacks>>

\* Login, refresh and select save last_accessed_at of an active membership. (That a
\* refresh has claimed its token by then, and all three go on to the account, is in
\* Locks.)
StartTouch(r, u) ==
  /\ row[u].status = "active"
  /\ Open(r, "touch", u, row[u])

\* An account that exists: a revoked row is used again, else a row is inserted.
StartInvite(r, u, role) ==
  /\ row[u].status \in {"absent", "revoked"}
  /\ Open(r, "invite", u, [role |-> role, status |-> "invited"])

StartAccept(r, u) ==
  /\ row[u].status = "invited"
  /\ Open(r, "accept", u, [row[u] EXCEPT !.status = "active"])

StartDecline(r, u) ==
  /\ row[u].status = "invited"
  /\ Open(r, "decline", u, [row[u] EXCEPT !.status = "revoked"])

Given(new, old) == IF new = None THEN old ELSE new

StartUpdate(r, u, edit) ==
  /\ row[u].status \notin {"absent", "revoked"}
  /\ edit.role = "child" => row[u].role = "child"
  /\ Open(r, "update", u, [role |-> Given(edit.role, row[u].role),
                           status |-> Given(edit.status, row[u].status)])

StartRemove(r, u) ==
  /\ row[u].status \notin {"absent", "revoked"}
  /\ Open(r, "remove", u, [row[u] EXCEPT !.status = "revoked"])

-----------------------------------------------------------------------------
(* lock_active_admins and the check that another admin stays *)

\* SELECT ... FOR UPDATE selects from what is committed when it begins.
BeginLock(r) ==
  /\ req[r].pc = "lock"
  /\ req' = [req EXCEPT ![r].pc = "locking",
                        ![r].todo = {u \in Users : row[u].status = "active"}]
  /\ UNCHANGED <<row, rollbacks>>

\* A row that stopped matching while it was waited for is locked all the same.
LockRow(r, u) ==
  /\ req[r].pc = "locking"
  /\ u \in req[r].todo
  /\ ~LockedByOther(r, u)
  /\ req' = [req EXCEPT ![r].todo = @ \ {u}, ![r].locked = @ \cup {u}]
  /\ UNCHANGED <<row, rollbacks>>

\* Mutated form of OtherAdminLocked: the target counts as its own replacement.
AnyAdminLocked(x) == \E u \in x.locked : ActiveAdmin(row[u])

\* The rows returned are those that match after the wait.
OtherAdminLocked(x) == \E u \in x.locked : u # x.user /\ ActiveAdmin(row[u])

CheckAdmin(r) ==
  /\ req[r].pc = "locking"
  /\ req[r].todo = {}
  /\ \/ /\ OtherAdminLocked(req[r])
        /\ req' = [req EXCEPT ![r].pc = "save"]
     \/ /\ ~OtherAdminLocked(req[r])      \* LastAdminError
        /\ Finish(r)
  /\ UNCHANGED <<row, rollbacks>>

-----------------------------------------------------------------------------
(* save: merge, flush, commit *)

Inserts(x) == x.base.status = "absent"

\* merge reads the row again and marks the columns that differ from the copy.
Merge(r) ==
  /\ req[r].pc = "save"
  /\ LET x == req[r]
     IN req' = [req EXCEPT ![r].pc = "merged",
                           ![r].diff = {c \in {"role", "status"} :
                                          Inserts(x) \/ x.ent[c] # row[x.user][c]}]
  /\ UNCHANGED <<row, rollbacks>>

\* UPDATE or INSERT takes the row, and keeps it to the commit; a unique violation ends the request. Without
\* a column to set there may be no UPDATE (update is the only operation that
\* does not always set a timestamp).
Flush(r) ==
  /\ req[r].pc = "merged"
  /\ \/ /\ ~LockedByOther(r, req[r].user)
        /\ Inserts(req[r]) => row[req[r].user].status = "absent"
        /\ req' = [req EXCEPT ![r].pc = "flushed", ![r].locked = @ \cup {req[r].user}]
     \/ /\ ~LockedByOther(r, req[r].user)
        /\ Inserts(req[r]) /\ row[req[r].user].status # "absent"
        /\ Finish(r)
     \/ /\ req[r].op = "update" /\ req[r].diff = {}
        /\ req' = [req EXCEPT ![r].pc = "flushed"]
  /\ UNCHANGED <<row, rollbacks>>

Overlay(m, x) ==
  [role |-> IF "role" \in x.diff THEN x.ent.role ELSE m.role,
   status |-> IF "status" \in x.diff THEN x.ent.status ELSE m.status]

Commit(r) ==
  /\ req[r].pc = "flushed"
  /\ row' = [row EXCEPT ![req[r].user] = Overlay(@, req[r])]
  /\ Finish(r)
  /\ UNCHANGED rollbacks

-----------------------------------------------------------------------------
(* Failures; the specification *)

\* An exception after some of the steps (the invitation's e-mail cannot be sent,
\* say), a lost connection, a killed process.
Rollback(r) ==
  /\ req[r].pc # "idle"
  /\ rollbacks < MaxRollbacks
  /\ rollbacks' = rollbacks + 1
  /\ Finish(r)
  /\ UNCHANGED row

\* PostgreSQL ends one of the transactions that wait for each other.
AbortDeadlock(r) ==
  /\ Deadlocked(r)
  /\ Finish(r)
  /\ UNCHANGED <<row, rollbacks>>

Start(r, u) ==
  \/ StartTouch(r, u)
  \/ \E role \in Roles : StartInvite(r, u, role)
  \/ StartAccept(r, u)
  \/ StartDecline(r, u)
  \/ \E edit \in Edits : StartUpdate(r, u, edit)
  \/ StartRemove(r, u)

Work(r) ==
  \/ BeginLock(r)
  \/ \E u \in Users : LockRow(r, u)
  \/ CheckAdmin(r)
  \/ Merge(r)
  \/ Flush(r)
  \/ Commit(r)

Next ==
  \E r \in Requests :
    \/ \E u \in Users : Start(r, u)
    \/ Work(r)
    \/ Rollback(r)
    \/ AbortDeadlock(r)

Spec == Init /\ [][Next]_vars

-----------------------------------------------------------------------------
(* Properties *)

\* A demotion, suspension or removal that went through the check leaves another
\* active admin in the library, whatever others committed since the check, and
\* whichever rows they read before it (lock_active_admins).
CheckedCommitLeavesAdmin ==
  [][\A r \in Requests :
       Commit(r) /\ DropsAdmin(req[r].base, req[r].ent) => HasActiveAdmin']_vars

\* The last active admin is only ever lost to a lost update: a request whose row
\* is at its commit as the request read it leaves an active admin.
FreshCommitKeepsAdmin ==
  [][\A r \in Requests :
       /\ Commit(r)
       /\ req[r].base = row[req[r].user]
       /\ HasActiveAdmin
       => HasActiveAdmin']_vars

\* What an open transaction holds: past the check it has another active admin
\* locked; past the flush it has the row it writes locked.
Holds(x) ==
  /\ x.pc = "idle" => x = Idle
  /\ x.pc # "idle" => x.user \in Users
  /\ x.pc \in {"save", "merged", "flushed"} /\ DropsAdmin(x.base, x.ent) =>
       OtherAdminLocked(x)
  /\ x.pc = "flushed" => x.diff = {} \/ x.user \in x.locked

OneWriter ==
  \A r, q \in Requests : r # q => req[r].locked \cap req[q].locked = {}

\* The inductive invariant of the check: the other admin that it found stays one
\* until the commit, because every writer of the row must wait for its lock.
AdminLockInv ==
  /\ TypeOK
  /\ \A r \in Requests : Holds(req[r])
  /\ OneWriter

\* The library has an active admin. Not an invariant of the code (a stale save may
\* write a role over a promotion that others counted on); LossesLeaveAdmin says under
\* which operations it is one.
AdminRemains == HasActiveAdmin

\* A removal or a refusal is final until the library invites the user again.
RevokedIsFinal ==
  [][\A u \in Users :
       row[u].status = "revoked" => row'[u].status \in {"revoked", "invited"}]_vars
=============================================================================
