-------------------------- MODULE MembershipsProofs --------------------------
(* Theorems of Memberships, for every number of users and open requests. *)
EXTENDS Memberships, TLAPS

USE MembershipsAssumption DEF MembershipsAssumption

\* The fields of an open transaction.
LEMMA Fields ==
  ASSUME NEW x \in Transaction
  PROVE  /\ x.op \in AllOps \cup {"none"} /\ x.pc \in Steps /\ x.user \in Users \cup {None}
         /\ x.base \in Membership /\ x.ent \in Membership
         /\ x.diff \in SUBSET {"role", "status"}
         /\ x.todo \in SUBSET Users /\ x.locked \in SUBSET Users
BY DEF Transaction

\* The empty slot, and what the steps make of an open transaction, are
\* transactions.
LEMMA IdleTransaction == Idle \in Transaction
BY DEF Idle, Transaction, Steps, Membership, Statuses, Absent, AllOps, AllRoles

LEMMA OpenTransaction ==
  ASSUME NEW op \in AllOps, NEW p \in Steps, NEW u \in Users,
         NEW b \in Membership, NEW e \in Membership
  PROVE  [Idle EXCEPT !.op = op, !.user = u, !.base = b, !.ent = e, !.pc = p] \in Transaction
BY IdleTransaction DEF Transaction

LEMMA MoveTransaction ==
  ASSUME NEW x \in Transaction, NEW p \in Steps, NEW S \in SUBSET Users,
         NEW L \in SUBSET Users, NEW D \in SUBSET {"role", "status"}
  PROVE  /\ [x EXCEPT !.pc = p] \in Transaction
         /\ [x EXCEPT !.pc = p, !.todo = S] \in Transaction
         /\ [x EXCEPT !.pc = p, !.locked = L] \in Transaction
         /\ [x EXCEPT !.pc = p, !.diff = D] \in Transaction
BY DEF Transaction

LEMMA LockTransaction ==
  ASSUME NEW x \in Transaction, NEW S \in SUBSET Users, NEW L \in SUBSET Users
  PROVE  [x EXCEPT !.todo = S, !.locked = L] \in Transaction
BY DEF Transaction

\* A step that replaces one slot and writes no row keeps the invariant when the
\* new transaction fits the rows and the locks of the others.
LEMMA SlotStep ==
  ASSUME AdminLockInv, NEW r \in Requests, NEW x \in Transaction,
         req' = [req EXCEPT ![r] = x], row' = row, rollbacks' \in Nat,
         Holds(x),
         \A q \in Requests \ {r} : x.locked \cap req[q].locked = {}
  PROVE  AdminLockInv'
<1>1. TypeOK'
  BY DEF AdminLockInv, TypeOK
<1>2. \A q \in Requests : req'[q] = IF q = r THEN x ELSE req[q]
  BY DEF AdminLockInv, TypeOK
<1>3. ASSUME NEW q \in Requests PROVE Holds(req[q])'
  <2>1. Holds(req'[q])
    BY <1>2 DEF AdminLockInv
  <2> QED BY <2>1 DEF Holds, OtherAdminLocked
<1>4. OneWriter'
  BY <1>2 DEF AdminLockInv, OneWriter
<1> QED BY <1>1, <1>3, <1>4 DEF AdminLockInv

\* The initial state satisfies the inductive invariant.
LEMMA InitAdminLock == Init => AdminLockInv
<1> SUFFICES ASSUME Init PROVE AdminLockInv
  OBVIOUS
<1>1. TypeOK
  <2>1. Absent \in Membership /\ Registered \in Membership
    BY DEF Absent, Registered, Membership, Statuses, AllRoles
  <2>2. [role : Roles, status : {"active"}] \subseteq Membership
    BY DEF Membership, Statuses
  <2>3. row \in [Users -> Membership]
    BY <2>1, <2>2 DEF Init
  <2> QED BY <2>3, IdleTransaction DEF Init, TypeOK
<1>2. \A r \in Requests : Holds(req[r])
  BY DEF Init, Holds, Idle
<1>3. OneWriter
  BY DEF Init, OneWriter, Idle
<1> QED BY <1>1, <1>2, <1>3 DEF AdminLockInv

\* A request that ends gives its locks back.
LEMMA FinishStep ==
  ASSUME AdminLockInv, NEW r \in Requests, Finish(r), row' = row, rollbacks' \in Nat
  PROVE  AdminLockInv'
<1>1. Holds(Idle) /\ Idle.locked = {}
  BY DEF Holds, Idle
<1> QED BY <1>1, IdleTransaction, SlotStep DEF Finish

\* A request that starts holds nothing; one that takes an active admin away does
\* not pass the check by starting.
LEMMA OpenStep ==
  ASSUME AdminLockInv, NEW r \in Requests, NEW op, NEW u \in Users, NEW e \in Membership,
         Open(r, op, u, e),
         DropsAdmin(row[u], e) => op \in {"update", "remove"}
  PROVE  AdminLockInv'
<1> DEFINE p == IF op \in {"update", "remove"} /\ DropsAdmin(row[u], e) THEN "lock" ELSE "save"
           x == [Idle EXCEPT !.op = op, !.user = u, !.base = row[u], !.ent = e, !.pc = p]
<1>1. op \in AllOps /\ p \in Steps /\ row[u] \in Membership
  BY DEF Open, Steps, AdminLockInv, TypeOK
<1>2. x \in Transaction
  BY <1>1, OpenTransaction
<1>3. req' = [req EXCEPT ![r] = x] /\ row' = row /\ rollbacks' = rollbacks
  BY DEF Open
<1>4. x.user = u /\ x.base = row[u] /\ x.ent = e /\ x.pc = p /\ x.locked = {}
  BY <1>1 DEF Idle
<1>5. Holds(x)
  BY <1>4 DEF Holds
<1>6. rollbacks' \in Nat
  BY <1>3 DEF AdminLockInv, TypeOK
<1> HIDE DEF x
<1> QED BY <1>2, <1>3, <1>4, <1>5, <1>6, SlotStep

LEMMA StartStep ==
  ASSUME AdminLockInv, NEW r \in Requests, NEW u \in Users, Start(r, u)
  PROVE  AdminLockInv'
<1>0. row[u] \in Membership
  BY DEF AdminLockInv, TypeOK
<1>1. CASE StartTouch(r, u)
  BY <1>0, <1>1, OpenStep DEF StartTouch, DropsAdmin
<1>2. CASE \E role \in Roles : StartInvite(r, u, role)
  <2>1. PICK role \in Roles : StartInvite(r, u, role)
    BY <1>2
  <2>2. [role |-> role, status |-> "invited"] \in Membership
    BY DEF Membership, Statuses
  <2>3. ~ActiveAdmin(row[u])
    BY <2>1 DEF StartInvite, ActiveAdmin
  <2> QED BY <2>1, <2>2, <2>3, OpenStep DEF StartInvite, DropsAdmin
<1>3. CASE StartAccept(r, u)
  <2>1. [row[u] EXCEPT !.status = "active"] \in Membership
    BY <1>0 DEF Membership, Statuses
  <2>2. ~ActiveAdmin(row[u])
    BY <1>3 DEF StartAccept, ActiveAdmin
  <2> QED BY <1>3, <2>1, <2>2, OpenStep DEF StartAccept, DropsAdmin
<1>4. CASE StartDecline(r, u)
  <2>1. [row[u] EXCEPT !.status = "revoked"] \in Membership
    BY <1>0 DEF Membership, Statuses
  <2>2. ~ActiveAdmin(row[u])
    BY <1>4 DEF StartDecline, ActiveAdmin
  <2> QED BY <1>4, <2>1, <2>2, OpenStep DEF StartDecline, DropsAdmin
<1>5. CASE \E edit \in Edits : StartUpdate(r, u, edit)
  <2>1. PICK edit \in Edits : StartUpdate(r, u, edit)
    BY <1>5
  <2>2. edit.role \in AllRoles \cup {None} /\ edit.status \in {"active", "suspended", None}
    BY DEF AllEdits
  <2>3. [role |-> Given(edit.role, row[u].role),
         status |-> Given(edit.status, row[u].status)] \in Membership
    BY <1>0, <2>2 DEF Membership, Statuses, Given
  <2> QED BY <2>1, <2>3, OpenStep DEF StartUpdate
<1>6. CASE StartRemove(r, u)
  <2>1. [row[u] EXCEPT !.status = "revoked"] \in Membership
    BY <1>0 DEF Membership, Statuses
  <2> QED BY <1>6, <2>1, OpenStep DEF StartRemove
<1> QED BY <1>1, <1>2, <1>3, <1>4, <1>5, <1>6 DEF Start

\* Taking the locks one by one, waiting for each, keeps them exclusive; the
\* check establishes that another active admin is among them.
LEMMA LockStep ==
  ASSUME AdminLockInv, NEW r \in Requests,
         BeginLock(r) \/ (\E u \in Users : LockRow(r, u)) \/ CheckAdmin(r)
  PROVE  AdminLockInv'
<1>0. /\ req[r] \in Transaction /\ Holds(req[r]) /\ rollbacks \in Nat
      /\ \A q \in Requests \ {r} : req[r].locked \cap req[q].locked = {}
  BY DEF AdminLockInv, TypeOK, OneWriter
<1>1. CASE BeginLock(r)
  <2> DEFINE S == {u \in Users : row[u].status = "active"}
             x == [req[r] EXCEPT !.pc = "locking", !.todo = S]
  <2>1. x \in Transaction
    BY <1>0, MoveTransaction DEF Steps
  <2>2. req' = [req EXCEPT ![r] = x] /\ row' = row /\ rollbacks' = rollbacks
    BY <1>1 DEF BeginLock, AdminLockInv, TypeOK
  <2>3. x.pc = "locking" /\ x.user = req[r].user /\ x.locked = req[r].locked
    BY <1>0 DEF Transaction
  <2>4. Holds(x)
    BY <1>0, <1>1, <2>3 DEF BeginLock, Holds
  <2> HIDE DEF x
  <2> QED BY <1>0, <2>1, <2>2, <2>3, <2>4, SlotStep
<1>2. CASE \E u \in Users : LockRow(r, u)
  <2>1. PICK u \in Users : LockRow(r, u)
    BY <1>2
  <2> DEFINE x == [req[r] EXCEPT !.todo = @ \ {u}, !.locked = @ \cup {u}]
  <2>2. x \in Transaction
    <3>1. req[r].todo \ {u} \in SUBSET Users /\ req[r].locked \cup {u} \in SUBSET Users
      BY <1>0, Fields
    <3> QED BY <1>0, <3>1, LockTransaction
  <2>3. req' = [req EXCEPT ![r] = x] /\ row' = row /\ rollbacks' = rollbacks
    BY <2>1 DEF LockRow, AdminLockInv, TypeOK
  <2>4. x.pc = "locking" /\ x.user = req[r].user /\ x.locked = req[r].locked \cup {u}
    BY <1>0, <2>1 DEF Transaction, LockRow
  <2>5. Holds(x)
    BY <1>0, <2>1, <2>4 DEF LockRow, Holds
  <2>6. \A q \in Requests \ {r} : x.locked \cap req[q].locked = {}
    BY <1>0, <2>1, <2>4 DEF LockRow, LockedByOther
  <2> HIDE DEF x
  <2> QED BY <1>0, <2>2, <2>3, <2>5, <2>6, SlotStep
<1>3. CASE CheckAdmin(r)
  <2>1. CASE ~OtherAdminLocked(req[r])
    BY <1>0, <1>3, <2>1, FinishStep DEF CheckAdmin
  <2>2. CASE OtherAdminLocked(req[r])
    <3> DEFINE x == [req[r] EXCEPT !.pc = "save"]
    <3>1. x \in Transaction
      BY <1>0, MoveTransaction DEF Steps
    <3>2. req' = [req EXCEPT ![r] = x] /\ row' = row /\ rollbacks' = rollbacks
      BY <1>3, <2>2 DEF CheckAdmin, AdminLockInv, TypeOK
    <3>3. x.pc = "save" /\ x.user = req[r].user /\ x.locked = req[r].locked
      BY <1>0 DEF Transaction
    <3>4. Holds(x)
      BY <1>0, <1>3, <2>2, <3>3 DEF CheckAdmin, Holds, OtherAdminLocked
    <3> HIDE DEF x
    <3> QED BY <1>0, <3>1, <3>2, <3>3, <3>4, SlotStep
  <2> QED BY <2>1, <2>2
<1> QED BY <1>1, <1>2, <1>3

\* Reading the row again changes nothing; the flush waits for the row.
LEMMA SaveStep ==
  ASSUME AdminLockInv, NEW r \in Requests, Merge(r) \/ Flush(r)
  PROVE  AdminLockInv'
<1>0. /\ req[r] \in Transaction /\ Holds(req[r]) /\ rollbacks \in Nat
      /\ \A q \in Requests \ {r} : req[r].locked \cap req[q].locked = {}
  BY DEF AdminLockInv, TypeOK, OneWriter
<1>1. CASE Merge(r)
  <2>1. PICK D \in SUBSET {"role", "status"} :
          req' = [req EXCEPT ![r] = [req[r] EXCEPT !.pc = "merged", !.diff = D]]
    BY <1>1 DEF Merge, AdminLockInv, TypeOK
  <2> DEFINE x == [req[r] EXCEPT !.pc = "merged", !.diff = D]
  <2>2. x \in Transaction
    BY <1>0, MoveTransaction DEF Steps
  <2>3. /\ x.pc = "merged" /\ x.user = req[r].user /\ x.locked = req[r].locked
        /\ x.base = req[r].base /\ x.ent = req[r].ent
    BY <1>0 DEF Transaction
  <2>4. Holds(x)
    BY <1>0, <1>1, <2>3 DEF Merge, Holds, OtherAdminLocked
  <2>5. row' = row /\ rollbacks' = rollbacks
    BY <1>1 DEF Merge
  <2> HIDE DEF x
  <2> QED BY <1>0, <2>1, <2>2, <2>3, <2>4, <2>5, SlotStep DEF x
<1>2. CASE Flush(r)
  <2>1. CASE Finish(r)
    BY <1>0, <1>2, <2>1, FinishStep DEF Flush
  <2>2. CASE ~Finish(r)
    <3>1. req[r].user \in Users /\ req[r].pc = "merged"
      BY <1>0, <1>2 DEF Flush, Holds
    <3>2. PICK L \in SUBSET Users :
            /\ req' = [req EXCEPT ![r] = [req[r] EXCEPT !.pc = "flushed", !.locked = L]]
            /\ \/ L = req[r].locked \cup {req[r].user} /\ ~LockedByOther(r, req[r].user)
               \/ L = req[r].locked /\ req[r].diff = {}
      <4>1. req[r].locked \in SUBSET Users
        BY <1>0, Fields
      <4>2. [req[r] EXCEPT !.pc = "flushed", !.locked = req[r].locked]
              = [req[r] EXCEPT !.pc = "flushed"]
        BY <1>0 DEF Transaction
      <4>3. req \in [Requests -> Transaction]
        BY DEF AdminLockInv, TypeOK
      <4> QED BY <1>2, <2>2, <3>1, <4>1, <4>2, <4>3 DEF Flush
    <3> DEFINE x == [req[r] EXCEPT !.pc = "flushed", !.locked = L]
    <3>3. x \in Transaction
      BY <1>0, MoveTransaction DEF Steps
    <3>4. /\ x.pc = "flushed" /\ x.user = req[r].user /\ x.locked = L
          /\ x.base = req[r].base /\ x.ent = req[r].ent /\ x.diff = req[r].diff
      BY <1>0 DEF Transaction
    <3>5. Holds(x)
      BY <1>0, <3>1, <3>2, <3>4 DEF Holds, OtherAdminLocked
    <3>6. \A q \in Requests \ {r} : x.locked \cap req[q].locked = {}
      BY <1>0, <3>2, <3>4 DEF LockedByOther
    <3>7. row' = row /\ rollbacks' = rollbacks
      BY <1>2 DEF Flush
    <3> HIDE DEF x
    <3> QED BY <1>0, <3>2, <3>3, <3>5, <3>6, <3>7, SlotStep DEF x
  <2> QED BY <2>1, <2>2
<1> QED BY <1>1, <1>2

\* A commit writes the row of its user alone, and no row at all unless it holds
\* that row's lock.
LEMMA CommitWrites ==
  ASSUME AdminLockInv, NEW r \in Requests, Commit(r)
  PROVE  /\ req[r].user \in Users
         /\ row' = [row EXCEPT ![req[r].user] = Overlay(row[req[r].user], req[r])]
         /\ Overlay(row[req[r].user], req[r]) \in Membership
         /\ \A u \in Users : u \notin req[r].locked => row'[u] = row[u]
<1>1. /\ req[r] \in Transaction /\ Holds(req[r]) /\ row \in [Users -> Membership]
      /\ req[r].pc = "flushed"
  BY DEF AdminLockInv, TypeOK, Commit
<1>2. req[r].user \in Users
  BY <1>1 DEF Holds
<1>3. row' = [row EXCEPT ![req[r].user] = Overlay(row[req[r].user], req[r])]
  BY DEF Commit
<1>4. row[req[r].user] \in Membership /\ req[r].ent \in Membership
  BY <1>1, <1>2, Fields
<1>5. Overlay(row[req[r].user], req[r]) \in Membership
  BY <1>4 DEF Overlay, Membership
<1>6. req[r].diff = {} => Overlay(row[req[r].user], req[r]) = row[req[r].user]
  BY <1>4 DEF Overlay, Membership
<1>7. req[r].diff = {} \/ req[r].user \in req[r].locked
  BY <1>1 DEF Holds
<1> QED BY <1>1, <1>2, <1>3, <1>5, <1>6, <1>7

\* The other active admin that a request found is not written by anyone else.
LEMMA CommitStep ==
  ASSUME AdminLockInv, NEW r \in Requests, Commit(r)
  PROVE  AdminLockInv'
<1>1. /\ req \in [Requests -> Transaction] /\ row \in [Users -> Membership]
      /\ rollbacks \in Nat
  BY DEF AdminLockInv, TypeOK
<1>2. \A q \in Requests : req'[q] = IF q = r THEN Idle ELSE req[q]
  BY <1>1 DEF Commit, Finish
<1>3. TypeOK'
  <2>1. req' \in [Requests -> Transaction] /\ rollbacks' \in Nat
    BY <1>1, IdleTransaction DEF Commit, Finish
  <2>2. row' \in [Users -> Membership]
    BY <1>1, CommitWrites
  <2> QED BY <2>1, <2>2 DEF TypeOK
<1>4. OneWriter'
  BY <1>2 DEF AdminLockInv, OneWriter, Idle
<1>5. ASSUME NEW q \in Requests PROVE Holds(req[q])'
  <2>1. CASE q = r
    <3>1. req'[q] = Idle
      BY <1>2, <2>1
    <3>2. Idle.pc = "idle"
      BY DEF Idle
    <3> QED BY <3>1, <3>2 DEF Holds
  <2>2. CASE q # r
    <3>1. req'[q] = req[q] /\ Holds(req[q]) /\ req[q].locked \cap req[r].locked = {}
      BY <1>2, <2>2 DEF AdminLockInv, OneWriter
    <3>2. req[q].locked \in SUBSET Users
      BY <1>1, Fields
    <3>3. OtherAdminLocked(req[q]) => OtherAdminLocked(req[q])'
      BY <3>1, <3>2, CommitWrites DEF OtherAdminLocked
    <3> QED BY <3>1, <3>3 DEF Holds
  <2> QED BY <2>1, <2>2
<1> QED BY <1>3, <1>4, <1>5 DEF AdminLockInv

\* Every step keeps the inductive invariant.
LEMMA AdminLockStep == AdminLockInv /\ [Next]_vars => AdminLockInv'
<1> SUFFICES ASSUME AdminLockInv, [Next]_vars PROVE AdminLockInv'
  OBVIOUS
<1>0. rollbacks \in Nat
  BY DEF AdminLockInv, TypeOK
<1>1. ASSUME NEW r \in Requests, NEW u \in Users, Start(r, u) PROVE AdminLockInv'
  BY <1>1, StartStep
<1>2. ASSUME NEW r \in Requests, Work(r) PROVE AdminLockInv'
  BY <1>2, LockStep, SaveStep, CommitStep DEF Work
<1>3. ASSUME NEW r \in Requests, Rollback(r) PROVE AdminLockInv'
  BY <1>0, <1>3, FinishStep DEF Rollback
<1>4. ASSUME NEW r \in Requests, AbortDeadlock(r) PROVE AdminLockInv'
  BY <1>0, <1>4, FinishStep DEF AbortDeadlock
<1>5. CASE UNCHANGED vars
  BY <1>5 DEF vars, AdminLockInv, TypeOK, Holds, OtherAdminLocked, OneWriter
<1> QED BY <1>1, <1>2, <1>3, <1>4, <1>5 DEF Next

\* Under any interleaving, the admin that lets another one go stays locked, and
\* active, until that request commits.
THEOREM AdminLocked == Spec => []AdminLockInv
BY InitAdminLock, AdminLockStep, PTL DEF Spec

\* The admin that the check found is untouched by the commit.
LEMMA CheckedCommitStep ==
  ASSUME AdminLockInv, NEW r \in Requests, Commit(r),
         DropsAdmin(req[r].base, req[r].ent)
  PROVE  HasActiveAdmin'
<1>1. /\ Holds(req[r]) /\ req[r].pc = "flushed" /\ req[r].locked \in SUBSET Users
      /\ row \in [Users -> Membership]
  BY Fields DEF AdminLockInv, TypeOK, Commit
<1>2. PICK u \in Users : u # req[r].user /\ ActiveAdmin(row[u])
  BY <1>1 DEF Holds, OtherAdminLocked
<1>3. row'[u] = row[u]
  BY <1>1, <1>2, CommitWrites
<1> QED BY <1>2, <1>3 DEF HasActiveAdmin

\* A checked demotion, suspension or removal leaves another active admin.
THEOREM CheckedCommit == Spec => CheckedCommitLeavesAdmin
<1>1. AdminLockInv /\ [Next]_vars =>
        [\A r \in Requests :
           Commit(r) /\ DropsAdmin(req[r].base, req[r].ent) => HasActiveAdmin']_vars
  BY CheckedCommitStep
<1> QED BY <1>1, AdminLocked, PTL DEF Spec, CheckedCommitLeavesAdmin

\* The last active admin is lost only to a lost update.
THEOREM FreshCommit == Spec => FreshCommitKeepsAdmin
<1>1. ASSUME AdminLockInv, NEW r \in Requests, Commit(r),
             req[r].base = row[req[r].user], HasActiveAdmin
      PROVE  HasActiveAdmin'
  <2> DEFINE u == req[r].user
  <2>1. /\ Holds(req[r]) /\ req[r].pc = "flushed" /\ req[r].locked \in SUBSET Users
        /\ row \in [Users -> Membership] /\ req[r].ent \in Membership
    BY <1>1, Fields DEF AdminLockInv, TypeOK, Commit
  <2>2. PICK w \in Users : ActiveAdmin(row[w])
    BY <1>1 DEF HasActiveAdmin
  <2>3. /\ u \in Users /\ row'[u] = Overlay(row[u], req[r])
        /\ \A v \in Users : v # u => row'[v] = row[v]
    BY <1>1, <2>1, CommitWrites
  <2>4. CASE w # u
    BY <2>2, <2>3, <2>4 DEF HasActiveAdmin
  <2>5. CASE w = u /\ ActiveAdmin(req[r].ent)
    BY <2>2, <2>3, <2>5 DEF HasActiveAdmin, ActiveAdmin, Overlay
  <2>6. CASE w = u /\ ~ActiveAdmin(req[r].ent)
    <3>1. PICK v \in Users : v # u /\ ActiveAdmin(row[v])
      BY <1>1, <2>1, <2>2, <2>6 DEF Holds, OtherAdminLocked, DropsAdmin
    <3> QED BY <2>3, <3>1 DEF HasActiveAdmin
  <2> QED BY <2>4, <2>5, <2>6
<1>2. AdminLockInv /\ [Next]_vars =>
        [\A r \in Requests :
           /\ Commit(r)
           /\ req[r].base = row[req[r].user]
           /\ HasActiveAdmin
           => HasActiveAdmin']_vars
  BY <1>1
<1> QED BY <1>2, AdminLocked, PTL DEF Spec, FreshCommitKeepsAdmin

-----------------------------------------------------------------------------
(* Where no role is ever changed and nobody comes back, the check is enough. *)

OnlyLosses ==
  /\ Ops \subseteq {"update", "remove", "decline"}
  /\ \A edit \in Edits : edit.role = None /\ edit.status = "suspended"

\* Roles stay what they were read as, and a row that is active was read active:
\* no copy can bring an active admin back or hide one from the check.
Current(x) ==
  x.pc # "idle" =>
    /\ x.base.role = row[x.user].role /\ x.ent.role = x.base.role
    /\ row[x.user].status = "active" => x.base.status = "active"
    /\ x.ent.status \in {"suspended", "revoked"}

LossInv == HasActiveAdmin /\ \A r \in Requests : Current(req[r])

\* A request that starts has just read the row it edits.
LEMMA LossOpen ==
  ASSUME AdminLockInv, LossInv, NEW r \in Requests, NEW op, NEW u \in Users,
         NEW e \in Membership, Open(r, op, u, e),
         e.role = row[u].role, e.status \in {"suspended", "revoked"}
  PROVE  LossInv'
<1>1. row' = row /\ req \in [Requests -> Transaction]
  BY DEF Open, AdminLockInv, TypeOK
<1>2. PICK p \in Steps : req' = [req EXCEPT ![r] =
        [Idle EXCEPT !.op = op, !.user = u, !.base = row[u], !.ent = e, !.pc = p]]
  BY DEF Open, Steps
<1>3. req'[r].user = u /\ req'[r].base = row[u] /\ req'[r].ent = e
  BY <1>1, <1>2 DEF Idle
<1>4. ASSUME NEW q \in Requests PROVE Current(req[q])'
  <2>1. CASE q = r
    BY <1>1, <1>3, <2>1 DEF Current
  <2>2. CASE q # r
    BY <1>1, <1>2, <2>2 DEF Current, LossInv
  <2> QED BY <2>1, <2>2
<1> QED BY <1>1, <1>4 DEF LossInv, HasActiveAdmin

\* A step of a request that keeps its copy, or ends, and writes no row.
LEMMA LossKeep ==
  ASSUME AdminLockInv, LossInv, NEW r \in Requests, NEW x,
         req' = [req EXCEPT ![r] = x], row' = row,
         \/ x = Idle
         \/ /\ req[r].pc # "idle"
            /\ x.user = req[r].user /\ x.base = req[r].base /\ x.ent = req[r].ent
  PROVE  LossInv'
<1>1. req \in [Requests -> Transaction]
  BY DEF AdminLockInv, TypeOK
<1>2. ASSUME NEW q \in Requests PROVE Current(req[q])'
  <2>1. CASE q = r
    BY <1>1, <2>1 DEF Current, LossInv, Idle
  <2>2. CASE q # r
    BY <1>1, <2>2 DEF Current, LossInv
  <2> QED BY <2>1, <2>2
<1> QED BY <1>2 DEF LossInv, HasActiveAdmin

\* Invitations, roles and reactivations left out, the library always has an
\* active admin, however many requests suspend, remove and decline at once.
THEOREM LossesLeaveAdmin ==
  ASSUME OnlyLosses PROVE Spec => []AdminRemains
<1>1. Init => LossInv
  BY DEF Init, LossInv, HasActiveAdmin, ActiveAdmin, Registered, Current, Idle
<1>2. AdminLockInv /\ LossInv /\ [Next]_vars => LossInv'
  <2> SUFFICES ASSUME AdminLockInv, LossInv, [Next]_vars PROVE LossInv'
    OBVIOUS
  <2>0. req \in [Requests -> Transaction] /\ row \in [Users -> Membership]
    BY DEF AdminLockInv, TypeOK
  <2>1. ASSUME NEW r \in Requests, NEW u \in Users, Start(r, u) PROVE LossInv'
    <3>0. row[u] \in Membership
      BY <2>0
    <3>1. CASE StartDecline(r, u)
      <4>1. [row[u] EXCEPT !.status = "revoked"] \in Membership
        BY <3>0 DEF Membership, Statuses
      <4>2. /\ [row[u] EXCEPT !.status = "revoked"].role = row[u].role
            /\ [row[u] EXCEPT !.status = "revoked"].status = "revoked"
        BY <3>0 DEF Membership
      <4> QED BY <3>1, <4>1, <4>2, LossOpen DEF StartDecline
    <3>2. CASE StartRemove(r, u)
      <4>1. [row[u] EXCEPT !.status = "revoked"] \in Membership
        BY <3>0 DEF Membership, Statuses
      <4>2. /\ [row[u] EXCEPT !.status = "revoked"].role = row[u].role
            /\ [row[u] EXCEPT !.status = "revoked"].status = "revoked"
        BY <3>0 DEF Membership
      <4> QED BY <3>2, <4>1, <4>2, LossOpen DEF StartRemove
    <3>3. CASE \E edit \in Edits : StartUpdate(r, u, edit)
      <4>1. PICK edit \in Edits : StartUpdate(r, u, edit)
        BY <3>3
      <4>2. edit.role = None /\ edit.status = "suspended"
        BY DEF OnlyLosses
      <4> DEFINE e == [role |-> Given(edit.role, row[u].role),
                       status |-> Given(edit.status, row[u].status)]
      <4>3. e = [role |-> row[u].role, status |-> "suspended"]
        BY <4>2 DEF Given
      <4>4. [role |-> row[u].role, status |-> "suspended"] \in Membership
        BY <3>0 DEF Membership, Statuses
      <4>5. Open(r, "update", u, e)
        BY <4>1 DEF StartUpdate
      <4> HIDE DEF e
      <4> QED BY <4>3, <4>4, <4>5, LossOpen
    <3>4. ~StartTouch(r, u) /\ ~StartAccept(r, u)
          /\ ~(\E role \in Roles : StartInvite(r, u, role))
      BY DEF OnlyLosses, StartTouch, StartAccept, StartInvite, Open
    <3> QED BY <2>1, <3>1, <3>2, <3>3, <3>4 DEF Start
  <2>2. ASSUME NEW r \in Requests, Finish(r), row' = row PROVE LossInv'
    BY <2>2, LossKeep DEF Finish
  <2>3. ASSUME NEW r \in Requests,
               BeginLock(r) \/ (\E u \in Users : LockRow(r, u)) \/ CheckAdmin(r)
                 \/ Merge(r) \/ Flush(r)
        PROVE  LossInv'
    <3>0. req[r] \in Transaction /\ row' = row /\ req[r].pc # "idle"
      BY <2>0, <2>3 DEF BeginLock, LockRow, CheckAdmin, Merge, Flush
    <3>1. ASSUME NEW x, req' = [req EXCEPT ![r] = x],
                 x.user = req[r].user /\ x.base = req[r].base /\ x.ent = req[r].ent
          PROVE  LossInv'
      BY <3>0, <3>1, LossKeep
    <3>2. CASE Finish(r)
      BY <2>2, <3>0, <3>2
    <3>3. CASE BeginLock(r)
      <4> DEFINE x == [req[r] EXCEPT !.pc = "locking",
                                     !.todo = {v \in Users : row[v].status = "active"}]
      <4>1. req' = [req EXCEPT ![r] = x]
        BY <2>0, <3>3 DEF BeginLock
      <4>2. x.user = req[r].user /\ x.base = req[r].base /\ x.ent = req[r].ent
        BY <3>0 DEF Transaction
      <4> HIDE DEF x
      <4> QED BY <3>1, <4>1, <4>2
    <3>4. CASE \E u \in Users : LockRow(r, u)
      <4>0. PICK u \in Users : LockRow(r, u)
        BY <3>4
      <4> DEFINE x == [req[r] EXCEPT !.todo = @ \ {u}, !.locked = @ \cup {u}]
      <4>1. req' = [req EXCEPT ![r] = x]
        BY <2>0, <4>0 DEF LockRow
      <4>2. x.user = req[r].user /\ x.base = req[r].base /\ x.ent = req[r].ent
        BY <3>0 DEF Transaction
      <4> HIDE DEF x
      <4> QED BY <3>1, <4>1, <4>2
    <3>5. CASE CheckAdmin(r) /\ ~Finish(r)
      <4> DEFINE x == [req[r] EXCEPT !.pc = "save"]
      <4>1. req' = [req EXCEPT ![r] = x]
        BY <2>0, <3>5 DEF CheckAdmin
      <4>2. x.user = req[r].user /\ x.base = req[r].base /\ x.ent = req[r].ent
        BY <3>0 DEF Transaction
      <4> HIDE DEF x
      <4> QED BY <3>1, <4>1, <4>2
    <3>6. CASE Merge(r)
      <4> DEFINE D == {c \in {"role", "status"} :
                         Inserts(req[r]) \/ req[r].ent[c] # row[req[r].user][c]}
                 x == [req[r] EXCEPT !.pc = "merged", !.diff = D]
      <4>1. req' = [req EXCEPT ![r] = x]
        BY <2>0, <3>6 DEF Merge
      <4>2. x.user = req[r].user /\ x.base = req[r].base /\ x.ent = req[r].ent
        BY <3>0 DEF Transaction
      <4> HIDE DEF x
      <4> QED BY <3>1, <4>1, <4>2
    <3>7. CASE Flush(r) /\ req' = [req EXCEPT ![r].pc = "flushed",
                                              ![r].locked = @ \cup {req[r].user}]
      <4> DEFINE x == [req[r] EXCEPT !.pc = "flushed", !.locked = @ \cup {req[r].user}]
      <4>1. req' = [req EXCEPT ![r] = x]
        BY <2>0, <3>7
      <4>2. x.user = req[r].user /\ x.base = req[r].base /\ x.ent = req[r].ent
        BY <3>0 DEF Transaction
      <4> HIDE DEF x
      <4> QED BY <3>1, <4>1, <4>2
    <3>8. CASE Flush(r) /\ req' = [req EXCEPT ![r].pc = "flushed"]
      <4> DEFINE x == [req[r] EXCEPT !.pc = "flushed"]
      <4>1. req' = [req EXCEPT ![r] = x]
        BY <2>0, <3>8
      <4>2. x.user = req[r].user /\ x.base = req[r].base /\ x.ent = req[r].ent
        BY <3>0 DEF Transaction
      <4> HIDE DEF x
      <4> QED BY <3>1, <4>1, <4>2
    <3>9. Flush(r) => \/ Finish(r)
                      \/ req' = [req EXCEPT ![r].pc = "flushed"]
                      \/ req' = [req EXCEPT ![r].pc = "flushed",
                                            ![r].locked = @ \cup {req[r].user}]
      BY DEF Flush
    <3> QED BY <2>3, <3>2, <3>3, <3>4, <3>5, <3>6, <3>7, <3>8, <3>9
  <2>4. ASSUME NEW r \in Requests, Commit(r) PROVE LossInv'
    <3> DEFINE u == req[r].user
               new == Overlay(row[u], req[r])
    <3>1. /\ Holds(req[r]) /\ Current(req[r]) /\ req[r].pc = "flushed"
          /\ req[r].locked \in SUBSET Users /\ req[r].ent \in Membership
      BY <2>0, <2>4, Fields DEF AdminLockInv, LossInv, Commit
    <3>2. u \in Users /\ row' = [row EXCEPT ![u] = new]
      BY <2>4, CommitWrites
    <3>3. new.role = row[u].role /\ (new.status = "active" => row[u].status = "active")
      BY <3>1 DEF Current, Overlay
    <3>4. ASSUME NEW q \in Requests PROVE Current(req[q])'
      <4>1. CASE q = r
        BY <2>0, <2>4, <4>1 DEF Current, Commit, Finish, Idle
      <4>2. CASE q # r
        <5>1. req'[q] = req[q] /\ Current(req[q])
          BY <2>0, <2>4, <4>2 DEF LossInv, Commit, Finish
        <5>2. req[q].pc # "idle" => req[q].user \in Users
          BY DEF AdminLockInv, Holds
        <5> HIDE DEF new, u
        <5> QED BY <2>0, <3>2, <3>3, <5>1, <5>2 DEF Current
      <4> QED BY <4>1, <4>2
    <3>5. HasActiveAdmin'
      <4>1. CASE DropsAdmin(req[r].base, req[r].ent)
        BY <2>4, <4>1, CheckedCommitStep
      <4>2. CASE ~DropsAdmin(req[r].base, req[r].ent)
        <5>1. ~ActiveAdmin(row[u])
          BY <3>1, <4>2 DEF Current, DropsAdmin, ActiveAdmin
        <5>2. PICK w \in Users : ActiveAdmin(row[w])
          BY DEF LossInv, HasActiveAdmin
        <5> QED BY <2>0, <3>2, <5>1, <5>2 DEF HasActiveAdmin
      <4> QED BY <4>1, <4>2
    <3> QED BY <3>4, <3>5 DEF LossInv
  <2>5. CASE UNCHANGED vars
    BY <2>5 DEF vars, LossInv, HasActiveAdmin, Current
  <2>6. ASSUME NEW r \in Requests, Rollback(r) \/ AbortDeadlock(r) PROVE LossInv'
    BY <2>2, <2>6 DEF Rollback, AbortDeadlock
  <2> QED BY <2>1, <2>3, <2>4, <2>5, <2>6 DEF Next, Work
<1>3. LossInv => AdminRemains
  BY DEF LossInv, AdminRemains
<1> QED BY <1>1, <1>2, <1>3, AdminLocked, PTL DEF Spec
=============================================================================
