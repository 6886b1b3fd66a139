------------------------- MODULE AccountsAdminProofs -------------------------
(* Libraries keep an active admin, for every number of libraries, accounts *)
(* and open transactions, while everybody is at home in their library.     *)
EXTENDS AccountsProofs

HomeOps == {"register", "create", "update", "deleteUser", "deleteLibrary"}

Demotions == {e \in AllEdits : e.role \notin {None, "admin"} /\ e.active = None}
Deactivations == {e \in AllEdits : e.role = None /\ e.active = FALSE}

\* All requests edit the same column. Saves of different columns can mix in the
\* code, which Accounts leaves out: there a save replaces the row (Memberships).
OneKindOfLoss == Edits \subseteq Demotions \/ Edits \subseteq Deactivations

\* The two tables agree on role and activity.
Agree(a, m) ==
  m.role = a.role /\ m.status # "absent" /\ (a.active <=> m.status = "active")

AtHome ==
  \A u \in Users, l \in Libraries :
    /\ member[u][l].status # "absent" => account[u].home = l
    /\ account[u].home = l => Agree(account[u], member[u][l])

\* What a transaction will write agrees with itself and makes no admin but a new
\* account; without a check, its target is not an admin now.
Harmless(x) ==
  /\ x.op \in HomeOps \cup {"none"}
  /\ x.op \in {"register", "create", "update"} =>
       x.acc.home = x.lib /\ Agree(x.acc, x.mem)
  /\ x.op = "register" => ActiveAdmin(x.mem)
  /\ x.op = "update" =>
       /\ ~ActiveAdmin(x.mem)
       /\ x.pc \in {"saveAccount", "done"} => <<x.user, x.lib>> \in x.wrote
       /\ x.pc = "done" => <<x.user, None>> \in x.wrote
  /\ x.op = "deleteUser" => x.lib # None /\ account[x.user].home \in {None, x.lib}
  /\ x.op \in {"update", "deleteUser"} /\ ~x.checked =>
       ~ActiveAdmin(member[x.user][x.lib])

HomeInv ==
  /\ AtHome
  /\ \A r \in Requests : Harmless(req[r])
  /\ LibraryHasAdmin

-----------------------------------------------------------------------------
USE NoneApart

LEMMA NoneNoFlag == None \notin BOOLEAN /\ None \notin AllRoles
BY AccountsAssumption DEF AccountsAssumption

LEMMA EditDrops ==
  ASSUME OneKindOfLoss, NEW edit \in Edits
  PROVE  /\ ~(edit.role = None /\ edit.active = None)
         /\ \/ edit.role \in AllRoles \ {"admin"} /\ edit.role # None /\ edit.active = None
            \/ edit.role = None /\ edit.active = FALSE
<1>1. edit \in Demotions \/ edit \in Deactivations
  BY DEF OneKindOfLoss
<1>2. CASE edit \in Demotions
  BY <1>2, NoneNoFlag DEF Demotions, AllEdits
<1>3. CASE edit \in Deactivations
  BY <1>3, NoneNoFlag DEF Deactivations
<1> QED BY <1>1, <1>2, <1>3

LEMMA UpdateHarmless ==
  ASSUME AccountsInv, AtHome, OneKindOfLoss, Ops \subseteq HomeOps,
         NEW r \in Requests, NEW u \in Users, NEW l \in Libraries, NEW edit \in Edits,
         StartUpdate(r, u, l, edit)
  PROVE  Harmless(req'[r])
<1> DEFINE m == member[u][l]
           y == req'[r]
<1>1. /\ account[u].home = l /\ Agree(account[u], m) /\ m.status = "active"
      /\ account[u].active
      /\ account[u] \in Account /\ m \in Membership
  BY DEF StartUpdate, AtHome, Agree, AccountsInv, TypeOK
<1>2. /\ y.op = "update" /\ y.user = u /\ y.lib = l /\ y.checked = Drops(m, edit)
      /\ y.pc \in {"lock", "saveMember"}
      /\ y.acc = [account[u] EXCEPT !.role = Given(edit.role, @), !.active = Given(edit.active, @)]
      /\ y.mem = [role |-> Given(edit.role, m.role),
                  status |-> IF edit.active = FALSE THEN "suspended" ELSE "active"]
  BY EditDrops DEF StartUpdate, Begin, Idle, AccountsInv, TypeOK
<1>3. /\ y.acc.home = l /\ y.acc.role = Given(edit.role, account[u].role)
      /\ y.acc.active = Given(edit.active, account[u].active)
      /\ y.mem.role = Given(edit.role, m.role)
      /\ y.mem.status = IF edit.active = FALSE THEN "suspended" ELSE "active"
  BY <1>1, <1>2 DEF Account
<1> HIDE DEF y
<1>4. CASE edit.role \in AllRoles \ {"admin"} /\ edit.role # None /\ edit.active = None
  <2>1. y.mem.role = edit.role /\ y.acc.role = edit.role /\ y.mem.status = "active"
    BY <1>3, <1>4, NoneNoFlag DEF Given
  <2>2. y.acc.active = account[u].active
    BY <1>3, <1>4 DEF Given
  <2>3. Agree(y.acc, y.mem) /\ ~ActiveAdmin(y.mem)
    BY <1>1, <1>4, <2>1, <2>2 DEF Agree, ActiveAdmin
  <2>4. ~y.checked => ~ActiveAdmin(m)
    BY <1>2, <1>4, NoneNoFlag DEF Drops, ActiveAdmin
  <2> QED BY <1>2, <1>3, <2>3, <2>4 DEF Harmless, HomeOps, y
<1>5. CASE edit.role = None /\ edit.active = FALSE
  <2>1. y.mem.role = m.role /\ y.acc.role = account[u].role /\ y.mem.status = "suspended"
    BY <1>3, <1>5 DEF Given
  <2>2. y.acc.active = FALSE
    BY <1>3, <1>5, NoneNoFlag DEF Given
  <2>3. Agree(y.acc, y.mem) /\ ~ActiveAdmin(y.mem)
    BY <1>1, <2>1, <2>2 DEF Agree, ActiveAdmin
  <2>4. ~y.checked => ~ActiveAdmin(m)
    BY <1>2, <1>5 DEF Drops, ActiveAdmin
  <2> QED BY <1>2, <1>3, <2>3, <2>4 DEF Harmless, HomeOps, y
<1> QED BY <1>4, <1>5, EditDrops

LEMMA StartHarmless ==
  ASSUME AccountsInv, AtHome, OneKindOfLoss, Ops \subseteq HomeOps,
         NEW r \in Requests, Start(r)
  PROVE  Harmless(req'[r])
<1>1. req \in [Requests -> Transaction] /\ Homes \subseteq Libraries
  BY AccountsAssumption DEF AccountsInv, TypeOK, AccountsAssumption
<1>2. ASSUME NEW u \in Users, NEW l \in Libraries, StartRegister(r, l, u)
      PROVE  Harmless(req'[r])
  BY <1>1, <1>2 DEF StartRegister, Begin, Idle, Harmless, Agree, ActiveAdmin, HomeOps
<1>3. ASSUME NEW u \in Users, NEW l \in Libraries, NEW role, NEW active \in BOOLEAN,
             Create(r, u, l, role, active)
      PROVE  Harmless(req'[r])
  <2>1. /\ req'[r].op = "create" /\ req'[r].lib = l
        /\ req'[r].acc = [home |-> l, role |-> role, active |-> active]
        /\ req'[r].mem = [role |-> role, status |-> IF active THEN "active" ELSE "suspended"]
    BY <1>1, <1>3 DEF Create, Begin, Idle
  <2>2. Agree(req'[r].acc, req'[r].mem)
    BY <2>1 DEF Agree
  <2> QED BY <2>1, <2>2 DEF Harmless, HomeOps
<1>4. ASSUME NEW u \in Users, NEW l \in Libraries, StartDeleteUser(r, u, l)
      PROVE  Harmless(req'[r])
  <2> DEFINE y == req'[r]
  <2>1. /\ y.op = "deleteUser" /\ y.user = u /\ y.lib = l /\ account[u].home = l
        /\ y.checked = (account[u].role = "admin" /\ account[u].active)
    BY <1>1, <1>4 DEF StartDeleteUser, Begin, Idle
  <2>2. Agree(account[u], member[u][l])
    BY <2>1 DEF AtHome
  <2> HIDE DEF y
  <2>3. ~y.checked => ~ActiveAdmin(member[u][l])
    BY <2>1, <2>2 DEF Agree, ActiveAdmin
  <2> QED BY <2>1, <2>3 DEF Harmless, HomeOps, y
<1>5. ASSUME NEW l \in Libraries, StartDeleteLibrary(r, l)
      PROVE  Harmless(req'[r])
  BY <1>1, <1>5 DEF StartDeleteLibrary, Begin, Idle, Harmless, HomeOps
<1>6. ASSUME NEW u \in Users, NEW l \in Libraries, NEW mem,
             StartSelect(r, u, l) \/ StartPatch(r, u, l, mem) \/ StartRename(r, l)
      PROVE  FALSE
  <2>1. "select" \notin Ops /\ "patch" \notin Ops /\ "rename" \notin Ops
    BY DEF HomeOps
  <2> QED BY <1>6, <2>1 DEF StartSelect, StartPatch, StartRename, Begin
<1>7. ASSUME NEW l \in Libraries, StartRename(r, l)
      PROVE  FALSE
  BY <1>7 DEF StartRename, Begin, HomeOps
<1>8. \A u \in Users, l \in Libraries, role \in Roles, active \in BOOLEAN :
        /\ StartCreate(r, u, l, role) => Create(r, u, l, role, TRUE)
        /\ StartImport(r, u, l, role, active) => Create(r, u, l, role, active)
  BY DEF StartCreate, StartImport
<1> QED BY <1>1, <1>2, <1>3, <1>4, <1>5, <1>6, <1>7, <1>8, UpdateHarmless DEF Start

\* A step of an open transaction before its commit.
LEMMA WorkHarmless ==
  ASSUME AccountsInv, NEW r \in Requests, Harmless(req[r]), Work(r), ~Commit(r)
  PROVE  Harmless(req'[r])
<1> DEFINE x == req[r]
           y == req'[r]
<1>1. x \in Transaction /\ Fits(x) /\ req \in [Requests -> Transaction]
  BY Around DEF AccountsInv, TypeOK
<1>2. ASSUME y.op = x.op, y.user = x.user, y.lib = x.lib, y.acc = x.acc, y.mem = x.mem,
             y.checked = x.checked,
             x.op = "update" =>
               /\ y.pc \in {"saveAccount", "done"} => <<x.user, x.lib>> \in y.wrote
               /\ y.pc = "done" => <<x.user, None>> \in y.wrote
      PROVE  Harmless(req'[r])
  BY <1>2 DEF Harmless
<1>3. CASE Insert(r)
  BY <1>1, <1>2, <1>3 DEF Insert, Fits, Shape
<1>4. CASE BeginLock(r)
  BY <1>1, <1>2, <1>4 DEF BeginLock
<1>5. ASSUME NEW k \in Rows, LockRow(r, k) PROVE Harmless(req'[r])
  BY <1>1, <1>2, <1>5 DEF LockRow
<1>6. ASSUME NEW k \in Rows, Sweep(r, k) PROVE Harmless(req'[r])
  BY <1>1, <1>2, <1>6 DEF Sweep, Fits, Shape
<1>7. CASE CheckAdmin(r)
  <2>1. /\ y.op = x.op /\ y.user = x.user /\ y.lib = x.lib /\ y.acc = x.acc /\ y.mem = x.mem
        /\ y.checked = x.checked
        /\ x.op = "update" => y.pc = "saveMember"
    BY <1>1, <1>7 DEF CheckAdmin
  <2> QED BY <1>2, <2>1
<1>8. CASE SaveMember(r)
  <2>1. /\ y.op = x.op /\ y.user = x.user /\ y.lib = x.lib /\ y.acc = x.acc /\ y.mem = x.mem
        /\ y.checked = x.checked
        /\ <<x.user, x.lib>> \in y.wrote
        /\ x.op = "update" => y.pc = "saveAccount"
    BY <1>1, <1>8 DEF SaveMember
  <2> QED BY <1>2, <2>1
<1>9. CASE SaveAccount(r)
  <2>1. x.op = "update" => <<x.user, x.lib>> \in x.wrote
    BY <1>9 DEF Harmless, SaveAccount
  <2> QED BY <1>1, <1>2, <1>9, <2>1 DEF SaveAccount
<1>10. CASE SaveLibrary(r)
  BY <1>1, <1>2, <1>10 DEF SaveLibrary, Fits, Shape
<1> QED BY <1>3, <1>4, <1>5, <1>6, <1>7, <1>8, <1>9, <1>10 DEF Work

-----------------------------------------------------------------------------
\* The account that an update writes is there at the commit: its membership was
\* saved first, which fails without the account and keeps a deletion out.
LEMMA UpdateTarget ==
  ASSUME AccountsInv, BackedInv, NEW r \in Requests, Commit(r), Harmless(req[r]),
         req[r].op = "update"
  PROVE  req[r].lib \in Libraries /\ account[req[r].user].home = req[r].lib
<1> DEFINE x == req[r]
<1>1. x \in Transaction /\ Fits(x)
  BY Around
<1>2. x.acc.home = x.lib /\ x.acc.home # None /\ x.user \in Users /\ x.pc = "done"
  BY <1>1, Fields DEF Harmless, Fits, Shape, Commit
<1>3. x.lib \in Libraries
  BY <1>1, <1>2, Fields
<1>4. <<x.user, x.lib>> \in x.wrote
  BY <1>2 DEF Harmless
<1>5. Exists(<<x.user, x.lib>>) \/ <<x.user, None>> \in x.shared
  BY <1>2, <1>3, <1>4 DEF BackedInv, Backed
<1>6. Exists(<<x.user, None>>)
  <2>1. CASE Exists(<<x.user, x.lib>>)
    BY <1>2, <1>3, <2>1 DEF Exists, AccountsInv, NoOrphans
  <2>2. CASE <<x.user, None>> \in x.shared
    BY <1>1, <2>2 DEF Fits, Secured
  <2> QED BY <1>5, <2>1, <2>2
<1>7. account[x.user].home # None
  BY <1>2, <1>6 DEF Exists
<1> QED BY <1>1, <1>2, <1>3, <1>7 DEF Fits, Copies

LEMMA RowUntouched ==
  ASSUME AccountsInv, NEW r \in Requests, Commit(r), NEW u \in Users
  PROVE  /\ <<u, None>> \notin req[r].doomed \cup req[r].wrote => account'[u] = account[u]
         /\ \A l \in Libraries :
              <<u, l>> \notin req[r].doomed \cup req[r].wrote => member'[u][l] = member[u][l]
BY CommitRows

\* A save changes both rows of its account, and the account has no other.
LEMMA SaveRows ==
  ASSUME AccountsInv, BackedInv, AtHome, NEW r \in Requests, Commit(r), Harmless(req[r]),
         req[r].op \in {"register", "create", "update"}
  PROVE  /\ req[r].user \in Users /\ req[r].lib \in Libraries
         /\ \A u \in Users \ {req[r].user} :
              account'[u] = account[u] /\ \A l \in Libraries : member'[u][l] = member[u][l]
         /\ account'[req[r].user] = req[r].acc
         /\ member'[req[r].user][req[r].lib] = req[r].mem
         /\ \A l \in Libraries \ {req[r].lib} :
              /\ member'[req[r].user][l] = member[req[r].user][l]
              /\ member[req[r].user][l].status = "absent"
<1> DEFINE x == req[r]
<1>1. x \in Transaction /\ Fits(x)
  BY Around
<1>2. x.pc = "done" /\ x.doomed = {} /\ x.user \in Users
  BY <1>1, Fields DEF Fits, Shape, Copies, Commit
<1>3. {<<x.user, None>>, <<x.user, x.lib>>} \subseteq x.wrote
  BY <1>1, <1>2 DEF Fits, Copies, Harmless
<1>4. x.acc.home # None
  BY <1>1, <1>2, <1>3 DEF Fits, Shape
<1>5. x.acc.home = x.lib /\ x.lib \in Libraries
  BY <1>1, <1>4, Fields DEF Harmless
<1>6. account[x.user].home \in {None, x.lib}
  BY <1>1, <1>4, <1>5 DEF Fits, Copies
<1>7. \A l \in Libraries \ {x.lib} : member[x.user][l].status = "absent"
  BY <1>2, <1>6 DEF AtHome
<1>8. \A u \in Users, l \in Libraries : <<u, l>> \in x.wrote => u = x.user /\ l = x.lib
  BY <1>1 DEF Fits, Shape
<1>9. \A u \in Users : <<u, None>> \in x.wrote => u = x.user
  BY <1>1 DEF Fits, Shape
<1>10. ASSUME NEW u \in Users \ {x.user}
       PROVE  account'[u] = account[u] /\ \A l \in Libraries : member'[u][l] = member[u][l]
  BY <1>2, <1>8, <1>9, RowUntouched
<1>11. account'[x.user] = x.acc /\ member'[x.user][x.lib] = x.mem
  BY <1>2, <1>3, <1>5, CommitRows
<1>12. \A l \in Libraries \ {x.lib} : member'[x.user][l] = member[x.user][l]
  BY ZenonT(60), <1>2, <1>8, RowUntouched
<1> QED BY <1>2, <1>5, <1>7, <1>10, <1>11, <1>12

Wiped(u) ==
  account'[u] = NoAccount /\ \A l \in Libraries : member'[u][l].status = "absent"

\* A deletion takes an account with its membership, or leaves both.
LEMMA DeletionRows ==
  ASSUME AccountsInv, AtHome, NEW r \in Requests, Commit(r),
         req[r].op \in {"deleteUser", "deleteLibrary"}, NEW u \in Users
  PROVE  \/ <<u, None>> \in req[r].doomed /\ Wiped(u)
         \/ /\ account'[u] = account[u]
            /\ \A l \in Libraries : member'[u][l] = member[u][l]
<1> DEFINE x == req[r]
<1>1. x \in Transaction /\ Fits(x)
  BY Around
<1>2. x.pc = "sweep" /\ x.todo = {} /\ x.wrote = {}
  BY <1>1 DEF Fits, Shape, Commit
<1>3. Closure(x)
  BY <1>1 DEF Fits
<1>4. CASE <<u, None>> \in x.doomed
  <2>1. account'[u] = NoAccount
    BY <1>4, CommitRows
  <2>2. ASSUME NEW l \in Libraries PROVE member'[u][l].status = "absent"
    <3>1. member[u][l].status # "absent" => <<u, l>> \in x.doomed
      BY <1>2, <1>3, <1>4 DEF Closure, Family
    <3> QED BY <1>2, <3>1, CommitRows DEF NoMember
  <2> QED BY <1>4, <2>1, <2>2 DEF Wiped
<1>5. CASE <<u, None>> \notin x.doomed
  <2>1. ASSUME NEW l \in Libraries, <<u, l>> \in x.doomed PROVE FALSE
    <3>1. <<None, l>> \in x.doomed
      BY <1>2, <1>3, <1>5, <2>1 DEF Closure
    <3>2. x.op = "deleteLibrary" /\ l = x.lib
      BY <1>2, <1>3, <3>1 DEF Closure
    <3>3. account[u].home = l
      BY <1>1, <2>1 DEF Fits, Secured, Exists, AtHome
    <3>4. <<u, None>> \in Dependents(l)
      BY <3>3 DEF Dependents
    <3> QED BY <1>2, <1>3, <1>5, <3>1, <3>2, <3>4 DEF Closure
  <2>2. account'[u] = account[u] /\ \A l \in Libraries : member'[u][l] = member[u][l]
    BY <1>2, <1>5, <2>1, RowUntouched
  <2> QED BY <2>2
<1> QED BY <1>4, <1>5

LEMMA CommitOp ==
  ASSUME AccountsInv, NEW r \in Requests, Commit(r), Harmless(req[r])
  PROVE  \/ req[r].op \in {"register", "create", "update"}
         \/ req[r].op \in {"deleteUser", "deleteLibrary"}
<1>1. req[r].op # "none"
  BY Around DEF Fits, Shape, Commit
<1> QED BY <1>1 DEF Harmless, HomeOps

LEMMA CommitAtHome ==
  ASSUME AccountsInv, BackedInv, AtHome, NEW r \in Requests, Commit(r), Harmless(req[r])
  PROVE  AtHome'
<1> DEFINE x == req[r]
<1> SUFFICES ASSUME NEW u \in Users, NEW l \in Libraries
             PROVE  /\ member'[u][l].status # "absent" => account'[u].home = l
                    /\ account'[u].home = l => Agree(account'[u], member'[u][l])
  BY DEF AtHome, Agree
<1>1. CASE account'[u] = account[u] /\ member'[u][l] = member[u][l]
  BY <1>1 DEF AtHome
<1>2. CASE x.op \in {"register", "create", "update"} /\ u = x.user
  <2>1. x.acc.home = x.lib /\ Agree(x.acc, x.mem)
    BY <1>2 DEF Harmless
  <2>2. CASE l = x.lib
    BY <1>2, <2>1, <2>2, SaveRows
  <2>3. CASE l # x.lib
    BY <1>2, <2>1, <2>3, SaveRows
  <2> QED BY <2>2, <2>3
<1>3. CASE Wiped(u)
  BY <1>3 DEF Wiped, NoAccount
<1>4. CASE x.op \in {"register", "create", "update"} /\ u # x.user
  <2>1. account'[u] = account[u] /\ member'[u][l] = member[u][l]
    BY <1>4, SaveRows
  <2> QED BY <1>1, <2>1
<1>5. CASE x.op \in {"deleteUser", "deleteLibrary"}
  <2>1. Wiped(u) \/ (account'[u] = account[u] /\ member'[u][l] = member[u][l])
    BY <1>5, DeletionRows
  <2> QED BY <1>1, <1>3, <2>1
<1> QED BY <1>2, <1>4, <1>5, CommitOp

LEMMA CommitHarmless ==
  ASSUME AccountsInv, BackedInv, AtHome, NEW r \in Requests, Commit(r),
         \A p \in Requests : Harmless(req[p]),
         NEW q \in Requests \ {r}
  PROVE  Harmless(req[q])'
<1> DEFINE x == req[r]
           y == req[q]
<1>1. y \in Transaction /\ Fits(y) /\ Compatible(x, y) /\ Harmless(x) /\ Harmless(y)
  BY Around
<1>2. req'[q] = y
  BY CommitRows DEF AccountsInv, TypeOK
<1>3. ASSUME y.op \in {"update", "deleteUser"}
      PROVE  /\ y.op = "deleteUser" => account'[y.user].home \in {None, y.lib}
             /\ ~y.checked => ~ActiveAdmin(member'[y.user][y.lib])
  <2>1. y.user \in Users /\ y.lib \in Libraries
    <3>1. y.user # None /\ y.lib # None
      BY <1>1, <1>3 DEF Fits, Shape, Harmless
    <3> QED BY <1>1, <3>1, Fields
  <2>2. /\ y.op = "deleteUser" => account[y.user].home \in {None, y.lib}
        /\ ~y.checked => ~ActiveAdmin(member[y.user][y.lib])
    BY <1>1, <1>3 DEF Harmless
  <2>3. CASE /\ account'[y.user] = account[y.user]
             /\ member'[y.user][y.lib] = member[y.user][y.lib]
    BY <2>2, <2>3
  <2>4. CASE Wiped(y.user)
    BY <2>1, <2>4 DEF Wiped, NoAccount, ActiveAdmin
  <2>5. CASE x.op \in {"register", "create", "update"} /\ y.user = x.user
    <3>1. x.op = "update"
      BY <1>1, <2>5 DEF Compatible
    <3>2. account[y.user].home = x.lib /\ account'[y.user].home = x.lib
      <4>1. x.acc.home = x.lib
        BY <1>1, <3>1 DEF Harmless
      <4> QED BY <1>1, <2>5, <3>1, <4>1, UpdateTarget, SaveRows
    <3>3. x.lib # None
      BY <1>1, <3>1, UpdateTarget
    <3>4. ~y.checked => ~ActiveAdmin(member'[y.user][y.lib])
      <4>1. CASE y.lib = x.lib
        BY SMTT(30), <1>1, <2>5, <3>1, <4>1, SaveRows DEF Harmless
      <4>2. CASE y.lib # x.lib
        BY <1>1, <2>1, <2>2, <2>5, <4>2, SaveRows
      <4> QED BY <4>1, <4>2
    <3> QED BY <2>2, <3>2, <3>3, <3>4
  <2>6. CASE x.op \in {"register", "create", "update"} /\ y.user # x.user
    <3>1. account'[y.user] = account[y.user] /\ member'[y.user][y.lib] = member[y.user][y.lib]
      BY <1>1, <2>1, <2>6, SaveRows
    <3> QED BY <2>3, <3>1
  <2>7. CASE x.op \in {"deleteUser", "deleteLibrary"}
    <3>1. \/ Wiped(y.user)
          \/ /\ account'[y.user] = account[y.user]
             /\ member'[y.user][y.lib] = member[y.user][y.lib]
      BY <1>1, <2>1, <2>7, DeletionRows
    <3> QED BY <2>3, <2>4, <3>1
  <2> QED BY <1>1, <2>5, <2>6, <2>7, CommitOp
<1> QED BY ZenonT(60), <1>1, <1>2, <1>3 DEF Harmless, Agree, ActiveAdmin

\* Whoever is taken away was not the last active admin.
LEMMA CommitAdmin ==
  ASSUME AccountsInv, BackedInv, HomeInv, NEW r \in Requests, Commit(r)
  PROVE  LibraryHasAdmin'
<1> DEFINE x == req[r]
<1>1. x \in Transaction /\ Fits(x) /\ Harmless(x) /\ AtHome
  BY Around DEF HomeInv
<1> SUFFICES ASSUME NEW l \in library'
             PROVE  \E u \in Users : account'[u].active /\ ActiveAdmin(member'[u][l])
  BY DEF LibraryHasAdmin, ActiveAdmin
<1>2. /\ l \in Libraries /\ <<None, l>> \notin x.doomed
      /\ l \in library \/ <<None, l>> \in x.wrote
  BY CommitRows
<1>3. CASE l \notin library
  <2>1. x.op = "register" /\ l = x.lib
    BY <1>1, <1>2, <1>3 DEF Fits, Shape, Harmless, HomeOps
  <2>2. x.acc.active /\ ActiveAdmin(x.mem)
    BY <1>1, <2>1 DEF Harmless, Agree, ActiveAdmin
  <2> QED BY <1>1, <2>1, <2>2, SaveRows
<1>4. CASE l \in library
  <2>1. PICK v \in Users : account[v].active /\ ActiveAdmin(member[v][l])
    BY <1>4 DEF HomeInv, LibraryHasAdmin
  <2>2. account[v].home = l
    BY <1>1, <1>2, <2>1 DEF AtHome, ActiveAdmin
  <2>3. CASE account'[v] = account[v] /\ member'[v][l] = member[v][l]
    BY <2>1, <2>3
  <2>4. CASE x.op \in {"register", "create"} /\ v = x.user
    BY <1>1, <1>2, <2>2, <2>4 DEF Fits, Copies
  <2>5. CASE x.op = "update" /\ v = x.user
    <3>1. l = x.lib
      BY <1>1, <2>2, <2>5, UpdateTarget
    <3>2. x.checked
      BY <1>1, <2>1, <2>5, <3>1 DEF Harmless
    <3>3. OtherAdminHeld(x)
      BY <1>1, <2>5, <3>2 DEF Fits, Checked, Shape, Commit
    <3>4. PICK w \in Users \ {v} : ActiveAdmin(member[w][l])
      BY <2>5, <3>1, <3>3 DEF OtherAdminHeld
    <3>5. account[w].active
      BY <1>1, <1>2, <3>4 DEF AtHome, Agree, ActiveAdmin
    <3>6. account'[w] = account[w] /\ member'[w][l] = member[w][l]
      BY <1>1, <1>2, <2>5, <3>4, SaveRows
    <3> QED BY <3>4, <3>5, <3>6
  <2>6. CASE x.op = "deleteUser" /\ <<v, None>> \in x.doomed
    <3>1. Closure(x) /\ x.pc = "sweep"
      BY <1>1, <2>6 DEF Fits, Shape, Commit
    <3>2. \A u \in Users : <<u, None>> \in x.doomed => u = x.user
      BY <2>6, <3>1 DEF Closure
    <3>3. v = x.user
      BY <2>6, <3>2
    <3>4. l = x.lib
      BY <1>1, <1>2, <2>2, <2>6, <3>3 DEF Harmless
    <3>5. x.checked
      BY <1>1, <2>1, <2>6, <3>3, <3>4 DEF Harmless
    <3>6. OtherAdminHeld(x)
      BY <1>1, <3>1, <3>5 DEF Fits, Checked
    <3>7. PICK w \in Users \ {v} :
            account[w].home = l /\ account[w].role = "admin" /\ account[w].active
      BY <2>6, <3>3, <3>4, <3>6 DEF OtherAdminHeld
    <3>8. ActiveAdmin(member[w][l])
      BY <1>1, <1>2, <3>7 DEF AtHome, Agree, ActiveAdmin
    <3>9. <<w, None>> \notin x.doomed
      BY <3>2, <3>3, <3>7
    <3>10. account'[w] = account[w] /\ member'[w][l] = member[w][l]
      BY <1>1, <1>2, <2>6, <3>9, DeletionRows
    <3> QED BY <3>7, <3>8, <3>10
  <2>7. CASE x.op = "deleteLibrary" /\ <<v, None>> \in x.doomed
    <3>1. Closure(x) /\ x.pc = "sweep"
      BY <1>1, <2>7 DEF Fits, Shape, Commit
    <3>2. l = x.lib /\ <<None, x.lib>> \in x.doomed
      BY <2>2, <2>7, <3>1 DEF Closure
    <3> QED BY <1>2, <3>2
  <2>8. \/ account'[v] = account[v] /\ member'[v][l] = member[v][l]
        \/ x.op \in {"register", "create", "update"} /\ v = x.user
        \/ x.op \in {"deleteUser", "deleteLibrary"} /\ <<v, None>> \in x.doomed
    BY <1>1, <1>2, CommitOp, SaveRows, DeletionRows
  <2> QED BY <2>3, <2>4, <2>5, <2>6, <2>7, <2>8
<1> QED BY <1>3, <1>4

LEMMA HomeInvStep ==
  ASSUME AccountsInv, BackedInv, HomeInv, OneKindOfLoss, Ops \subseteq HomeOps,
         NEW r \in Requests, Start(r) \/ Work(r) \/ Rollback(r)
  PROVE  HomeInv'
<1>1. req \in [Requests -> Transaction]
  BY DEF AccountsInv, TypeOK
<1>2. AtHome /\ \A q \in Requests : Harmless(req[q])
  BY DEF HomeInv
<1>3. Harmless(Idle)
  BY DEF Harmless, Idle
<1>4. CASE Commit(r)
  <2>1. Harmless(req[r])'
    <3>1. req'[r] = Idle
      BY <1>1, <1>4, CommitRows
    <3> QED BY <3>1 DEF Harmless, Idle
  <2>2. \A q \in Requests : Harmless(req[q])'
    BY <1>2, <1>4, <2>1, CommitHarmless
  <2> QED BY <1>2, <1>4, <2>2, CommitAtHome, CommitAdmin DEF HomeInv
<1>5. CASE ~Commit(r)
  <2>1. /\ UNCHANGED <<library, account, member, revived>>
        /\ \A q \in Requests \ {r} : req'[q] = req[q]
    BY <1>5, QuietStep
  <2>2. Harmless(req'[r])
    <3>1. CASE Start(r)
      BY <1>2, <3>1, StartHarmless
    <3>2. CASE Work(r)
      BY <1>2, <1>5, <3>2, WorkHarmless
    <3>3. CASE Rollback(r)
      BY <1>1, <1>3, <3>3 DEF Rollback, Finish
    <3> QED BY <3>1, <3>2, <3>3
  <2>3. \A q \in Requests : Harmless(req'[q])
    BY <1>2, <2>1, <2>2
  <2>4. \A q \in Requests : Harmless(req[q])'
    BY <2>1, <2>3 DEF Harmless, Agree, ActiveAdmin
  <2>5. AtHome' /\ LibraryHasAdmin'
    BY <2>1 DEF HomeInv, AtHome, Agree, LibraryHasAdmin, ActiveAdmin
  <2> QED BY <2>4, <2>5 DEF HomeInv
<1> QED BY <1>4, <1>5

LEMMA InitHome == HomeInit => HomeInv
<1> SUFFICES ASSUME HomeInit PROVE HomeInv
  OBVIOUS
<1>1. \A r \in Requests : Harmless(req[r])
  BY DEF HomeInit, Init, Harmless, Idle
<1>2. ASSUME NEW u \in Users, NEW l \in Libraries
      PROVE  /\ member[u][l].status # "absent" => account[u].home = l
             /\ account[u].home = l => Agree(account[u], member[u][l])
  <2>1. member[u][l].status # "absent" => account[u].home = l
    BY DEF HomeInit, NoMember
  <2>2. ASSUME account[u].home = l PROVE Agree(account[u], member[u][l])
    <3>1. member[u][l] = [role |-> account[u].role, status |-> "active"]
      BY <2>2 DEF HomeInit, Init
    <3>2. account[u] \in {NoAccount} \cup
                         [home : library \cap Homes, role : Roles, active : {TRUE}]
      BY Zenon DEF HomeInit, Init
    <3>3. account[u].active = TRUE
      <4>1. account[u] # NoAccount
        BY <2>2 DEF NoAccount
      <4>2. \A a \in [home : library \cap Homes, role : Roles, active : {TRUE}] :
              a.active = TRUE
        OBVIOUS
      <4> QED BY <3>2, <4>1, <4>2
    <3> QED BY <3>1, <3>3 DEF Agree
  <2> QED BY <2>1, <2>2
<1> QED BY <1>1, <1>2 DEF HomeInv, AtHome, HomeInit, Init

\* While everybody is a member of the library they were created in and of no other,
\* and requests take one kind of authority away (they demote, or they deactivate),
\* a library never loses its last active admin: not to concurrent updates, not to
\* deletions of accounts, and not to the two checks going by different tables.
\* Profile saves, promotions and memberships of other libraries each break it.
THEOREM HomeKeepsAdmin ==
  ASSUME OneKindOfLoss, Ops \subseteq HomeOps
  PROVE  HomeSpec => []LibraryHasAdmin
<1>1. HomeInit => AccountsInv /\ BackedInv /\ HomeInv
  <2>1. Init => BackedInv
    BY DEF Init, BackedInv, Backed, Idle
  <2> QED BY <2>1, InitAccounts, InitHome DEF HomeInit
<1>2. AccountsInv /\ BackedInv /\ HomeInv /\ [Next]_vars =>
        (AccountsInv /\ BackedInv /\ HomeInv)'
  <2>1. ASSUME UNCHANGED vars, HomeInv PROVE HomeInv'
    BY <2>1 DEF vars, HomeInv, AtHome, Agree, Harmless, LibraryHasAdmin, ActiveAdmin
  <2>2. ASSUME UNCHANGED vars, BackedInv PROVE BackedInv'
    BY <2>2 DEF vars, BackedInv, Backed, Exists
  <2> QED BY <2>1, <2>2, AccountsStep, BackedStep, HomeInvStep DEF Next
<1>3. HomeInv => LibraryHasAdmin
  BY DEF HomeInv
<1> QED BY <1>1, <1>2, <1>3, PTL DEF HomeSpec
=============================================================================
