------------------------------ MODULE Accounts ------------------------------
(***************************************************************************)
(* Libraries, the accounts created in them, and the memberships of both,   *)
(* as whole rows: which exist, who may be taken away, what a deletion      *)
(* takes along. A row is named by a pair: <<None, l>> is a library,        *)
(* <<u, None>> an account, <<u, l>> a membership.                          *)
(*                                                                         *)
(* Deleting a row waits for the transactions that inserted children of it, *)
(* then takes the children, row by row; inserting a child waits for the    *)
(* deletion of a parent, and fails after it. A saved copy is inserted when *)
(* its row is gone.                                                        *)
(***************************************************************************)
EXTENDS Integers, FiniteSets

CONSTANTS
  Requests,      \* transactions that can be open at the same time
  Users,         \* identifiers of accounts
  Libraries,     \* identifiers of libraries
  Homes,         \* libraries in which accounts are created
  Roles,         \* roles with which accounts are created
  Edits,         \* bodies of PATCH /users/{user_id}
  Patches,       \* memberships that a membership operation leaves
  Ops,           \* operations of the instance
  None

AllRoles == {"admin", "viewer"}   \* every role but admin is treated alike here
AllOps == {"register", "create", "update", "select", "patch", "rename",
           "deleteUser", "deleteLibrary"}
AllEdits == [role : AllRoles \cup {None}, active : BOOLEAN \cup {None}]

VARIABLES
  library,       \* libraries that exist
  account,       \* users: home is library_id, role the legacy column
  member,        \* user_library_memberships
  req,           \* the open transaction of each request slot
  revived        \* history: accounts inserted again by the save of a copy

vars == <<library, account, member, req, revived>>

Statuses == {"absent", "invited", "active", "suspended", "revoked"}
Account == [home : Libraries \cup {None}, role : AllRoles, active : BOOLEAN]
Membership == [role : AllRoles, status : Statuses]
NoAccount == [home |-> None, role |-> "viewer", active |-> FALSE]
NoMember == [role |-> "viewer", status |-> "absent"]

ASSUME AccountsAssumption ==
  /\ None \notin Users \cup Libraries
  /\ None \notin AllRoles
  /\ None \notin BOOLEAN
  /\ Homes \subseteq Libraries
  /\ Roles \subseteq AllRoles
  /\ Edits \subseteq AllEdits
  /\ Patches \subseteq Membership
  /\ \A mem \in Patches : mem.status # "absent"
  /\ Ops \subseteq AllOps

Rows == (Users \cup {None}) \X (Libraries \cup {None})

Steps == {"idle", "insert", "lock", "locking", "saveMember", "saveAccount",
          "saveLibrary", "sweep", "done"}

\* acc, mem: the edited copies; checked: another admin was looked for;
\* todo: rows selected and not reached yet; held: rows of SELECT ... FOR UPDATE;
\* wrote, doomed: rows written and rows deleted; shared: parents of inserted rows.
Transaction ==
  [op : AllOps \cup {"none"}, pc : Steps,
   user : Users \cup {None}, lib : Libraries \cup {None},
   acc : Account, mem : Membership,
   checked : BOOLEAN,
   todo : SUBSET Rows, held : SUBSET Rows, wrote : SUBSET Rows,
   doomed : SUBSET Rows, shared : SUBSET Rows]

Idle ==
  [op |-> "none", pc |-> "idle", user |-> None, lib |-> None,
   acc |-> NoAccount, mem |-> NoMember, checked |-> FALSE,
   todo |-> {}, held |-> {}, wrote |-> {}, doomed |-> {}, shared |-> {}]

TypeOK ==
  /\ library \in SUBSET Libraries
  /\ account \in [Users -> Account]
  /\ member \in [Users -> [Libraries -> Membership]]
  /\ req \in [Requests -> Transaction]
  /\ revived \in SUBSET Users

ActiveAdmin(m) == m.role = "admin" /\ m.status = "active"

\* A library that exists has an active account that is an active admin of it
\* ("Cannot remove the library's last active admin", delete_user.py).
LibraryHasAdmin ==
  \A l \in library : \E u \in Users : account[u].active /\ ActiveAdmin(member[u][l])

\* Some accounts exist with the membership they were created with, and some are
\* members of other libraries too.
Init ==
  /\ library \in SUBSET Libraries
  /\ account \in [Users -> {NoAccount} \cup
                           [home : library \cap Homes, role : Roles, active : {TRUE}]]
  /\ member \in [Users -> [Libraries -> {NoMember} \cup
                                        [role : Roles, status : {"active"}]]]
  /\ \A u \in Users, l \in Libraries :
       /\ member[u][l] # NoMember => account[u].home # None /\ l \in library
       /\ account[u].home = l => member[u][l] = [role |-> account[u].role,
                                                 status |-> "active"]
  /\ LibraryHasAdmin
  /\ req = [r \in Requests |-> Idle]
  /\ revived = {}

-----------------------------------------------------------------------------
(* Rows and locks *)

Exists(k) ==
  \/ k[1] = None /\ k[2] \in library
  \/ k[1] # None /\ k[2] = None /\ account[k[1]].home # None
  \/ k[1] # None /\ k[2] # None /\ member[k[1]][k[2]].status # "absent"

\* Rows that a deletion takes in one step: an account with its memberships.
Family(k) ==
  {k} \cup (IF k[2] = None
            THEN {<<k[1], l>> : l \in {m \in Libraries : k[1] # None /\ member[k[1]][m].status # "absent"}}
            ELSE {})

\* Rows that refer to a library.
Dependents(l) ==
  {<<u, None>> : u \in {v \in Users : account[v].home = l}}
  \cup {<<u, l>> : u \in {v \in Users : member[v][l].status # "absent"}}

Locked(x) == x.held \cup x.wrote \cup x.doomed

LockedByOther(r, k) == \E q \in Requests \ {r} : k \in Locked(req[q])

SharedByOther(r, k) == \E q \in Requests \ {r} : k \in req[q].shared

\* FOR UPDATE and DELETE keep children out, UPDATE does not.
BarredByOther(r, k) ==
  \E q \in Requests \ {r} : k \in req[q].held \cup req[q].doomed

Finish(r) == req' = [req EXCEPT ![r] = Idle]

Begin(r, op, x) ==
  /\ op \in Ops
  /\ req[r].pc = "idle"
  /\ req' = [req EXCEPT ![r] = [x EXCEPT !.op = op]]
  /\ UNCHANGED <<library, account, member, revived>>

\* A new UUID. One that nothing refers to any more is as good as new.
FreshUser(u) ==
  /\ account[u].home = None
  /\ \A q \in Requests : req[q].user # u

FreshLibrary(l) ==
  /\ l \notin library
  /\ \A q \in Requests : req[q].lib # l /\ req[q].acc.home # l

-----------------------------------------------------------------------------
(* Creating *)

\* Library, founder and membership: three inserts nobody else can refer to yet.
StartRegister(r, l, u) ==
  /\ FreshLibrary(l)
  /\ FreshUser(u)
  /\ Begin(r, "register",
       [Idle EXCEPT !.pc = "done", !.user = u, !.lib = l,
                    !.acc = [home |-> l, role |-> "admin", active |-> TRUE],
                    !.mem = [role |-> "admin", status |-> "active"],
                    !.wrote = {<<None, l>>, <<u, None>>, <<u, l>>}])

\* An account with the role and activity it is given, and its membership.
Create(r, u, l, role, active) ==
  /\ FreshUser(u)
  /\ Begin(r, "create",
       [Idle EXCEPT !.pc = "insert", !.user = u, !.lib = l,
                    !.acc = [home |-> l, role |-> role, active |-> active],
                    !.mem = [role |-> role,
                             status |-> IF active THEN "active" ELSE "suspended"],
                    !.checked = role = "admin" /\ ~active])

\* CreateUser, the invitation of an unknown address, a child account.
StartCreate(r, u, l, role) == Create(r, u, l, role, TRUE)

\* One item of an import: created active, and updated in the same transaction.
StartImport(r, u, l, role, active) == Create(r, u, l, role, active)

\* Mutated form of Insert: the membership is left to a later transaction.
InsertAccountOnly(r) ==
  LET x == req[r] IN
  /\ x.pc = "insert"
  /\ ~BarredByOther(r, <<None, x.lib>>)
  /\ x.lib \in library
  /\ req' = [req EXCEPT ![r].pc = IF x.checked THEN "lock" ELSE "done",
                        ![r].wrote = {<<x.user, None>>},
                        ![r].shared = {<<None, x.lib>>}]
  /\ UNCHANGED <<library, account, member, revived>>

\* The account, then its membership. A library that is gone fails the request.
Insert(r) ==
  LET x == req[r] IN
  /\ x.pc = "insert"
  /\ ~BarredByOther(r, <<None, x.lib>>)
  /\ x.lib \in library
  /\ req' = [req EXCEPT ![r].pc = IF x.checked THEN "lock" ELSE "done",
                        ![r].wrote = {<<x.user, None>>, <<x.user, x.lib>>},
                        ![r].shared = {<<None, x.lib>>}]
  /\ UNCHANGED <<library, account, member, revived>>

-----------------------------------------------------------------------------
(* Changing *)

Given(new, old) == IF new = None THEN old ELSE new

\* Mutated form of Drops: a deactivation is not checked.
DropsByRole(m, edit) == m.role = "admin" /\ edit.role \notin {None, "admin"}

\* A demotion or a deactivation of an admin asks for another one.
Drops(m, edit) ==
  m.role = "admin" /\ (edit.role \notin {None, "admin"} \/ edit.active = FALSE)

\* Role and activity go to both tables; without them only the profile is saved.
StartUpdate(r, u, l, edit) ==
  LET m == member[u][l]
      drops == Drops(m, edit)
  IN
  /\ account[u].home # None
  /\ m.status = "active"
  /\ Begin(r, "update",
       IF edit.role = None /\ edit.active = None
       THEN [Idle EXCEPT !.user = u, !.acc = account[u], !.pc = "saveAccount"]
       ELSE [Idle EXCEPT !.user = u, !.lib = l, !.checked = drops,
               !.pc = IF drops THEN "lock" ELSE "saveMember",
               !.acc = [account[u] EXCEPT !.role = Given(edit.role, @),
                                          !.active = Given(edit.active, @)],
               !.mem = [role |-> Given(edit.role, m.role),
                        status |-> IF edit.active = FALSE THEN "suspended" ELSE "active"]])

\* Choosing a library saves both rows as they were read.
StartSelect(r, u, l) ==
  /\ account[u].home # None
  /\ account[u].active
  /\ member[u][l].status = "active"
  /\ Begin(r, "select",
       [Idle EXCEPT !.pc = "saveMember", !.user = u, !.lib = l,
                    !.acc = account[u], !.mem = member[u][l]])

\* The membership alone: invite, accept, decline, update, remove, login
\* (module Memberships has them one by one).
StartPatch(r, u, l, mem) ==
  LET m == member[u][l]
      drops == ActiveAdmin(m) /\ ~ActiveAdmin(mem)
  IN
  /\ account[u].home # None
  /\ m.status = "absent" => mem.status = "invited" /\ l \in library
  /\ m.status = "revoked" => mem.status = "invited"
  /\ mem.status = "invited" => m.status \in {"absent", "invited", "revoked"}
  /\ Begin(r, "patch",
       [Idle EXCEPT !.pc = IF drops THEN "lock" ELSE "saveMember",
                    !.user = u, !.lib = l, !.mem = mem, !.checked = drops])

StartRename(r, l) ==
  /\ l \in library
  /\ Begin(r, "rename", [Idle EXCEPT !.pc = "saveLibrary", !.lib = l])

-----------------------------------------------------------------------------
(* Deleting *)

\* Only an account that was created in the library, and by the legacy role.
StartDeleteUser(r, u, l) ==
  LET drops == account[u].role = "admin" /\ account[u].active IN
  /\ account[u].home = l
  /\ Begin(r, "deleteUser",
       [Idle EXCEPT !.pc = IF drops THEN "lock" ELSE "sweep",
                    !.user = u, !.lib = l, !.checked = drops,
                    !.todo = IF drops THEN {} ELSE {<<u, None>>}])

StartDeleteLibrary(r, l) ==
  /\ l \in library
  /\ Begin(r, "deleteLibrary",
       [Idle EXCEPT !.pc = "sweep", !.lib = l, !.todo = {<<None, l>>}])

\* What DELETE still finds at k after its wait.
Taken(x, k) ==
  {j \in Family(k) :
     /\ Exists(j)
     /\ x.op = "deleteLibrary" /\ k[1] # None /\ k[2] = None => account[k[1]].home = x.lib}

Unreached(x, k) ==
  (x.todo \cup (IF k[1] = None THEN Dependents(k[2]) ELSE {})) \ ({k} \cup Taken(x, k))

\* Mutated form of Sweep: the accounts are listed without waiting for creations.
SweepWithoutWait(r, k) ==
  /\ req[r].pc = "sweep"
  /\ k \in req[r].todo
  /\ \A j \in Family(k) : ~LockedByOther(r, j)
  /\ req' = [req EXCEPT ![r].todo = Unreached(req[r], k),
                        ![r].doomed = @ \cup Taken(req[r], k)]
  /\ UNCHANGED <<library, account, member, revived>>

\* DELETE of a row, then of the rows that refer to it (ON DELETE CASCADE).
Sweep(r, k) ==
  /\ req[r].pc = "sweep"
  /\ k \in req[r].todo
  /\ \A j \in Family(k) : ~LockedByOther(r, j) /\ ~SharedByOther(r, j)
  /\ req' = [req EXCEPT ![r].todo = Unreached(req[r], k),
                        ![r].doomed = @ \cup Taken(req[r], k)]
  /\ UNCHANGED <<library, account, member, revived>>

-----------------------------------------------------------------------------
(* The two last-admin checks: lock_active_admins of users, of memberships *)

Candidates(x) ==
  IF x.op = "deleteUser"
  THEN {<<u, None>> : u \in {v \in Users : account[v].home = x.lib /\ account[v].active}}
  ELSE {<<u, x.lib>> : u \in {v \in Users : member[v][x.lib].status = "active"}}

BeginLock(r) ==
  /\ req[r].pc = "lock"
  /\ req' = [req EXCEPT ![r].pc = "locking", ![r].todo = Candidates(req[r])]
  /\ UNCHANGED <<library, account, member, revived>>

LockRow(r, k) ==
  /\ req[r].pc = "locking"
  /\ k \in req[r].todo
  /\ ~LockedByOther(r, k)
  /\ ~SharedByOther(r, k)
  /\ req' = [req EXCEPT ![r].todo = @ \ {k},
                        ![r].held = @ \cup (IF Exists(k) THEN {k} ELSE {})]
  /\ UNCHANGED <<library, account, member, revived>>

\* Mutated form of OtherAdminHeld: the accounts are counted before the wait.
OtherAdminAround(x) ==
  IF x.op = "deleteUser"
  THEN \E v \in Users \ {x.user} : account[v].home = x.lib /\ account[v].active
  ELSE \E v \in Users \ {x.user} : member[v][x.lib].status = "active"

OtherAdminHeld(x) ==
  IF x.op = "deleteUser"
  THEN \E v \in Users \ {x.user} :
         /\ <<v, None>> \in x.held
         /\ account[v].home = x.lib /\ account[v].role = "admin" /\ account[v].active
  ELSE \E v \in Users \ {x.user} :
         <<v, x.lib>> \in x.held /\ ActiveAdmin(member[v][x.lib])

\* Without another admin the request fails (LastAdminError).
CheckAdmin(r) ==
  LET x == req[r] IN
  /\ x.pc = "locking"
  /\ x.todo = {}
  /\ OtherAdminHeld(x)
  /\ req' = [req EXCEPT
       ![r].pc = CASE x.op = "deleteUser" -> "sweep"
                   [] x.op = "create" -> "done"
                   [] OTHER -> "saveMember",
       ![r].todo = IF x.op = "deleteUser" THEN {<<x.user, None>>} ELSE {}]
  /\ UNCHANGED <<library, account, member, revived>>

-----------------------------------------------------------------------------
(* save: the copy becomes the row, or is inserted when the row is gone *)

\* Mutated form of SaveMember: user_id is not a foreign key.
SaveMemberOfAnybody(r) ==
  LET x == req[r]
      k == <<x.user, x.lib>>
      parents == IF Exists(k) THEN {} ELSE {<<None, x.lib>>}
  IN
  /\ x.pc = "saveMember"
  /\ ~LockedByOther(r, k)
  /\ \A p \in parents : Exists(p) /\ ~BarredByOther(r, p)
  /\ req' = [req EXCEPT ![r].pc = IF x.op = "patch" THEN "done" ELSE "saveAccount",
                        ![r].wrote = @ \cup {k},
                        ![r].shared = @ \cup parents]
  /\ UNCHANGED <<library, account, member, revived>>

\* merge's second reading and the UPDATE are one step here. Inserting fails the
\* request when a parent is gone.
SaveMember(r) ==
  LET x == req[r]
      k == <<x.user, x.lib>>
      parents == IF Exists(k) THEN {} ELSE {<<x.user, None>>, <<None, x.lib>>}
  IN
  /\ x.pc = "saveMember"
  /\ ~LockedByOther(r, k)
  /\ \A p \in parents : Exists(p) /\ ~BarredByOther(r, p)
  /\ req' = [req EXCEPT ![r].pc = IF x.op = "patch" THEN "done" ELSE "saveAccount",
                        ![r].wrote = @ \cup {k},
                        ![r].shared = @ \cup parents]
  /\ UNCHANGED <<library, account, member, revived>>

SaveAccount(r) ==
  LET x == req[r]
      k == <<x.user, None>>
      parents == IF Exists(k) THEN {} ELSE {<<None, x.acc.home>>}
  IN
  /\ x.pc = "saveAccount"
  /\ ~LockedByOther(r, k)
  /\ \A p \in parents : Exists(p) /\ ~BarredByOther(r, p)
  /\ req' = [req EXCEPT ![r].pc = "done",
                        ![r].wrote = @ \cup {k},
                        ![r].shared = @ \cup parents]
  /\ UNCHANGED <<library, account, member, revived>>

SaveLibrary(r) ==
  LET k == <<None, req[r].lib>> IN
  /\ req[r].pc = "saveLibrary"
  /\ ~LockedByOther(r, k)
  /\ req' = [req EXCEPT ![r].pc = "done", ![r].wrote = @ \cup {k}]
  /\ UNCHANGED <<library, account, member, revived>>

-----------------------------------------------------------------------------
(* The end of a transaction; the specification *)

Commit(r) ==
  LET x == req[r] IN
  /\ \/ x.pc = "done"
     \/ x.pc = "sweep" /\ x.todo = {}
  /\ library' = (library \cup {l \in Libraries : <<None, l>> \in x.wrote})
                \ {l \in Libraries : <<None, l>> \in x.doomed}
  /\ account' = [u \in Users |->
       IF <<u, None>> \in x.doomed THEN NoAccount
       ELSE IF <<u, None>> \in x.wrote THEN x.acc ELSE account[u]]
  /\ member' = [u \in Users |-> [l \in Libraries |->
       IF <<u, l>> \in x.doomed THEN NoMember
       ELSE IF <<u, l>> \in x.wrote THEN x.mem ELSE member[u][l]]]
  /\ revived' = {u \in Users :
       /\ <<u, None>> \notin x.doomed
       /\ \/ u \in revived
          \/ /\ <<u, None>> \in x.wrote /\ account[u].home = None
             /\ x.op \notin {"register", "create"}}
  /\ Finish(r)

\* An error of the request itself (a refused check, a row that is gone), of the
\* mail server or the connection, a deadlock, a killed process.
Rollback(r) ==
  /\ req[r].pc # "idle"
  /\ Finish(r)
  /\ UNCHANGED <<library, account, member, revived>>

Start(r) ==
  \/ \E l \in Homes, u \in Users : StartRegister(r, l, u)
  \/ \E u \in Users, l \in Homes, role \in Roles :
       \/ StartCreate(r, u, l, role)
       \/ \E active \in BOOLEAN : StartImport(r, u, l, role, active)
  \/ \E u \in Users, l \in Libraries, edit \in Edits : StartUpdate(r, u, l, edit)
  \/ \E u \in Users, l \in Libraries : StartSelect(r, u, l)
  \/ \E u \in Users, l \in Libraries, mem \in Patches : StartPatch(r, u, l, mem)
  \/ \E l \in Libraries : StartRename(r, l)
  \/ \E u \in Users, l \in Libraries : StartDeleteUser(r, u, l)
  \/ \E l \in Libraries : StartDeleteLibrary(r, l)

Work(r) ==
  \/ Insert(r)
  \/ BeginLock(r)
  \/ \E k \in Rows : LockRow(r, k)
  \/ \E k \in Rows : Sweep(r, k)
  \/ CheckAdmin(r)
  \/ SaveMember(r)
  \/ SaveAccount(r)
  \/ SaveLibrary(r)
  \/ Commit(r)

Next == \E r \in Requests : Start(r) \/ Work(r) \/ Rollback(r)

Spec == Init /\ [][Next]_vars

\* The service before anybody is a member of a library other than their own.
HomeInit ==
  /\ Init
  /\ \A u \in Users, l \in Libraries : member[u][l] # NoMember => account[u].home = l

HomeSpec == HomeInit /\ [][Next]_vars

-----------------------------------------------------------------------------
(* Properties *)

\* Foreign keys hold among committed rows, whatever is created while a library
\* or an account is being deleted (ON DELETE CASCADE, library_model.py and
\* library_membership_model.py): no account without its library, no membership
\* without its account and library.
NoOrphans ==
  /\ \A u \in Users : account[u].home \in library \cup {None}
  /\ \A u \in Users, l \in Libraries :
       member[u][l].status # "absent" => account[u].home # None /\ l \in library

\* Every account has a membership, of whatever status, of the library it was created
\* in (CreateUserUseCase: without one every lookup "would 404"), unless a stale profile
\* save has inserted it again after its deletion.
HomeMembership ==
  \A u \in Users \ revived :
    account[u].home # None => member[u][account[u].home].status # "absent"

\* Where a transaction stands, what it is about and what it has written by then.
Shape(x) ==
  /\ x.pc = "idle" <=> x.op = "none"
  /\ x.pc = "idle" => x = Idle
  /\ x.pc = "insert" => x.op = "create"
  /\ x.pc \in {"lock", "locking"} => x.op \in {"create", "update", "patch", "deleteUser"}
  /\ x.pc = "saveMember" => x.op \in {"update", "select", "patch"}
  /\ x.pc = "saveAccount" => x.op \in {"update", "select"}
  /\ x.pc = "saveLibrary" => x.op = "rename"
  /\ x.pc = "sweep" => x.op \in {"deleteUser", "deleteLibrary"}
  /\ x.pc # "sweep" => x.doomed = {}
  /\ x.op \in {"deleteUser", "deleteLibrary"} =>
       x.pc # "done" /\ x.wrote = {} /\ x.shared = {}
  /\ x.op \in {"update", "select", "patch", "deleteUser"} => x.user # None
  /\ x.op \in {"rename", "deleteLibrary"} => x.lib # None /\ x.user = None
  /\ x.op \in {"update", "select"} => x.acc.home # None
  /\ x.acc.home # None => x.user # None
  /\ x.checked => x.lib # None /\ x.op # "deleteLibrary"
  /\ \/ x.op = "patch"
     \/ x.pc \in {"lock", "locking"} /\ x.op = "update"
     \/ x.pc = "saveMember"
     => x.lib # None /\ x.mem.status # "absent"
  /\ \A l \in Libraries : <<None, l>> \in x.wrote =>
       l = x.lib /\ x.op \in {"register", "rename"}
  /\ \A u \in Users : <<u, None>> \in x.wrote => u = x.user /\ x.acc.home # None
  /\ \A u \in Users, l \in Libraries : <<u, l>> \in x.wrote =>
       u = x.user /\ l = x.lib /\ x.mem.status # "absent"

\* A new account is written together with its membership; the copy of an account
\* agrees with the row on its library.
Copies(x) ==
  /\ x.op \in {"register", "create"} =>
       /\ x.user # None /\ x.acc.home = x.lib /\ x.mem.status # "absent"
       /\ account[x.user].home = None
       /\ x.pc # "insert" => {<<x.user, None>>, <<x.user, x.lib>>} \subseteq x.wrote
  /\ x.op = "register" => <<None, x.lib>> \in x.wrote /\ x.lib \notin library
  /\ x.acc.home # None => account[x.user].home \in {None, x.acc.home}

\* A written row replaces a committed one or has its parents secured.
Secured(x) ==
  /\ \A k \in x.held \cup x.doomed \cup x.shared : Exists(k)
  /\ \A u \in Users : <<u, None>> \in x.wrote =>
       Exists(<<u, None>>) \/ <<None, x.acc.home>> \in x.shared \cup x.wrote
  /\ \A u \in Users, l \in Libraries : <<u, l>> \in x.wrote =>
       \/ Exists(<<u, l>>)
       \/ {<<None, l>>, <<u, None>>} \subseteq x.shared \cup x.wrote

\* What a deletion has taken or still has on its list.
Closure(x) ==
  x.pc = "sweep" =>
    /\ x.op = "deleteUser" =>
         /\ x.todo \subseteq {<<x.user, None>>}
         /\ \A l \in Libraries : <<None, l>> \notin x.doomed
         /\ \A u \in Users : <<u, None>> \in x.doomed => u = x.user
    /\ x.op = "deleteLibrary" =>
         /\ \A k \in x.doomed \cup x.todo : k[1] = None => k[2] = x.lib
         /\ <<None, x.lib>> \in x.doomed => Dependents(x.lib) \subseteq x.doomed \cup x.todo
         /\ \A k \in x.doomed \cup x.todo : k[1] # None => <<None, x.lib>> \in x.doomed
         /\ \A k \in x.todo : k[2] \in {None, x.lib}
         /\ \A u \in Users : <<u, None>> \in x.doomed => account[u].home = x.lib
    /\ \A u \in Users : <<u, None>> \in x.doomed => Family(<<u, None>>) \subseteq x.doomed
    /\ \A u \in Users, l \in Libraries : <<u, l>> \in x.doomed =>
         <<u, None>> \in x.doomed \/ <<None, l>> \in x.doomed

\* The admin that a check has found stays locked.
Checked(x) ==
  x.checked /\ x.pc \notin {"insert", "lock", "locking"} => OtherAdminHeld(x)

Fits(x) == Shape(x) /\ Copies(x) /\ Secured(x) /\ Closure(x) /\ Checked(x)

\* No row is written by two transactions, no parent deleted under a new child, no
\* account claimed for two libraries; a new account is its creator's alone.
Compatible(x, y) ==
  /\ Locked(x) \cap Locked(y) = {}
  /\ x.doomed \cap y.shared = {}
  /\ x.op \in {"register", "create"} => y.user # x.user
  /\ x.user = y.user /\ x.acc.home # None /\ y.acc.home # None => x.acc.home = y.acc.home

\* The inductive invariant: together with the foreign keys, what every open
\* transaction may rely on at its commit.
AccountsInv ==
  /\ TypeOK
  /\ NoOrphans
  /\ \A r \in Requests : Fits(req[r])
  /\ \A r, q \in Requests : r # q => Compatible(req[r], req[q])

\* A request that passed a last-admin check leaves another admin by the notion
\* of that check: DeleteUser another active account with the legacy role,
\* UpdateUser and the membership operations another active admin membership.
CheckedLeavesAdmin ==
  [][\A r \in Requests :
       Commit(r) /\ req[r].checked =>
         IF req[r].op = "deleteUser"
         THEN \E v \in Users \ {req[r].user} :
                account'[v] = [home |-> req[r].lib, role |-> "admin", active |-> TRUE]
         ELSE \E v \in Users \ {req[r].user} : ActiveAdmin(member'[v][req[r].lib])]_vars

\* An account that a stale save inserts again after its deletion comes back without
\* a membership: whatever changes a role or selects a library saves the membership
\* first, and that fails with the account gone.
RevivedWithoutMembership ==
  [][\A u \in revived' \ revived, l \in Libraries : member'[u][l].status = "absent"]_vars

\* A deletion takes whole libraries and whole accounts, nothing is left behind and
\* nothing else goes (DeleteLibraryUseCase: "via DB cascade, every one of its users").
Tenants == INSTANCE Tenancy WITH
  open <- library, home <- [u \in Users |-> account[u].home]

TenancySpec == Tenants!Spec
=============================================================================
