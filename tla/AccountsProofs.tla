--------------------------- MODULE AccountsProofs ---------------------------
(* Theorems of Accounts, for every number of libraries, accounts and open  *)
(* transactions, and for every choice of the operations.                   *)
EXTENDS Accounts, TLAPS

LEMMA NoneApart == None \notin Users /\ None \notin Libraries
BY AccountsAssumption DEF AccountsAssumption

USE NoneApart

\* The fields of an open transaction, and of rows.
LEMMA Fields ==
  ASSUME NEW x \in Transaction
  PROVE  /\ x.op \in AllOps \cup {"none"} /\ x.pc \in Steps
         /\ x.user \in Users \cup {None} /\ x.lib \in Libraries \cup {None}
         /\ x.acc \in Account /\ x.mem \in Membership /\ x.checked \in BOOLEAN
         /\ x.todo \in SUBSET Rows /\ x.held \in SUBSET Rows /\ x.wrote \in SUBSET Rows
         /\ x.doomed \in SUBSET Rows /\ x.shared \in SUBSET Rows
BY DEF Transaction

LEMMA NoRows == NoAccount \in Account /\ NoMember \in Membership
BY DEF NoAccount, NoMember, Account, Membership, AllRoles, Statuses

LEMMA IdleTransaction == Idle \in Transaction
BY NoRows DEF Idle, Transaction, Steps

LEMMA RowParts ==
  /\ \A k \in Rows : /\ k = <<k[1], k[2]>>
                     /\ k[1] \in Users \cup {None} /\ k[2] \in Libraries \cup {None}
  /\ \A u \in Users \cup {None}, l \in Libraries \cup {None} : <<u, l>> \in Rows
BY DEF Rows

LEMMA FamilyRows ==
  ASSUME NEW k \in Rows
  PROVE  Family(k) \subseteq Rows
BY RowParts DEF Family

LEMMA DependentRows ==
  ASSUME NEW l \in Libraries
  PROVE  Dependents(l) \subseteq Rows
BY RowParts DEF Dependents

\* An idle slot is compatible with every open transaction.
LEMMA IdleFits ==
  /\ Fits(Idle)
  /\ \A y \in Transaction : Fits(y) => Compatible(Idle, y) /\ Compatible(y, Idle)
<1>1. Fits(Idle)
  BY DEF Fits, Shape, Copies, Secured, Closure, Checked, Idle, NoAccount
<1>2. ASSUME NEW y \in Transaction, Fits(y)
      PROVE  Compatible(Idle, y) /\ Compatible(y, Idle)
  BY <1>2 DEF Compatible, Locked, Idle, NoAccount, Fits, Copies
<1> QED BY <1>1, <1>2

LEMMA InitAccounts == Init => AccountsInv
<1> SUFFICES ASSUME Init PROVE AccountsInv
  OBVIOUS
<1>1. TypeOK
  <2> Roles \subseteq AllRoles
    BY AccountsAssumption DEF AccountsAssumption
  <2>1. account \in [Users -> Account]
    <3>1. [home : library \cap Homes, role : Roles, active : {TRUE}] \subseteq Account
      BY DEF Init, Account
    <3>2. {NoAccount} \cup [home : library \cap Homes, role : Roles, active : {TRUE}]
            \subseteq Account
      BY <3>1, NoRows
    <3> QED BY <3>2, Zenon DEF Init
  <2>2. member \in [Users -> [Libraries -> Membership]]
    <3>1. {NoMember} \cup [role : Roles, status : {"active"}] \subseteq Membership
      BY NoRows DEF Membership, Statuses
    <3> QED BY <3>1 DEF Init
  <2> QED BY <2>1, <2>2, IdleTransaction DEF Init, TypeOK
<1>2. NoOrphans
  <2>1. ASSUME NEW u \in Users
        PROVE  account[u].home \in library \cup {None}
    <3>1. account[u] \in {NoAccount} \cup
                          [home : library \cap Homes, role : Roles, active : {TRUE}]
      BY Zenon DEF Init
    <3>2. NoAccount.home = None
      BY DEF NoAccount
    <3>3. \A a \in [home : library \cap Homes, role : Roles, active : {TRUE}] :
            a.home \in library
      OBVIOUS
    <3> QED BY <3>1, <3>2, <3>3
  <2>2. ASSUME NEW u \in Users, NEW l \in Libraries, member[u][l].status # "absent"
        PROVE  account[u].home # None /\ l \in library
    <3>1. member[u][l] # NoMember
      BY <2>2 DEF NoMember
    <3> QED BY <3>1 DEF Init
  <2> QED BY <2>1, <2>2 DEF NoOrphans
<1>3. \A r \in Requests : req[r] = Idle
  BY DEF Init
<1> QED BY <1>1, <1>2, <1>3, IdleFits, IdleTransaction DEF AccountsInv

\* While the rows stay, a transaction that fits them fits them after the step.
LEMMA FitsNext ==
  ASSUME UNCHANGED <<library, account, member>>, NEW q \in Requests, Fits(req'[q])
  PROVE  Fits(req[q])'
<1>1. Shape(req[q])' /\ Copies(req[q])'
  BY DEF Fits, Shape, Copies
<1>2. Secured(req[q])'
  BY DEF Fits, Secured, Exists
<1>3. Closure(req[q])'
  <2>1. \A k : Family(k)' = Family(k)
    BY DEF Family
  <2>2. \A l : Dependents(l)' = Dependents(l)
    BY DEF Dependents
  <2> QED BY <2>1, <2>2 DEF Fits, Closure
<1>4. Checked(req[q])'
  BY DEF Fits, Checked, OtherAdminHeld, ActiveAdmin
<1> QED BY <1>1, <1>2, <1>3, <1>4 DEF Fits

\* A step that replaces one slot and commits nothing keeps the invariant when the
\* new transaction fits the rows and the other transactions.
LEMMA SlotStep ==
  ASSUME AccountsInv, NEW r \in Requests, NEW x \in Transaction,
         req' = [req EXCEPT ![r] = x],
         UNCHANGED <<library, account, member, revived>>,
         Fits(x),
         \A q \in Requests \ {r} : Compatible(x, req[q]) /\ Compatible(req[q], x)
  PROVE  AccountsInv'
<1>1. TypeOK' /\ NoOrphans'
  BY DEF AccountsInv, TypeOK, NoOrphans
<1>2. \A q \in Requests : req'[q] = IF q = r THEN x ELSE req[q]
  BY DEF AccountsInv, TypeOK
<1>3. \A q \in Requests : Fits(req[q])'
  BY <1>2, FitsNext DEF AccountsInv
<1>4. ASSUME NEW p \in Requests, NEW q \in Requests, p # q
      PROVE  Compatible(req[p], req[q])'
  <2>1. Compatible(req'[p], req'[q])
    BY <1>2, <1>4 DEF AccountsInv
  <2> QED BY <2>1 DEF Compatible, Locked
<1> QED BY <1>1, <1>3, <1>4 DEF AccountsInv

-----------------------------------------------------------------------------
\* A transaction about a committed account, or about none, that has not locked or
\* written a row is compatible with every other one.
LEMMA OpenStep ==
  ASSUME AccountsInv, NEW r \in Requests, NEW x \in Transaction,
         req' = [req EXCEPT ![r] = x],
         UNCHANGED <<library, account, member, revived>>,
         Fits(x), Locked(x) = {}, x.shared = {}, x.doomed = {},
         x.op \notin {"register", "create"},
         x.user # None => account[x.user].home # None,
         x.acc.home # None => x.user # None
  PROVE  AccountsInv'
<1> SUFFICES ASSUME NEW q \in Requests \ {r}
             PROVE  Compatible(x, req[q]) /\ Compatible(req[q], x)
  BY SlotStep
<1> DEFINE y == req[q]
<1>1. Fits(y) /\ y \in Transaction
  BY DEF AccountsInv, TypeOK
<1>2. y.op \in {"register", "create"} => x.user # y.user
  BY <1>1 DEF Fits, Copies
<1>3. x.user = y.user /\ x.acc.home # None /\ y.acc.home # None => x.acc.home = y.acc.home
  BY <1>1 DEF Fits, Copies
<1> QED BY <1>2, <1>3 DEF Compatible

LEMMA NothingYet ==
  ASSUME NEW x \in Transaction,
         x.held = {}, x.wrote = {}, x.doomed = {}, x.shared = {},
         \/ x.op = "create" /\ x.pc = "insert"
         \/ x.op = "update" /\ x.pc \in {"lock", "saveMember"}
         \/ x.op = "update" /\ x.pc = "saveAccount"
         \/ x.op = "select" /\ x.pc = "saveMember"
         \/ x.op = "patch" /\ x.pc \in {"lock", "saveMember"}
         \/ x.op = "rename" /\ x.pc = "saveLibrary"
         \/ x.op = "deleteUser" /\ x.pc = "lock"
         \/ x.op = "deleteUser" /\ x.pc = "sweep" /\ x.todo = {<<x.user, None>>}
         \/ x.op = "deleteLibrary" /\ x.pc = "sweep" /\ x.todo = {<<None, x.lib>>},
         x.op \in {"update", "select", "patch", "deleteUser"} => x.user # None,
         x.op \in {"rename", "deleteLibrary"} => x.lib # None /\ x.user = None,
         x.op \in {"update", "select"} => x.acc.home # None,
         x.acc.home # None => x.user # None,
         x.pc \in {"lock", "saveMember"} /\ x.op # "deleteUser" =>
           x.lib # None /\ x.mem.status # "absent",
         x.checked => x.pc \in {"insert", "lock"} /\ x.lib # None /\ x.op # "deleteLibrary",
         Copies(x)
  PROVE  Fits(x) /\ Locked(x) = {}
<1>1. Shape(x)
  BY DEF Shape
<1>2. Secured(x) /\ Checked(x)
  BY DEF Secured, Checked
<1>3. Closure(x)
  BY DEF Closure
<1> QED BY <1>1, <1>2, <1>3 DEF Fits, Locked

LEMMA StartUpdateStep ==
  ASSUME AccountsInv, NEW r \in Requests, NEW u \in Users, NEW l \in Libraries,
         NEW edit \in Edits, StartUpdate(r, u, l, edit)
  PROVE  AccountsInv'
<1> DEFINE m == member[u][l]
           drops == Drops(m, edit)
           x == [Idle EXCEPT !.user = u, !.acc = account[u], !.pc = "saveAccount",
                             !.op = "update"]
           y == [Idle EXCEPT !.user = u, !.lib = l, !.checked = drops,
                   !.pc = IF drops THEN "lock" ELSE "saveMember",
                   !.acc = [account[u] EXCEPT !.role = Given(edit.role, @),
                                              !.active = Given(edit.active, @)],
                   !.mem = [role |-> Given(edit.role, m.role),
                            status |-> IF edit.active = FALSE THEN "suspended" ELSE "active"],
                   !.op = "update"]
<1>1. account[u] \in Account /\ m \in Membership /\ account[u].home # None
  BY DEF AccountsInv, TypeOK, StartUpdate
<1>2. edit \in AllEdits
  BY AccountsAssumption DEF AccountsAssumption
<1>3. drops \in BOOLEAN
  BY DEF Drops
<1>4. CASE edit.role = None /\ edit.active = None
  <2>1. req' = [req EXCEPT ![r] = x] /\ UNCHANGED <<library, account, member, revived>>
    BY <1>4 DEF StartUpdate, Begin, Idle
  <2>2. x \in Transaction
    BY <1>1, IdleTransaction DEF Transaction, AllOps, Steps
  <2>3. Copies(x)
    BY DEF Copies, Idle
  <2>4. Fits(x) /\ Locked(x) = {}
    BY <1>1, <2>2, <2>3, NothingYet DEF Idle
  <2> QED BY <1>1, <2>1, <2>2, <2>4, OpenStep DEF Idle
<1>5. CASE ~(edit.role = None /\ edit.active = None)
  <2>1. req' = [req EXCEPT ![r] = y] /\ UNCHANGED <<library, account, member, revived>>
    BY <1>5 DEF StartUpdate, Begin, Idle
  <2>2. y \in Transaction
    <3>1. edit.role \in AllRoles \cup {None} /\ edit.active \in BOOLEAN \cup {None}
      BY <1>2 DEF AllEdits
    <3>2. Given(edit.active, account[u].active) \in BOOLEAN
      <4>1. account[u].active \in BOOLEAN
        BY <1>1 DEF Account
      <4> QED BY <3>1, <4>1, Zenon DEF Given
    <3>3. Given(edit.role, account[u].role) \in AllRoles /\ Given(edit.role, m.role) \in AllRoles
      BY <1>1, <3>1 DEF Given, Account, Membership
    <3>4. y.acc \in Account
      BY <1>1, <3>2, <3>3 DEF Account, Idle
    <3>5. y.mem \in Membership
      BY <3>3 DEF Membership, Statuses, Idle
    <3> HIDE DEF m, drops
    <3> QED BY ZenonT(60), <1>3, <3>4, <3>5, IdleTransaction DEF Transaction, AllOps, Steps, Idle
  <2>3. y.acc.home = account[u].home
    BY <1>1 DEF Account, Idle
  <2>4. Copies(y)
    BY <2>3 DEF Copies, Idle
  <2>5. /\ y.op = "update" /\ y.user = u /\ y.lib = l /\ y.mem.status # "absent"
        /\ y.held = {} /\ y.wrote = {} /\ y.doomed = {} /\ y.shared = {}
        /\ y.checked = drops /\ y.pc = IF drops THEN "lock" ELSE "saveMember"
    BY DEF Idle
  <2>6. Fits(y) /\ Locked(y) = {}
    <3> HIDE DEF y, m, drops
    <3> QED BY <1>1, <1>3, <2>2, <2>3, <2>4, <2>5, NothingYet
  <2> HIDE DEF y
  <2> QED BY <1>1, <2>1, <2>2, <2>5, <2>6, OpenStep
<1> QED BY <1>4, <1>5

LEMMA StartSelectStep ==
  ASSUME AccountsInv, NEW r \in Requests, NEW u \in Users, NEW l \in Libraries,
         StartSelect(r, u, l)
  PROVE  AccountsInv'
<1> DEFINE x == [Idle EXCEPT !.pc = "saveMember", !.user = u, !.lib = l,
                             !.acc = account[u], !.mem = member[u][l], !.op = "select"]
<1>1. /\ account[u] \in Account /\ member[u][l] \in Membership
      /\ account[u].home # None /\ member[u][l].status # "absent"
  BY DEF AccountsInv, TypeOK, StartSelect
<1>2. req' = [req EXCEPT ![r] = x] /\ UNCHANGED <<library, account, member, revived>>
  BY DEF StartSelect, Begin, Idle
<1>3. x \in Transaction
  BY <1>1, IdleTransaction DEF Transaction, AllOps, Steps
<1>4. /\ x.op = "select" /\ x.user = u /\ x.lib = l /\ x.pc = "saveMember"
      /\ x.acc = account[u] /\ x.mem = member[u][l] /\ x.checked = FALSE
      /\ x.held = {} /\ x.wrote = {} /\ x.doomed = {} /\ x.shared = {}
  BY DEF Idle
<1> HIDE DEF x
<1>5. Copies(x)
  BY <1>4 DEF Copies
<1>6. Fits(x) /\ Locked(x) = {}
  BY <1>1, <1>3, <1>4, <1>5, NothingYet
<1> QED BY <1>1, <1>2, <1>3, <1>4, <1>6, OpenStep

LEMMA StartPatchStep ==
  ASSUME AccountsInv, NEW r \in Requests, NEW u \in Users, NEW l \in Libraries,
         NEW mem \in Patches, StartPatch(r, u, l, mem)
  PROVE  AccountsInv'
<1> DEFINE drops == ActiveAdmin(member[u][l]) /\ ~ActiveAdmin(mem)
           x == [Idle EXCEPT !.pc = IF drops THEN "lock" ELSE "saveMember",
                             !.user = u, !.lib = l, !.mem = mem, !.checked = drops,
                             !.op = "patch"]
<1>1. mem \in Membership /\ mem.status # "absent" /\ account[u].home # None
  BY AccountsAssumption DEF AccountsAssumption, StartPatch
<1>2. req' = [req EXCEPT ![r] = x] /\ UNCHANGED <<library, account, member, revived>>
  BY DEF StartPatch, Begin, Idle
<1>3. drops \in BOOLEAN
  OBVIOUS
<1> HIDE DEF drops
<1>4. x \in Transaction
  BY <1>1, <1>3, IdleTransaction DEF Transaction, AllOps, Steps
<1>5. /\ x.op = "patch" /\ x.user = u /\ x.lib = l /\ x.acc.home = None /\ x.mem = mem
      /\ x.pc = (IF drops THEN "lock" ELSE "saveMember") /\ x.checked = drops
      /\ x.held = {} /\ x.wrote = {} /\ x.doomed = {} /\ x.shared = {}
  BY DEF Idle, NoAccount
<1> HIDE DEF x
<1>6. Copies(x)
  BY <1>5 DEF Copies
<1>7. Fits(x) /\ Locked(x) = {}
  BY <1>1, <1>3, <1>4, <1>5, <1>6, NothingYet
<1> QED BY <1>1, <1>2, <1>4, <1>5, <1>7, OpenStep

LEMMA StartRenameStep ==
  ASSUME AccountsInv, NEW r \in Requests, NEW l \in Libraries, StartRename(r, l)
  PROVE  AccountsInv'
<1> DEFINE x == [Idle EXCEPT !.pc = "saveLibrary", !.lib = l, !.op = "rename"]
<1>1. req' = [req EXCEPT ![r] = x] /\ UNCHANGED <<library, account, member, revived>>
  BY DEF StartRename, Begin, Idle
<1>2. x \in Transaction
  BY IdleTransaction DEF Transaction, AllOps, Steps
<1>3. /\ x.op = "rename" /\ x.lib = l /\ x.user = None /\ x.acc.home = None /\ x.pc = "saveLibrary"
      /\ x.checked = FALSE
      /\ x.held = {} /\ x.wrote = {} /\ x.doomed = {} /\ x.shared = {}
  BY DEF Idle, NoAccount
<1> HIDE DEF x
<1>4. Copies(x)
  BY <1>3 DEF Copies
<1>5. Fits(x) /\ Locked(x) = {}
  BY <1>2, <1>3, <1>4, NothingYet
<1> QED BY <1>1, <1>2, <1>3, <1>5, OpenStep

LEMMA StartDeleteLibraryStep ==
  ASSUME AccountsInv, NEW r \in Requests, NEW l \in Libraries, StartDeleteLibrary(r, l)
  PROVE  AccountsInv'
<1> DEFINE x == [Idle EXCEPT !.pc = "sweep", !.lib = l, !.todo = {<<None, l>>},
                             !.op = "deleteLibrary"]
<1>1. req' = [req EXCEPT ![r] = x] /\ UNCHANGED <<library, account, member, revived>>
  BY DEF StartDeleteLibrary, Begin, Idle
<1>2. x \in Transaction
  <2>1. {<<None, l>>} \in SUBSET Rows
    BY RowParts
  <2> QED BY <2>1, IdleTransaction DEF Transaction, AllOps, Steps
<1>3. /\ x.op = "deleteLibrary" /\ x.user = None /\ x.acc.home = None /\ x.pc = "sweep"
      /\ x.checked = FALSE /\ x.lib = l /\ x.todo = {<<None, l>>}
      /\ x.held = {} /\ x.wrote = {} /\ x.doomed = {} /\ x.shared = {}
  BY DEF Idle, NoAccount
<1> HIDE DEF x
<1>4. Copies(x)
  BY <1>3 DEF Copies
<1>5. Fits(x) /\ Locked(x) = {}
  BY <1>2, <1>3, <1>4, NothingYet
<1> QED BY <1>1, <1>2, <1>3, <1>5, OpenStep

LEMMA StartDeleteUserStep ==
  ASSUME AccountsInv, NEW r \in Requests, NEW u \in Users, NEW l \in Libraries,
         StartDeleteUser(r, u, l)
  PROVE  AccountsInv'
<1> DEFINE drops == account[u].role = "admin" /\ account[u].active
           x == [Idle EXCEPT !.pc = IF drops THEN "lock" ELSE "sweep",
                             !.user = u, !.lib = l, !.checked = drops,
                             !.todo = IF drops THEN {} ELSE {<<u, None>>},
                             !.op = "deleteUser"]
<1>1. account[u].home # None
  BY DEF StartDeleteUser
<1>2. req' = [req EXCEPT ![r] = x] /\ UNCHANGED <<library, account, member, revived>>
  BY DEF StartDeleteUser, Begin, Idle
<1>3. drops \in BOOLEAN
  BY DEF AccountsInv, TypeOK, Account
<1> HIDE DEF drops
<1>4. x \in Transaction
  <2>1. (IF drops THEN {} ELSE {<<u, None>>}) \in SUBSET Rows
    BY RowParts
  <2> QED BY <1>3, <2>1, IdleTransaction DEF Transaction, AllOps, Steps
<1>5. /\ x.op = "deleteUser" /\ x.user = u /\ x.lib = l /\ x.acc.home = None /\ x.checked = drops
      /\ x.pc = (IF drops THEN "lock" ELSE "sweep")
      /\ x.todo = (IF drops THEN {} ELSE {<<u, None>>})
      /\ x.held = {} /\ x.wrote = {} /\ x.doomed = {} /\ x.shared = {}
  BY DEF Idle, NoAccount
<1> HIDE DEF x
<1>6. Copies(x)
  BY <1>5 DEF Copies
<1>7. Fits(x) /\ Locked(x) = {}
  BY <1>3, <1>4, <1>5, <1>6, NothingYet
<1> QED BY <1>1, <1>2, <1>4, <1>5, <1>7, OpenStep

\* No other transaction has touched the rows of an account that does not exist and
\* that it is not about.
LEMMA FreshRows ==
  ASSUME AccountsInv, NEW q \in Requests, NEW u \in Users,
         account[u].home = None, req[q].user # u
  PROVE  \A l \in Libraries \cup {None} : <<u, l>> \notin Locked(req[q])
<1> SUFFICES ASSUME NEW l \in Libraries \cup {None} PROVE <<u, l>> \notin Locked(req[q])
  OBVIOUS
<1>1. ~Exists(<<u, l>>)
  BY DEF AccountsInv, NoOrphans, Exists
<1>2. <<u, l>> \notin req[q].wrote
  BY DEF AccountsInv, Fits, Shape
<1>3. <<u, l>> \notin req[q].held \cup req[q].doomed
  BY <1>1 DEF AccountsInv, Fits, Secured
<1> QED BY <1>2, <1>3 DEF Locked

LEMMA CreateStep ==
  ASSUME AccountsInv, NEW r \in Requests, NEW u \in Users, NEW l \in Libraries,
         NEW role \in Roles, NEW active \in BOOLEAN, Create(r, u, l, role, active)
  PROVE  AccountsInv'
<1> DEFINE x == [Idle EXCEPT
                   !.pc = "insert", !.user = u, !.lib = l,
                   !.acc = [home |-> l, role |-> role, active |-> active],
                   !.mem = [role |-> role,
                            status |-> IF active THEN "active" ELSE "suspended"],
                   !.checked = role = "admin" /\ ~active, !.op = "create"]
<1>1. req' = [req EXCEPT ![r] = x] /\ UNCHANGED <<library, account, member, revived>>
  BY DEF Create, Begin, Idle
<1>2. x \in Transaction
  <2>1. role \in AllRoles
    BY AccountsAssumption DEF AccountsAssumption
  <2>2. [home |-> l, role |-> role, active |-> active] \in Account
    BY <2>1 DEF Account
  <2>3. [role |-> role, status |-> IF active THEN "active" ELSE "suspended"] \in Membership
    BY <2>1 DEF Membership, Statuses
  <2> QED BY ZenonT(60), <2>2, <2>3, IdleTransaction DEF Transaction, AllOps, Steps
<1>3. /\ x.op = "create" /\ x.user = u /\ x.lib = l /\ x.acc.home = l
      /\ x.mem.status # "absent" /\ x.pc = "insert"
      /\ x.held = {} /\ x.wrote = {} /\ x.doomed = {} /\ x.shared = {}
  BY DEF Idle
<1>4. account[u].home = None /\ \A q \in Requests : req[q].user # u
  BY DEF Create, FreshUser
<1> HIDE DEF x
<1>5. Copies(x)
  BY <1>3, <1>4 DEF Copies
<1>6. Fits(x) /\ Locked(x) = {}
  BY <1>2, <1>3, <1>5, NothingYet
<1>7. \A q \in Requests : Compatible(x, req[q]) /\ Compatible(req[q], x)
  BY <1>3, <1>4, <1>6 DEF Compatible
<1> QED BY <1>1, <1>2, <1>6, <1>7, SlotStep

LEMMA StartRegisterStep ==
  ASSUME AccountsInv, NEW r \in Requests, NEW u \in Users, NEW l \in Libraries,
         StartRegister(r, l, u)
  PROVE  AccountsInv'
<1> DEFINE x == [Idle EXCEPT
                   !.pc = "done", !.user = u, !.lib = l,
                   !.acc = [home |-> l, role |-> "admin", active |-> TRUE],
                   !.mem = [role |-> "admin", status |-> "active"],
                   !.wrote = {<<None, l>>, <<u, None>>, <<u, l>>}, !.op = "register"]
<1>1. req' = [req EXCEPT ![r] = x] /\ UNCHANGED <<library, account, member, revived>>
  BY DEF StartRegister, Begin, Idle
<1>2. x \in Transaction
  <2>1. {<<None, l>>, <<u, None>>, <<u, l>>} \in SUBSET Rows
    BY RowParts
  <2>2. [home |-> l, role |-> "admin", active |-> TRUE] \in Account
    BY DEF Account, AllRoles
  <2>3. [role |-> "admin", status |-> "active"] \in Membership
    BY DEF Membership, Statuses, AllRoles
  <2> QED BY <2>1, <2>2, <2>3, IdleTransaction DEF Transaction, AllOps, Steps
<1>3. /\ x.op = "register" /\ x.user = u /\ x.lib = l /\ x.acc.home = l
      /\ x.mem.status # "absent" /\ x.pc = "done" /\ x.checked = FALSE
      /\ x.wrote = {<<None, l>>, <<u, None>>, <<u, l>>}
      /\ x.held = {} /\ x.doomed = {} /\ x.shared = {}
  BY DEF Idle
<1>4. /\ account[u].home = None /\ \A q \in Requests : req[q].user # u
      /\ l \notin library /\ \A q \in Requests : req[q].lib # l
  BY DEF StartRegister, FreshUser, FreshLibrary
<1> HIDE DEF x
<1>5. Fits(x)
  <2>1. Shape(x)
    BY <1>3 DEF Shape
  <2>2. Copies(x)
    BY <1>3, <1>4 DEF Copies
  <2>3. Secured(x) /\ Closure(x) /\ Checked(x)
    BY <1>3 DEF Secured, Closure, Checked
  <2> QED BY <2>1, <2>2, <2>3 DEF Fits
<1>6. ASSUME NEW q \in Requests
      PROVE  Compatible(x, req[q]) /\ Compatible(req[q], x)
  <2>1. <<u, None>> \notin Locked(req[q]) /\ <<u, l>> \notin Locked(req[q])
    BY <1>4, FreshRows
  <2>2. <<None, l>> \notin Locked(req[q])
    <3>1. ~Exists(<<None, l>>)
      BY <1>4 DEF Exists
    <3>2. <<None, l>> \notin req[q].wrote
      BY <1>4 DEF AccountsInv, Fits, Shape
    <3> QED BY <3>1, <3>2 DEF AccountsInv, Fits, Secured, Locked
  <2>3. Locked(x) = {<<None, l>>, <<u, None>>, <<u, l>>}
    BY <1>3 DEF Locked
  <2> QED BY <1>3, <1>4, <2>1, <2>2, <2>3 DEF Compatible
<1> QED BY <1>1, <1>2, <1>5, <1>6, SlotStep

-----------------------------------------------------------------------------
\* What is known of the open transactions besides the one that steps.
LEMMA Around ==
  ASSUME AccountsInv, NEW r \in Requests
  PROVE  /\ req[r] \in Transaction /\ Fits(req[r])
         /\ \A q \in Requests \ {r} :
              Fits(req[q]) /\ Compatible(req[r], req[q]) /\ Compatible(req[q], req[r])
BY DEF AccountsInv, TypeOK

LEMMA InsertStep ==
  ASSUME AccountsInv, NEW r \in Requests, Insert(r)
  PROVE  AccountsInv'
<1> DEFINE x == req[r]
           y == [x EXCEPT !.pc = IF x.checked THEN "lock" ELSE "done",
                          !.wrote = {<<x.user, None>>, <<x.user, x.lib>>},
                          !.shared = {<<None, x.lib>>}]
<1>1. x \in Transaction /\ Fits(x) /\ x.pc = "insert" /\ x.op = "create"
  BY Around DEF Insert, Fits, Shape
<1>2. x.user \in Users /\ x.lib \in library /\ x.lib \in Libraries
  BY <1>1, Fields DEF Fits, Copies, Insert, AccountsInv, TypeOK
<1>3. y \in Transaction
  <2>1. /\ {<<x.user, None>>, <<x.user, x.lib>>} \in SUBSET Rows
        /\ {<<None, x.lib>>} \in SUBSET Rows
    BY <1>2, RowParts
  <2> QED BY <1>1, <2>1 DEF Transaction, Steps
<1>4. req' = [req EXCEPT ![r] = y] /\ UNCHANGED <<library, account, member, revived>>
  BY DEF Insert, AccountsInv, TypeOK
<1>5. /\ y.op = "create" /\ y.user = x.user /\ y.lib = x.lib /\ y.acc = x.acc
      /\ y.mem = x.mem /\ y.pc \in {"lock", "done"} /\ y.checked = x.checked
      /\ y.pc = "done" => ~y.checked
      /\ y.wrote = {<<x.user, None>>, <<x.user, x.lib>>} /\ y.shared = {<<None, x.lib>>}
      /\ y.held = x.held /\ y.doomed = {}
  BY <1>1 DEF Transaction, Fits, Shape
<1> HIDE DEF y
<1>6. Fits(y)
  <2>1. Shape(y)
    BY <1>1, <1>2, <1>5 DEF Fits, Shape, Copies
  <2>2. Copies(y)
    BY <1>1, <1>5 DEF Fits, Copies
  <2>3. Secured(y)
    BY <1>1, <1>2, <1>5 DEF Fits, Copies, Secured, Exists
  <2>4. Closure(y) /\ Checked(y)
    BY <1>5 DEF Closure, Checked
  <2> QED BY <2>1, <2>2, <2>3, <2>4 DEF Fits
<1>7. ASSUME NEW q \in Requests \ {r}
      PROVE  Compatible(y, req[q]) /\ Compatible(req[q], y)
  <2>1. Compatible(x, req[q]) /\ Compatible(req[q], x)
    BY Around
  <2>2. account[x.user].home = None /\ req[q].user # x.user
    BY <1>1, <2>1 DEF Fits, Copies, Compatible
  <2>3. <<x.user, None>> \notin Locked(req[q]) /\ <<x.user, x.lib>> \notin Locked(req[q])
    BY <1>2, <2>2, FreshRows
  <2>4. <<None, x.lib>> \notin req[q].doomed
    BY DEF Insert, BarredByOther
  <2> QED BY <1>1, <1>5, <2>1, <2>3, <2>4 DEF Compatible, Locked
<1> QED BY <1>3, <1>4, <1>6, <1>7, SlotStep

LEMMA BeginLockStep ==
  ASSUME AccountsInv, NEW r \in Requests, BeginLock(r)
  PROVE  AccountsInv'
<1> DEFINE x == req[r]
           y == [x EXCEPT !.pc = "locking", !.todo = Candidates(x)]
<1>1. x \in Transaction /\ Fits(x) /\ x.pc = "lock"
  BY Around DEF BeginLock
<1>2. Candidates(x) \in SUBSET Rows
  BY <1>1, RowParts, Fields DEF Candidates
<1>3. y \in Transaction
  BY <1>1, <1>2 DEF Transaction, Steps
<1>4. req' = [req EXCEPT ![r] = y] /\ UNCHANGED <<library, account, member, revived>>
  BY DEF BeginLock, AccountsInv, TypeOK
<1>5. /\ y.op = x.op /\ y.user = x.user /\ y.lib = x.lib /\ y.acc = x.acc
      /\ y.mem = x.mem /\ y.pc = "locking" /\ y.checked = x.checked
      /\ y.wrote = x.wrote /\ y.shared = x.shared /\ y.held = x.held /\ y.doomed = x.doomed
  BY <1>1 DEF Transaction
<1> HIDE DEF y
<1>6. Fits(y)
  <2>1. Shape(y)
    BY <1>1, <1>5 DEF Fits, Shape
  <2>2. Copies(y)
    BY <1>1, <1>5 DEF Fits, Copies
  <2>3. Secured(y) /\ Closure(y) /\ Checked(y)
    BY <1>1, <1>5 DEF Fits, Secured, Closure, Checked
  <2> QED BY <2>1, <2>2, <2>3 DEF Fits
<1>7. ASSUME NEW q \in Requests \ {r}
      PROVE  Compatible(y, req[q]) /\ Compatible(req[q], y)
  BY <1>5, Around DEF Compatible, Locked
<1> QED BY <1>3, <1>4, <1>6, <1>7, SlotStep

LEMMA LockRowStep ==
  ASSUME AccountsInv, NEW r \in Requests, NEW k \in Rows, LockRow(r, k)
  PROVE  AccountsInv'
<1> DEFINE x == req[r]
           more == IF Exists(k) THEN {k} ELSE {}
           y == [x EXCEPT !.todo = @ \ {k}, !.held = @ \cup more]
<1>1. x \in Transaction /\ Fits(x) /\ x.pc = "locking"
  BY Around DEF LockRow
<1>2. more \in SUBSET Rows /\ \A j \in more : j = k /\ Exists(k)
  OBVIOUS
<1>3. y \in Transaction
  BY <1>1, <1>2 DEF Transaction
<1>4. req' = [req EXCEPT ![r] = y] /\ UNCHANGED <<library, account, member, revived>>
  BY DEF LockRow, AccountsInv, TypeOK
<1>5. /\ y.op = x.op /\ y.user = x.user /\ y.lib = x.lib /\ y.acc = x.acc
      /\ y.mem = x.mem /\ y.pc = "locking" /\ y.checked = x.checked
      /\ y.wrote = x.wrote /\ y.shared = x.shared /\ y.held = x.held \cup more
      /\ y.doomed = x.doomed
  BY <1>1 DEF Transaction
<1> HIDE DEF y, more
<1>6. Fits(y)
  <2>1. Shape(y)
    BY <1>1, <1>5 DEF Fits, Shape
  <2>2. Copies(y)
    BY <1>1, <1>5 DEF Fits, Copies
  <2>3. Secured(y)
    BY <1>1, <1>2, <1>5 DEF Fits, Secured
  <2>4. Closure(y) /\ Checked(y)
    BY <1>5 DEF Closure, Checked
  <2> QED BY <2>1, <2>2, <2>3, <2>4 DEF Fits
<1>7. ASSUME NEW q \in Requests \ {r}
      PROVE  Compatible(y, req[q]) /\ Compatible(req[q], y)
  <2>1. k \notin Locked(req[q])
    BY DEF LockRow, LockedByOther
  <2> QED BY <1>2, <1>5, <2>1, Around DEF Compatible, Locked
<1> QED BY <1>3, <1>4, <1>6, <1>7, SlotStep

LEMMA CheckAdminStep ==
  ASSUME AccountsInv, NEW r \in Requests, CheckAdmin(r)
  PROVE  AccountsInv'
<1> DEFINE x == req[r]
           p == CASE x.op = "deleteUser" -> "sweep"
                  [] x.op = "create" -> "done"
                  [] OTHER -> "saveMember"
           T == IF x.op = "deleteUser" THEN {<<x.user, None>>} ELSE {}
           y == [x EXCEPT !.pc = p, !.todo = T]
<1>1. x \in Transaction /\ Fits(x) /\ x.pc = "locking" /\ OtherAdminHeld(x)
  BY Around DEF CheckAdmin
<1>2. \/ x.op = "deleteUser" /\ p = "sweep" /\ T = {<<x.user, None>>} /\ x.user \in Users
      \/ x.op = "create" /\ p = "done" /\ T = {}
      \/ x.op \in {"update", "patch"} /\ p = "saveMember" /\ T = {}
  <2>1. x.op \in {"create", "update", "patch", "deleteUser"}
    BY <1>1 DEF Fits, Shape
  <2>2. x.op = "deleteUser" => x.user \in Users
    BY <1>1, Fields DEF Fits, Shape
  <2>3. x.op = "deleteUser" => p = "sweep" /\ T = {<<x.user, None>>}
    BY Zenon
  <2>4. x.op = "create" => p = "done" /\ T = {}
    OBVIOUS
  <2>5. x.op \in {"update", "patch"} => p = "saveMember" /\ T = {}
    OBVIOUS
  <2> HIDE DEF p, T
  <2> QED BY <2>1, <2>2, <2>3, <2>4, <2>5
<1>3. req' = [req EXCEPT ![r] = y] /\ UNCHANGED <<library, account, member, revived>>
  BY DEF CheckAdmin, AccountsInv, TypeOK
<1> HIDE DEF p, T
<1>4. y \in Transaction
  <2>1. T \in SUBSET Rows
    BY <1>2, RowParts
  <2> QED BY <1>1, <1>2, <2>1 DEF Transaction, Steps
<1>5. /\ y.op = x.op /\ y.user = x.user /\ y.lib = x.lib /\ y.acc = x.acc
      /\ y.mem = x.mem /\ y.pc = p /\ y.todo = T /\ y.checked = x.checked
      /\ y.wrote = x.wrote /\ y.shared = x.shared /\ y.held = x.held
      /\ x.doomed = {} /\ y.doomed = {}
  BY <1>1 DEF Transaction, Fits, Shape
<1> HIDE DEF y
<1>6. Fits(y)
  <2>1. Shape(y)
    BY <1>1, <1>2, <1>5 DEF Fits, Shape
  <2>2. Copies(y)
    BY <1>1, <1>2, <1>5 DEF Fits, Copies
  <2>3. Secured(y)
    BY <1>1, <1>5 DEF Fits, Secured
  <2>4. Closure(y)
    BY <1>2, <1>5 DEF Closure
  <2>5. Checked(y)
    BY <1>1, <1>5 DEF Checked, OtherAdminHeld
  <2> QED BY <2>1, <2>2, <2>3, <2>4, <2>5 DEF Fits
<1>7. ASSUME NEW q \in Requests \ {r}
      PROVE  Compatible(y, req[q]) /\ Compatible(req[q], y)
  BY <1>5, Around DEF Compatible, Locked
<1> QED BY <1>3, <1>4, <1>6, <1>7, SlotStep

\* Writing one more row, with its parents shared when the row is new.
LEMMA WriteStep ==
  ASSUME AccountsInv, NEW r \in Requests, NEW y \in Transaction,
         NEW k \in Rows,
         req' = [req EXCEPT ![r] = y],
         UNCHANGED <<library, account, member, revived>>,
         y.op = req[r].op, y.user = req[r].user, y.lib = req[r].lib, y.acc = req[r].acc,
         y.mem = req[r].mem, y.checked = req[r].checked, y.held = req[r].held,
         y.pc \in {"saveAccount", "done"}, y.doomed = {}, req[r].doomed = {},
         y.wrote = req[r].wrote \cup {k}, req[r].shared \subseteq y.shared,
         req[r].pc \in {"saveMember", "saveAccount", "saveLibrary"},
         ~LockedByOther(r, k),
         \A p \in y.shared \ req[r].shared : Exists(p) /\ ~BarredByOther(r, p),
         Shape(y),
         \A u \in Users : k = <<u, None>> => Exists(k) \/ <<None, y.acc.home>> \in y.shared,
         \A u \in Users, l \in Libraries :
           k = <<u, l>> => Exists(k) \/ {<<None, l>>, <<u, None>>} \subseteq y.shared
  PROVE  AccountsInv'
<1> DEFINE x == req[r]
<1>1. Fits(x) /\ x \in Transaction
  BY Around
<1>2. x.op \notin {"register", "create"}
  BY <1>1 DEF Fits, Shape
<1>3. Copies(y)
  BY <1>1, <1>2 DEF Fits, Copies
<1>4. Secured(y)
  <2>1. \A j \in y.held \cup y.doomed \cup y.shared : Exists(j)
    BY <1>1 DEF Fits, Secured
  <2>2. \A u \in Users : <<u, None>> \in y.wrote =>
          Exists(<<u, None>>) \/ <<None, y.acc.home>> \in y.shared \cup y.wrote
    BY <1>1 DEF Fits, Secured
  <2>3. \A u \in Users, l \in Libraries : <<u, l>> \in y.wrote =>
          \/ Exists(<<u, l>>)
          \/ {<<None, l>>, <<u, None>>} \subseteq y.shared \cup y.wrote
    BY <1>1 DEF Fits, Secured
  <2> QED BY <2>1, <2>2, <2>3 DEF Secured
<1>5. Closure(y)
  BY DEF Closure
<1>6. Checked(y)
  <2>1. y.checked => OtherAdminHeld(x)
    BY <1>1 DEF Fits, Checked
  <2> QED BY <2>1 DEF Checked, OtherAdminHeld
<1>7. Fits(y)
  BY <1>3, <1>4, <1>5, <1>6 DEF Fits
<1>8. ASSUME NEW q \in Requests \ {r}
      PROVE  Compatible(y, req[q]) /\ Compatible(req[q], y)
  <2>1. k \notin Locked(req[q])
    BY DEF LockedByOther
  <2>2. \A p \in y.shared \ x.shared : p \notin req[q].doomed
    BY DEF BarredByOther
  <2> QED BY <1>1, <2>1, <2>2, Around DEF Compatible, Locked
<1> QED BY <1>7, <1>8, SlotStep

LEMMA SaveMemberStep ==
  ASSUME AccountsInv, NEW r \in Requests, SaveMember(r)
  PROVE  AccountsInv'
<1> DEFINE x == req[r]
           k == <<x.user, x.lib>>
           parents == IF Exists(k) THEN {} ELSE {<<x.user, None>>, <<None, x.lib>>}
           p == IF x.op = "patch" THEN "done" ELSE "saveAccount"
           y == [x EXCEPT !.pc = p, !.wrote = @ \cup {k}, !.shared = @ \cup parents]
<1>1. x \in Transaction /\ Fits(x) /\ x.pc = "saveMember" /\ x.doomed = {}
  BY Around DEF SaveMember, Fits, Shape
<1>2. x.user \in Users /\ x.lib \in Libraries /\ x.op \in {"update", "select", "patch"}
  BY <1>1, Fields DEF Fits, Shape
<1>3. k \in Rows /\ parents \in SUBSET Rows
  BY <1>2, RowParts
<1>4. /\ ~LockedByOther(r, k)
      /\ \A j \in parents : Exists(j) /\ ~BarredByOther(r, j)
  BY DEF SaveMember
<1>5. Exists(k) \/ {<<None, x.lib>>, <<x.user, None>>} \subseteq parents
  OBVIOUS
<1>6. req' = [req EXCEPT ![r] = y] /\ UNCHANGED <<library, account, member, revived>>
  BY DEF SaveMember, AccountsInv, TypeOK
<1> HIDE DEF parents
<1>7. y \in Transaction
  BY <1>1, <1>3 DEF Transaction, Steps
<1>8. /\ y.op = x.op /\ y.user = x.user /\ y.lib = x.lib /\ y.acc = x.acc
      /\ y.mem = x.mem /\ y.pc = p /\ y.checked = x.checked /\ y.held = x.held
      /\ y.wrote = x.wrote \cup {k} /\ y.shared = x.shared \cup parents /\ y.doomed = {}
  BY <1>1 DEF Transaction
<1> HIDE DEF y
<1>9. Shape(y)
  BY <1>1, <1>2, <1>8 DEF Fits, Shape
<1>10. /\ \A u \in Users : k # <<u, None>>
       /\ \A u \in Users, l \in Libraries : k = <<u, l>> =>
            Exists(k) \/ {<<None, l>>, <<u, None>>} \subseteq y.shared
  BY <1>2, <1>5, <1>8
<1>11. \A j \in y.shared \ x.shared : Exists(j) /\ ~BarredByOther(r, j)
  BY <1>4, <1>8
<1>12. p \in {"saveAccount", "done"} /\ x.shared \subseteq y.shared
  BY <1>8
<1> HIDE DEF k, p
<1> QED BY ZenonT(60), <1>1, <1>3, <1>4, <1>6, <1>7, <1>8, <1>9, <1>10, <1>11, <1>12, WriteStep

LEMMA SaveAccountStep ==
  ASSUME AccountsInv, NEW r \in Requests, SaveAccount(r)
  PROVE  AccountsInv'
<1> DEFINE x == req[r]
           k == <<x.user, None>>
           parents == IF Exists(k) THEN {} ELSE {<<None, x.acc.home>>}
           y == [x EXCEPT !.pc = "done", !.wrote = @ \cup {k}, !.shared = @ \cup parents]
<1>1. x \in Transaction /\ Fits(x) /\ x.pc = "saveAccount" /\ x.doomed = {}
  BY Around DEF SaveAccount, Fits, Shape
<1>2. /\ x.user \in Users /\ x.acc.home \in Libraries /\ x.acc.home # None
      /\ x.op \in {"update", "select"}
  BY <1>1, Fields DEF Fits, Shape, Account
<1>3. k \in Rows /\ parents \in SUBSET Rows
  BY <1>2, RowParts
<1>4. /\ ~LockedByOther(r, k)
      /\ \A j \in parents : Exists(j) /\ ~BarredByOther(r, j)
  BY DEF SaveAccount
<1>5. Exists(k) \/ <<None, x.acc.home>> \in parents
  OBVIOUS
<1>6. req' = [req EXCEPT ![r] = y] /\ UNCHANGED <<library, account, member, revived>>
  BY DEF SaveAccount, AccountsInv, TypeOK
<1> HIDE DEF parents
<1>7. y \in Transaction
  BY <1>1, <1>3 DEF Transaction, Steps
<1>8. /\ y.op = x.op /\ y.user = x.user /\ y.lib = x.lib /\ y.acc = x.acc
      /\ y.mem = x.mem /\ y.pc = "done" /\ y.checked = x.checked /\ y.held = x.held
      /\ y.wrote = x.wrote \cup {k} /\ y.shared = x.shared \cup parents /\ y.doomed = {}
  BY <1>1 DEF Transaction
<1> HIDE DEF y
<1>9. Shape(y)
  BY <1>1, <1>2, <1>8 DEF Fits, Shape
<1>10. /\ \A u \in Users : k = <<u, None>> =>
            Exists(k) \/ <<None, y.acc.home>> \in y.shared
       /\ \A u \in Users, l \in Libraries : k = <<u, l>> =>
            Exists(k) \/ {<<None, l>>, <<u, None>>} \subseteq y.shared
  BY <1>2, <1>5, <1>8
<1>11. /\ \A j \in y.shared \ x.shared : Exists(j) /\ ~BarredByOther(r, j)
       /\ x.shared \subseteq y.shared
  BY <1>4, <1>8
<1> HIDE DEF k
<1>12. y.pc \in {"saveAccount", "done"} /\ y.doomed = {} /\ x.doomed = {}
  BY <1>1, <1>8
<1> QED BY <1>1, <1>3, <1>4, <1>6, <1>7, <1>8, <1>9, <1>10, <1>11, <1>12, WriteStep

LEMMA SaveLibraryStep ==
  ASSUME AccountsInv, NEW r \in Requests, SaveLibrary(r)
  PROVE  AccountsInv'
<1> DEFINE x == req[r]
           k == <<None, x.lib>>
           y == [x EXCEPT !.pc = "done", !.wrote = @ \cup {k}]
<1>1. x \in Transaction /\ Fits(x) /\ x.pc = "saveLibrary" /\ x.doomed = {}
  BY Around DEF SaveLibrary, Fits, Shape
<1>2. x.op = "rename" /\ x.lib \in Libraries
  BY <1>1, Fields DEF Fits, Shape
<1>3. k \in Rows
  BY <1>2, RowParts
<1>4. req' = [req EXCEPT ![r] = y] /\ UNCHANGED <<library, account, member, revived>>
  BY DEF SaveLibrary, AccountsInv, TypeOK
<1>5. y \in Transaction
  BY <1>1, <1>3 DEF Transaction, Steps
<1>6. /\ y.op = x.op /\ y.user = x.user /\ y.lib = x.lib /\ y.acc = x.acc
      /\ y.mem = x.mem /\ y.pc = "done" /\ y.checked = x.checked /\ y.held = x.held
      /\ y.wrote = x.wrote \cup {k} /\ y.shared = x.shared \cup {} /\ y.doomed = {}
  BY <1>1 DEF Transaction
<1> HIDE DEF y
<1>7. Shape(y)
  BY <1>1, <1>2, <1>6 DEF Fits, Shape
<1>8. ~LockedByOther(r, k)
  BY DEF SaveLibrary
<1>9. \A u \in Users, l \in Libraries : k # <<u, None>> /\ k # <<u, l>>
  BY <1>2
<1>10. \A u \in Users : k # <<u, None>>
  BY <1>2
<1> HIDE DEF k
<1> QED BY ZenonT(60), <1>1, <1>3, <1>4, <1>5, <1>6, <1>7, <1>8, <1>9, <1>10, WriteStep

-----------------------------------------------------------------------------
\* One step of a deletion: what it takes, and what stays on its list.
LEMMA SweepUser ==
  ASSUME AccountsInv, NEW x \in Transaction, Fits(x), x.pc = "sweep", x.op = "deleteUser",
         NEW y \in Transaction, y.pc = "sweep", y.op = x.op, y.user = x.user,
         y.todo = Unreached(x, <<x.user, None>>),
         y.doomed = x.doomed \cup Taken(x, <<x.user, None>>)
  PROVE  Closure(y)
<1> DEFINE k == <<x.user, None>>
<1>1. x.user \in Users
  BY Fields DEF Fits, Shape
<1>2. \A j \in Taken(x, k) :
        Exists(j) /\ (j = k \/ \E l \in Libraries : j = <<x.user, l>>)
  BY <1>1 DEF Taken, Family
<1>3. y.todo \subseteq {k}
  BY <1>1 DEF Fits, Closure, Unreached
<1>4. \A l \in Libraries : <<None, l>> \notin y.doomed
  BY <1>1, <1>2 DEF Fits, Closure
<1>5. \A u \in Users : <<u, None>> \in y.doomed => u = x.user
  BY <1>1, <1>2 DEF Fits, Closure
<1>6. Exists(k) => Family(k) \subseteq Taken(x, k)
  BY <1>1 DEF Taken, Family, Exists
<1>7. \A u \in Users : <<u, None>> \in y.doomed => Family(<<u, None>>) \subseteq y.doomed
  <2> SUFFICES ASSUME NEW u \in Users, <<u, None>> \in y.doomed
               PROVE  Family(<<u, None>>) \subseteq y.doomed
    OBVIOUS
  <2>1. CASE <<u, None>> \in x.doomed
    BY <2>1 DEF Fits, Closure
  <2>2. CASE <<u, None>> \in Taken(x, k)
    BY <1>2, <1>5, <1>6, <2>2
  <2> QED BY <2>1, <2>2
<1>8. \A u \in Users, l \in Libraries : <<u, l>> \in y.doomed =>
        <<u, None>> \in y.doomed \/ <<None, l>> \in y.doomed
  <2> SUFFICES ASSUME NEW u \in Users, NEW l \in Libraries, <<u, l>> \in y.doomed
               PROVE  <<u, None>> \in y.doomed \/ <<None, l>> \in y.doomed
    OBVIOUS
  <2>1. CASE <<u, l>> \in x.doomed
    BY <2>1 DEF Fits, Closure
  <2>2. CASE <<u, l>> \in Taken(x, k)
    <3>1. u = x.user /\ Exists(<<u, l>>)
      BY <1>2, <2>2
    <3>2. Exists(k)
      BY <1>1, <3>1 DEF Exists, AccountsInv, NoOrphans
    <3>3. k \in Family(k)
      BY DEF Family
    <3> QED BY <1>6, <3>1, <3>2, <3>3
  <2> QED BY <2>1, <2>2
<1> QED BY <1>3, <1>4, <1>5, <1>7, <1>8 DEF Closure

LEMMA SweepLibrary ==
  ASSUME AccountsInv, NEW x \in Transaction, Fits(x), x.pc = "sweep",
         x.op = "deleteLibrary", NEW k \in x.todo,
         NEW y \in Transaction, y.pc = "sweep", y.op = x.op, y.user = x.user, y.lib = x.lib,
         y.todo = Unreached(x, k), y.doomed = x.doomed \cup Taken(x, k)
  PROVE  Closure(y)
<1> DEFINE l == x.lib
<1>1. l \in Libraries
  BY Fields DEF Fits, Shape
<1>2. /\ \A j \in x.doomed \cup x.todo : j[1] = None => j[2] = l
      /\ <<None, l>> \in x.doomed => Dependents(l) \subseteq x.doomed \cup x.todo
      /\ \A j \in x.doomed \cup x.todo : j[1] # None => <<None, l>> \in x.doomed
      /\ \A j \in x.todo : j[2] \in {None, l}
      /\ \A u \in Users : <<u, None>> \in x.doomed => account[u].home = l
      /\ \A u \in Users : <<u, None>> \in x.doomed => Family(<<u, None>>) \subseteq x.doomed
      /\ \A u \in Users, m \in Libraries : <<u, m>> \in x.doomed =>
           <<u, None>> \in x.doomed \/ <<None, m>> \in x.doomed
  BY DEF Fits, Closure
<1>3. k \in Rows /\ k = <<k[1], k[2]>>
  BY RowParts, Fields
<1>4. CASE k = <<None, l>>
  <2>1. Family(k) = {k}
    BY <1>1, <1>4 DEF Family
  <2>2. Taken(x, k) = IF Exists(k) THEN {k} ELSE {}
    BY <1>1, <1>4, <2>1 DEF Taken
  <2>3. Unreached(x, k) = (x.todo \cup Dependents(l)) \ {k}
    BY <1>4, <2>2 DEF Unreached
  <2>4. \A j \in Dependents(l) : j[1] # None /\ j[2] \in {None, l} /\ Exists(k)
    BY <1>1, <1>4 DEF Dependents, Exists, AccountsInv, NoOrphans
  <2>5. \A u \in Users, m \in Libraries : k # <<u, None>> /\ k # <<u, m>>
    BY <1>4
  <2>6. Dependents(l) \subseteq y.doomed \cup y.todo
    BY <1>4, <2>3, <2>4
  <2>7. \A j \in y.doomed \cup y.todo : j[1] = None => j[2] = l
    BY <1>2, <1>4, <2>2, <2>3, <2>4
  <2>8. \A j \in y.doomed \cup y.todo : j[1] # None => <<None, l>> \in y.doomed
    BY <1>2, <1>4, <2>2, <2>3, <2>4
  <2>9. \A j \in y.todo : j[2] \in {None, l}
    BY <1>2, <2>3, <2>4
  <2>10. \A u \in Users : <<u, None>> \in y.doomed => <<u, None>> \in x.doomed
    <3>1. \A j \in y.doomed : j \in x.doomed \/ j = k
      BY <2>2
    <3> QED BY <1>1, <2>5, <3>1
  <2>11. \A u \in Users, m \in Libraries : <<u, m>> \in y.doomed => <<u, m>> \in x.doomed
    BY <2>2, <2>5
  <2> QED BY <1>2, <2>6, <2>7, <2>8, <2>9, <2>10, <2>11 DEF Closure
<1>5. CASE k[1] # None
  <2>1. k[1] \in Users /\ k[2] \in {None, l} /\ <<None, l>> \in x.doomed
    BY <1>2, <1>3, <1>5, RowParts
  <2>2. /\ \A j \in Taken(x, k) : Exists(j) /\ j[1] = k[1]
        /\ Taken(x, k) \subseteq Family(k)
        /\ \A j \in Family(k) : j[1] = k[1]
    BY <1>3 DEF Taken, Family
  <2>3. Unreached(x, k) = x.todo \ ({k} \cup Taken(x, k))
    BY <1>5 DEF Unreached
  <2>4. k \in Dependents(l) => k \in Taken(x, k)
    BY <1>1, <1>3, <2>1 DEF Dependents, Taken, Family, Exists
  <2>5. Dependents(l) \subseteq y.doomed \cup y.todo
    BY <1>2, <2>1, <2>3, <2>4
  <2>6. \A u \in Users : <<u, None>> \in Taken(x, k) =>
          /\ k = <<u, None>> /\ account[u].home = l
          /\ Family(k) \subseteq Taken(x, k)
    BY <1>1, <1>3, <2>1 DEF Taken, Family, Exists
  <2>7. \A u \in Users, m \in Libraries : <<u, m>> \in Taken(x, k) =>
          m = l \/ <<u, None>> \in Taken(x, k)
    BY <1>1, <1>3, <2>1 DEF Taken, Family, Exists, AccountsInv, NoOrphans
  <2>8. \A j \in y.doomed \cup y.todo : j[1] = None => j[2] = l
    BY <1>2, <1>5, <2>2, <2>3
  <2>9. \A j \in y.todo : j[2] \in {None, l}
    BY <1>2, <2>3
  <2>10. \A u \in Users : <<u, None>> \in y.doomed =>
           account[u].home = l /\ Family(<<u, None>>) \subseteq y.doomed
    BY <1>2, <2>6
  <2>11. \A u \in Users, m \in Libraries : <<u, m>> \in y.doomed =>
           <<u, None>> \in y.doomed \/ <<None, m>> \in y.doomed
    BY <1>2, <2>1, <2>7
  <2> QED BY <2>1, <2>5, <2>8, <2>9, <2>10, <2>11 DEF Closure
<1>6. k[1] = None => k[2] = l
  BY <1>2
<1> QED BY <1>3, <1>4, <1>5, <1>6

LEMMA SweepStep ==
  ASSUME AccountsInv, NEW r \in Requests, NEW k \in Rows, Sweep(r, k)
  PROVE  AccountsInv'
<1> DEFINE x == req[r]
           y == [x EXCEPT !.todo = Unreached(x, k), !.doomed = @ \cup Taken(x, k)]
<1>1. x \in Transaction /\ Fits(x) /\ x.pc = "sweep" /\ k \in x.todo
  BY Around DEF Sweep
<1>2. x.op \in {"deleteUser", "deleteLibrary"} /\ x.wrote = {} /\ x.shared = {}
  BY <1>1 DEF Fits, Shape
<1>3. Taken(x, k) \subseteq Family(k) /\ \A j \in Taken(x, k) : Exists(j)
  BY DEF Taken
<1>4. k[1] = None => k[2] \in Libraries
  <2>1. CASE x.op = "deleteUser"
    BY <1>1, <2>1 DEF Fits, Shape, Closure
  <2>2. CASE x.op = "deleteLibrary"
    BY <1>1, <2>2, Fields DEF Fits, Shape, Closure
  <2> QED BY <1>2, <2>1, <2>2
<1>5. y \in Transaction
  <2>1. Taken(x, k) \in SUBSET Rows
    BY <1>3, FamilyRows
  <2>2. Unreached(x, k) \in SUBSET Rows
    BY <1>1, <1>4, DependentRows, Fields DEF Unreached
  <2> QED BY <1>1, <2>1, <2>2 DEF Transaction
<1>6. req' = [req EXCEPT ![r] = y] /\ UNCHANGED <<library, account, member, revived>>
  BY DEF Sweep, AccountsInv, TypeOK
<1>7. /\ y.op = x.op /\ y.user = x.user /\ y.lib = x.lib /\ y.acc = x.acc
      /\ y.mem = x.mem /\ y.pc = "sweep" /\ y.checked = x.checked /\ y.held = x.held
      /\ y.wrote = {} /\ y.shared = {}
      /\ y.todo = Unreached(x, k) /\ y.doomed = x.doomed \cup Taken(x, k)
  BY <1>1, <1>2 DEF Transaction
<1> HIDE DEF y
<1>8. Fits(y)
  <2>1. Shape(y)
    BY <1>1, <1>2, <1>7 DEF Fits, Shape
  <2>2. Copies(y)
    BY <1>1, <1>2, <1>7 DEF Fits, Copies
  <2>3. Secured(y)
    BY <1>1, <1>3, <1>7 DEF Fits, Secured
  <2>4. Closure(y)
    <3>1. CASE x.op = "deleteUser"
      <4>1. k = <<x.user, None>>
        BY <1>1, <3>1 DEF Fits, Closure
      <4> QED BY <1>1, <1>5, <1>7, <3>1, <4>1, SweepUser
    <3>2. CASE x.op = "deleteLibrary"
      BY <1>1, <1>5, <1>7, <3>2, SweepLibrary
    <3> QED BY <1>2, <3>1, <3>2
  <2>5. Checked(y)
    BY <1>1, <1>7 DEF Fits, Checked, OtherAdminHeld
  <2> QED BY <2>1, <2>2, <2>3, <2>4, <2>5 DEF Fits
<1>9. ASSUME NEW q \in Requests \ {r}
      PROVE  Compatible(y, req[q]) /\ Compatible(req[q], y)
  <2>1. \A j \in Taken(x, k) : j \notin Locked(req[q]) /\ j \notin req[q].shared
    BY <1>3 DEF Sweep, LockedByOther, SharedByOther
  <2> QED BY <1>2, <1>7, <2>1, Around DEF Compatible, Locked
<1> QED BY <1>5, <1>6, <1>8, <1>9, SlotStep

-----------------------------------------------------------------------------
\* The rows after a commit.
LEMMA CommitRows ==
  ASSUME AccountsInv, NEW r \in Requests, Commit(r)
  PROVE  /\ req' = [req EXCEPT ![r] = Idle]
         /\ \A u \in Users : account'[u] =
              IF <<u, None>> \in req[r].doomed THEN NoAccount
              ELSE IF <<u, None>> \in req[r].wrote THEN req[r].acc ELSE account[u]
         /\ \A u \in Users, l \in Libraries : member'[u][l] =
              IF <<u, l>> \in req[r].doomed THEN NoMember
              ELSE IF <<u, l>> \in req[r].wrote THEN req[r].mem ELSE member[u][l]
         /\ library' \subseteq Libraries
         /\ \A l \in Libraries : l \in library' <=>
              (l \in library \/ <<None, l>> \in req[r].wrote) /\ <<None, l>> \notin req[r].doomed
BY DEF Commit, Finish, AccountsInv, TypeOK

LEMMA CommitType ==
  ASSUME AccountsInv, NEW r \in Requests, Commit(r)
  PROVE  TypeOK'
<1>1. req[r] \in Transaction
  BY Around
<1>2. req[r].acc \in Account /\ req[r].mem \in Membership
  BY <1>1, Fields
<1>3. account' \in [Users -> Account]
  BY <1>2, NoRows DEF Commit, AccountsInv, TypeOK
<1>4. member' \in [Users -> [Libraries -> Membership]]
  BY <1>2, NoRows DEF Commit, AccountsInv, TypeOK
<1>5. req' \in [Requests -> Transaction]
  BY CommitRows, IdleTransaction DEF AccountsInv, TypeOK
<1>6. revived' \in SUBSET Users
  BY DEF Commit
<1> QED BY <1>3, <1>4, <1>5, <1>6, CommitRows DEF TypeOK

\* What a commit cannot change: whether a row exists that is not deleted, and the
\* library of an account.
LEMMA CommitKeeps ==
  ASSUME AccountsInv, NEW r \in Requests, Commit(r)
  PROVE  /\ \A k \in Rows \ req[r].doomed : Exists(k) => Exists(k)'
         /\ \A u \in Users :
              account[u].home # None /\ <<u, None>> \notin req[r].doomed =>
                account'[u].home = account[u].home
<1> DEFINE x == req[r]
<1>1. Fits(x) /\ x \in Transaction
  BY Around
<1>2. ASSUME NEW u \in Users, account[u].home # None, <<u, None>> \notin x.doomed
      PROVE  account'[u].home = account[u].home
  BY <1>1, <1>2, CommitRows DEF Fits, Shape, Copies
<1>3. ASSUME NEW u \in Users, NEW l \in Libraries,
             member[u][l].status # "absent", <<u, l>> \notin x.doomed
      PROVE  member'[u][l].status # "absent"
  BY <1>1, <1>3, CommitRows DEF Fits, Shape
<1>4. ASSUME NEW k \in Rows, k \notin x.doomed, Exists(k)
      PROVE  Exists(k)'
  <2>1. CASE k[1] = None /\ k[2] \in Libraries
    BY <1>4, <2>1, RowParts, CommitRows DEF Exists
  <2>2. CASE k[1] = None /\ k[2] = None
    BY <1>4, <2>2 DEF Exists, AccountsInv, TypeOK
  <2>3. CASE k[1] \in Users /\ k[2] = None
    BY <1>2, <1>4, <2>3, RowParts DEF Exists
  <2>4. CASE k[1] \in Users /\ k[2] \in Libraries
    BY <1>3, <1>4, <2>4, RowParts DEF Exists
  <2> QED BY <1>4, <2>1, <2>2, <2>3, <2>4, RowParts
<1> QED BY <1>2, <1>4

\* What a commit adds has its parents secured.
LEMMA CommitAdds ==
  ASSUME AccountsInv, NEW r \in Requests, Commit(r), NEW u \in Users
  PROVE  /\ account[u].home = None /\ account'[u].home # None =>
              /\ <<u, None>> \in req[r].wrote /\ u = req[r].user
              /\ account'[u].home = req[r].acc.home
              /\ <<None, account'[u].home>> \in req[r].shared \cup req[r].wrote
         /\ \A l \in Libraries :
              member[u][l].status = "absent" /\ member'[u][l].status # "absent" =>
                /\ <<u, l>> \in req[r].wrote
                /\ {<<None, l>>, <<u, None>>} \subseteq req[r].shared \cup req[r].wrote
<1> DEFINE x == req[r]
<1>1. Fits(x) /\ x \in Transaction
  BY Around
<1>2. ASSUME account[u].home = None, account'[u].home # None
      PROVE  /\ <<u, None>> \in x.wrote /\ u = x.user /\ account'[u].home = x.acc.home
             /\ <<None, account'[u].home>> \in x.shared \cup x.wrote
  <2>1. <<u, None>> \in x.wrote /\ account'[u] = x.acc
    BY <1>2, CommitRows DEF NoAccount
  <2>2. ~Exists(<<u, None>>)
    BY <1>2 DEF Exists
  <2> QED BY <1>1, <2>1, <2>2 DEF Fits, Shape, Secured
<1>3. ASSUME NEW l \in Libraries,
             member[u][l].status = "absent", member'[u][l].status # "absent"
      PROVE  /\ <<u, l>> \in x.wrote
             /\ {<<None, l>>, <<u, None>>} \subseteq x.shared \cup x.wrote
  <2>1. <<u, l>> \in x.wrote
    BY <1>3, CommitRows DEF NoMember
  <2>2. ~Exists(<<u, l>>)
    BY <1>3 DEF Exists
  <2> QED BY <1>1, <2>1, <2>2 DEF Fits, Secured
<1> QED BY <1>2, <1>3

\* The foreign keys after a commit.
LEMMA CommitNoOrphans ==
  ASSUME AccountsInv, NEW r \in Requests, Commit(r)
  PROVE  NoOrphans'
<1> DEFINE x == req[r]
<1>1. Fits(x) /\ x \in Transaction
  BY Around
<1>2. x.doomed # {} => x.pc = "sweep" /\ x.wrote = {} /\ x.shared = {} /\ x.todo = {}
  BY <1>1 DEF Fits, Shape, Commit
<1>3. \A l \in Libraries : <<None, l>> \in x.shared \cup x.wrote => l \in library'
  BY <1>1, <1>2, CommitRows DEF Fits, Secured, Exists
<1>4. \A l \in Libraries : <<None, l>> \in x.doomed =>
        l = x.lib /\ Dependents(l) \subseteq x.doomed
  BY <1>1, <1>2 DEF Fits, Shape, Closure
<1>5. ASSUME NEW u \in Users
      PROVE  account'[u].home \in library' \cup {None}
  <2>1. CASE account'[u].home = None
    BY <2>1
  <2>2. CASE account[u].home = None /\ account'[u].home # None
    <3>1. account'[u].home \in Libraries
      BY <2>2, CommitType DEF TypeOK, Account
    <3> QED BY <1>3, <2>2, <3>1, CommitAdds
  <2>3. CASE account[u].home # None /\ account'[u].home # None
    <3>1. <<u, None>> \notin x.doomed
      BY <2>3, CommitRows DEF NoAccount
    <3>2. account'[u].home = account[u].home /\ account[u].home \in library
      BY <2>3, <3>1, CommitKeeps DEF AccountsInv, NoOrphans
    <3>3. account[u].home \in Libraries
      BY <3>2 DEF AccountsInv, TypeOK
    <3>4. <<u, None>> \in Dependents(account[u].home)
      BY DEF Dependents
    <3>5. <<None, account[u].home>> \notin x.doomed
      BY <1>4, <3>1, <3>3, <3>4
    <3> QED BY <3>2, <3>3, <3>5, CommitRows
  <2> QED BY <2>1, <2>2, <2>3
<1>6. ASSUME NEW u \in Users, NEW l \in Libraries, member'[u][l].status # "absent"
      PROVE  account'[u].home # None /\ l \in library'
  <2>1. CASE member[u][l].status = "absent"
    <3>1. {<<None, l>>, <<u, None>>} \subseteq x.shared \cup x.wrote
      BY ZenonT(60), <1>6, <2>1, CommitAdds
    <3>2. x.doomed = {}
      BY <1>2, <3>1
    <3>3. account'[u].home # None
      <4>1. CASE <<u, None>> \in x.wrote
        BY <1>1, <3>2, <4>1, CommitRows DEF Fits, Shape
      <4>2. CASE <<u, None>> \in x.shared
        <5>1. account[u].home # None
          BY <1>1, <4>2 DEF Fits, Secured, Exists
        <5> QED BY <3>2, <5>1, CommitKeeps
      <4> QED BY <3>1, <4>1, <4>2
    <3> QED BY <1>3, <3>1, <3>3
  <2>2. CASE member[u][l].status # "absent"
    <3>1. <<u, l>> \notin x.doomed
      BY <1>6, CommitRows DEF NoMember
    <3>2. account[u].home # None /\ l \in library
      BY <2>2 DEF AccountsInv, NoOrphans
    <3>3. <<None, l>> \notin x.doomed
      <4>1. <<u, l>> \in Dependents(l)
        BY <2>2 DEF Dependents
      <4> QED BY <1>4, <3>1, <4>1
    <3>4. <<u, None>> \notin x.doomed
      <4>1. <<u, l>> \in Family(<<u, None>>)
        BY <2>2 DEF Family
      <4>2. <<u, None>> \in x.doomed => Family(<<u, None>>) \subseteq x.doomed
        BY <1>1, <1>2 DEF Fits, Closure
      <4> QED BY <3>1, <4>1, <4>2
    <3> QED BY <3>2, <3>3, <3>4, CommitRows, CommitKeeps
  <2> QED BY <2>1, <2>2
<1> QED BY <1>5, <1>6 DEF NoOrphans

\* A commit of one transaction leaves every other one what it relies on.
LEMMA CommitFits ==
  ASSUME AccountsInv, NEW r \in Requests, Commit(r), NEW q \in Requests \ {r}
  PROVE  Fits(req[q])'
<1> DEFINE x == req[r]
           y == req[q]
<1>1. Fits(x) /\ Fits(y) /\ Compatible(x, y) /\ Compatible(y, x) /\ y \in Transaction
  BY Around
<1>2. req'[q] = y
  BY CommitRows DEF AccountsInv, TypeOK
<1>3. \A k \in Rows : k \in Locked(y) => k \notin x.wrote /\ k \notin x.doomed
  BY <1>1 DEF Compatible, Locked
<1>4. \A k \in y.shared : k \notin x.doomed
  BY <1>1 DEF Compatible
<1>5. \A k \in x.shared : k \notin y.doomed
  BY <1>1 DEF Compatible
<1>6. Shape(req[q])'
  BY <1>1, <1>2 DEF Fits, Shape
<1>7. Copies(req[q])'
  <2>1. y.op \in {"register", "create"} => account'[y.user].home = None
    <3> SUFFICES ASSUME y.op \in {"register", "create"} PROVE account'[y.user].home = None
      OBVIOUS
    <3>1. y.user \in Users /\ account[y.user].home = None /\ y.user # x.user
      BY <1>1, Fields DEF Fits, Copies, Compatible
    <3> QED BY <3>1, CommitAdds
  <2>2. y.op = "register" => <<None, y.lib>> \in y.wrote /\ y.lib \notin library'
    <3> SUFFICES ASSUME y.op = "register"
                 PROVE  <<None, y.lib>> \in y.wrote /\ y.lib \notin library'
      OBVIOUS
    <3>1. <<None, y.lib>> \in y.wrote /\ y.lib \notin library
      BY <1>1 DEF Fits, Copies
    <3>2. <<None, y.lib>> \notin x.wrote
      BY <1>1, <3>1 DEF Compatible, Locked
    <3> QED BY <3>1, <3>2, CommitRows
  <2>3. y.acc.home # None => account'[y.user].home \in {None, y.acc.home}
    <3> SUFFICES ASSUME y.acc.home # None, y.user \in Users, account'[y.user].home # None
                 PROVE  account'[y.user].home = y.acc.home
      <4>1. y.user \notin Users => y.user = None
        BY <1>1, Fields
      <4> QED BY <1>1, <4>1 DEF Fits, Shape
    <3>1. CASE account[y.user].home # None
      <4>1. <<y.user, None>> \notin x.doomed
        BY CommitRows DEF NoAccount
      <4> QED BY <1>1, <3>1, <4>1, CommitKeeps DEF Fits, Copies
    <3>2. CASE account[y.user].home = None
      <4>1. account'[y.user].home = x.acc.home /\ x.user = y.user /\ x.acc.home # None
        BY <3>2, CommitAdds
      <4> QED BY <1>1, <4>1 DEF Compatible
    <3> QED BY <3>1, <3>2
  <2> QED BY <1>1, <1>2, <2>1, <2>2, <2>3 DEF Fits, Copies
<1>8. Secured(req[q])'
  <2>1. \A k \in Rows : k \in y.held \cup y.doomed \cup y.shared => Exists(k)'
    BY <1>1, <1>3, <1>4, CommitKeeps DEF Fits, Secured, Locked
  <2>2. \A k \in Rows : k \in y.wrote /\ Exists(k) => Exists(k)'
    BY <1>3, CommitKeeps DEF Locked
  <2>3. y.held \cup y.doomed \cup y.shared \subseteq Rows
    BY <1>1, Fields
  <2>4. \A u \in Users : <<u, None>> \in y.wrote =>
          Exists(<<u, None>>)' \/ <<None, y.acc.home>> \in y.shared \cup y.wrote
    BY <1>1, <2>2, RowParts DEF Fits, Secured
  <2>5. \A u \in Users, l \in Libraries : <<u, l>> \in y.wrote =>
          \/ Exists(<<u, l>>)'
          \/ {<<None, l>>, <<u, None>>} \subseteq y.shared \cup y.wrote
    BY <1>1, <2>2, RowParts DEF Fits, Secured
  <2> QED BY <1>2, <2>1, <2>3, <2>4, <2>5 DEF Secured
<1>9. Checked(req[q])'
  <2> SUFFICES ASSUME OtherAdminHeld(y), y.lib # None PROVE OtherAdminHeld(req[q])'
    BY <1>1, <1>2 DEF Fits, Shape, Checked
  <2>1. \A k \in Rows : k \in y.held => k \notin x.wrote /\ k \notin x.doomed
    BY <1>3 DEF Locked
  <2>2. CASE y.op = "deleteUser"
    BY <1>2, <2>1, <2>2, RowParts, CommitRows DEF OtherAdminHeld
  <2>3. CASE y.op # "deleteUser"
    <3>1. PICK v \in Users \ {y.user} : <<v, y.lib>> \in y.held /\ ActiveAdmin(member[v][y.lib])
      BY <2>3 DEF OtherAdminHeld
    <3>2. member'[v][y.lib] = member[v][y.lib]
      <4>1. <<v, y.lib>> \notin x.wrote /\ <<v, y.lib>> \notin x.doomed
        BY <1>1, <2>1, <3>1, Fields
      <4>2. y.lib \in Libraries
        BY <1>1, Fields
      <4> QED BY <4>1, <4>2, CommitRows
    <3> QED BY <1>2, <2>3, <3>1, <3>2 DEF OtherAdminHeld, ActiveAdmin
  <2> QED BY <2>2, <2>3
<1>10. Closure(req[q])'
  <2>1. \A u \in Users : <<u, None>> \in y.doomed => account'[u] = account[u]
    BY <1>3, RowParts, CommitRows DEF Locked
  <2>2. \A u \in Users : <<u, None>> \in y.doomed =>
          Family(<<u, None>>)' \subseteq Family(<<u, None>>)
    <3> SUFFICES ASSUME NEW u \in Users, <<u, None>> \in y.doomed,
                        NEW l \in Libraries, member'[u][l].status # "absent"
                 PROVE  member[u][l].status # "absent"
      BY DEF Family
    <3>1. <<u, None>> \notin x.shared \cup x.wrote
      BY <1>3, <1>5, RowParts DEF Locked
    <3> QED BY <3>1, CommitAdds
  <2>3. \A l \in Libraries : <<None, l>> \in y.doomed => Dependents(l)' \subseteq Dependents(l)
    <3> SUFFICES ASSUME NEW l \in Libraries, <<None, l>> \in y.doomed
                 PROVE  Dependents(l)' \subseteq Dependents(l)
      OBVIOUS
    <3>1. <<None, l>> \notin x.shared \cup x.wrote
      BY <1>3, <1>5, RowParts DEF Locked
    <3>2. \A u \in Users : account'[u].home = l => account[u].home = l
      <4> SUFFICES ASSUME NEW u \in Users, account'[u].home = l PROVE account[u].home = l
        OBVIOUS
      <4>1. account[u].home # None
        BY <3>1, CommitAdds
      <4>2. <<u, None>> \notin x.doomed
        BY CommitRows DEF NoAccount
      <4> QED BY <4>1, <4>2, CommitKeeps
    <3>3. \A u \in Users : member'[u][l].status # "absent" => member[u][l].status # "absent"
      BY <3>1, CommitAdds
    <3> QED BY <3>2, <3>3 DEF Dependents
  <2>4. y.op = "deleteLibrary" => y.lib \in Libraries
    BY <1>1, Fields DEF Fits, Shape
  <2> QED BY <1>1, <1>2, <2>1, <2>2, <2>3, <2>4 DEF Fits, Closure
<1> QED BY <1>6, <1>7, <1>8, <1>9, <1>10 DEF Fits

LEMMA CommitStep ==
  ASSUME AccountsInv, NEW r \in Requests, Commit(r)
  PROVE  AccountsInv'
<1>1. \A q \in Requests : req'[q] = IF q = r THEN Idle ELSE req[q]
  BY CommitRows DEF AccountsInv, TypeOK
<1>2. ASSUME NEW q \in Requests PROVE Fits(req[q])'
  <2>1. CASE q # r
    BY <2>1, CommitFits
  <2>2. CASE q = r
    <3>1. req'[q] = Idle
      BY <1>1, <2>2
    <3>2. Shape(req[q])' /\ Copies(req[q])'
      BY <3>1 DEF Shape, Copies, Idle, NoAccount
    <3>3. Secured(req[q])' /\ Closure(req[q])' /\ Checked(req[q])'
      BY <3>1 DEF Secured, Closure, Checked, Idle
    <3> QED BY <3>2, <3>3 DEF Fits
  <2> QED BY <2>1, <2>2
<1>3. ASSUME NEW p \in Requests, NEW q \in Requests, p # q
      PROVE  Compatible(req[p], req[q])'
  <2>1. Compatible(req'[p], req'[q])
    <3>1. Fits(req[p]) /\ Fits(req[q]) /\ req[p] \in Transaction /\ req[q] \in Transaction
      BY DEF AccountsInv, TypeOK
    <3> QED BY <1>1, <1>3, <3>1, IdleFits DEF AccountsInv
  <2> QED BY <2>1 DEF Compatible, Locked
<1> QED BY <1>2, <1>3, CommitType, CommitNoOrphans DEF AccountsInv

LEMMA RollbackStep ==
  ASSUME AccountsInv, NEW r \in Requests, Rollback(r)
  PROVE  AccountsInv'
<1>1. req' = [req EXCEPT ![r] = Idle] /\ UNCHANGED <<library, account, member, revived>>
  BY DEF Rollback, Finish
<1>2. \A q \in Requests : req[q] \in Transaction /\ Fits(req[q])
  BY DEF AccountsInv, TypeOK
<1> QED BY <1>1, <1>2, IdleFits, IdleTransaction, SlotStep

LEMMA AccountsStep == AccountsInv /\ [Next]_vars => AccountsInv'
<1> SUFFICES ASSUME AccountsInv, [Next]_vars PROVE AccountsInv'
  OBVIOUS
<1>1. ASSUME NEW r \in Requests, Start(r) PROVE AccountsInv'
  <2>1. ASSUME NEW u \in Users, NEW l \in Homes,
               \/ StartRegister(r, l, u)
               \/ \E role \in Roles, active \in BOOLEAN : Create(r, u, l, role, active)
        PROVE  AccountsInv'
    <3>1. l \in Libraries
      BY AccountsAssumption DEF AccountsAssumption
    <3> QED BY <2>1, <3>1, StartRegisterStep, CreateStep
  <2>2. ASSUME NEW u \in Users, NEW l \in Libraries,
               \/ StartRegister(r, l, u)
               \/ \E role \in Roles, active \in BOOLEAN : Create(r, u, l, role, active)
               \/ \E edit \in Edits : StartUpdate(r, u, l, edit)
               \/ StartSelect(r, u, l)
               \/ \E mem \in Patches : StartPatch(r, u, l, mem)
               \/ StartDeleteUser(r, u, l)
        PROVE  AccountsInv'
    BY <2>2, StartRegisterStep, CreateStep, StartUpdateStep, StartSelectStep,
       StartPatchStep, StartDeleteUserStep
  <2>3. ASSUME NEW l \in Libraries, StartRename(r, l) \/ StartDeleteLibrary(r, l)
        PROVE  AccountsInv'
    BY <2>3, StartRenameStep, StartDeleteLibraryStep
  <2>4. \A u \in Users, l \in Libraries, role \in Roles, active \in BOOLEAN :
          /\ StartCreate(r, u, l, role) => Create(r, u, l, role, TRUE)
          /\ StartImport(r, u, l, role, active) => Create(r, u, l, role, active)
    BY DEF StartCreate, StartImport
  <2>5. Homes \subseteq Libraries
    BY AccountsAssumption DEF AccountsAssumption
  <2> QED BY <1>1, <2>1, <2>2, <2>3, <2>4, <2>5 DEF Start
<1>2. ASSUME NEW r \in Requests, Work(r) PROVE AccountsInv'
  BY <1>2, InsertStep, BeginLockStep, LockRowStep, SweepStep, CheckAdminStep, SaveMemberStep,
     SaveAccountStep, SaveLibraryStep, CommitStep DEF Work
<1>3. CASE UNCHANGED vars
  <2>1. TypeOK' /\ NoOrphans'
    BY <1>3 DEF vars, AccountsInv, TypeOK, NoOrphans
  <2>2. \A q \in Requests : Fits(req[q])'
    BY <1>3, FitsNext DEF vars, AccountsInv
  <2>3. \A p, q \in Requests : p # q => Compatible(req[p], req[q])'
    BY <1>3 DEF vars, AccountsInv, Compatible, Locked
  <2> QED BY <2>1, <2>2, <2>3 DEF AccountsInv
<1> QED BY <1>1, <1>2, <1>3, RollbackStep DEF Next

-----------------------------------------------------------------------------
\* Libraries, accounts, memberships and open transactions are consistent in every
\* reachable state, for every number of each.
THEOREM AccountsConsistent == Spec => []AccountsInv
<1>1. Init => AccountsInv
  BY InitAccounts
<1>2. AccountsInv /\ [Next]_vars => AccountsInv'
  BY AccountsStep
<1> QED BY <1>1, <1>2, PTL DEF Spec

\* Type correctness.
THEOREM AccountsTyped == Spec => []TypeOK
<1>1. AccountsInv => TypeOK
  BY DEF AccountsInv
<1> QED BY <1>1, AccountsConsistent, PTL

\* No deletion leaves an account without its library or a membership without its
\* account or library, and no creation slips past a deletion.
THEOREM ForeignKeysHold == Spec => []NoOrphans
<1>1. AccountsInv => NoOrphans
  BY DEF AccountsInv
<1> QED BY <1>1, AccountsConsistent, PTL

LEMMA HomeStep ==
  AccountsInv /\ HomeMembership /\ [Next]_vars => HomeMembership'
<1> SUFFICES ASSUME AccountsInv, HomeMembership, [Next]_vars PROVE HomeMembership'
  OBVIOUS
<1>1. ASSUME UNCHANGED <<library, account, member, revived>> PROVE HomeMembership'
  BY <1>1 DEF HomeMembership
<1>2. ASSUME NEW r \in Requests, Commit(r) PROVE HomeMembership'
  <2> DEFINE x == req[r]
  <2>1. Fits(x) /\ x \in Transaction
    BY Around
  <2> SUFFICES ASSUME NEW u \in Users, u \notin revived', account'[u].home # None
               PROVE  member'[u][account'[u].home].status # "absent"
    BY DEF HomeMembership
  <2>2. <<u, None>> \notin x.doomed
    BY <1>2, CommitRows DEF NoAccount
  <2>3. CASE account[u].home = None
    <3>1. /\ <<u, None>> \in x.wrote /\ u = x.user /\ account'[u].home = x.acc.home
      BY <1>2, <2>3, CommitAdds
    <3>2. x.op \in {"register", "create"} /\ x.pc = "done"
      BY <1>2, <2>1, <2>2, <2>3, <3>1 DEF Commit, Fits, Shape
    <3>3. <<u, x.lib>> \in x.wrote /\ x.acc.home = x.lib /\ x.doomed = {}
      BY <2>1, <3>1, <3>2 DEF Fits, Copies, Shape
    <3>4. x.lib \in Libraries
      BY <2>1, <3>1, <3>3, Fields
    <3> QED BY <1>2, <2>1, <3>1, <3>3, <3>4, CommitRows DEF Fits, Shape
  <2>4. CASE account[u].home # None
    <3>1. PICK l \in Libraries : account[u].home = l /\ account'[u].home = l
      BY <1>2, <2>2, <2>4, CommitKeeps DEF AccountsInv, TypeOK, Account
    <3>2. u \notin revived
      BY <1>2, <2>2 DEF Commit
    <3>3. member[u][l].status # "absent"
      BY <2>4, <3>1, <3>2 DEF HomeMembership
    <3>4. <<u, l>> \notin x.doomed
      <4>1. <<u, None>> \in Dependents(l)
        BY <3>1 DEF Dependents
      <4>2. x.doomed # {} => x.pc = "sweep" /\ x.todo = {}
        BY <1>2, <2>1 DEF Fits, Shape, Commit
      <4>3. <<None, l>> \in x.doomed => Dependents(l) \subseteq x.doomed
        BY <2>1, <3>1, <4>2 DEF Fits, Shape, Closure
      <4> QED BY <2>1, <2>2, <3>1, <4>1, <4>2, <4>3 DEF Fits, Closure
    <3>5. Exists(<<u, l>>) /\ <<u, l>> \in Rows
      BY <3>1, <3>3, RowParts DEF Exists
    <3>6. Exists(<<u, l>>)'
      BY <1>2, <3>4, <3>5, CommitKeeps
    <3> QED BY <3>1, <3>6 DEF Exists
  <2> QED BY <2>3, <2>4
<1>3. ASSUME NEW r \in Requests, Start(r)
      PROVE  UNCHANGED <<library, account, member, revived>>
  BY ZenonT(60), <1>3 DEF Start, StartRegister, StartCreate, StartImport, Create, StartUpdate,
     StartSelect, StartPatch, StartRename, StartDeleteUser, StartDeleteLibrary, Begin
<1>4. ASSUME NEW r \in Requests, Work(r), ~Commit(r)
      PROVE  UNCHANGED <<library, account, member, revived>>
  BY <1>4 DEF Work, Insert, BeginLock, LockRow, Sweep, CheckAdmin, SaveMember, SaveAccount,
     SaveLibrary
<1>5. ASSUME NEW r \in Requests, Rollback(r)
      PROVE  UNCHANGED <<library, account, member, revived>>
  BY <1>5 DEF Rollback
<1>6. CASE UNCHANGED vars
  BY <1>1, <1>6 DEF vars
<1> QED BY <1>1, <1>2, <1>3, <1>4, <1>5, <1>6 DEF Next

\* Every account is a member of its own library, unless the save of a stale copy
\* has inserted it again.
THEOREM AccountsReachable == Spec => []HomeMembership
<1>1. Init => HomeMembership
  <2> SUFFICES ASSUME Init, NEW u \in Users, account[u].home # None
               PROVE  member[u][account[u].home].status # "absent"
    BY DEF HomeMembership
  <2>1. account[u].home \in Libraries
    BY InitAccounts DEF AccountsInv, TypeOK, Account
  <2>2. \A l \in Libraries : account[u].home = l =>
          member[u][l] = [role |-> account[u].role, status |-> "active"]
    BY Zenon DEF Init
  <2> QED BY <2>1, <2>2
<1>2. AccountsInv /\ HomeMembership /\ [Next]_vars => HomeMembership'
  BY HomeStep
<1> QED BY <1>1, <1>2, AccountsConsistent, PTL DEF Spec

-----------------------------------------------------------------------------
\* The admin a check has found is there after the commit.
LEMMA CheckedCommit ==
  ASSUME AccountsInv, NEW r \in Requests, Commit(r), req[r].checked
  PROVE  IF req[r].op = "deleteUser"
         THEN \E v \in Users \ {req[r].user} :
                account'[v] = [home |-> req[r].lib, role |-> "admin", active |-> TRUE]
         ELSE \E v \in Users \ {req[r].user} : ActiveAdmin(member'[v][req[r].lib])
<1> DEFINE x == req[r]
<1>1. Fits(x) /\ x \in Transaction
  BY Around
<1>2. OtherAdminHeld(x) /\ x.lib \in Libraries /\ x.op # "deleteLibrary"
  BY <1>1, Fields DEF Fits, Checked, Shape, Commit
<1>3. CASE x.op = "deleteUser"
  <2>1. PICK v \in Users \ {x.user} :
          account[v].home = x.lib /\ account[v].role = "admin" /\ account[v].active
    BY <1>2, <1>3 DEF OtherAdminHeld
  <2>2. <<v, None>> \notin x.doomed /\ <<v, None>> \notin x.wrote
    BY <1>1, <1>3, <2>1 DEF Fits, Shape, Closure, Commit
  <2>3. account'[v] = account[v] /\ account[v] \in Account
    BY <2>1, <2>2, CommitRows DEF AccountsInv, TypeOK
  <2>4. account'[v] = [home |-> x.lib, role |-> "admin", active |-> TRUE]
    BY <2>1, <2>3 DEF Account
  <2> QED BY <1>3, <2>4
<1>4. CASE x.op # "deleteUser"
  <2>1. PICK v \in Users \ {x.user} : ActiveAdmin(member[v][x.lib])
    BY <1>2, <1>4 DEF OtherAdminHeld
  <2>2. x.doomed = {} /\ <<v, x.lib>> \notin x.wrote
    BY <1>1, <1>2, <1>4, <2>1 DEF Fits, Shape
  <2>3. member'[v][x.lib] = member[v][x.lib]
    BY <1>2, <2>1, <2>2, CommitRows
  <2> QED BY <1>4, <2>1, <2>3
<1> QED BY <1>3, <1>4

\* A request that passed a last-admin check leaves an admin, by the notion of
\* admin that the check uses.
THEOREM CheckedKeepsAdmin == Spec => CheckedLeavesAdmin
<1>1. AccountsInv => \A r \in Requests :
        Commit(r) /\ req[r].checked =>
          IF req[r].op = "deleteUser"
          THEN \E v \in Users \ {req[r].user} :
                 account'[v] = [home |-> req[r].lib, role |-> "admin", active |-> TRUE]
          ELSE \E v \in Users \ {req[r].user} : ActiveAdmin(member'[v][req[r].lib])
  BY CheckedCommit
<1> QED BY <1>1, AccountsConsistent, PTL DEF CheckedLeavesAdmin

-----------------------------------------------------------------------------
\* A membership saved by a transaction that creates no account is in the table, or
\* its account was found when it was inserted.
Backed(x) ==
  x.op \notin {"register", "create"} =>
    \A u \in Users, l \in Libraries :
      <<u, l>> \in x.wrote => Exists(<<u, l>>) \/ <<u, None>> \in x.shared

BackedInv == \A r \in Requests : Backed(req[r])

\* Only a commit changes rows, and only the slot that steps changes.
LEMMA QuietStep ==
  ASSUME AccountsInv, NEW r \in Requests, Start(r) \/ Work(r) \/ Rollback(r), ~Commit(r)
  PROVE  /\ UNCHANGED <<library, account, member, revived>>
         /\ \A q \in Requests \ {r} : req'[q] = req[q]
<1>1. CASE Start(r)
  <2>1. ASSUME NEW op, NEW x, Begin(r, op, x)
        PROVE  /\ UNCHANGED <<library, account, member, revived>>
               /\ \A q \in Requests \ {r} : req'[q] = req[q]
    BY <2>1 DEF Begin, AccountsInv, TypeOK
  <2> QED
    BY ZenonT(60), <1>1, <2>1 DEF Start, StartRegister, StartCreate, StartImport, Create, StartUpdate,
     StartSelect, StartPatch, StartRename, StartDeleteUser, StartDeleteLibrary
<1>2. CASE Work(r)
  BY <1>2 DEF Work, Insert, BeginLock, LockRow, Sweep, CheckAdmin, SaveMember, SaveAccount,
     SaveLibrary, AccountsInv, TypeOK
<1>3. CASE Rollback(r)
  BY <1>3 DEF Rollback, Finish, AccountsInv, TypeOK
<1> QED BY <1>1, <1>2, <1>3

\* A transaction that starts has written nothing, unless it founds a library.
LEMMA StartWrites ==
  ASSUME AccountsInv, NEW r \in Requests, Start(r)
  PROVE  req'[r].op = "register" \/ req'[r].wrote = {}
<1>1. req \in [Requests -> Transaction]
  BY DEF AccountsInv, TypeOK
<1>2. ASSUME NEW u \in Users, NEW l \in Libraries, StartRegister(r, l, u)
      PROVE  req'[r].op = "register"
  BY <1>1, <1>2 DEF StartRegister, Begin, Idle
<1>3. ASSUME NEW u \in Users, NEW l \in Libraries, NEW role, NEW active,
             Create(r, u, l, role, active)
      PROVE  req'[r].wrote = {}
  BY <1>1, <1>3 DEF Create, Begin, Idle
<1>4. ASSUME NEW u \in Users, NEW l \in Libraries, NEW edit, StartUpdate(r, u, l, edit)
      PROVE  req'[r].wrote = {}
  <2>1. CASE edit.role = None /\ edit.active = None
    BY <1>1, <1>4, <2>1 DEF StartUpdate, Begin, Idle
  <2>2. CASE ~(edit.role = None /\ edit.active = None)
    BY <1>1, <1>4, <2>2 DEF StartUpdate, Begin, Idle
  <2> QED BY <2>1, <2>2
<1>5. ASSUME NEW u \in Users, NEW l \in Libraries, NEW mem,
             StartSelect(r, u, l) \/ StartPatch(r, u, l, mem) \/ StartDeleteUser(r, u, l)
      PROVE  req'[r].wrote = {}
  <2>1. CASE StartSelect(r, u, l)
    BY <1>1, <2>1 DEF StartSelect, Begin, Idle
  <2>2. CASE StartPatch(r, u, l, mem)
    BY <1>1, <2>2 DEF StartPatch, Begin, Idle
  <2>3. CASE StartDeleteUser(r, u, l)
    BY <1>1, <2>3 DEF StartDeleteUser, Begin, Idle
  <2> QED BY <1>5, <2>1, <2>2, <2>3
<1>6. ASSUME NEW l \in Libraries, StartRename(r, l) \/ StartDeleteLibrary(r, l)
      PROVE  req'[r].wrote = {}
  BY ZenonT(60), <1>1, <1>6 DEF StartRename, StartDeleteLibrary, Begin, Idle
<1>7. Homes \subseteq Libraries
  BY AccountsAssumption DEF AccountsAssumption
<1> QED BY <1>2, <1>3, <1>4, <1>5, <1>6, <1>7 DEF Start, StartCreate, StartImport

LEMMA BackedStep ==
  ASSUME AccountsInv, BackedInv, NEW r \in Requests, Start(r) \/ Work(r) \/ Rollback(r)
  PROVE  BackedInv'
<1> DEFINE x == req[r]
<1>1. x \in Transaction /\ Fits(x) /\ req \in [Requests -> Transaction]
  BY Around DEF AccountsInv, TypeOK
<1>2. ASSUME NEW q \in Requests \ {r} PROVE Backed(req[q])'
  <2>1. Backed(req[q])
    BY DEF BackedInv
  <2>2. CASE Commit(r)
    <3>1. req'[q] = req[q]
      BY <2>2, CommitRows DEF AccountsInv, TypeOK
    <3>2. \A k \in req[q].wrote : k \notin x.doomed
      BY Around DEF Compatible, Locked
    <3>3. \A u \in Users, l \in Libraries :
            <<u, l>> \in req[q].wrote /\ Exists(<<u, l>>) => Exists(<<u, l>>)'
      BY <2>2, <3>2, CommitKeeps, RowParts
    <3> QED BY <2>1, <3>1, <3>3 DEF Backed
  <2>3. CASE ~Commit(r)
    BY <2>1, <2>3, QuietStep DEF Backed, Exists
  <2> QED BY <2>2, <2>3
<1>3. Backed(req[r])'
  <2> DEFINE y == req'[r]
  <2>1. Backed(x)
    BY DEF BackedInv
  <2>2. CASE Start(r)
    BY <2>2, StartWrites DEF Backed
  <2>3. CASE Rollback(r) \/ Commit(r)
    BY <1>1, <2>3 DEF Rollback, Commit, Finish, Backed, Idle
  <2>4. CASE Insert(r)
    BY <1>1, <2>4 DEF Insert, Backed, Fits, Shape
  <2>5. ASSUME UNCHANGED <<library, account, member>>, y.op = x.op, y.shared = x.shared,
               y.wrote = x.wrote
        PROVE  Backed(req[r])'
    BY <2>1, <2>5 DEF Backed, Exists
  <2>6. CASE BeginLock(r) \/ CheckAdmin(r)
    <3>1. CASE BeginLock(r)
      BY <1>1, <2>5, <3>1 DEF BeginLock
    <3>2. CASE CheckAdmin(r)
      <4>1. y.op = x.op /\ y.shared = x.shared /\ y.wrote = x.wrote
        BY <1>1, <3>2 DEF CheckAdmin
      <4> QED BY <2>5, <3>2, <4>1 DEF CheckAdmin
    <3> QED BY <2>6, <3>1, <3>2
  <2>7. CASE \E k \in Rows : LockRow(r, k) \/ Sweep(r, k)
    <3>1. y.op = x.op /\ y.shared = x.shared /\ y.wrote = x.wrote
      <4>1. ASSUME NEW k \in Rows, LockRow(r, k)
            PROVE  y.op = x.op /\ y.shared = x.shared /\ y.wrote = x.wrote
        BY <1>1, <4>1 DEF LockRow
      <4>2. ASSUME NEW k \in Rows, Sweep(r, k)
            PROVE  y.op = x.op /\ y.shared = x.shared /\ y.wrote = x.wrote
        BY <1>1, <4>2 DEF Sweep
      <4> QED BY <2>7, <4>1, <4>2
    <3> QED BY <2>5, <2>7, <3>1 DEF LockRow, Sweep
  <2>8. CASE SaveMember(r)
    <3>1. /\ y.op = x.op /\ y.wrote = x.wrote \cup {<<x.user, x.lib>>}
          /\ x.shared \subseteq y.shared
          /\ Exists(<<x.user, x.lib>>) \/ <<x.user, None>> \in y.shared
          /\ UNCHANGED <<library, account, member>>
      BY <1>1, <2>8 DEF SaveMember
    <3> QED BY <2>1, <3>1 DEF Backed, Exists
  <2>9. CASE SaveAccount(r)
    <3>1. /\ y.op = x.op /\ y.wrote = x.wrote \cup {<<x.user, None>>}
          /\ x.shared \subseteq y.shared
          /\ UNCHANGED <<library, account, member>>
      BY <1>1, <2>9 DEF SaveAccount
    <3> QED BY <2>1, <3>1 DEF Backed, Exists
  <2>10. CASE SaveLibrary(r)
    <3>1. /\ y.op = x.op /\ y.wrote = x.wrote \cup {<<None, x.lib>>}
          /\ x.shared = y.shared
          /\ UNCHANGED <<library, account, member>>
      BY <1>1, <2>10 DEF SaveLibrary
    <3> QED BY <2>1, <3>1 DEF Backed, Exists
  <2> QED BY <2>2, <2>3, <2>4, <2>6, <2>7, <2>8, <2>9, <2>10 DEF Work
<1> QED BY <1>2, <1>3 DEF BackedInv

LEMMA RevivedCommit ==
  ASSUME AccountsInv, BackedInv, NEW r \in Requests, Commit(r),
         NEW u \in revived' \ revived, NEW l \in Libraries
  PROVE  member'[u][l].status = "absent"
<1> DEFINE x == req[r]
<1>1. /\ x.op \notin {"register", "create"} /\ u \in Users /\ account[u].home = None
  BY DEF Commit
<1>2. ~Exists(<<u, None>>) /\ ~Exists(<<u, l>>)
  BY <1>1 DEF Exists, AccountsInv, NoOrphans
<1>3. <<u, None>> \notin x.shared
  BY <1>2, Around DEF Fits, Secured
<1>4. <<u, l>> \notin x.wrote
  BY <1>1, <1>2, <1>3 DEF BackedInv, Backed
<1> QED BY <1>1, <1>2, <1>4, CommitRows DEF Exists, NoMember

\* An account inserted again by a stale save has no membership, so no membership
\* check finds it: it is an account that nobody can manage, not a way back in.
THEOREM RevivedAreStrangers == Spec => RevivedWithoutMembership
<1>1. Init => BackedInv
  BY DEF Init, BackedInv, Backed, Idle
<1>2. AccountsInv /\ BackedInv /\ [Next]_vars => BackedInv'
  <2>1. ASSUME BackedInv, UNCHANGED vars PROVE BackedInv'
    BY <2>1 DEF vars, BackedInv, Backed, Exists
  <2> QED BY <2>1, BackedStep DEF Next
<1>3. AccountsInv /\ BackedInv /\ [Next]_vars =>
        [\A u \in revived' \ revived, l \in Libraries : member'[u][l].status = "absent"]_vars
  <2> SUFFICES ASSUME AccountsInv, BackedInv, NEW r \in Requests,
                      Start(r) \/ Work(r) \/ Rollback(r)
               PROVE  \A u \in revived' \ revived, l \in Libraries :
                        member'[u][l].status = "absent"
    BY DEF Next
  <2> QED BY QuietStep, RevivedCommit
<1> QED BY <1>1, <1>2, <1>3, AccountsConsistent, PTL DEF Spec, RevivedWithoutMembership

-----------------------------------------------------------------------------
\* A commit is one step of the abstract service, or none.
LEMMA CommitTenancy ==
  ASSUME AccountsInv, NEW r \in Requests, Commit(r)
  PROVE  [Tenants!Next]_(Tenants!vars)
<1> DEFINE x == req[r]
<1>1. Fits(x) /\ x \in Transaction
  BY Around
<1>2. library \subseteq Libraries /\ library' \subseteq Libraries
  BY CommitType DEF AccountsInv, TypeOK
<1>3. \A u \in Users : account'[u].home =
        IF <<u, None>> \in x.doomed THEN None
        ELSE IF <<u, None>> \in x.wrote THEN x.acc.home ELSE account[u].home
  BY CommitRows DEF NoAccount
<1>4. \A l \in Libraries : l \in library' <=>
        (l \in library \/ <<None, l>> \in x.wrote) /\ <<None, l>> \notin x.doomed
  BY CommitRows
<1>5. ASSUME library' = library, \A u \in Users : account'[u].home = account[u].home
      PROVE  [Tenants!Next]_(Tenants!vars)
  BY <1>5 DEF Tenants!vars
<1>6. CASE x.op = "deleteUser"
  <2>1. x.pc = "sweep" /\ x.wrote = {} /\ x.user \in Users
    BY <1>1, <1>6, Fields DEF Fits, Shape, Commit
  <2>2. /\ \A l \in Libraries : <<None, l>> \notin x.doomed
        /\ \A u \in Users : <<u, None>> \in x.doomed => u = x.user
    BY <1>1, <1>6, <2>1 DEF Fits, Closure
  <2>3. library' = library
    BY <1>2, <1>4, <2>1, <2>2
  <2>4. \A u \in Users \ {x.user} : account'[u].home = account[u].home
    BY <1>3, <2>1, <2>2
  <2>5. CASE <<x.user, None>> \notin x.doomed
    BY <1>3, <1>5, <2>1, <2>3, <2>4, <2>5
  <2>6. CASE <<x.user, None>> \in x.doomed
    <3>1. account'[x.user].home = None
      BY <1>3, <2>1, <2>6
    <3>2. Tenants!Leave(x.user)
      BY <2>1, <2>3, <2>4, <3>1 DEF Tenants!Leave
    <3> QED BY <2>1, <3>2 DEF Tenants!Next, Tenants!Leave
  <2> QED BY <2>5, <2>6
<1>7. CASE x.op = "deleteLibrary"
  <2>1. x.pc = "sweep" /\ x.wrote = {} /\ x.todo = {} /\ x.lib \in Libraries
    BY <1>1, <1>7, Fields DEF Fits, Shape, Commit
  <2>2. /\ \A k \in x.doomed : k[1] = None => k[2] = x.lib
        /\ \A k \in x.doomed : k[1] # None => <<None, x.lib>> \in x.doomed
        /\ \A u \in Users : <<u, None>> \in x.doomed => account[u].home = x.lib
        /\ <<None, x.lib>> \in x.doomed => Dependents(x.lib) \subseteq x.doomed
    BY <1>1, <1>7, <2>1 DEF Fits, Closure
  <2>3. CASE <<None, x.lib>> \notin x.doomed
    <3>1. x.doomed = {}
      <4>1. \A k \in x.doomed : k = <<k[1], k[2]>>
        BY <1>1, RowParts, Fields
      <4> QED BY <2>2, <2>3, <4>1
    <3>2. library' = library
      BY <1>2, <1>4, <2>1, <3>1
    <3> QED BY <1>3, <1>5, <2>1, <3>1, <3>2
  <2>4. CASE <<None, x.lib>> \in x.doomed
    <3>1. \A l \in Libraries : <<None, l>> \in x.doomed <=> l = x.lib
      BY <2>2, <2>4
    <3>2. library' = library \ {x.lib}
      BY <1>2, <1>4, <2>1, <3>1
    <3>3. \A u \in Users : <<u, None>> \in x.doomed <=> account[u].home = x.lib
      BY <2>2, <2>4 DEF Dependents
    <3>4. \A u \in Users : account'[u].home =
            IF account[u].home = x.lib THEN None ELSE account[u].home
      BY <1>3, <2>1, <3>3
    <3>5. Tenants!Close(x.lib)
      BY <3>2, <3>4 DEF Tenants!Close
    <3> QED BY <2>1, <3>5 DEF Tenants!Next, Tenants!Close
  <2> QED BY <2>3, <2>4
<1>8. CASE x.op \notin {"deleteUser", "deleteLibrary"}
  <2>1. x.doomed = {} /\ x.pc = "done"
    BY <1>1, <1>8 DEF Fits, Shape, Commit
  <2>2. CASE x.op = "register"
    <3>1. /\ x.user \in Users /\ account[x.user].home = None /\ x.acc.home = x.lib
          /\ <<x.user, None>> \in x.wrote
          /\ <<None, x.lib>> \in x.wrote /\ x.lib \notin library
      BY <1>1, <2>1, <2>2, Fields DEF Fits, Copies
    <3>2. /\ \A l \in Libraries : <<None, l>> \in x.wrote <=> l = x.lib
          /\ \A u \in Users : <<u, None>> \in x.wrote <=> u = x.user
          /\ x.lib \in Libraries
      BY <1>1, <3>1, Fields DEF Fits, Shape
    <3>3. library' = library \cup {x.lib}
      BY <1>2, <1>4, <2>1, <3>2
    <3>4. \A u \in Users : account'[u].home =
            IF u \in {x.user} THEN x.lib ELSE account[u].home
      BY <1>3, <2>1, <3>1, <3>2
    <3>5. Tenants!Open(x.lib, {x.user})
      BY <3>1, <3>3, <3>4 DEF Tenants!Open
    <3>6. {x.user} \in SUBSET Users
      BY <3>1
    <3>7. \E l \in Libraries, founders \in SUBSET Users : Tenants!Open(l, founders)
      BY <3>2, <3>5, <3>6 DEF Tenants!Open
    <3> QED BY <3>7 DEF Tenants!Next, Tenants!Open, Tenants!Join, Tenants!Leave, Tenants!Close
  <2>3. CASE x.op = "rename"
    <3>1. /\ x.lib \in Libraries
          /\ \A l \in Libraries : <<None, l>> \in x.wrote => l = x.lib
          /\ \A u \in Users : <<u, None>> \notin x.wrote
      BY <1>1, <2>3, Fields DEF Fits, Shape
    <3>2. \A u \in Users : account'[u].home = account[u].home
      BY <1>3, <2>1, <3>1
    <3>3. CASE <<None, x.lib>> \in x.wrote /\ x.lib \notin library
      <4>1. library' = library \cup {x.lib}
        BY <1>2, <1>4, <2>1, <3>1, <3>3
      <4>2. Tenants!Open(x.lib, {})
        BY <3>2, <3>3, <4>1 DEF Tenants!Open
      <4>3. \E l \in Libraries, founders \in SUBSET Users : Tenants!Open(l, founders)
        <5>1. {} \in SUBSET Users
          OBVIOUS
        <5> QED BY <3>1, <4>2, <5>1 DEF Tenants!Open
      <4> QED BY <4>3 DEF Tenants!Next, Tenants!Open, Tenants!Join, Tenants!Leave, Tenants!Close
    <3>4. CASE ~(<<None, x.lib>> \in x.wrote /\ x.lib \notin library)
      <4>1. library' = library
        BY <1>2, <1>4, <2>1, <3>1, <3>4
      <4> QED BY <1>5, <3>2, <4>1
    <3> QED BY <3>3, <3>4
  <2>4. CASE x.op \notin {"register", "rename"}
    <3>1. /\ \A l \in Libraries : <<None, l>> \notin x.wrote
          /\ \A u \in Users : <<u, None>> \in x.wrote => u = x.user
      BY <1>1, <2>4 DEF Fits, Shape
    <3>2. library' = library
      BY <1>2, <1>4, <2>1, <3>1
    <3>3. \A u \in Users : u # x.user \/ account[u].home # None =>
            account'[u].home = account[u].home
      BY <1>3, <2>1, <3>1, CommitKeeps
    <3>4. CASE \A u \in Users : account'[u].home = account[u].home
      BY <1>5, <3>2, <3>4
    <3>5. ASSUME NEW u \in Users, account'[u].home # account[u].home
          PROVE  Tenants!Next
      <4>1. u = x.user /\ account[u].home = None /\ account'[u].home # None
        BY <3>3, <3>5
      <4>2. PICK l \in Libraries : account'[u].home = l
        BY <4>1, CommitType DEF TypeOK, Account
      <4>3. <<None, l>> \in x.shared
        BY <3>1, <4>1, <4>2, CommitAdds
      <4>4. l \in library
        BY <1>1, <4>3 DEF Fits, Secured, Exists
      <4>5. Tenants!Join(u, l)
        BY <3>2, <3>3, <4>1, <4>2, <4>4 DEF Tenants!Join
      <4> QED BY <4>5 DEF Tenants!Next, Tenants!Join
    <3> QED BY <3>4, <3>5
  <2> QED BY <2>2, <2>3, <2>4
<1> QED BY <1>6, <1>7, <1>8

LEMMA StepTenancy ==
  AccountsInv /\ [Next]_vars => [Tenants!Next]_(Tenants!vars)
<1> SUFFICES ASSUME AccountsInv, [Next]_vars PROVE [Tenants!Next]_(Tenants!vars)
  OBVIOUS
<1>1. ASSUME UNCHANGED <<library, account>> PROVE [Tenants!Next]_(Tenants!vars)
  BY <1>1 DEF Tenants!vars
<1>2. ASSUME NEW r \in Requests, Start(r) PROVE UNCHANGED <<library, account>>
  BY ZenonT(60), <1>2 DEF Start, StartRegister, StartCreate, StartImport, Create, StartUpdate,
     StartSelect, StartPatch, StartRename, StartDeleteUser, StartDeleteLibrary, Begin
<1>3. ASSUME NEW r \in Requests, Work(r), ~Commit(r) PROVE UNCHANGED <<library, account>>
  BY <1>3 DEF Work, Insert, BeginLock, LockRow, Sweep, CheckAdmin, SaveMember, SaveAccount,
     SaveLibrary
<1>4. ASSUME NEW r \in Requests, Rollback(r) PROVE UNCHANGED <<library, account>>
  BY <1>4 DEF Rollback
<1>5. CASE UNCHANGED vars
  BY <1>1, <1>5 DEF vars
<1> QED BY <1>1, <1>2, <1>3, <1>4, <1>5, CommitTenancy DEF Next

\* Accounts implements Tenancy: an account has one library for its life, and a
\* library goes together with all of its accounts in one step.
THEOREM AccountsImplementTenancy == Spec => TenancySpec
<1>1. Init => Tenants!Init
  <2> SUFFICES ASSUME Init PROVE Tenants!Init
    OBVIOUS
  <2>1. AccountsInv
    BY InitAccounts
  <2>2. \A u \in Users : account[u].home \in library \cup {None}
    BY <2>1 DEF AccountsInv, NoOrphans
  <2> QED BY <2>1, <2>2 DEF AccountsInv, TypeOK, Tenants!Init
<1>2. AccountsInv /\ [Next]_vars => [Tenants!Next]_(Tenants!vars)
  BY StepTenancy
<1> QED BY <1>1, <1>2, AccountsConsistent, PTL DEF Spec, TenancySpec, Tenants!Spec
=============================================================================
