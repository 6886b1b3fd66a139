---------------------------- MODULE AccessProofs ----------------------------
(***************************************************************************)
(* Theorems about Access, for any number of requests, users, libraries and *)
(* roles, and any length of tokens and requests.                           *)
(***************************************************************************)
EXTENDS Access, TLAPS

-----------------------------------------------------------------------------
(* Contexts and records *)

\* None is no scope, and neither is it a user or a library.
LEMMA NoneApart ==
  /\ None \notin Scopes /\ None \notin Users /\ None \notin Libraries /\ Admin \in Roles
  /\ None \in Contexts
  BY AccessAssumption DEF Contexts

\* The scope of an active membership is held.
LEMMA ContextHeld ==
  ASSUME TypeOK, NEW u \in Users, NEW l \in Libraries, Active(u, l)
  PROVE  Context(u, l) \in Scopes /\ Holds(u, Context(u, l)) /\ Context(u, l)[1] = l
  BY DEF TypeOK, Membership, Active, Context, Holds, Scopes

\* A login or refresh resolves to a scope that is held, or to none.
LEMMA ResolveHeld ==
  ASSUME TypeOK, NEW u \in Users, Resolve(u) # None
  PROVE  Resolve(u) \in Scopes /\ Holds(u, Resolve(u))
<1> DEFINE active == {l \in Libraries : Active(u, l)}
<1>1. CASE \E l \in Libraries : active = {l}
  <2>1. PICK l \in Libraries : active = {l}
    BY <1>1
  <2>2. (CHOOSE k \in Libraries : active = {k}) = l
    BY <2>1
  <2>3. Resolve(u) = Context(u, l)
    BY <1>1, <2>2 DEF Resolve
  <2>4. Active(u, l)
    BY <2>1
  <2> QED BY <2>3, <2>4, ContextHeld
<1>2. CASE (~\E l \in Libraries : active = {l}) /\ account[u].selected \in active
  <2>1. Resolve(u) = Context(u, account[u].selected)
    BY <1>2 DEF Resolve
  <2> QED BY <1>2, <2>1, ContextHeld
<1> QED BY <1>1, <1>2 DEF Resolve

\* A membership with another status.
LEMMA OtherStatus ==
  ASSUME TypeOK, NEW u \in Users, NEW l \in Libraries, NEW s \in Statuses
  PROVE  [member[u][l] EXCEPT !.status = s] \in Membership
<1>1. member[u][l] \in Membership
  BY DEF TypeOK
<1> QED BY <1>1 DEF Membership

\* The record of a free slot.
LEMMA IdleFields ==
  /\ Idle \in Transaction
  /\ Idle.open = FALSE /\ Idle.actor = None /\ Idle.by = None /\ Idle.user = None
  /\ Idle.lib = None /\ Idle.saves = {} /\ Idle.drops = FALSE /\ Idle.grant = {}
  /\ Idle.age = 0
<1>1. Idle.acc \in Account /\ Idle.mem \in Membership
  BY AccessAssumption DEF Idle, Account, Membership, Statuses
<1>2. Idle.by \in Contexts /\ Idle.age \in 0..MaxAge
  BY AccessAssumption DEF Idle, Contexts
<1>3. Idle \in Transaction
  BY <1>1, <1>2 DEF Idle, Transaction
<1> QED BY <1>3 DEF Idle

LEMMA IdleFits == Fits(Idle)
  BY IdleFields, NoneApart DEF Fits

\* A request that begins with a sound record leaves the invariant.
LEMMA BeginSound ==
  ASSUME AccessInv, NEW r \in Requests, NEW op, NEW x \in Transaction, Fits(x),
         Begin(r, op, x), changes' \in 0..MaxChanges
  PROVE  AccessInv'
<1> DEFINE e == Edited(x)
           y == [x EXCEPT !.open = TRUE, !.edited = e]
<1>0. e \in SUBSET Columns
  BY DEF Edited, Columns
<1> HIDE DEF e
<1>1. y \in Transaction
  BY <1>0 DEF Transaction
<1>2. Fits(y)
  <2>1. /\ y.actor = x.actor /\ y.grant = x.grant /\ y.by = x.by /\ y.age = x.age
        /\ y.saves = x.saves /\ y.user = x.user /\ y.lib = x.lib
    BY DEF Transaction
  <2> HIDE DEF y
  <2> QED BY <2>1 DEF Fits
<1>3. req' = [req EXCEPT ![r] = y] /\ UNCHANGED <<account, member, token, ago>>
  BY DEF Begin, e
<1> HIDE DEF y
<1>4. TypeOK'
  BY <1>1, <1>3 DEF AccessInv, TypeOK
<1>5. TokensRunOut'
  BY <1>3 DEF AccessInv, TokensRunOut, Holds, Active
<1>6. \A q \in Requests : (Fits(req[q]) /\ (req[q].open \/ req[q] = Idle))'
  <2>1. SUFFICES ASSUME NEW q \in Requests
                 PROVE  (Fits(req[q]) /\ (req[q].open \/ req[q] = Idle))'
    OBVIOUS
  <2>2. req'[q] = y \/ req'[q] = req[q]
    BY <1>3 DEF AccessInv, TypeOK
  <2>3. Fits(req[q])'
    BY <1>2, <1>3, <2>2 DEF AccessInv, Fits
  <2>4. y.open
    BY DEF y, Transaction
  <2> QED BY <2>2, <2>3, <2>4 DEF AccessInv
<1> QED BY <1>4, <1>5, <1>6 DEF AccessInv

\* The same without a budget.
LEMMA BeginOwnSound ==
  ASSUME AccessInv, NEW r \in Requests, NEW op, NEW x \in Transaction, Fits(x),
         BeginOwn(r, op, x)
  PROVE  AccessInv'
<1>1. changes' \in 0..MaxChanges
  BY DEF BeginOwn, AccessInv, TypeOK
<1> QED BY <1>1, BeginSound DEF BeginOwn

\* The same for what an admin does: the claim is that of a token.
LEMMA AdministerSound ==
  ASSUME AccessInv, NEW r \in Requests, NEW op, NEW a \in Users, NEW l \in Libraries,
         NEW x \in Transaction, x.age = 0, x.grant = {}, x.user \in Users,
         Administer(r, op, a, l, x)
  PROVE  AccessInv'
<1> DEFINE c == <<l, Admin>>
           b == x.mem.status # "invited" /\ ActiveAdmin(member[x.user][l]) /\ ~ActiveAdmin(x.mem)
           y == [x EXCEPT !.actor = a, !.by = c, !.lib = l, !.drops = b]
<1>1. c \in Scopes /\ c \in Contexts
  BY NoneApart DEF Scopes, Contexts
<1>2. token[a][c] > 0 /\ changes' \in 0..MaxChanges /\ Begin(r, op, y)
  BY AccessAssumption DEF Administer, Authorized, AccessInv, TypeOK
<1>3. token[a][c] \in 0..Lifetime /\ ago[a][c] \in 0..(Horizon + 1)
  BY <1>1 DEF AccessInv, TypeOK
<1>4. ago[a][c] < Lifetime + MaxAge
  BY <1>1, <1>2, <1>3, AccessAssumption DEF AccessInv, TokensRunOut, Horizon
<1>5. b \in BOOLEAN
  BY DEF ActiveAdmin
<1> HIDE DEF b, c
<1>6. y \in Transaction
  BY <1>1, <1>5 DEF Transaction
<1>7. /\ y.actor = a /\ y.grant = {} /\ y.by = c /\ y.age = 0 /\ y.user = x.user
      /\ y.lib = l
  BY DEF Transaction
<1> HIDE DEF y
<1>8. Fits(y)
  BY <1>4, <1>7, NoneApart, AccessAssumption DEF Fits
<1> QED BY <1>2, <1>6, <1>8, BeginSound

-----------------------------------------------------------------------------
(* The operations *)

\* What a login or refresh is about to save and hand out.
LEMMA SignInSound ==
  ASSUME AccessInv, NEW u \in Users, NEW c \in Contexts,
         c = None \/ Holds(u, c)
  PROVE  /\ SignIn(u, c) \in Transaction /\ Fits(SignIn(u, c))
         /\ SignIn(u, c).by = None /\ SignIn(u, c).age = 0 /\ SignIn(u, c).actor = u
         /\ SignIn(u, c).grant = {c}
         /\ c # None => SignIn(u, c).user = u /\ SignIn(u, c).lib = c[1]
<1>1. CASE c = None
  <2> DEFINE y == [Idle EXCEPT !.actor = u, !.grant = {None}]
  <2>1. SignIn(u, c) = y
    BY <1>1 DEF SignIn
  <2>2. y \in Transaction
    BY <1>1, IdleFields DEF Transaction
  <2>3. /\ y.actor = u /\ y.grant = {None} /\ y.by = None /\ y.age = 0 /\ y.saves = {}
    BY IdleFields DEF Transaction
  <2> HIDE DEF y
  <2>4. Fits(y)
    BY <2>3, NoneApart DEF Fits
  <2> QED BY <1>1, <2>1, <2>2, <2>3, <2>4
<1>2. CASE c # None
  <2> DEFINE m == member[u][c[1]]
             y == [Idle EXCEPT !.actor = u, !.grant = {c}, !.user = u, !.lib = c[1],
                               !.mem = m, !.saves = {"member"}]
  <2>1. SignIn(u, c) = y
    BY <1>2 DEF SignIn
  <2>2. c \in Scopes /\ c[1] \in Libraries /\ m \in Membership
    BY <1>2 DEF Contexts, Scopes, AccessInv, TypeOK
  <2> HIDE DEF m
  <2>3. y \in Transaction
    BY <2>2, IdleFields DEF Transaction
  <2>4. /\ y.actor = u /\ y.grant = {c} /\ y.by = None /\ y.age = 0 /\ y.saves = {"member"}
        /\ y.user = u /\ y.lib = c[1]
    BY IdleFields DEF Transaction
  <2> HIDE DEF y
  <2>5. ago[u][c] = 0
    BY <1>2, <2>2 DEF AccessInv, TokensRunOut
  <2>6. Fits(y)
    BY <2>2, <2>4, <2>5, NoneApart DEF Fits
  <2> QED BY <2>1, <2>3, <2>4, <2>6
<1> QED BY <1>1, <1>2

LEMMA ResolveSound ==
  ASSUME AccessInv, NEW u \in Users
  PROVE  /\ Resolve(u) \in Contexts
         /\ Resolve(u) = None \/ Holds(u, Resolve(u))
<1>1. CASE Resolve(u) = None
  BY <1>1, NoneApart
<1>2. CASE Resolve(u) # None
  <2>1. Resolve(u) \in Scopes /\ Holds(u, Resolve(u))
    BY <1>2, ResolveHeld DEF AccessInv
  <2> QED BY <2>1 DEF Contexts, Holds
<1> QED BY <1>1, <1>2

LEMMA LoginSound ==
  ASSUME AccessInv, NEW r \in Requests, NEW u \in Users, StartLogin(r, u)
  PROVE  AccessInv'
  BY ResolveSound, SignInSound, BeginOwnSound DEF StartLogin

LEMMA RefreshSound ==
  ASSUME AccessInv, NEW r \in Requests, NEW u \in Users, StartRefresh(r, u)
  PROVE  AccessInv'
  BY ResolveSound, SignInSound, BeginOwnSound DEF StartRefresh

LEMMA SelectSound ==
  ASSUME AccessInv, NEW r \in Requests, NEW u \in Users, NEW l \in Libraries,
         StartSelect(r, u, l)
  PROVE  AccessInv'
<1> DEFINE c == Context(u, l)
           a == [account[u] EXCEPT !.selected = l]
           x == SignIn(u, c)
           y == [x EXCEPT !.acc = a, !.saves = {"member", "account"}]
<1>1. BeginOwn(r, "select", y)
  BY DEF StartSelect
<1>2. c \in Scopes /\ Holds(u, c) /\ c[1] = l /\ Active(u, l)
  BY ContextHeld DEF StartSelect, AccessInv
<1>3. a \in Account
  BY SMTT(30) DEF AccessInv, TypeOK, Account
<1> HIDE DEF c, a
<1>4. c # None /\ c \in Contexts
  BY <1>2, NoneApart DEF Contexts
<1>5. /\ x \in Transaction /\ Fits(x) /\ x.by = None /\ x.age = 0 /\ x.actor = u
      /\ x.grant = {c} /\ x.user = u /\ x.lib = l
  BY <1>2, <1>4, SignInSound
<1> HIDE DEF x
<1>6. y \in Transaction
  BY <1>3, <1>5 DEF Transaction
<1>7. /\ y.actor = x.actor /\ y.grant = x.grant /\ y.by = x.by /\ y.age = x.age
      /\ y.user = u /\ y.lib = l
  BY <1>5 DEF Transaction
<1> HIDE DEF y
<1>8. Fits(y)
  BY <1>5, <1>7, NoneApart DEF Fits
<1> QED BY <1>1, <1>6, <1>8, BeginOwnSound

\* A request that hands out nothing and needs no claim fits.
LEMMA PlainFits ==
  ASSUME NEW x, x.grant = {}, x.by = None, x.user # None, x.lib # None \/ x.saves = {"account"}
  PROVE  Fits(x)
<1>1. x.saves = {"account"} => x.saves \cap {"member", "insert"} = {}
  OBVIOUS
<1> QED BY <1>1, NoneApart DEF Fits

LEMMA AnswerSound ==
  ASSUME AccessInv, NEW r \in Requests, NEW u \in Users, NEW l \in Libraries, NEW op,
         StartAnswer(r, u, l, op)
  PROVE  AccessInv'
<1> DEFINE s == IF op = "accept" THEN "active" ELSE "revoked"
           m == [member[u][l] EXCEPT !.status = s]
           y == [Idle EXCEPT !.actor = u, !.user = u, !.lib = l, !.saves = {"member"},
                             !.mem = m]
<1>1. BeginOwn(r, op, y)
  BY DEF StartAnswer
<1>2. m \in Membership
  <2>1. s \in Statuses
    BY DEF Statuses
  <2> HIDE DEF s
  <2> QED BY <2>1, OtherStatus DEF AccessInv
<1> HIDE DEF m
<1>3. y \in Transaction
  BY <1>2, IdleFields DEF Transaction
<1>4. y.grant = {} /\ y.by = None /\ y.user # None /\ y.lib # None
  BY IdleFields, NoneApart DEF Transaction
<1> HIDE DEF y
<1>5. Fits(y)
  BY <1>4, PlainFits
<1> QED BY <1>1, <1>3, <1>5, BeginOwnSound

LEMMA ProfileSound ==
  ASSUME AccessInv, NEW r \in Requests, NEW u \in Users, StartProfile(r, u)
  PROVE  AccessInv'
<1> DEFINE y == [Idle EXCEPT !.actor = u, !.user = u, !.acc = account[u],
                             !.saves = {"account"}]
<1>1. BeginOwn(r, "profile", y)
  BY DEF StartProfile
<1>2. y \in Transaction
  BY IdleFields DEF Transaction, AccessInv, TypeOK
<1>3. y.grant = {} /\ y.by = None /\ y.user # None /\ y.saves = {"account"}
  BY IdleFields, NoneApart DEF Transaction
<1> HIDE DEF y
<1>4. Fits(y)
  BY <1>3, PlainFits
<1> QED BY <1>1, <1>2, <1>4, BeginOwnSound

LEMMA InviteSound ==
  ASSUME AccessInv, NEW r \in Requests, NEW a \in Users, NEW u \in Users,
         NEW l \in Libraries, NEW role \in Roles, StartInvite(r, a, l, u, role)
  PROVE  AccessInv'
<1> DEFINE m == [role |-> role, status |-> "invited"]
           s == {IF member[u][l].status = "absent" THEN "insert" ELSE "member"}
           y == [Idle EXCEPT !.user = u, !.mem = m, !.saves = s]
<1>1. Administer(r, "invite", a, l, y)
  BY DEF StartInvite
<1>2. m \in Membership /\ s \in SUBSET {"account", "member", "insert"}
  BY DEF Membership, Statuses
<1> HIDE DEF m, s
<1>3. y \in Transaction /\ y.age = 0 /\ y.grant = {} /\ y.user = u
  BY <1>2, IdleFields DEF Transaction
<1> HIDE DEF y
<1> QED BY <1>1, <1>3, AdministerSound

LEMMA UpdateSound ==
  ASSUME AccessInv, NEW r \in Requests, NEW a \in Users, NEW u \in Users,
         NEW l \in Libraries, NEW edit \in Edits, StartUpdate(r, a, l, u, edit)
  PROVE  AccessInv'
<1> DEFINE m == [role |-> Given(edit.role, member[u][l].role),
                 status |-> Given(edit.status, member[u][l].status)]
           y == [Idle EXCEPT !.user = u, !.saves = {"member"}, !.mem = m]
<1>1. Administer(r, "update", a, l, y)
  BY DEF StartUpdate
<1>2. m \in Membership
  BY AccessAssumption DEF Membership, Statuses, Given, AccessInv, TypeOK
<1> HIDE DEF m
<1>3. y \in Transaction /\ y.age = 0 /\ y.grant = {} /\ y.user = u
  BY <1>2, IdleFields DEF Transaction
<1> HIDE DEF y
<1> QED BY <1>1, <1>3, AdministerSound

LEMMA RemoveSound ==
  ASSUME AccessInv, NEW r \in Requests, NEW a \in Users, NEW u \in Users,
         NEW l \in Libraries, StartRemove(r, a, l, u)
  PROVE  AccessInv'
<1> DEFINE s == "revoked"
           m == [member[u][l] EXCEPT !.status = s]
           y == [Idle EXCEPT !.user = u, !.saves = {"member"}, !.mem = m]
<1>1. Administer(r, "remove", a, l, y)
  BY DEF StartRemove
<1>2. m \in Membership
  <2>1. s \in Statuses
    BY DEF Statuses
  <2> HIDE DEF s
  <2> QED BY <2>1, OtherStatus DEF AccessInv
<1> HIDE DEF m
<1>3. y \in Transaction /\ y.age = 0 /\ y.grant = {} /\ y.user = u
  BY <1>2, IdleFields DEF Transaction
<1> HIDE DEF y
<1> QED BY <1>1, <1>3, AdministerSound

LEMMA UpdateUserSound ==
  ASSUME AccessInv, NEW r \in Requests, NEW a \in Users, NEW u \in Users,
         NEW l \in Libraries, NEW role \in Roles \cup {None}, NEW active \in BOOLEAN \cup {None},
         StartUpdateUser(r, a, l, u, role, active)
  PROVE  AccessInv'
<1> DEFINE s == IF role = None /\ active = None THEN {"account"} ELSE {"account", "member"}
           m == [role |-> Given(role, member[u][l].role),
                 status |-> IF active = FALSE THEN "suspended" ELSE "active"]
           b == [account[u] EXCEPT !.active = Given(active, @)]
           y == [Idle EXCEPT !.user = u, !.saves = s, !.acc = b, !.mem = m]
<1>1. Administer(r, "updateUser", a, l, y)
  BY DEF StartUpdateUser
<1>2. m \in Membership /\ s \in SUBSET {"account", "member", "insert"}
  BY DEF Membership, Statuses, Given, AccessInv, TypeOK
<1>3. b \in Account
  BY ZenonT(60) DEF Account, Given, AccessInv, TypeOK
<1> HIDE DEF m, b, s
<1>4. y \in Transaction /\ y.age = 0 /\ y.grant = {} /\ y.user = u
  BY <1>2, <1>3, IdleFields DEF Transaction
<1> HIDE DEF y
<1> QED BY <1>1, <1>4, AdministerSound

LEMMA StartSound ==
  ASSUME AccessInv, NEW r \in Requests, Start(r)
  PROVE  AccessInv'
  BY AccessAssumption, LoginSound, RefreshSound, ProfileSound, SelectSound, AnswerSound,
     InviteSound, UpdateSound, RemoveSound, UpdateUserSound DEF Start

-----------------------------------------------------------------------------
(* The end of a request; time *)

\* A save leaves well-formed rows.
LEMMA SaveTypes ==
  ASSUME TypeOK, NEW x \in Transaction, Fits(x), SaveMember(x), SaveAccount(x)
  PROVE  member' \in [Users -> [Libraries -> Membership]] /\ account' \in [Users -> Account]
<1>1. x.mem \in Membership /\ x.acc \in Account
  BY DEF Transaction
<1>2. x.user \in Users \cup {None} /\ x.lib \in Libraries \cup {None}
  BY DEF Transaction
<1>3. account' \in [Users -> Account]
  <2>1. CASE "account" \notin x.saves
    BY <2>1 DEF SaveAccount, TypeOK
  <2>2. CASE "account" \in x.saves
    <3>1. x.user \in Users /\ account[x.user] \in Account
      BY <1>2, <2>2 DEF Fits, TypeOK
    <3>2. PICK b \in Account : account' = [account EXCEPT ![x.user] = b]
      BY <1>1, <2>2, <3>1 DEF SaveAccount, Outcomes, Account
    <3> QED BY <3>1, <3>2 DEF TypeOK
  <2> QED BY <2>1, <2>2
<1>4. CASE x.saves \cap {"member", "insert"} = {}
  BY <1>3, <1>4 DEF SaveMember, TypeOK
<1>5. CASE x.saves \cap {"member", "insert"} # {}
  <2>1. x.user \in Users /\ x.lib \in Libraries
    BY <1>2, <1>5 DEF Fits
  <2>2. member[x.user][x.lib] \in Membership
    BY <2>1 DEF TypeOK
  <2>3. PICK m \in Membership : member' = [member EXCEPT ![x.user][x.lib] = m]
    BY <1>1, <1>5, <2>2 DEF SaveMember, Outcomes, Membership
  <2> QED BY <1>3, <2>1, <2>3 DEF TypeOK
<1> QED BY <1>4, <1>5

\* The history after a commit.
LEMMA AgoAfterCommit ==
  ASSUME AccessInv, NEW r \in Requests, Commit(r), NEW u \in Users, NEW c \in Scopes
  PROVE  /\ ago'[u][c] = 0 \/ ago'[u][c] = ago[u][c]
         /\ Holds(u, c)' => ago'[u][c] = 0
  BY DEF Commit

LEMMA CommitSound ==
  ASSUME AccessInv, NEW r \in Requests, Commit(r)
  PROVE  AccessInv'
<1> DEFINE x == req[r]
<1>1. /\ x \in Transaction /\ Fits(x) /\ SaveMember(x) /\ SaveAccount(x) /\ Issue(x)
      /\ req' = [req EXCEPT ![r] = Idle] /\ changes' = changes
  BY DEF Commit, Finish, AccessInv, TypeOK
<1>2. \A u \in Users, c \in Scopes :
        ago[u][c] \in 0..(Horizon + 1) /\ token[u][c] \in 0..Lifetime
  BY DEF AccessInv, TypeOK, Contexts
<1>3. Horizon \in Nat /\ Lifetime \in Nat /\ MaxAge \in Nat
  BY AccessAssumption DEF Horizon
<1>4. TypeOK'
  <2>1. member' \in [Users -> [Libraries -> Membership]] /\ account' \in [Users -> Account]
    BY <1>1, SaveTypes DEF AccessInv
  <2>2. token' \in [Users -> [Contexts -> 0..Lifetime]]
    BY <1>1, <1>3 DEF Issue, AccessInv, TypeOK
  <2>3. ago' \in [Users -> [Scopes -> 0..(Horizon + 1)]]
    BY <1>2, <1>3 DEF Commit
  <2>4. req' \in [Requests -> Transaction] /\ changes' \in 0..MaxChanges
    BY <1>1, IdleFields DEF AccessInv, TypeOK
  <2> QED BY <2>1, <2>2, <2>3, <2>4 DEF TypeOK
<1>5. TokensRunOut'
  <2>1. SUFFICES ASSUME NEW u \in Users, NEW c \in Scopes
                 PROVE  /\ Holds(u, c)' => ago'[u][c] = 0
                        /\ token'[u][c] > 0 => ago'[u][c] + token'[u][c] <= Lifetime + MaxAge
    BY DEF TokensRunOut
  <2>2. CASE u = x.actor /\ c \in x.grant
    <3>1. token'[u][c] = Lifetime
      BY <1>1, <2>2 DEF Issue, Contexts
    <3>2. ago[u][c] <= x.age /\ x.age \in 0..MaxAge
      BY <1>1, <2>2 DEF Fits, Transaction
    <3> QED BY <1>2, <1>3, <3>1, <3>2, AgoAfterCommit
  <2>3. CASE ~(u = x.actor /\ c \in x.grant)
    <3>1. token'[u][c] = token[u][c]
      BY <1>1, <2>3 DEF Issue, Contexts
    <3> QED BY <1>2, <1>3, <3>1, AgoAfterCommit DEF AccessInv, TokensRunOut
  <2> QED BY <2>2, <2>3
<1>6. \A q \in Requests : (Fits(req[q]) /\ (req[q].open \/ req[q] = Idle))'
  <2>1. SUFFICES ASSUME NEW q \in Requests
                 PROVE  (Fits(req[q]) /\ (req[q].open \/ req[q] = Idle))'
    OBVIOUS
  <2>2. CASE q = r
    <3>1. req'[q] = Idle
      BY <1>1, <2>2 DEF AccessInv, TypeOK
    <3> QED BY <3>1, IdleFields, NoneApart DEF Fits
  <2>3. CASE q # r
    <3> DEFINE y == req[q]
    <3>1. req'[q] = y /\ Fits(y) /\ y.age \in 0..MaxAge
      BY <1>1, <2>3 DEF AccessInv, TypeOK, Transaction
    <3>2. \A u \in Users, c \in Scopes :
            /\ y.actor = u /\ c \in y.grant => ago'[u][c] <= y.age
            /\ y.actor = u /\ c = y.by => ago'[u][c] < Lifetime + MaxAge + y.age
      <4>1. SUFFICES ASSUME NEW u \in Users, NEW c \in Scopes
                     PROVE  /\ y.actor = u /\ c \in y.grant => ago'[u][c] <= y.age
                            /\ y.actor = u /\ c = y.by => ago'[u][c] < Lifetime + MaxAge + y.age
        OBVIOUS
      <4>2. Lifetime > 0
        BY AccessAssumption
      <4> QED BY <1>2, <1>3, <3>1, <4>2, AgoAfterCommit DEF Fits
    <3>3. y.open \/ y = Idle
      BY DEF AccessInv
    <3> HIDE DEF y
    <3> QED BY <3>1, <3>2, <3>3 DEF Fits
  <2> QED BY <2>2, <2>3
<1> QED BY <1>4, <1>5, <1>6 DEF AccessInv

LEMMA RollbackSound ==
  ASSUME AccessInv, NEW r \in Requests, Rollback(r)
  PROVE  AccessInv'
<1>1. /\ req' = [req EXCEPT ![r] = Idle]
      /\ UNCHANGED <<account, member, token, changes, ago>>
  BY DEF Rollback, Finish
<1>2. TypeOK'
  BY <1>1, IdleFields DEF AccessInv, TypeOK
<1>3. TokensRunOut'
  BY <1>1 DEF AccessInv, TokensRunOut, Holds, Active
<1>4. \A q \in Requests : (Fits(req[q]) /\ (req[q].open \/ req[q] = Idle))'
  <2>1. SUFFICES ASSUME NEW q \in Requests
                 PROVE  (Fits(req[q]) /\ (req[q].open \/ req[q] = Idle))'
    OBVIOUS
  <2>2. req'[q] = Idle \/ req'[q] = req[q]
    BY <1>1 DEF AccessInv, TypeOK
  <2> QED BY <1>1, <2>2, IdleFits DEF AccessInv, Fits
<1> QED BY <1>2, <1>3, <1>4 DEF AccessInv

LEMMA TickSound ==
  ASSUME AccessInv, Tick
  PROVE  AccessInv'
<1>1. /\ \A r \in Requests : req[r].open => req[r].age < MaxAge
      /\ token' = [u \in Users |-> [c \in Contexts |-> Less(token[u][c])]]
      /\ req' = [r \in Requests |->
           IF req[r].open THEN [req[r] EXCEPT !.age = @ + 1] ELSE req[r]]
      /\ UNCHANGED <<account, member, changes>>
  BY DEF Tick
<1>2. Horizon \in Nat /\ Lifetime \in Nat /\ MaxAge \in Nat
  BY AccessAssumption DEF Horizon
<1>3. \A u \in Users, c \in Contexts :
        /\ token[u][c] \in 0..Lifetime
        /\ token'[u][c] \in 0..Lifetime
        /\ token'[u][c] > 0 => token'[u][c] = token[u][c] - 1
  <2>1. SUFFICES ASSUME NEW u \in Users, NEW c \in Contexts
                 PROVE  /\ token[u][c] \in 0..Lifetime
                        /\ token'[u][c] \in 0..Lifetime
                        /\ token'[u][c] > 0 => token'[u][c] = token[u][c] - 1
    OBVIOUS
  <2>2. token[u][c] \in 0..Lifetime
    BY DEF AccessInv, TypeOK
  <2>3. token'[u][c] = IF token[u][c] = 0 THEN 0 ELSE token[u][c] - 1
    BY <1>1 DEF Less
  <2> QED BY <1>2, <2>2, <2>3
<1>4. \A u \in Users, c \in Scopes :
        /\ ago[u][c] \in 0..(Horizon + 1)
        /\ ago'[u][c] \in 0..(Horizon + 1)
        /\ ago'[u][c] <= ago[u][c] + 1
        /\ Holds(u, c) => ago'[u][c] = 0
  BY <1>2 DEF Tick, AccessInv, TypeOK
<1>5. TypeOK'
  <2>1. token' \in [Users -> [Contexts -> 0..Lifetime]]
    BY <1>1, <1>3
  <2>2. ago' \in [Users -> [Scopes -> 0..(Horizon + 1)]]
    BY <1>4 DEF Tick
  <2>3. ASSUME NEW r \in Requests PROVE req'[r] \in Transaction
    <3> DEFINE x == req[r]
               n == x.age + 1
               y == [x EXCEPT !.age = n]
    <3>1. x \in Transaction /\ req'[r] = IF x.open THEN y ELSE x
      BY <1>1 DEF AccessInv, TypeOK
    <3>2. x.age \in 0..MaxAge /\ (x.open => x.age < MaxAge)
      BY <1>1, <3>1 DEF Transaction
    <3>3. x.open => n \in 0..MaxAge
      BY <1>2, <3>2
    <3> HIDE DEF x, n
    <3>4. x.open => y \in Transaction
      BY <3>1, <3>3 DEF Transaction
    <3> QED BY <3>1, <3>4
  <2> QED BY <1>1, <2>1, <2>2, <2>3 DEF AccessInv, TypeOK
<1>6. TokensRunOut'
  <2>1. SUFFICES ASSUME NEW u \in Users, NEW c \in Scopes
                 PROVE  /\ Holds(u, c)' => ago'[u][c] = 0
                        /\ token'[u][c] > 0 => ago'[u][c] + token'[u][c] <= Lifetime + MaxAge
    BY DEF TokensRunOut
  <2>2. Holds(u, c)' <=> Holds(u, c)
    BY <1>1 DEF Holds, Active
  <2>3. c \in Contexts
    BY DEF Contexts
  <2> QED BY <1>2, <1>3, <1>4, <2>2, <2>3 DEF AccessInv, TokensRunOut
<1>7. \A q \in Requests : (Fits(req[q]) /\ (req[q].open \/ req[q] = Idle))'
  <2>1. SUFFICES ASSUME NEW q \in Requests
                 PROVE  (Fits(req[q]) /\ (req[q].open \/ req[q] = Idle))'
    OBVIOUS
  <2> DEFINE x == req[q]
             y == [x EXCEPT !.age = @ + 1]
  <2>2. x \in Transaction /\ Fits(x)
    BY DEF AccessInv, TypeOK
  <2>3. CASE ~x.open
    <3>1. x = Idle
      BY <2>2, <2>3 DEF AccessInv
    <3>2. req'[q] = Idle
      BY <1>1, <2>3, <3>1
    <3> QED BY <3>2, IdleFields, NoneApart DEF Fits
  <2>4. CASE x.open
    <3>1. req'[q] = y
      BY <1>1, <2>4
    <3>2. /\ y.actor = x.actor /\ y.grant = x.grant /\ y.by = x.by /\ y.age = x.age + 1
          /\ y.saves = x.saves /\ y.user = x.user /\ y.lib = x.lib /\ x.age \in 0..MaxAge
      BY <2>2 DEF Transaction
    <3>4. y.open
      BY <2>2, <2>4 DEF Transaction
    <3> HIDE DEF x, y
    <3>3. \A u \in Users, c \in Scopes :
            /\ y.actor = u /\ c \in y.grant => ago'[u][c] <= y.age
            /\ y.actor = u /\ c = y.by => ago'[u][c] < Lifetime + MaxAge + y.age
      BY <1>2, <1>4, <2>2, <3>2 DEF Fits
    <3> QED BY <2>2, <3>1, <3>2, <3>3, <3>4 DEF Fits
  <2> QED BY <2>3, <2>4
<1> QED BY <1>5, <1>6, <1>7 DEF AccessInv

-----------------------------------------------------------------------------
(* Theorems *)

LEMMA InitSound == Init => AccessInv
<1> SUFFICES ASSUME Init PROVE AccessInv
  OBVIOUS
<1>1. Horizon + 1 \in Nat /\ Lifetime \in Nat
  BY AccessAssumption DEF Horizon
<1>2. member \in [Users -> [Libraries -> Membership]] /\ account \in [Users -> Account]
  <2>1. [role : Roles, status : {"absent", "active"}] \subseteq Membership
    BY DEF Membership, Statuses
  <2>2. [active : {TRUE}, selected : Libraries \cup {None}] \subseteq Account
    BY DEF Account
  <2>3. member \in [Users -> [Libraries -> Membership]]
    BY <2>1 DEF Init
  <2> QED BY <2>2, <2>3 DEF Init
<1>3. /\ token \in [Users -> [Contexts -> 0..Lifetime]]
      /\ ago \in [Users -> [Scopes -> 0..(Horizon + 1)]]
  BY <1>1 DEF Init
<1>4. req \in [Requests -> Transaction] /\ changes \in 0..MaxChanges
  BY IdleFields, AccessAssumption DEF Init
<1>5. TypeOK
  BY <1>2, <1>3, <1>4 DEF TypeOK
<1>6. TokensRunOut
  BY DEF Init, TokensRunOut, Contexts
<1>7. \A r \in Requests : Fits(req[r]) /\ req[r] = Idle
  BY IdleFits DEF Init
<1> QED BY <1>5, <1>6, <1>7 DEF AccessInv

LEMMA NextSound == AccessInv /\ [Next]_vars => AccessInv'
<1> SUFFICES ASSUME AccessInv, [Next]_vars PROVE AccessInv'
  OBVIOUS
<1>1. ASSUME NEW r \in Requests, Start(r) PROVE AccessInv'
  BY <1>1, StartSound
<1>2. ASSUME NEW r \in Requests, End(r) PROVE AccessInv'
  BY <1>2, CommitSound, RollbackSound DEF End
<1>3. CASE Tick
  BY <1>3, TickSound
<1>4. CASE UNCHANGED vars
  BY <1>4 DEF vars, AccessInv, TypeOK, TokensRunOut, Fits, Holds, Active
<1> QED BY <1>1, <1>2, <1>3, <1>4 DEF Next

\* What is left of a token or a request, and the time since its claims were held,
\* never exceed the life of a token and of the request that handed it out.
THEOREM AccessBounded == Spec => []AccessInv
  BY InitSound, NextSound, PTL DEF Spec

\* A change that asks for the admin role is made by somebody who was an active
\* admin of the library less than a token's life and two requests ago.
THEOREM AuthorityRecent == Spec => AuthorityIsRecent
<1>1. ASSUME AccessInv, NEW r \in Requests, Commit(r), req[r].by \in Scopes
      PROVE  ago[req[r].actor][req[r].by] < Horizon
  <2> DEFINE x == req[r]
             u == x.actor
             c == x.by
  <2>1. x \in Transaction /\ Fits(x)
    BY <1>1 DEF AccessInv, TypeOK
  <2>2. u \in Users /\ c \in Scopes /\ x.age \in 0..MaxAge
    BY <1>1, <2>1 DEF Fits, Transaction
  <2>3. ago[u][c] < Lifetime + MaxAge + x.age /\ ago[u][c] \in 0..(Horizon + 1)
    BY <1>1, <2>1, <2>2 DEF Fits, AccessInv, TypeOK
  <2> QED BY <2>2, <2>3, AccessAssumption DEF Horizon
<1>2. AccessInv /\ [Next]_vars =>
        [\A r \in Requests :
           Commit(r) /\ req[r].by \in Scopes => ago[req[r].actor][req[r].by] < Horizon]_vars
  BY <1>1
<1> QED BY <1>2, AccessBounded, PTL DEF Spec, AuthorityIsRecent

-----------------------------------------------------------------------------
(* The implementation of the lease *)

\* What a request does before its end is no step of the lease.
LEMMA StartLeavesLeases ==
  ASSUME NEW r \in Requests, Start(r)
  PROVE  UNCHANGED <<member, token, ago>>
<1>1. \A op, x : Begin(r, op, x) => UNCHANGED <<member, token, ago>>
  BY DEF Begin
<1>2. \A op, x : BeginOwn(r, op, x) => UNCHANGED <<member, token, ago>>
  BY <1>1 DEF BeginOwn
<1>3. \A op, a, l, x : Administer(r, op, a, l, x) => UNCHANGED <<member, token, ago>>
  BY <1>1 DEF Administer
<1>4. ASSUME NEW u \in Callers
      PROVE  StartLogin(r, u) \/ StartRefresh(r, u) \/ StartProfile(r, u)
               => UNCHANGED <<member, token, ago>>
  BY <1>2 DEF StartLogin, StartRefresh, StartProfile
<1>5. ASSUME NEW u \in Callers, NEW l \in Libraries
      PROVE  /\ StartSelect(r, u, l) => UNCHANGED <<member, token, ago>>
             /\ \A op : StartAnswer(r, u, l, op) => UNCHANGED <<member, token, ago>>
  BY <1>2 DEF StartSelect, StartAnswer
<1>6. ASSUME NEW u \in Callers, NEW l \in Libraries, NEW v \in Users
      PROVE  /\ \A role : StartInvite(r, u, l, v, role) => UNCHANGED <<member, token, ago>>
             /\ \A edit : StartUpdate(r, u, l, v, edit) => UNCHANGED <<member, token, ago>>
             /\ StartRemove(r, u, l, v) => UNCHANGED <<member, token, ago>>
             /\ \A role, active :
                  StartUpdateUser(r, u, l, v, role, active) => UNCHANGED <<member, token, ago>>
  BY <1>3 DEF StartInvite, StartUpdate, StartRemove, StartUpdateUser
<1> QED BY <1>4, <1>5, <1>6 DEF Start

LEMMA ClaimParts ==
  ASSUME NEW p \in Claims
  PROVE  p[1] \in Users /\ p[2] \in Scopes /\ p[2] \in Contexts
  BY DEF Claims, Contexts

LEMMA LeaseBegins == Init => ClaimLease!Init
<1> SUFFICES ASSUME Init PROVE ClaimLease!Init
  OBVIOUS
<1>1. ASSUME NEW p \in Claims
      PROVE  /\ token[p[1]][p[2]] = 0
             /\ ago[p[1]][p[2]] = IF Holds(p[1], p[2]) THEN 0 ELSE Horizon + 1
  BY ClaimParts DEF Init
<1> QED BY <1>1 DEF ClaimLease!Init

\* Whatever a request hands out when it commits was held when it began.
LEMMA CommitRenews ==
  ASSUME AccessInv, AccessInv', NEW r \in Requests, Commit(r)
  PROVE  ClaimLease!Renew
<1> DEFINE x == req[r]
<1>1. x \in Transaction /\ Fits(x) /\ Issue(x)
  BY DEF AccessInv, TypeOK, Commit
<1>2. ASSUME NEW p \in Claims
      PROVE  token'[p[1]][p[2]] \in 0..Lifetime
  BY ClaimParts DEF AccessInv, TypeOK
<1>3. ASSUME NEW p \in Claims
      PROVE  \/ token'[p[1]][p[2]] = token[p[1]][p[2]]
             \/ token'[p[1]][p[2]] = Lifetime /\ ago[p[1]][p[2]] <= MaxAge
  <2>1. /\ p[1] \in Users /\ p[2] \in Scopes /\ p[2] \in Contexts
    BY ClaimParts
  <2>2. CASE p[1] = x.actor /\ p[2] \in x.grant
    <3>1. ago[p[1]][p[2]] <= x.age /\ x.age \in 0..MaxAge
      BY <1>1, <2>1, <2>2 DEF Fits, Transaction
    <3>2. ago[p[1]][p[2]] \in 0..(Horizon + 1)
      BY <2>1 DEF AccessInv, TypeOK
    <3>3. token'[p[1]][p[2]] = Lifetime
      BY <1>1, <2>1, <2>2 DEF Issue
    <3> QED BY <3>1, <3>2, <3>3, AccessAssumption DEF Horizon
  <2>3. CASE ~(p[1] = x.actor /\ p[2] \in x.grant)
    BY <1>1, <2>1, <2>3 DEF Issue
  <2> QED BY <2>2, <2>3
<1>4. ASSUME NEW p \in Claims
      PROVE  ago'[p[1]][p[2]] = IF Holds(p[1], p[2])' THEN 0 ELSE ago[p[1]][p[2]]
  BY ClaimParts DEF Commit
<1> QED BY <1>2, <1>3, <1>4 DEF ClaimLease!Renew

LEMMA TickTicks ==
  ASSUME AccessInv, Tick
  PROVE  ClaimLease!Tick
<1>1. UNCHANGED member
  BY DEF Tick
<1>2. ASSUME NEW p \in Claims
      PROVE  token'[p[1]][p[2]] = IF token[p[1]][p[2]] = 0 THEN 0 ELSE token[p[1]][p[2]] - 1
  BY ClaimParts DEF Tick, Less
<1>3. ASSUME NEW p \in Claims
      PROVE  ago'[p[1]][p[2]] =
               IF Holds(p[1], p[2]) THEN 0
               ELSE IF ago[p[1]][p[2]] = Horizon + 1 THEN Horizon + 1
               ELSE ago[p[1]][p[2]] + 1
  <2>1. ago[p[1]][p[2]] \in 0..(Horizon + 1) /\ Horizon \in Nat
    BY ClaimParts, AccessAssumption DEF AccessInv, TypeOK, Horizon
  <2>2. ago'[p[1]][p[2]] =
          IF Holds(p[1], p[2]) THEN 0
          ELSE IF ago[p[1]][p[2]] > Horizon THEN ago[p[1]][p[2]] ELSE ago[p[1]][p[2]] + 1
    BY ClaimParts DEF Tick
  <2> QED BY <2>1, <2>2
<1>4. ASSUME NEW p \in Claims PROVE Holds(p[1], p[2])' <=> Holds(p[1], p[2])
  BY <1>1 DEF Holds, Active
<1> QED BY <1>2, <1>3, <1>4 DEF ClaimLease!Tick

LEMMA LeaseGoesOn ==
  AccessInv /\ AccessInv' /\ [Next]_vars => [ClaimLease!Next]_(ClaimLease!leaseVars)
<1> SUFFICES ASSUME AccessInv, AccessInv', [Next]_vars
             PROVE  [ClaimLease!Next]_(ClaimLease!leaseVars)
  OBVIOUS
<1>1. UNCHANGED <<member, token, ago>> => UNCHANGED ClaimLease!leaseVars
  BY DEF ClaimLease!leaseVars, Holds, Active
<1>2. ASSUME NEW r \in Requests, Start(r) PROVE UNCHANGED ClaimLease!leaseVars
  BY <1>1, <1>2, StartLeavesLeases
<1>3. ASSUME NEW r \in Requests, Rollback(r) PROVE UNCHANGED ClaimLease!leaseVars
  BY <1>1, <1>3 DEF Rollback
<1>4. ASSUME NEW r \in Requests, Commit(r) PROVE ClaimLease!Next
  BY <1>4, CommitRenews DEF ClaimLease!Next
<1>5. CASE Tick
  BY <1>5, TickTicks DEF ClaimLease!Next
<1>6. CASE UNCHANGED vars
  BY <1>1, <1>6 DEF vars
<1> QED BY <1>2, <1>3, <1>4, <1>5, <1>6 DEF Next, End

\* Tokens implement the lease: whatever changes of memberships, logins and refreshes
\* are open together, a claim is handed out or renewed only while it is held, or
\* when it was at most a request ago.
THEOREM AccessImplementsLease == Spec => LeaseSpec
<1>1. AccessInv /\ [Next]_vars => [ClaimLease!Next]_(ClaimLease!leaseVars)
  BY NextSound, LeaseGoesOn
<1> QED BY <1>1, LeaseBegins, AccessBounded, PTL DEF Spec, LeaseSpec, ClaimLease!Spec
=============================================================================
