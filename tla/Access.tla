------------------------------- MODULE Access -------------------------------
(***************************************************************************)
(* Access tokens over time: which claims a token carries, how long it      *)
(* carries them on after the membership behind them has changed, and what  *)
(* is done on its strength meanwhile.                                      *)
(*                                                                         *)
(* A context is the claim of a library and a role, <<l, role>>, or None in *)
(* a token that only says who the user is. Nobody asks the membership      *)
(* again while a token is valid: its claims stay as they were read.        *)
(***************************************************************************)
EXTENDS Integers

CONSTANTS
  Requests,      \* requests that can be open at the same time
  Users,
  Libraries,
  Roles,
  Callers,       \* users who call the service in the instance
  Edits,         \* bodies of PATCH on a membership
  Ops,           \* operations of the instance
  Lifetime,      \* access_token_expire_minutes, in ticks
  MaxAge,        \* bound of the model: no request stays open for more ticks
  MaxChanges,    \* bound of the model: administrative requests in a behaviour
  None

Admin == "admin"
AllOps == {"login", "refresh", "select", "accept", "decline", "invite",
           "update", "remove", "updateUser", "profile"}

VARIABLES
  account,   \* users: is_active and last_selected_library_id
  member,    \* user_library_memberships
  token,     \* ticks for which the longest-lived token of a context is valid
  req,       \* the open transaction of each request slot
  changes,   \* administrative requests so far
  ago        \* history: ticks since the user last held the context

vars == <<account, member, token, req, changes, ago>>

Statuses == {"absent", "invited", "active", "suspended", "revoked"}
Account == [active : BOOLEAN, selected : Libraries \cup {None}]
Membership == [role : Roles, status : Statuses]
Columns == {"active", "selected", "role", "status"}
Scopes == Libraries \X Roles
Contexts == Scopes \cup {None}

\* Ticks after which nothing may be left of a context that was lost.
Horizon == Lifetime + 2 * MaxAge

ASSUME AccessAssumption ==
  /\ None \notin Libraries \cup Users \cup Roles \cup Scopes
  /\ Admin \in Roles
  /\ Callers \subseteq Users
  /\ Lifetime \in Nat \ {0}
  /\ MaxAge \in Nat
  /\ MaxChanges \in Nat
  /\ Edits \subseteq [role : Roles \cup {None}, status : {"active", "suspended", None}]
  /\ Ops \subseteq AllOps

\* by: the claims that admitted the request; saves: the rows it writes, with
\* their copies acc and mem; edited: the columns it has changed in them; drops:
\* whether another admin must be left; grant: the contexts of the tokens it hands
\* out.
Transaction ==
  [open : BOOLEAN, actor : Users \cup {None}, by : Contexts,
   user : Users \cup {None}, lib : Libraries \cup {None},
   acc : Account, mem : Membership,
   saves : SUBSET {"account", "member", "insert"}, edited : SUBSET Columns,
   drops : BOOLEAN, grant : SUBSET Contexts, age : 0..MaxAge]

Idle ==
  [open |-> FALSE, actor |-> None, by |-> None, user |-> None, lib |-> None,
   acc |-> [active |-> FALSE, selected |-> None],
   mem |-> [role |-> Admin, status |-> "absent"],
   saves |-> {}, edited |-> {}, drops |-> FALSE, grant |-> {}, age |-> 0]

TypeOK ==
  /\ account \in [Users -> Account]
  /\ member \in [Users -> [Libraries -> Membership]]
  /\ token \in [Users -> [Contexts -> 0..Lifetime]]
  /\ req \in [Requests -> Transaction]
  /\ changes \in 0..MaxChanges
  /\ ago \in [Users -> [Scopes -> 0..(Horizon + 1)]]

-----------------------------------------------------------------------------
(* Memberships, contexts, tokens *)

Active(u, l) == member[u][l].status = "active"
ActiveAdmin(m) == m.role = Admin /\ m.status = "active"
Holds(u, c) == Active(u, c[1]) /\ member[u][c[1]].role = c[2]
Context(u, l) == <<l, member[u][l].role>>

\* Mutated form of Resolve: any active membership will do.
ResolveAny(u) ==
  IF \E l \in Libraries : Active(u, l)
  THEN Context(u, CHOOSE l \in Libraries : Active(u, l))
  ELSE None

\* The only active membership, else the one selected last, else no library.
Resolve(u) ==
  LET active == {l \in Libraries : Active(u, l)} IN
  IF \E l \in Libraries : active = {l}
  THEN Context(u, CHOOSE l \in Libraries : active = {l})
  ELSE IF account[u].selected \in active
  THEN Context(u, account[u].selected)
  ELSE None

\* Every request looks the user up again, never the membership.
Authenticated(u) == account[u].active /\ \E c \in Contexts : token[u][c] > 0

Authorized(u, c) == account[u].active /\ c \in Scopes /\ token[u][c] > 0

Init ==
  /\ member \in [Users -> [Libraries -> [role : Roles, status : {"absent", "active"}]]]
  /\ \A u \in Users, l \in Libraries :
       ~Active(u, l) => member[u][l] = [role |-> Admin, status |-> "absent"]
  /\ \A l \in Libraries : \E u \in Users : ActiveAdmin(member[u][l])
  /\ account \in [Users -> [active : {TRUE}, selected : Libraries \cup {None}]]
  /\ \A u \in Users : account[u].selected # None => Active(u, account[u].selected)
  /\ token = [u \in Users |-> [c \in Contexts |-> 0]]
  /\ req = [r \in Requests |-> Idle]
  /\ changes = 0
  /\ ago = [u \in Users |-> [c \in Scopes |-> IF Holds(u, c) THEN 0 ELSE Horizon + 1]]

-----------------------------------------------------------------------------
(* Operations: the guards and readings of a request *)

Edited(x) ==
  {col \in {"active", "selected"} :
     "account" \in x.saves /\ x.acc[col] # account[x.user][col]} \cup
  {col \in {"role", "status"} :
     "member" \in x.saves /\ x.mem[col] # member[x.user][x.lib][col]}

Begin(r, op, x) ==
  /\ op \in Ops
  /\ ~req[r].open
  /\ req' = [req EXCEPT ![r] = [x EXCEPT !.open = TRUE, !.edited = Edited(x)]]
  /\ UNCHANGED <<account, member, token, ago>>

\* Nobody's permission is asked for.
BeginOwn(r, op, x) == Begin(r, op, x) /\ UNCHANGED changes

\* The membership of the context is saved for its last_accessed_at.
SignIn(u, c) ==
  IF c = None
  THEN [Idle EXCEPT !.actor = u, !.grant = {None}]
  ELSE [Idle EXCEPT !.actor = u, !.grant = {c}, !.user = u, !.lib = c[1],
                    !.mem = member[u][c[1]], !.saves = {"member"}]

StartLogin(r, u) ==
  /\ account[u].active
  /\ BeginOwn(r, "login", SignIn(u, Resolve(u)))

\* Mutated form of StartRefresh: the claims of the old token are copied.
RefreshCopiesClaims(r, u) ==
  /\ account[u].active
  /\ \E c \in Contexts :
       token[u][c] > 0 /\ BeginOwn(r, "refresh", [Idle EXCEPT !.actor = u, !.grant = {c}])

\* A refresh token says who the user is; the library is resolved anew
\* (module Sessions has the tokens themselves).
StartRefresh(r, u) ==
  /\ account[u].active
  /\ BeginOwn(r, "refresh", SignIn(u, Resolve(u)))

StartSelect(r, u, l) ==
  /\ Authenticated(u)
  /\ Active(u, l)
  /\ BeginOwn(r, "select",
       [SignIn(u, Context(u, l)) EXCEPT !.acc = [account[u] EXCEPT !.selected = l],
                                        !.saves = {"member", "account"}])

\* The invited user answers, in whatever context.
StartAnswer(r, u, l, op) ==
  /\ Authenticated(u)
  /\ member[u][l].status = "invited"
  /\ BeginOwn(r, op,
       [Idle EXCEPT !.actor = u, !.user = u, !.lib = l, !.saves = {"member"},
                    !.mem = [member[u][l] EXCEPT !.status =
                               IF op = "accept" THEN "active" ELSE "revoked"]])

\* require_role("admin"), in the library of the token; dropping an active admin
\* asks for another one.
Administer(r, op, a, l, x) ==
  /\ changes < MaxChanges
  /\ changes' = changes + 1
  /\ Authorized(a, <<l, Admin>>)
  /\ Begin(r, op,
       [x EXCEPT !.actor = a, !.by = <<l, Admin>>, !.lib = l,
                 !.drops = x.mem.status # "invited" /\ ActiveAdmin(member[x.user][l])
                           /\ ~ActiveAdmin(x.mem)])

StartInvite(r, a, l, u, role) ==
  /\ member[u][l].status \in {"absent", "revoked"}
  /\ Administer(r, "invite", a, l,
       [Idle EXCEPT !.user = u, !.mem = [role |-> role, status |-> "invited"],
                    !.saves = {IF member[u][l].status = "absent" THEN "insert" ELSE "member"}])

Given(new, old) == IF new = None THEN old ELSE new

StartUpdate(r, a, l, u, edit) ==
  /\ member[u][l].status \notin {"absent", "revoked"}
  /\ Administer(r, "update", a, l,
       [Idle EXCEPT !.user = u, !.saves = {"member"},
                    !.mem = [role |-> Given(edit.role, member[u][l].role),
                             status |-> Given(edit.status, member[u][l].status)]])

StartRemove(r, a, l, u) ==
  /\ member[u][l].status \notin {"absent", "revoked"}
  /\ Administer(r, "remove", a, l,
       [Idle EXCEPT !.user = u, !.saves = {"member"},
                    !.mem = [member[u][l] EXCEPT !.status = "revoked"]])

\* PATCH /users/{user_id}: the membership, when its role or status is given, and the
\* whole account.
StartUpdateUser(r, a, l, u, role, active) ==
  /\ Active(u, l)
  /\ Administer(r, "updateUser", a, l,
       [Idle EXCEPT !.user = u,
                    !.saves = IF role = None /\ active = None
                              THEN {"account"} ELSE {"account", "member"},
                    !.acc = [account[u] EXCEPT !.active = Given(active, @)],
                    !.mem = [role |-> Given(role, member[u][l].role),
                             status |-> IF active = FALSE THEN "suspended" ELSE "active"]])

\* Picture, tour, preferences: the account is saved as it was read.
StartProfile(r, u) ==
  /\ \E c \in Scopes : Authorized(u, c) /\ Active(u, c[1])
  /\ BeginOwn(r, "profile", [Idle EXCEPT !.actor = u, !.user = u, !.acc = account[u],
                                      !.saves = {"account"}])

-----------------------------------------------------------------------------
(* The end of a request; time *)

\* lock_active_admins holds the rows until the commit, so that the check is as
\* good there (CheckedCommitLeavesAdmin of module Memberships).
OtherAdmin(x) == \E v \in Users \ {x.user} : ActiveAdmin(member[v][x.lib])

\* A save sets the columns in which the copy differs from a second reading (the steps
\* are in module Memberships): the edited ones, and those changed by others before
\* that reading.
Outcomes(x, col, copy, now) ==
  IF col \in x.edited THEN {copy[col]} ELSE {copy[col], now[col]}

\* An insert fails when somebody else has inserted the row.
SaveMember(x) ==
  LET now == member[x.user][x.lib] IN
  \/ /\ "member" \in x.saves
     /\ \E role \in Outcomes(x, "role", x.mem, now),
           status \in Outcomes(x, "status", x.mem, now) :
          member' = [member EXCEPT ![x.user][x.lib] = [role |-> role, status |-> status]]
  \/ /\ "insert" \in x.saves
     /\ now.status = "absent"
     /\ member' = [member EXCEPT ![x.user][x.lib] = x.mem]
  \/ /\ x.saves \cap {"member", "insert"} = {}
     /\ UNCHANGED member

SaveAccount(x) ==
  LET now == account[x.user] IN
  \/ /\ "account" \in x.saves
     /\ \E active \in Outcomes(x, "active", x.acc, now),
           selected \in Outcomes(x, "selected", x.acc, now) :
          account' = [account EXCEPT ![x.user] = [active |-> active, selected |-> selected]]
  \/ /\ "account" \notin x.saves
     /\ UNCHANGED account

Finish(r) == req' = [req EXCEPT ![r] = Idle]

Issue(x) ==
  token' = [u \in Users |-> [c \in Contexts |->
              IF u = x.actor /\ c \in x.grant THEN Lifetime ELSE token[u][c]]]

Commit(r) ==
  LET x == req[r] IN
  /\ x.open
  /\ x.drops => OtherAdmin(x)
  /\ SaveMember(x)
  /\ SaveAccount(x)
  /\ Issue(x)
  /\ ago' = [u \in Users |-> [c \in Scopes |-> IF Holds(u, c)' THEN 0 ELSE ago[u][c]]]
  /\ Finish(r)
  /\ UNCHANGED changes

\* A failed check, a failed mail, a lost connection, a killed process.
Rollback(r) ==
  /\ req[r].open
  /\ Finish(r)
  /\ UNCHANGED <<account, member, token, changes, ago>>

\* Mutated form of Less: jwt.decode does not look at exp.
NeverLess(n) == n

Less(n) == IF n = 0 THEN 0 ELSE n - 1

Tick ==
  /\ \A r \in Requests : req[r].open => req[r].age < MaxAge
  /\ token' = [u \in Users |-> [c \in Contexts |-> Less(token[u][c])]]
  /\ req' = [r \in Requests |->
       IF req[r].open THEN [req[r] EXCEPT !.age = @ + 1] ELSE req[r]]
  /\ ago' = [u \in Users |-> [c \in Scopes |->
       IF Holds(u, c) THEN 0
       ELSE IF ago[u][c] > Horizon THEN ago[u][c] ELSE ago[u][c] + 1]]
  /\ UNCHANGED <<account, member, changes>>

Start(r) ==
  \E u \in Callers :
    \/ StartLogin(r, u)
    \/ StartRefresh(r, u)
    \/ StartProfile(r, u)
    \/ \E l \in Libraries :
         \/ StartSelect(r, u, l)
         \/ \E op \in {"accept", "decline"} : StartAnswer(r, u, l, op)
         \/ \E v \in Users :
              \/ \E role \in Roles : StartInvite(r, u, l, v, role)
              \/ \E edit \in Edits : StartUpdate(r, u, l, v, edit)
              \/ StartRemove(r, u, l, v)
              \/ \E role \in {e.role : e \in Edits} \cup {None}, active \in BOOLEAN \cup {None} :
                   StartUpdateUser(r, u, l, v, role, active)

End(r) == Commit(r) \/ Rollback(r)

Next ==
  \/ \E r \in Requests : Start(r) \/ End(r)
  \/ Tick

Spec == Init /\ [][Next]_vars

FairSpec == Spec /\ WF_vars(Tick) /\ \A r \in Requests : WF_vars(End(r))

-----------------------------------------------------------------------------
(* Properties *)

\* Nothing is claimed longer than the token, and the request that handed it out,
\* can last.
TokensRunOut ==
  \A u \in Users, c \in Scopes :
    /\ Holds(u, c) => ago[u][c] = 0
    /\ token[u][c] > 0 => ago[u][c] + token[u][c] <= Lifetime + MaxAge

\* What a request is about to hand out was held when it began; what it was admitted
\* by was claimed by a token then.
Fits(x) ==
  /\ \A u \in Users, c \in Scopes :
       /\ x.actor = u /\ c \in x.grant => ago[u][c] <= x.age
       /\ x.actor = u /\ c = x.by => ago[u][c] < Lifetime + MaxAge + x.age
  /\ x.by \in Scopes => x.actor # None
  /\ x.saves # {} => x.user # None
  /\ x.saves \cap {"member", "insert"} # {} => x.lib # None

\* The inductive invariant: what is left of a token or a request and the time since
\* its claims were held add up to a constant.
AccessInv ==
  /\ TypeOK
  /\ TokensRunOut
  /\ \A r \in Requests : Fits(req[r]) /\ (req[r].open \/ req[r] = Idle)

\* A change of a membership or an account that asks for the admin role is made by
\* somebody who was an active admin of that library not long ago: a token's
\* lifetime, the request that handed it out and the one that used it. The role is a
\* claim of the token that no later request looks up again (require_role).
AuthorityIsRecent ==
  [][\A r \in Requests :
       Commit(r) /\ req[r].by \in Scopes => ago[req[r].actor][req[r].by] < Horizon]_vars

\* Tokens implement the abstract lease: whatever requests read before a change and
\* commit after it, a claim is handed out or renewed only while it is held, or was
\* when the request began; a change of a membership takes no token away.
Claims == Users \X Scopes

ClaimLease == INSTANCE Lease WITH
  Term <- Lifetime, Grace <- MaxAge, Cap <- Horizon + 1,
  held <- {p \in Claims : Holds(p[1], p[2])},
  left <- [p \in Claims |-> token[p[1]][p[2]]],
  since <- [p \in Claims |-> ago[p[1]][p[2]]]

LeaseSpec == ClaimLease!Spec

\* Whoever has lost a role or a library for good is left, in the end, without a
\* token that claims it, however the loss falls into open requests
\* (refresh_token.py: "must not survive past the next refresh").
AccessEnds ==
  \A u \in Users, c \in Scopes : <>[]~Holds(u, c) => <>[](token[u][c] = 0)

\* Somebody whose selection stays on a library that they are a member of is not taken
\* to another one by a refresh (library_context_resolver.py: "the user's last-selected
\* library"), once what was handed out before has expired. Nothing is said of a
\* selection that the save of a stale profile overwrites.
SelectionSettles ==
  \A u \in Users, l \in Libraries :
    <>[](account[u].selected = l /\ Active(u, l)) =>
      <>[](\A c \in Scopes : c[1] # l => token[u][c] = 0)
=============================================================================
