--------------------------- MODULE SessionsProofs ---------------------------
(* Theorems of Sessions, for every pool size, number of users and tokens. *)
EXTENDS Sessions, TLAPS

USE SessionsAssumption DEF SessionsAssumption

\* The initial state satisfies the inductive invariant.
LEMMA InitRotation == Init => RotationInv
<1> SUFFICES ASSUME Init PROVE RotationInv
  OBVIOUS
<1>1. TypeOK
  BY DEF Init, TypeOK, Idle, Transaction, Ops, Steps
<1>2. RowLocks /\ Exclusive /\ UserRows
  BY DEF Init, RowLocks, Exclusive, UserRows, Idle, Consistent, Compatible, Covered
<1>3. History /\ OneLiveToken /\ ExchangedOnce /\ NoOrphanToken
  BY DEF Init, History, OneLiveToken, ExchangedOnce, NoOrphanToken, Live, Stored
<1> QED
  BY <1>1, <1>2, <1>3 DEF RotationInv

\* The empty slot, and what the steps make of an open transaction, are
\* transactions.
LEMMA IdleTransaction == Idle \in Transaction
BY DEF Idle, Transaction, Ops, Steps

LEMMA MoveTransaction ==
  ASSUME NEW x \in Transaction, NEW p \in Steps, NEW S \in SUBSET Tokens, NEW a \in Nat
  PROVE  /\ [x EXCEPT !.pc = p] \in Transaction
         /\ [x EXCEPT !.pc = p, !.locked = S] \in Transaction
         /\ [x EXCEPT !.pc = p, !.at = a] \in Transaction
BY DEF Transaction

LEMMA SweepTransaction ==
  ASSUME NEW x \in Transaction, NEW S \in SUBSET Tokens, NEW L \in SUBSET Tokens
  PROVE  [x EXCEPT !.todo = S, !.locked = L] \in Transaction
BY DEF Transaction

\* A transaction's own step keeps the type of all of them.
LEMMA SlotType ==
  ASSUME req \in [Requests -> Transaction], NEW r \in Requests, NEW x \in Transaction,
         req' = [req EXCEPT ![r] = x]
  PROVE  req' \in [Requests -> Transaction]
OBVIOUS

\* Every step keeps the type invariant.
LEMMA TypeStep == RotationInv /\ [Next]_vars => TypeOK'
<1> SUFFICES ASSUME TypeOK, RowLocks, [Next]_vars PROVE TypeOK'
  BY DEF RotationInv
<1>t. ASSUME NEW r \in Requests
      PROVE  /\ req[r] \in Transaction
             /\ req[r].tok \in Tokens \cup {None}
             /\ req[r].todo \in SUBSET Tokens /\ req[r].locked \in SUBSET Tokens
             /\ req[r].at \in Nat
             /\ req[r].new \in Tokens \cup {None} /\ req[r].user \in Users \cup {None}
  <2>1. req[r] \in Transaction
    BY DEF TypeOK
  <2> QED BY <2>1 DEF Transaction
<1>fin. ASSUME NEW r \in Requests, Finish(r) PROVE req' \in [Requests -> Transaction]
  BY <1>fin, IdleTransaction, SlotType DEF Finish, TypeOK
<1>upd. ASSUME NEW r \in Requests, NEW x \in Transaction, req' = [req EXCEPT ![r] = x],
               UNCHANGED <<now, userState, tokenVars, rollbacks>>
        PROVE TypeOK'
  BY <1>upd, SlotType DEF TypeOK, tokenVars
<1>1. ASSUME NEW r \in Requests, NEW u \in Users, NEW n \in Tokens, StartLogin(r, u, n)
      PROVE TypeOK'
  <2>1. [Idle EXCEPT !.op = "login", !.pc = "checked", !.new = n, !.user = u] \in Transaction
    BY DEF Idle, Transaction, Ops, Steps
  <2> QED BY <1>1, <1>upd, <2>1 DEF StartLogin
<1>2. ASSUME NEW r \in Requests, NEW t \in Tokens, NEW n \in Tokens, StartRefresh(r, t, n)
      PROVE TypeOK'
  <2>1. [Idle EXCEPT !.op = "refresh", !.pc = "found", !.tok = t, !.new = n,
                     !.user = owner[t], !.at = now] \in Transaction
    BY DEF Idle, Transaction, Ops, Steps, TypeOK
  <2> QED BY <1>2, <1>upd, <2>1 DEF StartRefresh
<1>3. ASSUME NEW r \in Requests, Claim(r) PROVE TypeOK'
  <2>1. CASE Finish(r)
    BY <1>3, <1>fin, <2>1 DEF Claim, tokenVars, TypeOK
  <2>2. CASE /\ Claimable(req[r].tok)
             /\ req' = [req EXCEPT ![r].pc = "claimed", ![r].locked = {req[r].tok}]
    <3>1. {req[r].tok} \in SUBSET Tokens
      BY <1>3 DEF Claim, RowLocks, Consistent
    <3>2. [req[r] EXCEPT !.pc = "claimed", !.locked = {req[r].tok}] \in Transaction
      BY <1>t, <3>1, MoveTransaction DEF Steps
    <3>3. req' = [req EXCEPT ![r] = [req[r] EXCEPT !.pc = "claimed", !.locked = {req[r].tok}]]
      BY <2>2 DEF TypeOK
    <3> QED BY <1>3, <1>upd, <3>2, <3>3 DEF Claim
  <2> QED BY <1>3, <2>1, <2>2 DEF Claim
<1>4. ASSUME NEW r \in Requests, CheckUser(r) PROVE TypeOK'
  <2>1. CASE Finish(r)
    BY <1>4, <1>fin, <2>1 DEF CheckUser, tokenVars, TypeOK
  <2>2. CASE req' = [req EXCEPT ![r].pc = "checked"]
    <3>1. [req[r] EXCEPT !.pc = "checked"] \in Transaction
      BY <1>t, MoveTransaction DEF Steps
    <3>2. req' = [req EXCEPT ![r] = [req[r] EXCEPT !.pc = "checked"]]
      BY <2>2 DEF TypeOK
    <3> QED BY <1>4, <1>upd, <3>1, <3>2 DEF CheckUser
  <2> QED BY <1>4, <2>1, <2>2 DEF CheckUser
<1>5. ASSUME NEW r \in Requests, InsertToken(r) PROVE TypeOK'
  <2>1. CASE Finish(r)
    BY <1>5, <1>fin, <2>1 DEF InsertToken, tokenVars, TypeOK
  <2>2. CASE ~Finish(r)
    <3> DEFINE a == IF req[r].op = "login" THEN now ELSE req[r].at
    <3>1. a \in Nat
      BY <1>t DEF TypeOK
    <3>2. [req[r] EXCEPT !.pc = "inserted", !.at = a] \in Transaction
      BY <1>t, <3>1, MoveTransaction DEF Steps
    <3>3. req' = [req EXCEPT ![r] = [req[r] EXCEPT !.pc = "inserted", !.at = a]]
      BY <1>5, <2>2 DEF InsertToken, TypeOK
    <3> QED BY <1>5, <1>upd, <3>2, <3>3 DEF InsertToken
  <2> QED BY <2>1, <2>2
<1>6. ASSUME NEW r \in Requests, CommitToken(r) PROVE TypeOK'
  <2>1. req' \in [Requests -> Transaction]
    BY <1>6, <1>fin DEF CommitToken
  <2>2. status' \in [Tokens -> {"free", "live", "revoked", "deleted"}]
    BY <1>6 DEF CommitToken, TypeOK
  <2>3. expires' \in [Tokens -> Nat]
    <3>1. req[r].at + Lifetime \in Nat
      BY <1>t
    <3> QED BY <1>6, <3>1 DEF CommitToken, TypeOK
  <2>4. /\ owner' \in [Tokens -> Users \cup {None}]
        /\ parent' \in [Tokens -> Tokens \cup {None}]
    BY <1>6, <1>t DEF CommitToken, TypeOK
  <2>5. session' \in [Tokens -> Tokens]
    <3> DEFINE s(n) == IF req[r].tok = None THEN n ELSE session[req[r].tok]
    <3>1. ASSUME NEW n \in Tokens PROVE s(n) \in Tokens
      BY <1>t DEF TypeOK
    <3> QED BY <1>6, <3>1 DEF CommitToken, TypeOK
  <2> QED BY <1>6, <2>1, <2>2, <2>3, <2>4, <2>5 DEF CommitToken, TypeOK
<1>7. ASSUME NEW r \in Requests, NEW op \in Ops, NEW t \in Tokens \cup {None},
             NEW u \in Users \cup {None}, NEW lib \in Libraries \cup {None},
             NEW rows \in SUBSET Tokens, BeginSweep(r, op, t, u, lib, rows)
      PROVE TypeOK'
  <2> DEFINE live == {x \in rows : status[x] = "live"}
  <2>1. live \in SUBSET Tokens
    BY DEF TypeOK
  <2>2. [Idle EXCEPT !.op = op, !.pc = "sweep", !.tok = t, !.user = u, !.lib = lib,
                     !.todo = rows, !.seen = live] \in Transaction
    BY <2>1 DEF Idle, Transaction, Ops, Steps
  <2> QED BY <1>7, <1>upd, <2>2 DEF BeginSweep
<1>8. ASSUME NEW r \in Requests, NEW t \in Tokens, SweepRow(r, t) PROVE TypeOK'
  <2> DEFINE L == IF StillMatches(r, t) THEN req[r].locked \cup {t} ELSE req[r].locked
  <2>1. [req[r] EXCEPT !.todo = req[r].todo \ {t}, !.locked = L] \in Transaction
    BY <1>t, SweepTransaction
  <2>2. req' = [req EXCEPT ![r] = [req[r] EXCEPT !.todo = req[r].todo \ {t}, !.locked = L]]
    BY <1>8 DEF SweepRow, TypeOK
  <2> QED BY <1>8, <1>upd, <2>1, <2>2 DEF SweepRow
<1>9. ASSUME NEW r \in Requests, CommitSweep(r) PROVE TypeOK'
  BY <1>9, <1>fin DEF CommitSweep, TypeOK
<1>10. ASSUME NEW r \in Requests, Rollback(r) \/ AbortDeadlock(r) PROVE TypeOK'
  BY <1>10, <1>fin DEF Rollback, AbortDeadlock, tokenVars, TypeOK
<1>11. ASSUME NEW u \in Users, SetUserActive(u) PROVE TypeOK'
  BY <1>11 DEF SetUserActive, tokenVars, TypeOK
<1>12. CASE Tick
  BY <1>12 DEF Tick, tokenVars, TypeOK
<1>13. CASE UNCHANGED vars
  BY <1>13 DEF vars, TypeOK
<1>14. ASSUME NEW r \in Requests, Start(r) PROVE TypeOK'
  <2>1. ASSUME NEW t \in Tokens, StartLogout(r, t) PROVE TypeOK'
    BY <1>7, <2>1 DEF StartLogout, Ops
  <2>2. ASSUME NEW lib \in Libraries, StartRevokeAll(r, lib) PROVE TypeOK'
    BY <1>7, <2>2 DEF StartRevokeAll, Ops
  <2>3. ASSUME StartCleanup(r) PROVE TypeOK'
    BY <1>7, <2>3 DEF StartCleanup, Ops
  <2>4. ASSUME NEW u \in Users, StartDeleteUser(r, u) PROVE TypeOK'
    <3> DEFINE rows == {t \in Tokens : Stored(t) /\ owner[t] = u}
    <3>1. BeginSweep(r, "delete_user", None, u, None, rows)
      BY <2>4 DEF StartDeleteUser
    <3>2. rows \in SUBSET Tokens /\ "delete_user" \in Ops
      BY DEF Ops
    <3> HIDE DEF rows
    <3> QED BY <1>7, <3>1, <3>2
  <2> QED BY <1>1, <1>2, <1>14, <2>1, <2>2, <2>3, <2>4 DEF Start
<1> QED
  BY <1>3, <1>4, <1>5, <1>6, <1>8, <1>9, <1>10, <1>11, <1>12, <1>13, <1>14 DEF Next, Work


\* A step that changes one open transaction and no committed row keeps the
\* invariant when the new transaction fits the others.
LEMMA SlotStep ==
  ASSUME RotationInv, TypeOK', NEW r \in Requests, NEW x \in Transaction,
         req' = [req EXCEPT ![r] = x],
         UNCHANGED <<userState, tokenVars>>,
         Consistent(x), Covered(x),
         \A q \in Requests \ {r} : Compatible(x, req[q]) /\ Compatible(req[q], x)
  PROVE  RotationInv'
<1> USE DEF RotationInv
<1>0. /\ req'[r] = x
      /\ \A q \in Requests \ {r} : req'[q] = req[q]
  BY DEF TypeOK
<1>1. RowLocks'
  <2>1. ASSUME NEW q \in Requests PROVE Consistent(req'[q])
    BY <1>0, <2>1 DEF RowLocks
  <2>2. ASSUME NEW y, Consistent(y) PROVE Consistent(y)'
    BY <2>2 DEF Consistent, Stored, tokenVars
  <2>3. ASSUME NEW q \in Requests PROVE Consistent(req[q])'
    BY <2>1, <2>2 DEF Consistent, Stored, tokenVars
  <2> QED BY <2>3 DEF RowLocks
<1>2. Exclusive'
  BY <1>0 DEF Exclusive, Compatible
<1>3. UserRows'
  BY <1>0 DEF UserRows, Covered, Stored, tokenVars
<1>4. History' /\ OneLiveToken' /\ ExchangedOnce' /\ NoOrphanToken'
  BY DEF History, OneLiveToken, ExchangedOnce, NoOrphanToken, Live, Stored, tokenVars
<1> QED BY <1>1, <1>2, <1>3, <1>4

\* Ending a transaction without publishing its writes keeps the invariant.
LEMMA FinishStep ==
  ASSUME RotationInv, TypeOK', NEW r \in Requests, Finish(r),
         UNCHANGED <<userState, tokenVars>>
  PROVE  RotationInv'
<1>1. Consistent(Idle) /\ Covered(Idle)
  BY DEF Consistent, Covered, Idle
<1>2. \A q \in Requests : Compatible(Idle, req[q]) /\ Compatible(req[q], Idle)
  BY DEF Compatible, Idle
<1> QED
  BY <1>1, <1>2, IdleTransaction, SlotStep DEF Finish

\* The steps of login and refresh before their commit.
LEMMA TokenSteps ==
  ASSUME RotationInv, TypeOK', NEW r \in Requests,
         \/ \E u \in Users, n \in Tokens : StartLogin(r, u, n)
         \/ \E t, n \in Tokens : StartRefresh(r, t, n)
         \/ Claim(r) \/ CheckUser(r) \/ InsertToken(r)
  PROVE  RotationInv'
<1> USE DEF RotationInv
<1>r. /\ req[r] \in Transaction /\ Consistent(req[r]) /\ Covered(req[r])
      /\ \A q \in Requests \ {r} : Compatible(req[r], req[q]) /\ Compatible(req[q], req[r])
  BY DEF TypeOK, RowLocks, UserRows, Exclusive
<1>q. \A q \in Requests : Consistent(req[q])
  BY DEF RowLocks
<1>1. ASSUME NEW u \in Users, NEW n \in Tokens, StartLogin(r, u, n) PROVE RotationInv'
  <2> DEFINE x == [Idle EXCEPT !.op = "login", !.pc = "checked", !.new = n, !.user = u]
  <2>1. x \in Transaction
    BY DEF Idle, Transaction, Ops, Steps
  <2>2. Consistent(x) /\ Covered(x)
    BY <1>1 DEF StartLogin, Unused, Consistent, Covered, Idle
  <2>3. \A q \in Requests \ {r} : Compatible(x, req[q]) /\ Compatible(req[q], x)
    BY <1>1 DEF StartLogin, Unused, Compatible, Idle
  <2> QED BY <1>1, <2>1, <2>2, <2>3, SlotStep DEF StartLogin
<1>2. ASSUME NEW t \in Tokens, NEW n \in Tokens, StartRefresh(r, t, n) PROVE RotationInv'
  <2> DEFINE x == [Idle EXCEPT !.op = "refresh", !.pc = "found", !.tok = t, !.new = n,
                               !.user = owner[t], !.at = now]
  <2>1. x \in Transaction
    BY DEF Idle, Transaction, Ops, Steps, TypeOK
  <2>2. owner[t] \in Users
    BY <1>2 DEF StartRefresh, Stored, History
  <2>3. Consistent(x) /\ Covered(x)
    BY <1>2, <2>2 DEF StartRefresh, Unused, Consistent, Covered, Idle
  <2>4. \A q \in Requests \ {r} : Compatible(x, req[q]) /\ Compatible(req[q], x)
    BY <1>2 DEF StartRefresh, Unused, Compatible, Idle
  <2> QED BY <1>2, <2>1, <2>3, <2>4, SlotStep DEF StartRefresh
<1>3. ASSUME Claim(r) PROVE RotationInv'
  <2>1. CASE Finish(r)
    BY <1>3, <2>1, FinishStep DEF Claim
  <2>2. CASE /\ Claimable(req[r].tok)
             /\ req' = [req EXCEPT ![r].pc = "claimed", ![r].locked = {req[r].tok}]
    <3> DEFINE x == [req[r] EXCEPT !.pc = "claimed", !.locked = {req[r].tok}]
    <3>1. req' = [req EXCEPT ![r] = x]
      BY <2>2 DEF TypeOK
    <3>2. req[r].op = "refresh" /\ req[r].tok \in Tokens
      BY <1>3, <1>r DEF Claim, Consistent
    <3>3. x \in Transaction
      BY <1>r, <3>2, MoveTransaction DEF Steps
    <3>4. /\ x.pc = "claimed" /\ x.op = "refresh" /\ x.tok = req[r].tok
          /\ x.locked = {req[r].tok} /\ x.user = req[r].user /\ x.new = req[r].new
      BY <1>r, <3>2 DEF Transaction
    <3> HIDE DEF x
    <3>5. Consistent(x) /\ Covered(x)
      BY <2>2, <3>2, <3>4, <1>r DEF Claimable, Consistent, Covered, Stored
    <3>6. \A q \in Requests \ {r} : Compatible(x, req[q]) /\ Compatible(req[q], x)
      BY <1>3, <1>r, <3>2, <3>4 DEF Claim, LockedByOther, Compatible
    <3> QED BY <1>3, <3>1, <3>3, <3>5, <3>6, SlotStep DEF Claim
  <2> QED BY <1>3, <2>1, <2>2 DEF Claim
<1>4. ASSUME CheckUser(r) PROVE RotationInv'
  <2>1. CASE Finish(r)
    BY <1>4, <2>1, FinishStep DEF CheckUser
  <2>2. CASE req' = [req EXCEPT ![r].pc = "checked"]
    <3> DEFINE x == [req[r] EXCEPT !.pc = "checked"]
    <3>1. req' = [req EXCEPT ![r] = x]
      BY <2>2 DEF TypeOK
    <3>2. x \in Transaction
      BY <1>r, MoveTransaction DEF Steps
    <3>3. /\ x.pc = "checked" /\ x.op = req[r].op /\ x.tok = req[r].tok
          /\ x.locked = req[r].locked /\ x.user = req[r].user /\ x.new = req[r].new
      BY <1>r DEF Transaction
    <3>4. req[r].op = "refresh" /\ req[r].pc = "claimed"
      BY <1>4, <1>r DEF CheckUser, Consistent
    <3> HIDE DEF x
    <3>5. Consistent(x) /\ Covered(x)
      BY <3>3, <3>4, <1>r DEF Consistent, Covered
    <3>6. \A q \in Requests \ {r} : Compatible(x, req[q]) /\ Compatible(req[q], x)
      BY <1>r, <3>3, <3>4 DEF Compatible
    <3> QED BY <1>4, <3>1, <3>2, <3>5, <3>6, SlotStep DEF CheckUser
  <2> QED BY <1>4, <2>1, <2>2 DEF CheckUser
<1>5. ASSUME InsertToken(r) PROVE RotationInv'
  <2>1. CASE Finish(r)
    BY <1>5, <2>1, FinishStep DEF InsertToken
  <2>2. CASE ~Finish(r)
    <3> DEFINE a == IF req[r].op = "login" THEN now ELSE req[r].at
               x == [req[r] EXCEPT !.pc = "inserted", !.at = a]
    <3>1. req' = [req EXCEPT ![r] = x]
      BY <1>5, <2>2 DEF InsertToken, TypeOK
    <3>2. a \in Nat
      BY <1>r DEF Transaction, TypeOK
    <3>3. x \in Transaction
      BY <1>r, <3>2, MoveTransaction DEF Steps
    <3>4. /\ x.pc = "inserted" /\ x.op = req[r].op /\ x.tok = req[r].tok
          /\ x.locked = req[r].locked /\ x.user = req[r].user /\ x.new = req[r].new
      BY <1>r DEF Transaction
    <3>5. req[r].op \in {"refresh", "login"} /\ req[r].pc = "checked"
      BY <1>5, <1>r DEF InsertToken, Consistent
    <3> HIDE DEF x
    <3>6. Consistent(x) /\ Covered(x)
      BY <1>5, <2>2, <3>4, <3>5, <1>r DEF InsertToken, Consistent, Covered
    <3>7. \A q \in Requests \ {r} : Compatible(x, req[q]) /\ Compatible(req[q], x)
      BY <1>5, <1>r, <3>4, <3>5 DEF InsertToken, DeletesUser, Compatible
    <3> QED BY <1>5, <3>1, <3>3, <3>6, <3>7, SlotStep DEF InsertToken
  <2> QED BY <2>1, <2>2
<1> QED BY <1>1, <1>2, <1>3, <1>4, <1>5

\* The bulk statements before their commit.
LEMMA SweepSteps ==
  ASSUME RotationInv, TypeOK', NEW r \in Requests,
         \/ \E t \in Tokens : StartLogout(r, t) \/ SweepRow(r, t)
         \/ \E lib \in Libraries : StartRevokeAll(r, lib)
         \/ StartCleanup(r)
         \/ \E u \in Users : StartDeleteUser(r, u)
  PROVE  RotationInv'
<1> USE DEF RotationInv
<1>r. /\ req[r] \in Transaction /\ Consistent(req[r]) /\ Covered(req[r])
      /\ \A q \in Requests \ {r} : Compatible(req[r], req[q]) /\ Compatible(req[q], req[r])
  BY DEF TypeOK, RowLocks, UserRows, Exclusive
<1>1. ASSUME NEW op \in {"logout", "revoke_all", "cleanup", "delete_user"},
             NEW t \in Tokens \cup {None}, NEW u \in Users \cup {None},
             NEW lib \in Libraries \cup {None}, NEW rows \in SUBSET Tokens,
             BeginSweep(r, op, t, u, lib, rows),
             op = "delete_user" =>
               /\ \A y \in Tokens : Stored(y) /\ owner[y] = u => y \in rows
               /\ \A q \in Requests : ~SharesUser(q, u)
      PROVE  RotationInv'
  <2> DEFINE live == {y \in rows : status[y] = "live"}
             x == [Idle EXCEPT !.op = op, !.pc = "sweep", !.tok = t, !.user = u,
                               !.lib = lib, !.todo = rows, !.seen = live]
  <2>1. live \in SUBSET Tokens
    BY DEF TypeOK
  <2>2. x \in Transaction
    BY <2>1 DEF Idle, Transaction, Ops, Steps
  <2>3. /\ x.pc = "sweep" /\ x.op = op /\ x.locked = {} /\ x.new = None
        /\ x.user = u /\ x.todo = rows
    BY DEF Idle
  <2>4. req' = [req EXCEPT ![r] = x] /\ UNCHANGED <<userState, tokenVars>>
    BY <1>1 DEF BeginSweep
  <2> HIDE DEF x
  <2>5. Consistent(x) /\ Covered(x)
    BY <1>1, <2>3 DEF Consistent, Covered
  <2>6. \A q \in Requests \ {r} : Compatible(x, req[q]) /\ Compatible(req[q], x)
    BY <1>1, <2>3 DEF Compatible, SharesUser
  <2> QED BY <2>2, <2>4, <2>5, <2>6, SlotStep
<1>2. ASSUME NEW t \in Tokens, StartLogout(r, t) PROVE RotationInv'
  <2> DEFINE rows == {y \in {t} : status[y] = "live"}
  <2>1. BeginSweep(r, "logout", t, None, None, rows) /\ rows \in SUBSET Tokens
    BY <1>2 DEF StartLogout
  <2> HIDE DEF rows
  <2> QED BY <1>1, <2>1
<1>3. ASSUME NEW lib \in Libraries, StartRevokeAll(r, lib) PROVE RotationInv'
  <2> DEFINE rows == {y \in Tokens : status[y] = "live" /\ Home[owner[y]] = lib}
  <2>1. BeginSweep(r, "revoke_all", None, None, lib, rows) /\ rows \in SUBSET Tokens
    BY <1>3 DEF StartRevokeAll
  <2> HIDE DEF rows
  <2> QED BY <1>1, <2>1
<1>4. ASSUME StartCleanup(r) PROVE RotationInv'
  <2> DEFINE rows == {y \in Tokens : Stored(y) /\ expires[y] < now}
  <2>1. BeginSweep(r, "cleanup", None, None, None, rows) /\ rows \in SUBSET Tokens
    BY <1>4 DEF StartCleanup
  <2> HIDE DEF rows
  <2> QED BY <1>1, <2>1
<1>5. ASSUME NEW u \in Users, StartDeleteUser(r, u) PROVE RotationInv'
  <2> DEFINE rows == {y \in Tokens : Stored(y) /\ owner[y] = u}
  <2>1. BeginSweep(r, "delete_user", None, u, None, rows) /\ rows \in SUBSET Tokens
    BY <1>5 DEF StartDeleteUser
  <2>2. /\ \A y \in Tokens : Stored(y) /\ owner[y] = u => y \in rows
        /\ \A q \in Requests : ~SharesUser(q, u)
    BY <1>5 DEF StartDeleteUser
  <2> HIDE DEF rows
  <2> QED BY <1>1, <2>1, <2>2
<1>6. ASSUME NEW t \in Tokens, SweepRow(r, t) PROVE RotationInv'
  <2> DEFINE L == IF StillMatches(r, t) THEN req[r].locked \cup {t} ELSE req[r].locked
             x == [req[r] EXCEPT !.todo = req[r].todo \ {t}, !.locked = L]
  <2>1. req' = [req EXCEPT ![r] = x]
    BY <1>6 DEF SweepRow, TypeOK
  <2>2. /\ req[r].todo \ {t} \in SUBSET Tokens /\ L \in SUBSET Tokens
        /\ req[r].locked \in SUBSET Tokens
    BY <1>r DEF Transaction
  <2>3. x \in Transaction
    BY <1>r, <2>2, SweepTransaction
  <2>4. /\ x.pc = "sweep" /\ x.op = req[r].op /\ x.tok = req[r].tok
        /\ x.locked = L /\ x.user = req[r].user /\ x.new = req[r].new
        /\ x.todo = req[r].todo \ {t}
    BY <1>6, <1>r DEF Transaction, SweepRow
  <2>5. /\ req[r].pc = "sweep"
        /\ req[r].op \in {"logout", "revoke_all", "cleanup", "delete_user"}
    BY <1>6, <1>r DEF SweepRow, Consistent
  <2> HIDE DEF x
  <2>6. Consistent(x)
    BY <2>4, <2>5, <1>r DEF Consistent, StillMatches, Revokes, Stored
  <2>7. Covered(x)
    BY <2>4, <2>5, <1>r DEF Covered, StillMatches, Revokes
  <2>8. \A q \in Requests \ {r} : Compatible(x, req[q]) /\ Compatible(req[q], x)
    BY <1>6, <1>r, <2>4, <2>5 DEF SweepRow, LockedByOther, Compatible
  <2> QED BY <1>6, <2>1, <2>3, <2>6, <2>7, <2>8, SlotStep DEF SweepRow
<1> QED BY <1>2, <1>3, <1>4, <1>5, <1>6

\* Publishing a new token: the claimed one is spent in the same step.
LEMMA CommitTokenStep ==
  ASSUME RotationInv, TypeOK', NEW r \in Requests, CommitToken(r)
  PROVE  RotationInv'
<1> DEFINE n == req[r].new
           p == req[r].tok
<1> USE DEF RotationInv
<1>r. /\ req[r] \in Transaction /\ Consistent(req[r]) /\ Covered(req[r])
      /\ \A q \in Requests \ {r} : Compatible(req[r], req[q]) /\ Compatible(req[q], req[r])
  BY DEF TypeOK, RowLocks, UserRows, Exclusive
<1>1. /\ req[r].pc = "inserted" /\ n \in Tokens /\ status[n] = "free"
      /\ req[r].user \in Users /\ userState[req[r].user] # "deleted"
  BY <1>r DEF CommitToken, Consistent, Covered
<1>2. \/ p = None /\ req[r].locked = {}
      \/ p \in Tokens /\ req[r].locked = {p} /\ status[p] = "live" /\ p # None /\ p # n
  BY <1>r, <1>1 DEF CommitToken, Consistent
<1>3. /\ status' = [t \in Tokens |-> IF t = n THEN "live"
                       ELSE IF t \in req[r].locked THEN "revoked" ELSE status[t]]
      /\ owner' = [owner EXCEPT ![n] = req[r].user]
      /\ parent' = [parent EXCEPT ![n] = p]
      /\ session' = [session EXCEPT ![n] = IF p = None THEN n ELSE session[p]]
      /\ UNCHANGED userState
      /\ req' = [req EXCEPT ![r] = Idle]
  BY DEF CommitToken, Finish
<1> HIDE DEF n, p
<1>4. /\ status'[n] = "live" /\ parent'[n] = p /\ owner'[n] = req[r].user
      /\ session'[n] = IF p = None THEN n ELSE session[p]
      /\ \A t \in Tokens \ {n} :
           /\ parent'[t] = parent[t] /\ session'[t] = session[t] /\ owner'[t] = owner[t]
           /\ status'[t] = IF p # None /\ t = p THEN "revoked" ELSE status[t]
  BY <1>1, <1>2, <1>3 DEF TypeOK
<1>5. /\ req'[r] = Idle
      /\ \A q \in Requests \ {r} : req'[q] = req[q]
  BY <1>3 DEF TypeOK
<1>6. RowLocks'
  <2>1. ASSUME NEW q \in Requests, q # r PROVE Consistent(req[q])'
    <3>1. Consistent(req[q]) /\ Compatible(req[r], req[q]) /\ Compatible(req[q], req[r])
      BY <1>r, <2>1 DEF RowLocks
    <3>2. req'[q] = req[q]
      BY <1>5, <2>1
    <3>3. req[q].locked \in SUBSET Tokens
      BY DEF TypeOK, Transaction
    <3>4. \A t \in req[q].locked : status'[t] = status[t]
      BY <1>1, <1>2, <1>4, <3>1, <3>3 DEF Consistent, Compatible, Stored
    <3>5. req[q].op \in {"login", "refresh"} => status'[req[q].new] = "free"
      <4>1. SUFFICES ASSUME req[q].op \in {"login", "refresh"}
                     PROVE  status'[req[q].new] = "free"
        OBVIOUS
      <4>2. req[q].new \in Tokens /\ status[req[q].new] = "free" /\ req[q].new # None
        BY <3>1, <4>1 DEF Consistent
      <4>3. req[q].new # n
        BY <3>1, <4>2 DEF Compatible, n
      <4> QED BY <1>2, <1>4, <4>2, <4>3
    <3> QED BY <3>1, <3>2, <3>4, <3>5 DEF Consistent, Stored
  <2>2. Consistent(req[r])'
    BY <1>5 DEF Consistent, Idle
  <2> QED BY <2>1, <2>2 DEF RowLocks
<1>7. Exclusive'
  BY <1>5 DEF Exclusive, Compatible, Idle
<1>8. UserRows'
  <2>1. ASSUME NEW q \in Requests, q # r PROVE Covered(req[q])'
    <3>1. Covered(req[q]) /\ Compatible(req[r], req[q]) /\ req'[q] = req[q]
      BY <1>r, <1>5, <2>1 DEF UserRows
    <3>2. ASSUME NEW t \in Tokens, req[q].op = "delete_user", Stored(t)',
                 owner'[t] = req[q].user
          PROVE  t \in req[q].todo \cup req[q].locked
      <4>1. t # n
        BY <1>1, <1>4, <3>1, <3>2 DEF Compatible
      <4>2. Stored(t) /\ owner[t] = req[q].user
        BY <1>2, <1>4, <3>2, <4>1 DEF Stored
      <4> QED BY <3>1, <3>2, <4>2 DEF Covered
    <3> QED BY <1>3, <3>1, <3>2 DEF Covered
  <2>2. Covered(req[r])'
    BY <1>5 DEF Covered, Idle
  <2> QED BY <2>1, <2>2 DEF UserRows
<1>9. History'
  BY <1>1, <1>2, <1>4 DEF History, TypeOK
<1>10. OneLiveToken'
  <2>1. ASSUME NEW t \in Tokens, t # n, Live(t)', session'[t] = session'[n] PROVE FALSE
    <3>1. Live(t) /\ session'[t] = session[t] /\ ~(p # None /\ t = p)
      BY <1>2, <1>4, <2>1 DEF Live
    <3>2. CASE p = None
      BY <1>1, <1>4, <2>1, <3>1, <3>2 DEF History, Live
    <3>3. CASE p # None
      BY <1>2, <1>4, <2>1, <3>1, <3>3 DEF OneLiveToken, Live
    <3> QED BY <3>2, <3>3
  <2>2. ASSUME NEW t1 \in Tokens, NEW t2 \in Tokens, t1 # n, t2 # n, Live(t1)', Live(t2)',
               session'[t1] = session'[t2]
        PROVE  t1 = t2
    BY <1>4, <2>2 DEF OneLiveToken, Live
  <2> QED BY <1>1, <2>1, <2>2 DEF OneLiveToken
<1>11. ExchangedOnce'
  BY <1>1, <1>2, <1>4 DEF ExchangedOnce, History
<1>12. NoOrphanToken'
  BY <1>1, <1>2, <1>3, <1>4 DEF NoOrphanToken, Stored
<1> QED BY <1>6, <1>7, <1>8, <1>9, <1>10, <1>11, <1>12

\* Publishing a bulk statement: it only revokes live rows and deletes stored ones.
LEMMA CommitSweepStep ==
  ASSUME RotationInv, TypeOK', NEW r \in Requests, CommitSweep(r)
  PROVE  RotationInv'
<1> USE DEF RotationInv
<1>r. /\ req[r] \in Transaction /\ Consistent(req[r]) /\ Covered(req[r])
      /\ \A q \in Requests \ {r} : Compatible(req[r], req[q]) /\ Compatible(req[q], req[r])
  BY DEF TypeOK, RowLocks, UserRows, Exclusive
<1>1. \A t \in Tokens :
        status'[t] = IF t \in req[r].locked
                     THEN IF Revokes(r) THEN "revoked" ELSE "deleted"
                     ELSE status[t]
  BY DEF CommitSweep
<1>2. /\ UNCHANGED <<owner, parent, session>>
      /\ req'[r] = Idle
      /\ \A q \in Requests \ {r} : req'[q] = req[q]
      /\ \A u \in Users : userState'[u] = IF DeletesUser(r, u) THEN "deleted" ELSE userState[u]
  BY DEF CommitSweep, Finish, TypeOK
<1>3. \A t \in req[r].locked : Stored(t) /\ (Revokes(r) => status[t] = "live")
  BY <1>r DEF Consistent, Revokes
<1>4. RowLocks'
  <2>1. ASSUME NEW q \in Requests, q # r PROVE Consistent(req[q])'
    <3>1. Consistent(req[q]) /\ Compatible(req[r], req[q]) /\ req'[q] = req[q]
      BY <1>r, <1>2, <2>1 DEF RowLocks
    <3>2. req[q].locked \in SUBSET Tokens
      BY DEF TypeOK, Transaction
    <3>3. \A t \in req[q].locked : status'[t] = status[t]
      BY <1>1, <3>1, <3>2 DEF Compatible
    <3>4. \A t \in Tokens : status[t] = "free" => status'[t] = "free"
      BY <1>1, <1>3 DEF Stored
    <3> QED BY <3>1, <3>3, <3>4 DEF Consistent, Stored
  <2>2. Consistent(req[r])'
    BY <1>2 DEF Consistent, Idle
  <2> QED BY <2>1, <2>2 DEF RowLocks
<1>5. Exclusive'
  BY <1>2 DEF Exclusive, Compatible, Idle
<1>6. UserRows'
  <2>1. ASSUME NEW q \in Requests, q # r PROVE Covered(req[q])'
    <3>1. /\ Covered(req[q]) /\ Consistent(req[q]) /\ Compatible(req[q], req[r])
          /\ req'[q] = req[q]
      BY <1>r, <1>2, <2>1 DEF UserRows, RowLocks
    <3>2. \A t \in Tokens : Stored(t)' => Stored(t)
      BY <1>1, <1>3 DEF Stored
    <3>3. req[q].pc = "inserted" => req[q].user \in Users
      BY <3>1 DEF Consistent
    <3>4. req[q].pc = "inserted" => userState'[req[q].user] # "deleted"
      BY <1>2, <3>1, <3>3 DEF Covered, Compatible, DeletesUser
    <3> QED BY <1>2, <3>1, <3>2, <3>4 DEF Covered
  <2>2. Covered(req[r])'
    BY <1>2 DEF Covered, Idle
  <2> QED BY <2>1, <2>2 DEF UserRows
<1>7. History'
  BY <1>1, <1>2, <1>3 DEF History, TypeOK, Stored
<1>8. OneLiveToken' /\ ExchangedOnce'
  BY <1>1, <1>2 DEF OneLiveToken, ExchangedOnce, Live
<1>9. NoOrphanToken'
  <2>1. SUFFICES ASSUME NEW t \in Tokens, Stored(t)' PROVE userState'[owner[t]] # "deleted"
    BY <1>2 DEF NoOrphanToken
  <2>2. Stored(t) /\ owner[t] \in Users
    BY <1>1, <1>3, <2>1 DEF Stored, History
  <2>3. CASE DeletesUser(r, owner[t])
    <3>1. t \in req[r].locked /\ ~Revokes(r)
      BY <1>r, <2>2, <2>3 DEF Covered, DeletesUser, CommitSweep, Revokes
    <3> QED BY <1>1, <2>1, <3>1 DEF Stored
  <2>4. CASE ~DeletesUser(r, owner[t])
    BY <1>2, <2>2, <2>4 DEF NoOrphanToken
  <2> QED BY <2>3, <2>4
<1> QED BY <1>4, <1>5, <1>6, <1>7, <1>8, <1>9

\* A step that changes neither rows nor requests keeps what requests hold.
LEMMA LocksUnchanged ==
  ASSUME RotationInv, UNCHANGED <<status, owner, parent, session, req>>
  PROVE  RowLocks' /\ Exclusive'
<1>1. /\ status' = status /\ owner' = owner /\ parent' = parent /\ session' = session
      /\ req' = req
  OBVIOUS
<1>2. RowLocks /\ Exclusive
  BY DEF RotationInv
<1>3. ASSUME NEW r \in Requests PROVE Consistent(req[r])'
  <2>1. Consistent(req[r])
    BY <1>2 DEF RowLocks
  <2> QED BY <1>1, <2>1 DEF Consistent, Stored
<1>4. ASSUME NEW r \in Requests, NEW q \in Requests, r # q
      PROVE  Compatible(req[r], req[q])'
  <2>1. Compatible(req[r], req[q])
    BY <1>2, <1>4 DEF Exclusive
  <2> QED BY <1>1, <2>1 DEF Compatible
<1> QED BY <1>3, <1>4 DEF RowLocks, Exclusive

\* The invariant is inductive.
LEMMA RotationStep == RotationInv /\ [Next]_vars => RotationInv'
<1> SUFFICES ASSUME RotationInv, [Next]_vars PROVE RotationInv'
  OBVIOUS
<1>0. TypeOK'
  BY TypeStep
<1>1. ASSUME NEW r \in Requests, Start(r) \/ Work(r) PROVE RotationInv'
  BY <1>0, <1>1, TokenSteps, SweepSteps, CommitTokenStep, CommitSweepStep DEF Start, Work
<1>2. ASSUME NEW r \in Requests, Rollback(r) \/ AbortDeadlock(r) PROVE RotationInv'
  BY <1>0, <1>2, FinishStep DEF Rollback, AbortDeadlock
<1>3. ASSUME NEW u \in Users, SetUserActive(u) PROVE RotationInv'
  <2>1. \A v \in Users : userState'[v] = "deleted" <=> userState[v] = "deleted"
    BY <1>3 DEF SetUserActive, RotationInv, TypeOK
  <2>s. UNCHANGED <<status, owner, parent, session, req>>
    BY <1>3 DEF SetUserActive, tokenVars
  <2>5. RowLocks' /\ Exclusive'
    BY <2>s, LocksUnchanged
  <2>6. History'
    BY <2>s DEF RotationInv, History
  <2>7. OneLiveToken' /\ ExchangedOnce'
    BY <2>s DEF RotationInv, OneLiveToken, ExchangedOnce, Live
  <2>3. UserRows'
    <3>1. ASSUME NEW r \in Requests PROVE Covered(req[r])'
      <4>1. Covered(req[r]) /\ (req[r].pc = "inserted" => req[r].user \in Users)
        BY DEF RotationInv, UserRows, RowLocks, Consistent
      <4> QED BY <1>3, <2>1, <4>1 DEF SetUserActive, Covered, Stored, tokenVars
    <3> QED BY <3>1 DEF UserRows
  <2>4. NoOrphanToken'
    BY <1>3, <2>1 DEF SetUserActive, RotationInv, NoOrphanToken, History, Stored, tokenVars
  <2> QED BY <1>0, <2>5, <2>6, <2>7, <2>3, <2>4 DEF RotationInv
<1>4. CASE Tick \/ UNCHANGED vars
  <2>1. UNCHANGED <<userState, status, owner, parent, session, req>>
    BY <1>4 DEF Tick, vars, tokenVars
  <2>2. RowLocks' /\ Exclusive'
    BY <2>1, LocksUnchanged
  <2>3. UserRows'
    BY <2>1 DEF RotationInv, UserRows, Covered, Stored
  <2>4. History'
    BY <2>1 DEF RotationInv, History
  <2>5. OneLiveToken' /\ ExchangedOnce' /\ NoOrphanToken'
    BY <2>1 DEF RotationInv, OneLiveToken, ExchangedOnce, NoOrphanToken, Stored, Live
  <2> QED BY <1>0, <2>2, <2>3, <2>4, <2>5 DEF RotationInv
<1> QED BY <1>1, <1>2, <1>3, <1>4 DEF Next

\* Whatever interleaving, failure and retry of requests the pool admits, the
\* inductive invariant of the exchange holds.
THEOREM Rotation == Spec => []RotationInv
BY InitRotation, RotationStep, PTL DEF Spec

\* Type correctness, for every pool size and number of users and tokens.
THEOREM TypeCorrect == Spec => []TypeOK
<1>1. RotationInv => TypeOK
  BY DEF RotationInv
<1> QED BY <1>1, Rotation, PTL

\* A session never has two tokens that can continue it.
THEOREM SessionHasOneLiveToken == Spec => []OneLiveToken
<1>1. RotationInv => OneLiveToken
  BY DEF RotationInv
<1> QED BY <1>1, Rotation, PTL

\* Presenting a refresh token succeeds at most once.
THEOREM RotationExactlyOnce == Spec => []ExchangedOnce
<1>1. RotationInv => ExchangedOnce
  BY DEF RotationInv
<1> QED BY <1>1, Rotation, PTL

\* No refresh token outlives its user.
THEOREM TokensHaveUsers == Spec => []NoOrphanToken
<1>1. RotationInv => NoOrphanToken
  BY DEF RotationInv
<1> QED BY <1>1, Rotation, PTL

\* What a cleanup run or a deletion has selected keeps the reason it was selected
\* for, however long the statement waits for row locks.
Selected(x) ==
  /\ x.op = "cleanup" =>
       \A t \in x.todo \cup x.locked : status[t] # "free" /\ expires[t] < now
  /\ x.op = "delete_user" =>
       \A t \in x.todo \cup x.locked : status[t] # "free" /\ owner[t] = x.user

SelectionInv == \A r \in Requests : Selected(req[r])

\* Rows that exist keep their owner and lifetime, and time does not run back.
LEMMA RowsKept ==
  ASSUME RotationInv, [Next]_vars, NEW t \in Tokens, status[t] # "free"
  PROVE  /\ status'[t] # "free" /\ expires'[t] = expires[t] /\ owner'[t] = owner[t]
         /\ \A n \in Nat : n < now => n < now'
<1>0. now \in Nat /\ TypeOK /\ \A r \in Requests : Consistent(req[r])
  BY DEF RotationInv, TypeOK, RowLocks
<1>1. ASSUME NEW r \in Requests, CommitToken(r) PROVE req[r].new # t
  BY <1>0, <1>1 DEF CommitToken, Consistent
<1>2. ASSUME NEW r \in Requests, Start(r) \/ Rollback(r) \/ AbortDeadlock(r)
      PROVE  UNCHANGED <<now, status, owner, expires>>
  BY <1>2 DEF Start, StartLogin, StartRefresh, StartLogout, StartRevokeAll, StartCleanup,
     StartDeleteUser, BeginSweep, Rollback, AbortDeadlock, tokenVars
<1>3. ASSUME NEW r \in Requests, Work(r)
      PROVE  /\ now' = now
             /\ status'[t] # "free" /\ expires'[t] = expires[t] /\ owner'[t] = owner[t]
  <2>1. CASE CommitToken(r)
    BY <1>0, <1>1, <2>1 DEF CommitToken, TypeOK
  <2>2. CASE CommitSweep(r)
    BY <2>2 DEF CommitSweep
  <2>3. CASE Claim(r) \/ CheckUser(r) \/ InsertToken(r) \/ \E u \in Tokens : SweepRow(r, u)
    BY <2>3 DEF Claim, CheckUser, InsertToken, SweepRow, tokenVars
  <2> QED BY <1>3, <2>1, <2>2, <2>3 DEF Work
<1>4. CASE (\E u \in Users : SetUserActive(u)) \/ UNCHANGED vars
  BY <1>4 DEF SetUserActive, vars, tokenVars
<1>5. CASE Tick
  BY <1>0, <1>5 DEF Tick, tokenVars
<1> QED BY <1>2, <1>3, <1>4, <1>5 DEF Next

\* A request goes on with what it has selected, or begins a selection of its own.
LEMMA SelectionStep ==
  ASSUME RotationInv, SelectionInv, [Next]_vars
  PROVE  SelectionInv'
<1>0. /\ req \in [Requests -> Transaction] /\ expires \in [Tokens -> Nat]
      /\ \A r \in Requests : Consistent(req[r])
  BY DEF RotationInv, TypeOK, RowLocks
<1>1. ASSUME NEW q \in Requests, req'[q].op = req[q].op, req'[q].user = req[q].user,
             req'[q].todo \cup req'[q].locked \subseteq req[q].todo \cup req[q].locked
      PROVE  Selected(req[q])'
  <2>1. req[q].todo \cup req[q].locked \subseteq Tokens /\ Selected(req[q])
    BY <1>0 DEF SelectionInv, Transaction
  <2> QED BY <1>0, <1>1, <2>1, RowsKept DEF Selected
<1>2. ASSUME NEW q \in Requests, req'[q].op \notin {"cleanup", "delete_user"}
      PROVE  Selected(req[q])'
  BY <1>2 DEF Selected
<1>3. ASSUME NEW r \in Requests, \A q \in Requests \ {r} : req'[q] = req[q],
             Selected(req[r])'
      PROVE  SelectionInv'
  BY <1>1, <1>3 DEF SelectionInv
<1>4. ASSUME NEW r \in Requests, Start(r) PROVE SelectionInv'
  <2>1. \A q \in Requests \ {r} : req'[q] = req[q]
    BY <1>0, <1>4 DEF Start, StartLogin, StartRefresh, StartLogout, StartRevokeAll,
       StartCleanup, StartDeleteUser, BeginSweep
  <2>2. CASE \E u \in Users, n \in Tokens : StartLogin(r, u, n)
    <3>1. req'[r].op = "login"
      BY <1>0, <2>2 DEF StartLogin, Idle
    <3> QED BY <1>2, <1>3, <2>1, <3>1
  <2>3. CASE \E t, n \in Tokens : StartRefresh(r, t, n)
    <3>1. req'[r].op = "refresh"
      BY <1>0, <2>3 DEF StartRefresh, Idle
    <3> QED BY <1>2, <1>3, <2>1, <3>1
  <2>7. ASSUME NEW op, NEW t, NEW u, NEW lib, NEW rows, BeginSweep(r, op, t, u, lib, rows)
        PROVE  /\ req'[r].op = op /\ req'[r].user = u
               /\ req'[r].todo = rows /\ req'[r].locked = {}
               /\ UNCHANGED <<now, status, owner, expires>>
    BY <1>0, <2>7 DEF BeginSweep, Idle, tokenVars
  <2>4. CASE (\E t \in Tokens : StartLogout(r, t)) \/ (\E lib \in Libraries : StartRevokeAll(r, lib))
    <3>1. req'[r].op \in {"logout", "revoke_all"}
      BY <2>4, <2>7 DEF StartLogout, StartRevokeAll
    <3> QED BY <1>2, <1>3, <2>1, <3>1
  <2>5. CASE StartCleanup(r)
    <3>1. /\ req'[r].op = "cleanup" /\ req'[r].locked = {}
          /\ req'[r].todo = {t \in Tokens : Stored(t) /\ expires[t] < now}
          /\ UNCHANGED <<now, status, owner, expires>>
      BY <2>5, <2>7 DEF StartCleanup
    <3>2. Selected(req[r])'
      BY <3>1 DEF Selected, Stored
    <3> QED BY <1>3, <2>1, <3>2
  <2>6. CASE \E u \in Users : StartDeleteUser(r, u)
    <3>1. PICK u \in Users : StartDeleteUser(r, u)
      BY <2>6
    <3>2. /\ req'[r].op = "delete_user" /\ req'[r].locked = {} /\ req'[r].user = u
          /\ req'[r].todo = {t \in Tokens : Stored(t) /\ owner[t] = u}
          /\ UNCHANGED <<now, status, owner, expires>>
      BY <2>7, <3>1 DEF StartDeleteUser
    <3>3. Selected(req[r])'
      BY <3>2 DEF Selected, Stored
    <3> QED BY <1>3, <2>1, <3>3
  <2> QED BY <1>4, <2>2, <2>3, <2>4, <2>5, <2>6 DEF Start
<1>5. ASSUME NEW r \in Requests, req' = [req EXCEPT ![r] = Idle] PROVE SelectionInv'
  <2>1. req'[r].op = "none" /\ \A q \in Requests \ {r} : req'[q] = req[q]
    BY <1>0, <1>5 DEF Idle
  <2> QED BY <1>2, <1>3, <2>1
<1>6. ASSUME NEW r \in Requests, Work(r) PROVE SelectionInv'
  <2>1. CASE Claim(r) \/ CheckUser(r) \/ InsertToken(r)
    <3>1. req[r].op \in {"login", "refresh"}
      BY <1>0, <2>1 DEF Claim, CheckUser, InsertToken, Consistent
    <3>2. /\ \A q \in Requests \ {r} : req'[q] = req[q]
          /\ req'[r].op = req[r].op \/ req'[r] = Idle
      BY <1>0, <2>1 DEF Claim, CheckUser, InsertToken, Finish, Transaction
    <3>3. req'[r].op \notin {"cleanup", "delete_user"}
      BY <3>1, <3>2 DEF Idle
    <3> QED BY <1>2, <1>3, <3>2, <3>3
  <2>2. CASE \E t \in Tokens : SweepRow(r, t)
    <3>1. PICK t \in Tokens : SweepRow(r, t)
      BY <2>2
    <3>2. /\ req'[r].op = req[r].op /\ req'[r].user = req[r].user
          /\ req'[r].todo \cup req'[r].locked \subseteq req[r].todo \cup req[r].locked
          /\ \A q \in Requests \ {r} : req'[q] = req[q]
      BY <1>0, <3>1 DEF SweepRow, Transaction
    <3> QED BY <1>1, <1>3, <3>2
  <2>3. CASE CommitToken(r) \/ CommitSweep(r)
    BY <1>5, <2>3 DEF CommitToken, CommitSweep, Finish
  <2> QED BY <1>6, <2>1, <2>2, <2>3 DEF Work
<1>7. ASSUME NEW r \in Requests, Rollback(r) \/ AbortDeadlock(r) PROVE SelectionInv'
  BY <1>5, <1>7 DEF Rollback, AbortDeadlock, Finish
<1>8. CASE (\E u \in Users : SetUserActive(u)) \/ Tick \/ UNCHANGED vars
  <2>1. req' = req
    BY <1>8 DEF SetUserActive, Tick, vars
  <2> QED BY <1>1, <2>1 DEF SelectionInv
<1> QED BY <1>4, <1>6, <1>7, <1>8 DEF Next

\* Only an expired row, or one of a deleted user, disappears, whatever is written
\* between the selection of a statement and its commit.
THEOREM PurgeIsRight == Spec => OnlyExpiredPurged
<1>1. Init => SelectionInv
  BY DEF Init, SelectionInv, Selected, Idle
<1>2. ASSUME RotationInv, SelectionInv, [Next]_vars, NEW t \in Tokens,
             status'[t] = "deleted", status[t] # "deleted"
      PROVE  expires[t] < now \/ userState'[owner[t]] = "deleted"
  <2>0. /\ status \in [Tokens -> {"free", "live", "revoked", "deleted"}]
        /\ \A r \in Requests : Consistent(req[r]) /\ Selected(req[r])
    BY <1>2 DEF RotationInv, TypeOK, RowLocks, SelectionInv
  <2>1. PICK r \in Requests : CommitSweep(r)
    <3>1. ASSUME NEW r \in Requests, CommitToken(r) PROVE FALSE
      BY <1>2, <2>0, <3>1 DEF CommitToken
    <3>2. ASSUME NEW r \in Requests, Work(r), ~CommitSweep(r), ~CommitToken(r)
          PROVE  status' = status
      BY <3>2 DEF Work, Claim, CheckUser, InsertToken, SweepRow, tokenVars
    <3>3. ASSUME NEW r \in Requests, Start(r) \/ Rollback(r) \/ AbortDeadlock(r)
          PROVE  status' = status
      BY <3>3 DEF Start, StartLogin, StartRefresh, StartLogout, StartRevokeAll,
         StartCleanup, StartDeleteUser, BeginSweep, Rollback, AbortDeadlock, tokenVars
    <3>4. CASE (\E u \in Users : SetUserActive(u)) \/ Tick \/ UNCHANGED vars
      BY <1>2, <3>4 DEF SetUserActive, Tick, vars, tokenVars
    <3> QED BY <1>2, <3>1, <3>2, <3>3, <3>4 DEF Next
  <2>2. t \in req[r].locked /\ ~Revokes(r)
    BY <1>2, <2>1 DEF CommitSweep
  <2>3. req[r].op \in {"cleanup", "delete_user"}
    BY <2>0, <2>1, <2>2 DEF CommitSweep, Consistent, Revokes
  <2>4. owner[t] \in Users
    BY <1>2, <2>0, <2>2, <2>3 DEF RotationInv, History, Selected
  <2> QED BY <2>0, <2>1, <2>2, <2>3, <2>4 DEF Selected, CommitSweep, DeletesUser
<1>3. RotationInv /\ SelectionInv /\ [Next]_vars =>
        [\A t \in Tokens :
           status'[t] = "deleted" /\ status[t] # "deleted" =>
             expires[t] < now \/ userState'[owner[t]] = "deleted"]_vars
  BY <1>2
<1> QED BY <1>1, <1>3, Rotation, SelectionStep, PTL DEF Spec, OnlyExpiredPurged

-----------------------------------------------------------------------------
\* What the statement of a logout or a revoke-sessions still has to do with a token
\* that it found live: it is on the list or locked, or the session has ended, or the
\* token was exchanged.
Followed(x) ==
  x.op \in {"logout", "revoke_all"} =>
    \A t \in x.seen :
      /\ status[t] # "free"
      /\ Live(t) => t \in x.todo \cup x.locked
      /\ Live(t) \/ ~SessionOpen(session[t]) \/ \E c \in Tokens : parent[c] = t

FollowedInv == \A r \in Requests : Followed(req[r])

\* Only commits write token rows.
LEMMA WrittenByCommits ==
  ASSUME [Next]_vars,
         \A r \in Requests : ~CommitToken(r) /\ ~CommitSweep(r)
  PROVE  UNCHANGED <<status, parent, session>>
<1>1. ASSUME NEW r \in Requests, Start(r) \/ Rollback(r) \/ AbortDeadlock(r)
      PROVE  UNCHANGED tokenVars
  BY <1>1 DEF Start, StartLogin, StartRefresh, StartLogout, StartRevokeAll, StartCleanup,
     StartDeleteUser, BeginSweep, Rollback, AbortDeadlock, tokenVars
<1>2. ASSUME NEW r \in Requests, Work(r) PROVE UNCHANGED tokenVars
  BY <1>2 DEF Work, Claim, CheckUser, InsertToken, SweepRow, tokenVars
<1>3. CASE (\E u \in Users : SetUserActive(u)) \/ Tick \/ UNCHANGED vars
  BY <1>3 DEF SetUserActive, Tick, vars, tokenVars
<1> QED BY <1>1, <1>2, <1>3 DEF Next, tokenVars

\* The life of a stored token: it never becomes live again, its session never opens
\* again; when it ends, so does its session, or it was exchanged.
LEMMA TokenEnds ==
  ASSUME RotationInv, [Next]_vars, NEW t \in Tokens, status[t] # "free"
  PROVE  /\ status'[t] # "free" /\ session'[t] = session[t]
         /\ Live(t)' => Live(t)
         /\ \A c \in Tokens : parent[c] = t => parent'[c] = t
         /\ ~SessionOpen(session[t]) => ~SessionOpen(session[t])'
         /\ Live(t) => Live(t)' \/ ~SessionOpen(session[t])' \/ \E c \in Tokens : parent'[c] = t
<1>0. /\ status \in [Tokens -> {"free", "live", "revoked", "deleted"}]
      /\ session \in [Tokens -> Tokens] /\ parent \in [Tokens -> Tokens \cup {None}]
      /\ \A r \in Requests : Consistent(req[r])
      /\ History /\ OneLiveToken
  BY DEF RotationInv, TypeOK, RowLocks
<1>1. ASSUME NEW r \in Requests, CommitToken(r)
      PROVE  /\ status'[t] # "free" /\ session'[t] = session[t]
             /\ Live(t)' => Live(t)
             /\ \A c \in Tokens : parent[c] = t => parent'[c] = t
             /\ ~SessionOpen(session[t]) => ~SessionOpen(session[t])'
             /\ Live(t) => Live(t)' \/ \E c \in Tokens : parent'[c] = t
  <2> DEFINE n == req[r].new
             p == req[r].tok
  <2>1. /\ n \in Tokens /\ status[n] = "free" /\ n # t /\ parent[n] = None
        /\ \/ p = None /\ req[r].locked = {}
           \/ p \in Tokens /\ req[r].locked = {p} /\ status[p] = "live"
    <3>1. Consistent(req[r]) /\ req[r].pc = "inserted" /\ req[r].op \in {"refresh", "login"}
      BY <1>0, <1>1 DEF CommitToken, Consistent
    <3>2. n \in Tokens /\ status[n] = "free" /\ n # t /\ parent[n] = None
      BY <1>0, <3>1 DEF Consistent, History
    <3>3. req[r].op = "login" => p = None /\ req[r].locked = {}
      BY <3>1 DEF Consistent
    <3>4. req[r].op = "refresh" => p \in Tokens /\ req[r].locked = {p}
      BY <3>1 DEF Consistent
    <3>5. CASE req[r].op = "refresh"
      <4>1. p \in req[r].locked
        BY <3>4, <3>5
      <4>2. status[p] = "live"
        BY <3>1, <3>5, <4>1 DEF Consistent
      <4> QED BY <3>2, <3>4, <3>5, <4>2
    <3>6. CASE req[r].op = "login"
      BY <3>2, <3>3, <3>6
    <3> QED BY <3>1, <3>5, <3>6
  <2>2. /\ \A y \in Tokens :
             status'[y] = IF y = n THEN "live"
                          ELSE IF y \in req[r].locked THEN "revoked" ELSE status[y]
        /\ parent' = [parent EXCEPT ![n] = p]
        /\ session' = [session EXCEPT ![n] = IF p = None THEN n ELSE session[p]]
    BY <1>1 DEF CommitToken
  <2>3. status'[t] # "free" /\ session'[t] = session[t] /\ (Live(t)' => Live(t))
    BY <1>0, <2>1, <2>2 DEF Live
  <2>4. \A c \in Tokens : parent[c] = t => parent'[c] = t
    BY <1>0, <2>1, <2>2, SessionsAssumption
  <2>5. Live(t) => Live(t)' \/ \E c \in Tokens : parent'[c] = t
    <3>1. t = p => parent'[n] = t
      BY <1>0, <2>1, <2>2
    <3>2. t # p => status'[t] = status[t]
      BY <1>0, <2>1, <2>2
    <3> QED BY <2>1, <3>1, <3>2 DEF Live
  <2>6. ASSUME NEW y \in Tokens, Live(y)', session'[y] = session[t]
        PROVE  SessionOpen(session[t])
    <3>1. CASE y # n
      BY <1>0, <2>1, <2>2, <2>6, <3>1 DEF Live, SessionOpen
    <3>2. CASE y = n
      <4>1. session'[n] = IF p = None THEN n ELSE session[p]
        BY <1>0, <2>1, <2>2
      <4>2. session[t] # n
        BY <1>0, <2>1 DEF History
      <4>3. p # None /\ session[p] = session[t]
        BY <2>6, <3>2, <4>1, <4>2
      <4> QED BY <2>1, <4>3 DEF Live, SessionOpen
    <3> QED BY <3>1, <3>2
  <2> QED BY <2>3, <2>4, <2>5, <2>6 DEF SessionOpen
<1>2. ASSUME NEW r \in Requests, CommitSweep(r)
      PROVE  /\ status'[t] # "free" /\ session' = session /\ parent' = parent
             /\ \A y \in Tokens : Live(y)' => Live(y)
  BY <1>0, <1>2 DEF CommitSweep, Live
<1>3. ASSUME session' = session, \A y \in Tokens : Live(y)' => Live(y)
      PROVE  /\ ~SessionOpen(session[t]) => ~SessionOpen(session[t])'
             /\ Live(t) => Live(t)' \/ ~SessionOpen(session[t])'
  BY <1>0, <1>3 DEF SessionOpen, OneLiveToken
<1>4. CASE \A r \in Requests : ~CommitToken(r) /\ ~CommitSweep(r)
  <2>1. UNCHANGED <<status, parent, session>>
    BY <1>4, WrittenByCommits
  <2>2. \A y \in Tokens : Live(y)' => Live(y)
    BY <2>1 DEF Live
  <2> QED BY <1>3, <2>1, <2>2
<1> QED BY <1>1, <1>2, <1>3, <1>4

\* A request goes on with the tokens it has seen, or begins to look at some.
LEMMA FollowedStep ==
  ASSUME RotationInv, FollowedInv, [Next]_vars
  PROVE  FollowedInv'
<1>0. /\ req \in [Requests -> Transaction]
      /\ \A r \in Requests : Consistent(req[r]) /\ req[r].seen \subseteq Tokens
  BY DEF RotationInv, TypeOK, RowLocks, Transaction
<1>1. ASSUME NEW q \in Requests, req'[q].op = req[q].op, req'[q].seen = req[q].seen,
             \A t \in Tokens : Live(t) /\ t \in req[q].todo \cup req[q].locked =>
                                 t \in req'[q].todo \cup req'[q].locked
      PROVE  Followed(req[q])'
  <2>1. SUFFICES ASSUME req[q].op \in {"logout", "revoke_all"}, NEW t \in req[q].seen
                 PROVE  /\ status'[t] # "free"
                        /\ Live(t)' => t \in req'[q].todo \cup req'[q].locked
                        /\ Live(t)' \/ ~SessionOpen(session[t])' \/ \E c \in Tokens : parent'[c] = t
    BY <1>1 DEF Followed
  <2>2. /\ t \in Tokens /\ status[t] # "free"
        /\ Live(t) => t \in req[q].todo \cup req[q].locked
        /\ Live(t) \/ ~SessionOpen(session[t]) \/ \E c \in Tokens : parent[c] = t
    BY <1>0, <2>1 DEF FollowedInv, Followed
  <2> QED BY <1>1, <2>2, TokenEnds
<1>2. ASSUME NEW q \in Requests, req'[q].op \notin {"logout", "revoke_all"}
      PROVE  Followed(req[q])'
  BY <1>2 DEF Followed
<1>3. ASSUME NEW r \in Requests, \A q \in Requests \ {r} : req'[q] = req[q],
             Followed(req[r])'
      PROVE  FollowedInv'
  BY <1>1, <1>3 DEF FollowedInv
<1>4. ASSUME NEW r \in Requests, Start(r) PROVE FollowedInv'
  <2>1. \A q \in Requests \ {r} : req'[q] = req[q]
    BY <1>0, <1>4 DEF Start, StartLogin, StartRefresh, StartLogout, StartRevokeAll,
       StartCleanup, StartDeleteUser, BeginSweep
  <2>2. CASE (\E u \in Users, n \in Tokens : StartLogin(r, u, n))
             \/ (\E t, n \in Tokens : StartRefresh(r, t, n))
    <3>1. ASSUME NEW u \in Users, NEW n \in Tokens, StartLogin(r, u, n)
          PROVE  req'[r].op = "login"
      BY <1>0, <3>1 DEF StartLogin, Idle
    <3>2. ASSUME NEW t \in Tokens, NEW n \in Tokens, StartRefresh(r, t, n)
          PROVE  req'[r].op = "refresh"
      BY <1>0, <3>2 DEF StartRefresh, Idle
    <3>3. req'[r].op \notin {"logout", "revoke_all"}
      BY <2>2, <3>1, <3>2
    <3> QED BY <1>2, <1>3, <2>1, <3>3
  <2>3. ASSUME NEW op, NEW t, NEW u, NEW lib, NEW rows, BeginSweep(r, op, t, u, lib, rows),
               rows \subseteq Tokens
        PROVE  Followed(req[r])'
    <3>1. /\ req'[r].todo = rows
          /\ req'[r].seen = {x \in rows : status[x] = "live"}
          /\ UNCHANGED <<status, session, parent>>
      BY <1>0, <2>3 DEF BeginSweep, Idle, tokenVars
    <3> QED BY <3>1 DEF Followed, Live
  <2>4. CASE \/ \E t \in Tokens : StartLogout(r, t)
             \/ \E lib \in Libraries : StartRevokeAll(r, lib)
             \/ StartCleanup(r)
             \/ \E u \in Users : StartDeleteUser(r, u)
    <3>1. ASSUME NEW t \in Tokens, StartLogout(r, t) PROVE Followed(req[r])'
      BY <2>3, <3>1 DEF StartLogout
    <3>2. ASSUME NEW lib \in Libraries, StartRevokeAll(r, lib) PROVE Followed(req[r])'
      BY <2>3, <3>2 DEF StartRevokeAll
    <3>3. ASSUME StartCleanup(r) PROVE Followed(req[r])'
      BY <2>3, <3>3 DEF StartCleanup
    <3>4. ASSUME NEW u \in Users, StartDeleteUser(r, u) PROVE Followed(req[r])'
      BY <2>3, <3>4 DEF StartDeleteUser
    <3> QED BY <1>3, <2>1, <2>4, <3>1, <3>2, <3>3, <3>4
  <2> QED BY <1>4, <2>2, <2>4 DEF Start
<1>5. ASSUME NEW r \in Requests, req' = [req EXCEPT ![r] = Idle] PROVE FollowedInv'
  <2>1. req'[r].op = "none" /\ \A q \in Requests \ {r} : req'[q] = req[q]
    BY <1>0, <1>5 DEF Idle
  <2> QED BY <1>2, <1>3, <2>1
<1>6. ASSUME NEW r \in Requests, Work(r) PROVE FollowedInv'
  <2>1. CASE Claim(r) \/ CheckUser(r) \/ InsertToken(r)
    <3>1. req[r].op \in {"login", "refresh"}
      BY <1>0, <2>1 DEF Claim, CheckUser, InsertToken, Consistent
    <3>2. /\ \A q \in Requests \ {r} : req'[q] = req[q]
          /\ req'[r].op = req[r].op \/ req'[r] = Idle
      BY <1>0, <2>1 DEF Claim, CheckUser, InsertToken, Finish, Transaction
    <3>3. req'[r].op \notin {"logout", "revoke_all"}
      BY <3>1, <3>2 DEF Idle
    <3> QED BY <1>2, <1>3, <3>2, <3>3
  <2>2. CASE \E t \in Tokens : SweepRow(r, t)
    <3>1. PICK t \in Tokens : SweepRow(r, t)
      BY <2>2
    <3>2. /\ req'[r].op = req[r].op /\ req'[r].seen = req[r].seen
          /\ req'[r].todo = req[r].todo \ {t}
          /\ req'[r].locked = IF StillMatches(r, t) THEN req[r].locked \cup {t}
                              ELSE req[r].locked
          /\ \A q \in Requests \ {r} : req'[q] = req[q]
      BY <1>0, <3>1 DEF SweepRow, Transaction
    <3>3. Live(t) => StillMatches(r, t)
      BY DEF StillMatches, Stored, Live
    <3> QED BY <1>1, <1>3, <3>2, <3>3
  <2>3. CASE CommitToken(r) \/ CommitSweep(r)
    BY <1>5, <2>3 DEF CommitToken, CommitSweep, Finish
  <2> QED BY <1>6, <2>1, <2>2, <2>3 DEF Work
<1>7. ASSUME NEW r \in Requests, Rollback(r) \/ AbortDeadlock(r) PROVE FollowedInv'
  BY <1>5, <1>7 DEF Rollback, AbortDeadlock, Finish
<1>8. CASE (\E u \in Users : SetUserActive(u)) \/ Tick \/ UNCHANGED vars
  <2>1. req' = req
    BY <1>8 DEF SetUserActive, Tick, vars
  <2> QED BY <1>1, <2>1 DEF FollowedInv
<1> QED BY <1>4, <1>6, <1>7, <1>8 DEF Next

\* Logout and revoke-sessions end every token that they found; a session that goes on
\* does so in a token that this one was exchanged for.
THEOREM EscapeByExchange == Spec => OnlyExchangeEscapes
<1>1. Init => FollowedInv
  BY DEF Init, FollowedInv, Followed, Idle
<1>2. ASSUME RotationInv, FollowedInv, [Next]_vars, NEW r \in Requests,
             Revokes(r), CommitSweep(r), NEW t \in req[r].seen
      PROVE  /\ ~Live(t)'
             /\ SessionOpen(session[t])' => \E c \in Tokens : parent[c] = t
  <2>1. /\ t \in Tokens /\ status[t] # "free"
        /\ Live(t) => t \in req[r].locked
        /\ Live(t) \/ ~SessionOpen(session[t]) \/ \E c \in Tokens : parent[c] = t
    <3>1. req[r].seen \subseteq Tokens
      BY <1>2 DEF RotationInv, TypeOK, Transaction
    <3> QED BY <1>2, <3>1 DEF FollowedInv, Followed, Revokes, CommitSweep
  <2>2. ~Live(t)'
    BY <1>2, <2>1 DEF CommitSweep, Live
  <2>3. UNCHANGED <<session, parent>>
    BY <1>2 DEF CommitSweep
  <2> QED BY <1>2, <2>1, <2>2, <2>3, TokenEnds
<1>3. RotationInv /\ FollowedInv /\ [Next]_vars =>
        [\A r \in Requests :
           Revokes(r) /\ CommitSweep(r) =>
             \A t \in req[r].seen :
               /\ ~Live(t)'
               /\ SessionOpen(session[t])' => \E c \in Tokens : parent[c] = t]_vars
  BY <1>2
<1> QED BY <1>1, <1>3, Rotation, FollowedStep, PTL DEF Spec, OnlyExchangeEscapes

-----------------------------------------------------------------------------
\* A logout has one row to lock: it does not wait once it holds it.
OneRow(x) ==
  x.op = "logout" => x.todo \cap x.locked = {} /\ x.todo \cup x.locked \subseteq {x.tok}

OneRowInv == \A r \in Requests : OneRow(req[r])

LEMMA OneRowStep ==
  ASSUME RotationInv, OneRowInv, [Next]_vars
  PROVE  OneRowInv'
<1>0. /\ req \in [Requests -> Transaction]
      /\ \A r \in Requests : Consistent(req[r])
  BY DEF RotationInv, TypeOK, RowLocks
<1>1. ASSUME NEW r \in Requests, \A q \in Requests \ {r} : req'[q] = req[q], OneRow(req'[r])
      PROVE  OneRowInv'
  BY <1>1 DEF OneRowInv, OneRow
<1>2. ASSUME NEW r \in Requests, Start(r) PROVE OneRowInv'
  <2>1. \A q \in Requests \ {r} : req'[q] = req[q]
    BY <1>0, <1>2 DEF Start, StartLogin, StartRefresh, StartLogout, StartRevokeAll,
       StartCleanup, StartDeleteUser, BeginSweep
  <2>2. ASSUME NEW op, NEW t, NEW u, NEW lib, NEW rows, BeginSweep(r, op, t, u, lib, rows),
               op = "logout" => rows \subseteq {t}
        PROVE  OneRow(req'[r])
    <3>1. /\ req'[r].op = op /\ req'[r].tok = t /\ req'[r].todo = rows
          /\ req'[r].locked = {}
      BY <1>0, <2>2 DEF BeginSweep, Idle
    <3> QED BY <2>2, <3>1 DEF OneRow
  <2>3. ASSUME NEW u \in Users, NEW n \in Tokens, StartLogin(r, u, n)
        PROVE  OneRow(req'[r])
    BY <1>0, <2>3 DEF StartLogin, Idle, OneRow
  <2>4. ASSUME NEW t \in Tokens, NEW n \in Tokens, StartRefresh(r, t, n)
        PROVE  OneRow(req'[r])
    BY <1>0, <2>4 DEF StartRefresh, Idle, OneRow
  <2>5. ASSUME NEW t \in Tokens, StartLogout(r, t) PROVE OneRow(req'[r])
    BY <2>2, <2>5 DEF StartLogout
  <2>6. ASSUME NEW lib \in Libraries, StartRevokeAll(r, lib) PROVE OneRow(req'[r])
    BY <2>2, <2>6 DEF StartRevokeAll
  <2>7. ASSUME StartCleanup(r) PROVE OneRow(req'[r])
    BY <2>2, <2>7 DEF StartCleanup
  <2>8. ASSUME NEW u \in Users, StartDeleteUser(r, u) PROVE OneRow(req'[r])
    BY <2>2, <2>8 DEF StartDeleteUser
  <2> QED BY <1>1, <1>2, <2>1, <2>3, <2>4, <2>5, <2>6, <2>7, <2>8 DEF Start
<1>3. ASSUME NEW r \in Requests, req' = [req EXCEPT ![r] = Idle] PROVE OneRowInv'
  <2>1. OneRow(req'[r]) /\ \A q \in Requests \ {r} : req'[q] = req[q]
    BY <1>0, <1>3 DEF Idle, OneRow
  <2> QED BY <1>1, <2>1
<1>4. ASSUME NEW r \in Requests, Work(r) PROVE OneRowInv'
  <2>1. CASE Claim(r) \/ CheckUser(r) \/ InsertToken(r)
    <3>1. req[r].op \in {"login", "refresh"}
      BY <1>0, <2>1 DEF Claim, CheckUser, InsertToken, Consistent
    <3>2. /\ \A q \in Requests \ {r} : req'[q] = req[q]
          /\ req'[r].op = req[r].op \/ req'[r] = Idle
      BY <1>0, <2>1 DEF Claim, CheckUser, InsertToken, Finish, Transaction
    <3>3. OneRow(req'[r])
      BY <3>1, <3>2 DEF Idle, OneRow
    <3> QED BY <1>1, <3>2, <3>3
  <2>2. ASSUME NEW t \in Tokens, SweepRow(r, t) PROVE OneRowInv'
    <3>1. /\ req'[r].op = req[r].op /\ req'[r].tok = req[r].tok
          /\ req'[r].todo = req[r].todo \ {t} /\ t \in req[r].todo
          /\ req'[r].locked \in {req[r].locked, req[r].locked \cup {t}}
          /\ \A q \in Requests \ {r} : req'[q] = req[q]
      BY <1>0, <2>2 DEF SweepRow, Transaction
    <3>2. OneRow(req'[r])
      BY <3>1 DEF OneRowInv, OneRow
    <3> QED BY <1>1, <3>1, <3>2
  <2>3. CASE CommitToken(r) \/ CommitSweep(r)
    BY <1>3, <2>3 DEF CommitToken, CommitSweep, Finish
  <2> QED BY <1>4, <2>1, <2>2, <2>3 DEF Work
<1>5. ASSUME NEW r \in Requests, Rollback(r) \/ AbortDeadlock(r) PROVE OneRowInv'
  BY <1>3, <1>5 DEF Rollback, AbortDeadlock, Finish
<1>6. CASE (\E u \in Users : SetUserActive(u)) \/ Tick \/ UNCHANGED vars
  <2>1. req' = req
    BY <1>6 DEF SetUserActive, Tick, vars
  <2> QED BY <2>1 DEF OneRowInv, OneRow
<1> QED BY <1>2, <1>4, <1>5, <1>6 DEF Next

\* In a circle of waits without a deletion, whoever is waited for is a statement over
\* many rows: it has locked some and waits for others.
LEMMA WaitedForIsBulk ==
  ASSUME RotationInv, OneRowInv, NEW S \in SUBSET Requests, Circle(S),
         \A s \in S : req[s].op # "delete_user",
         NEW p \in S, NEW q \in S, WaitsFor(p, q)
  PROVE  Bulk(req[q])
<1>1. \A a, b \in S : WaitsFor(a, b) => req[b].locked # {} /\ req[a].pc # "checked"
  BY DEF WaitsFor, DeletesUser
<1>2. PICK s \in S : WaitsFor(q, s)
  BY DEF Circle
<1>3. Consistent(req[q]) /\ OneRow(req[q]) /\ req[q].locked # {} /\ req[q].pc # "checked"
  BY <1>1, <1>2 DEF RotationInv, RowLocks, OneRowInv
<1>4. req[q].pc = "sweep" /\ req[q].todo # {}
  <2>1. req[q].pc # "found"
    BY <1>3 DEF Consistent
  <2> QED BY <1>2, <1>3, <2>1 DEF WaitsFor
<1>5. req[q].op # "logout"
  BY <1>3, <1>4 DEF OneRow
<1> QED BY <1>3, <1>4, <1>5 DEF Bulk, Consistent

\* Login, refresh and logout never deadlock, alone or with one statement over many
\* rows, however many requests are open.
THEOREM DeadlocksAreBulk == Spec => []DeadlocksNeedBulk
<1>1. Init => OneRowInv
  BY DEF Init, OneRowInv, OneRow, Idle
<1>2. RotationInv /\ OneRowInv => DeadlocksNeedBulk
  <2> SUFFICES ASSUME RotationInv, OneRowInv, NEW S \in SUBSET Requests, S # {}, Circle(S),
                      \A s \in S : req[s].op # "delete_user"
               PROVE  \E p, q \in S : p # q /\ Bulk(req[p]) /\ Bulk(req[q])
    BY DEF DeadlocksNeedBulk
  <2>1. PICK p \in S, q \in S, s \in S : WaitsFor(p, q) /\ WaitsFor(q, s)
    BY DEF Circle
  <2>2. Bulk(req[q]) /\ Bulk(req[s])
    BY <2>1, WaitedForIsBulk
  <2> QED BY <2>1, <2>2 DEF WaitsFor
<1>3. RotationInv /\ OneRowInv /\ [Next]_vars => OneRowInv'
  BY OneRowStep
<1> QED BY <1>1, <1>2, <1>3, Rotation, PTL DEF Spec

-----------------------------------------------------------------------------
\* The holder of a session is its one live token.
HolderFact ==
  /\ \A t \in Tokens : Live(t) => Holder[session[t]] = t
  /\ \A s \in Tokens : (\A t \in Tokens : Live(t) => session[t] # s) => Holder[s] = None

LEMMA HolderIsLive == OneLiveToken /\ session \in [Tokens -> Tokens] => HolderFact
<1> SUFFICES ASSUME OneLiveToken, session \in [Tokens -> Tokens] PROVE HolderFact
  OBVIOUS
<1>1. ASSUME NEW t \in Tokens, Live(t) PROVE Holder[session[t]] = t
  <2> DEFINE P(x) == Live(x) /\ session[x] = session[t]
  <2>1. /\ session[t] \in Tokens /\ SessionOpen(session[t])
    BY <1>1 DEF SessionOpen
  <2>2. \A x \in Tokens : P(x) => x = t
    BY <1>1 DEF OneLiveToken
  <2>3. (CHOOSE x \in Tokens : P(x)) = t
    BY <1>1, <2>2
  <2> QED BY <2>1, <2>3 DEF Holder
<1>2. ASSUME NEW s \in Tokens, \A t \in Tokens : Live(t) => session[t] # s
      PROVE Holder[s] = None
  BY <1>2 DEF Holder, SessionOpen
<1> QED BY <1>1, <1>2 DEF HolderFact

LEMMA HolderIsLiveNext == (OneLiveToken /\ session \in [Tokens -> Tokens])' => HolderFact'
BY HolderIsLive, PTL

\* A commit of login or refresh opens a session or exchanges its token.
LEMMA CommitTokenChain ==
  ASSUME RotationInv, RotationInv', NEW r \in Requests, CommitToken(r)
  PROVE  Chain!Next
<1> DEFINE p == req[r].tok
           issued == {t \in Tokens : status[t] # "free"}
<1> USE DEF RotationInv
<1>0. Consistent(req[r]) /\ req[r].pc = "inserted"
  BY DEF RowLocks, CommitToken
<1>1. PICK n \in Tokens : n = req[r].new /\ status[n] = "free"
  BY <1>0 DEF Consistent
<1>2. \/ p = None /\ req[r].locked = {}
      \/ p \in Tokens /\ req[r].locked = {p} /\ status[p] = "live" /\ p # None /\ p # n
  BY <1>0, <1>1 DEF Consistent
<1>3. /\ status' = [t \in Tokens |-> IF t = n THEN "live"
                       ELSE IF t \in req[r].locked THEN "revoked" ELSE status[t]]
      /\ session' = [session EXCEPT ![n] = IF p = None THEN n ELSE session[p]]
  BY <1>1 DEF CommitToken
<1> HIDE DEF p
<1>4. /\ status'[n] = "live"
      /\ session'[n] = IF p = None THEN n ELSE session[p]
      /\ \A t \in Tokens \ {n} :
           /\ session'[t] = session[t]
           /\ status'[t] = IF p # None /\ t = p THEN "revoked" ELSE status[t]
  BY <1>1, <1>2, <1>3 DEF TypeOK
<1>5. issued' = issued \cup {n} /\ n \notin issued
  BY <1>1, <1>2, <1>4
<1>6. session \in [Tokens -> Tokens] /\ session' \in [Tokens -> Tokens]
  BY DEF TypeOK
<1>7. DOMAIN Holder = Tokens /\ DOMAIN Holder' = Tokens
  BY DEF Holder
<1>s. PICK s \in Tokens : s = session'[n]
  BY <1>1, <1>6
<1>8. Holder'[s] = n
  BY <1>1, <1>4, <1>6, <1>s, HolderIsLiveNext DEF HolderFact, Live
<1>9. ASSUME NEW z \in Tokens, z # s PROVE Holder'[z] = Holder[z]
  <2>1. \A t \in Tokens : Live(t)' /\ session'[t] = z <=> Live(t) /\ session[t] = z
    BY <1>1, <1>2, <1>4, <1>9, <1>s DEF Live
  <2>2. CASE \E t \in Tokens : Live(t) /\ session[t] = z
    BY <1>6, <2>1, <2>2, HolderIsLive, HolderIsLiveNext DEF HolderFact
  <2>3. CASE ~ \E t \in Tokens : Live(t) /\ session[t] = z
    BY <1>6, <2>1, <2>3, HolderIsLive, HolderIsLiveNext DEF HolderFact
  <2> QED BY <2>2, <2>3
<1>10. Holder' = [Holder EXCEPT ![s] = n]
  <2>1. Holder' = [z \in Tokens |-> Holder'[z]] /\ Holder = [z \in Tokens |-> Holder[z]]
    BY DEF Holder
  <2> QED BY <1>7, <1>8, <1>9, <2>1
<1>11. CASE p = None
  <2>1. s = n
    BY <1>4, <1>11, <1>s
  <2>2. Chain!Open(n)
    BY <1>5, <1>10, <2>1 DEF Chain!Open
  <2> QED BY <2>2 DEF Chain!Next
<1>12. CASE p # None
  <2>1. Holder[s] = p
    BY <1>2, <1>4, <1>6, <1>12, <1>s, HolderIsLive DEF HolderFact, Live
  <2>2. Chain!Exchange(s, n)
    BY <1>2, <1>5, <1>10, <1>12, <2>1 DEF Chain!Exchange
  <2> QED BY <2>2 DEF Chain!Next
<1> QED BY <1>11, <1>12

\* A commit of a bulk statement closes the sessions of the rows it wrote.
LEMMA CommitSweepChain ==
  ASSUME RotationInv, RotationInv', NEW r \in Requests, CommitSweep(r)
  PROVE  Chain!Next
<1> DEFINE S == {session[t] : t \in {y \in req[r].locked : Live(y)}}
<1> USE DEF RotationInv
<1>1. Consistent(req[r]) /\ req[r].locked \in SUBSET Tokens
  BY DEF RowLocks, TypeOK, Transaction
<1>2. /\ \A t \in Tokens :
           status'[t] = IF t \in req[r].locked
                        THEN IF Revokes(r) THEN "revoked" ELSE "deleted"
                        ELSE status[t]
      /\ session' = session
  BY DEF CommitSweep
<1>3. session \in [Tokens -> Tokens]
  BY DEF TypeOK
<1>4. S \in SUBSET Tokens
  BY <1>1, <1>3
<1>5. {t \in Tokens : status'[t] # "free"} = {t \in Tokens : status[t] # "free"}
  BY <1>1, <1>2 DEF Consistent, Stored
<1>6. ASSUME NEW z \in Tokens PROVE Holder'[z] = IF z \in S THEN None ELSE Holder[z]
  <2>1. \A t \in Tokens : Live(t)' <=> Live(t) /\ t \notin req[r].locked
    BY <1>2 DEF Live
  <2>2. CASE z \in S
    <3>1. \A t \in Tokens : Live(t)' => session'[t] # z
      BY <1>1, <1>2, <2>1, <2>2 DEF OneLiveToken
    <3> QED BY <1>2, <1>3, <2>2, <3>1, HolderIsLiveNext DEF HolderFact
  <2>3. CASE z \notin S
    <3>1. \A t \in Tokens : Live(t)' /\ session'[t] = z <=> Live(t) /\ session[t] = z
      BY <1>2, <2>1, <2>3
    <3>2. CASE \E t \in Tokens : Live(t) /\ session[t] = z
      BY <1>2, <1>3, <2>3, <3>1, <3>2, HolderIsLive, HolderIsLiveNext DEF HolderFact
    <3>3. CASE ~ \E t \in Tokens : Live(t) /\ session[t] = z
      BY <1>2, <1>3, <2>3, <3>1, <3>3, HolderIsLive, HolderIsLiveNext DEF HolderFact
    <3> QED BY <3>2, <3>3
  <2> QED BY <2>2, <2>3
<1>7. Holder' = [z \in Tokens |-> IF z \in S THEN None ELSE Holder[z]]
  <2>1. Holder' = [z \in Tokens |-> Holder'[z]]
    BY DEF Holder
  <2> HIDE DEF S
  <2> QED BY <1>6, <2>1
<1>8. Chain!Close(S)
  BY <1>5, <1>7 DEF Chain!Close
<1> QED BY <1>4, <1>8 DEF Chain!Next

\* Rotation implements the abstract chain: logins open sessions, refreshes move
\* them to fresh tokens, everything else closes them or is invisible, and a
\* closed session never opens again.
THEOREM RotationImplementsChain == Spec => ChainSpec
<1>1. Init => Chain!Init
  BY DEF Init, Chain!Init, Holder, SessionOpen, Live
<1>2. RotationInv /\ RotationInv' /\ [Next]_vars => [Chain!Next]_(Chain!chainVars)
  <2> SUFFICES ASSUME RotationInv, RotationInv', [Next]_vars
               PROVE  Chain!Next \/ UNCHANGED Chain!chainVars
    OBVIOUS
  <2>1. ASSUME UNCHANGED tokenVars PROVE UNCHANGED Chain!chainVars
    BY <2>1 DEF tokenVars, Chain!chainVars, Holder, SessionOpen, Live
  <2>2. ASSUME NEW r \in Requests, CommitToken(r) PROVE Chain!Next
    BY <2>2, CommitTokenChain
  <2>3. ASSUME NEW r \in Requests, CommitSweep(r) PROVE Chain!Next
    BY <2>3, CommitSweepChain
  <2>4. ASSUME NEW r \in Requests, Start(r) PROVE UNCHANGED tokenVars
    BY <2>4 DEF Start, StartLogin, StartRefresh, StartLogout, StartRevokeAll, StartCleanup,
                StartDeleteUser, BeginSweep
  <2>5. ASSUME NEW r \in Requests,
               \/ Claim(r) \/ CheckUser(r) \/ InsertToken(r) \/ Rollback(r) \/ AbortDeadlock(r)
               \/ \E t \in Tokens : SweepRow(r, t)
        PROVE UNCHANGED tokenVars
    BY <2>5 DEF Claim, CheckUser, InsertToken, Rollback, AbortDeadlock, SweepRow
  <2>6. ASSUME \/ \E u \in Users : SetUserActive(u)
               \/ Tick
               \/ UNCHANGED vars
        PROVE UNCHANGED tokenVars
    BY <2>6 DEF SetUserActive, Tick, vars, tokenVars
  <2> QED BY <2>1, <2>2, <2>3, <2>4, <2>5, <2>6 DEF Next, Work
<1> QED BY <1>1, <1>2, Rotation, PTL DEF Spec, ChainSpec, Chain!Spec
=============================================================================
