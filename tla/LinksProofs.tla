---------------------------- MODULE LinksProofs ----------------------------
(* Theorems of Links, for every number of accounts, links, addresses and   *)
(* open requests.                                                          *)
EXTENDS Links, TLAPS

USE LinksAssumption DEF LinksAssumption

\* The fields of an open transaction.
LEMMA Fields ==
  ASSUME NEW x \in Transaction
  PROVE  /\ x.op \in AllOps \cup {"none"} /\ x.pc \in Steps /\ x.user \in Users \cup {None}
         /\ x.tok \in Tokens \cup {None} /\ x.new \in Tokens \cup {None}
         /\ x.email \in Emails \cup {None} /\ x.ent \in Account
         /\ x.inserts \in BOOLEAN /\ x.diff \in SUBSET Columns
         /\ x.todo \in SUBSET Tokens /\ x.locked \in SUBSET Tokens
BY DEF Transaction

LEMMA GoneAccount == Gone \in Account /\ Gone.status = "deleted"
BY DEF Gone, Account

\* The empty slot, and what the steps make of an open transaction, are
\* transactions.
LEMMA IdleTransaction == Idle \in Transaction
BY GoneAccount DEF Idle, Transaction, Steps

LEMMA MoveTransaction ==
  ASSUME NEW x \in Transaction, NEW p \in Steps
  PROVE  /\ [x EXCEPT !.pc = p] \in Transaction
         /\ \A S \in SUBSET Tokens : [x EXCEPT !.pc = p, !.todo = S] \in Transaction
         /\ \A L \in SUBSET Tokens : [x EXCEPT !.pc = p, !.locked = L] \in Transaction
         /\ \A i \in BOOLEAN, D \in SUBSET Columns :
              [x EXCEPT !.pc = p, !.inserts = i, !.diff = D] \in Transaction
BY DEF Transaction

LEMMA LockTransaction ==
  ASSUME NEW x \in Transaction, NEW S \in SUBSET Tokens, NEW L \in SUBSET Tokens
  PROVE  [x EXCEPT !.todo = S, !.locked = L] \in Transaction
BY DEF Transaction

\* Address clashes are symmetric; what a flush writes is an account.
LEMMA ClashSymmetric ==
  ASSUME NEW m, NEW n PROVE Clash(m, n) <=> Clash(n, m)
BY DEF Clash

LEMMA WrittenAccount ==
  ASSUME TypeOK, NEW x \in Transaction, x.user \in Users
  PROVE  Written(x) \in Account
<1>1. x.ent \in Account /\ account[x.user] \in Account
  BY Fields DEF TypeOK
<1> QED BY <1>1 DEF Written, Account

\* A step that replaces one slot and commits nothing keeps the invariant when
\* the new transaction fits the rows and the other transactions.
LEMMA SlotStep ==
  ASSUME LinksInv, NEW r \in Requests, NEW x \in Transaction,
         req' = [req EXCEPT ![r] = x], account' = account, link' = link, uses' = uses,
         Consistent(x),
         x.pc = "flushed" => ~Taken(x),
         \A q \in Requests \ {r} : Compatible(x, req[q]) /\ Harmless(x, req[q])
  PROVE  LinksInv'
<1>1. TypeOK'
  BY DEF LinksInv, TypeOK
<1>2. \A q \in Requests : req'[q] = IF q = r THEN x ELSE req[q]
  BY DEF LinksInv, TypeOK
<1>3. \A q \in Requests : Consistent(req[q])'
  <2> SUFFICES ASSUME NEW q \in Requests PROVE Consistent(req[q])'
    OBVIOUS
  <2>1. Consistent(req'[q])
    BY <1>2 DEF LinksInv
  <2> QED BY <2>1 DEF Consistent, Stored
<1>4. ASSUME NEW p \in Requests, NEW q \in Requests, p # q
      PROVE  (Compatible(req[p], req[q]) /\ Harmless(req[p], req[q]))'
  <2>1. Compatible(req'[p], req'[q])
    BY <1>2, <1>4 DEF LinksInv, Compatible
  <2>2. Harmless(req'[p], req'[q])
    BY <1>2, <1>4, ClashSymmetric DEF LinksInv, Harmless
  <2> QED BY <2>1, <2>2 DEF Compatible, Harmless, Holds, Clash, Written
<1>5. \A q \in Requests : (req[q].pc = "flushed" => ~Taken(req[q]))'
  <2> SUFFICES ASSUME NEW q \in Requests, req'[q].pc = "flushed"
               PROVE  ~Taken(req[q])'
    OBVIOUS
  <2>1. ~Taken(req'[q])
    BY <1>2 DEF LinksInv
  <2> QED BY <2>1 DEF Taken, Clash, Written
<1>6. ActiveEmailUnique' /\ Spent' /\ Addressed'
  BY DEF LinksInv, ActiveEmailUnique, Addressed, Spent, Clash
<1> QED BY <1>1, <1>3, <1>4, <1>5, <1>6 DEF LinksInv

\* The initial state satisfies the inductive invariant.
LEMMA InitLinks == Init => LinksInv
<1> SUFFICES ASSUME Init PROVE LinksInv
  OBVIOUS
<1>1. TypeOK
  <2>1. Unissued \in Link
    BY DEF Unissued, Link
  <2>2. account \in [Users -> Account]
    BY DEF Init, Account
  <2> QED BY <2>1, <2>2, IdleTransaction DEF Init, TypeOK
<1>2. \A r \in Requests : Consistent(req[r]) /\ req[r].pc = "idle"
  BY DEF Init, Consistent, Idle, Issuing, Applying
<1>3. \A r, q \in Requests : Compatible(req[r], req[q]) /\ Harmless(req[r], req[q])
  BY DEF Init, Compatible, Harmless, Idle, Holds
<1>4. ActiveEmailUnique
  BY DEF Init, ActiveEmailUnique, Clash
<1>5. Spent /\ Addressed
  BY DEF Init, Spent, Addressed, Unissued
<1> QED BY <1>1, <1>2, <1>3, <1>4, <1>5 DEF LinksInv

\* A request that ends gives its locks back.
LEMMA FinishStep ==
  ASSUME LinksInv, NEW r \in Requests, Finish(r),
         account' = account, link' = link, uses' = uses
  PROVE  LinksInv'
<1>1. Consistent(Idle) /\ Idle.pc = "idle"
  BY DEF Consistent, Idle, Issuing, Applying
<1>2. \A y : Compatible(Idle, y) /\ Harmless(Idle, y)
  BY DEF Compatible, Harmless, Idle, Holds
<1> QED BY <1>1, <1>2, IdleTransaction, SlotStep DEF Finish

\* A request that starts has written nothing and draws a new link.
LEMMA OpenStep ==
  ASSUME LinksInv, NEW r \in Requests, NEW x \in Transaction, Open(r, x),
         x.pc \notin {"idle", "flushed"}, x.locked = {}, Consistent(x),
         x.new # None => Unused(x.new),
         x.op = "delete" => \A q \in Requests : ~Holds(req[q], x.user)
  PROVE  LinksInv'
<1>1. /\ req' = [req EXCEPT ![r] = x] /\ account' = account /\ link' = link
      /\ uses' = uses
  BY DEF Open
<1>2. ASSUME NEW q \in Requests \ {r}
      PROVE  Compatible(x, req[q]) /\ Harmless(x, req[q])
  BY <1>2 DEF Compatible, Harmless, Holds, Unused
<1> QED BY <1>1, <1>2, SlotStep

LEMMA StartLinkStep ==
  ASSUME LinksInv, NEW r \in Requests, NEW u \in Users, NEW n \in Tokens,
         \/ StartRequestReset(r, u, n)
         \/ StartResendInvite(r, u, n)
         \/ \E e \in Emails : StartRequestEmail(r, u, e, n)
  PROVE  LinksInv'
<1>1. CASE StartRequestReset(r, u, n)
  <2> DEFINE x == [Idle EXCEPT !.op = "request_reset", !.pc = "insert", !.user = u,
                               !.new = n]
  <2>1. x \in Transaction
    BY IdleTransaction DEF Transaction, Steps, AllOps
  <2>2. /\ x.op = "request_reset" /\ x.pc = "insert" /\ x.user = u /\ x.new = n
        /\ x.locked = {}
    BY DEF Idle
  <2>3. Open(r, x) /\ Unused(n)
    BY <1>1 DEF StartRequestReset
  <2>4. Consistent(x)
    BY <2>2, <2>3 DEF Consistent, Issuing, Applying, Unused
  <2> HIDE DEF x
  <2> QED BY <2>1, <2>2, <2>3, <2>4, OpenStep
<1>2. CASE StartResendInvite(r, u, n)
  <2> DEFINE x == [Idle EXCEPT !.op = "resend_invite", !.pc = "invalidate", !.user = u,
                               !.new = n]
  <2>1. x \in Transaction
    BY IdleTransaction DEF Transaction, Steps, AllOps
  <2>2. /\ x.op = "resend_invite" /\ x.pc = "invalidate" /\ x.user = u /\ x.new = n
        /\ x.locked = {}
    BY DEF Idle
  <2>3. Open(r, x) /\ Unused(n)
    BY <1>2 DEF StartResendInvite
  <2>4. Consistent(x)
    BY <2>2, <2>3 DEF Consistent, Issuing, Applying, Unused
  <2> HIDE DEF x
  <2> QED BY <2>1, <2>2, <2>3, <2>4, OpenStep
<1>3. CASE \E e \in Emails : StartRequestEmail(r, u, e, n)
  <2>0. PICK e \in Emails : StartRequestEmail(r, u, e, n)
    BY <1>3
  <2> DEFINE x == [Idle EXCEPT !.op = "request_email", !.pc = "invalidate", !.user = u,
                               !.new = n, !.email = e]
  <2>1. x \in Transaction
    BY IdleTransaction DEF Transaction, Steps, AllOps
  <2>2. /\ x.op = "request_email" /\ x.pc = "invalidate" /\ x.user = u /\ x.new = n
        /\ x.email = e /\ x.locked = {}
    BY DEF Idle
  <2>3. Open(r, x) /\ Unused(n)
    BY <2>0 DEF StartRequestEmail
  <2>4. Consistent(x)
    BY <2>2, <2>3 DEF Consistent, Issuing, Applying, Unused
  <2> HIDE DEF x
  <2> QED BY <2>1, <2>2, <2>3, <2>4, OpenStep
<1> QED BY <1>1, <1>2, <1>3

\* A link that can be opened belongs to an account; its address is known.
LEMMA StartApplyStep ==
  ASSUME LinksInv, NEW r \in Requests, NEW t \in Tokens,
         StartReset(r, t) \/ StartConfirm(r, t)
  PROVE  LinksInv'
<1>0. link[t].state = "pending" =>
        link[t].user \in Users /\ (link[t].purpose = "email" => link[t].email \in Emails)
  BY DEF LinksInv, Addressed
<1>1. CASE StartReset(r, t)
  <2> DEFINE u == link[t].user
             e == [account[u] EXCEPT !.password = t]
             x == [Idle EXCEPT !.op = "reset", !.pc = "claim", !.user = u, !.tok = t,
                               !.ent = e]
  <2>1. u \in Users /\ Open(r, x)
    BY <1>0, <1>1 DEF StartReset, Usable
  <2>2. e \in Account
    BY <2>1 DEF LinksInv, TypeOK, Account
  <2>3. x \in Transaction
    BY <2>1, <2>2, IdleTransaction DEF Transaction, Steps, AllOps
  <2>4. /\ x.op = "reset" /\ x.pc = "claim" /\ x.user = u /\ x.tok = t /\ x.new = None
        /\ x.locked = {}
    BY DEF Idle
  <2>5. Consistent(x)
    BY <2>1, <2>4 DEF Consistent, Issuing, Applying
  <2> HIDE DEF x
  <2> QED BY <2>1, <2>3, <2>4, <2>5, OpenStep
<1>2. CASE StartConfirm(r, t)
  <2> DEFINE u == link[t].user
             e == [account[u] EXCEPT !.email = link[t].email]
             x == [Idle EXCEPT !.op = "confirm", !.pc = "claim", !.user = u, !.tok = t,
                               !.ent = e]
  <2>1. u \in Users /\ link[t].email \in Emails /\ Open(r, x)
    BY <1>0, <1>2 DEF StartConfirm, Usable
  <2>2. e \in Account
    BY <2>1 DEF LinksInv, TypeOK, Account
  <2>3. x \in Transaction
    BY <2>1, <2>2, IdleTransaction DEF Transaction, Steps, AllOps
  <2>4. /\ x.op = "confirm" /\ x.pc = "claim" /\ x.user = u /\ x.tok = t /\ x.new = None
        /\ x.locked = {}
    BY DEF Idle
  <2>5. Consistent(x)
    BY <2>1, <2>4 DEF Consistent, Issuing, Applying
  <2> HIDE DEF x
  <2> QED BY <2>1, <2>3, <2>4, <2>5, OpenStep
<1> QED BY <1>1, <1>2

\* A copy to edit, a statement over many links, a deletion that has the account
\* to itself.
LEMMA StartOtherStep ==
  ASSUME LinksInv, NEW r \in Requests,
         \/ \E u \in Users : \/ \E s \in {"active", "inactive"} : StartEdit(r, u, s)
                             \/ StartDelete(r, u)
         \/ StartCleanup(r)
  PROVE  LinksInv'
<1>1. ASSUME NEW u \in Users, NEW s \in {"active", "inactive"}, StartEdit(r, u, s)
      PROVE  LinksInv'
  <2> DEFINE e == [account[u] EXCEPT !.status = s]
             x == [Idle EXCEPT !.op = "edit", !.pc = "save", !.user = u, !.ent = e]
  <2>1. e \in Account
    BY DEF LinksInv, TypeOK, Account
  <2>2. x \in Transaction
    BY <2>1, IdleTransaction DEF Transaction, Steps, AllOps
  <2>3. /\ x.op = "edit" /\ x.pc = "save" /\ x.user = u /\ x.new = None
        /\ x.locked = {}
    BY DEF Idle
  <2>4. Open(r, x) /\ Consistent(x)
    BY <1>1, <2>3 DEF StartEdit, Consistent, Issuing, Applying
  <2> HIDE DEF x
  <2> QED BY <2>2, <2>3, <2>4, OpenStep
<1>2. ASSUME NEW u \in Users, StartDelete(r, u) PROVE LinksInv'
  <2> DEFINE S == {t \in Tokens : Stored(t) /\ link[t].user = u}
             x == [Idle EXCEPT !.op = "delete", !.pc = "sweep", !.user = u, !.todo = S]
  <2>1. x \in Transaction
    BY IdleTransaction DEF Transaction, Steps, AllOps
  <2>2. /\ x.op = "delete" /\ x.pc = "sweep" /\ x.user = u /\ x.new = None
        /\ x.locked = {}
    BY DEF Idle
  <2>3. Open(r, x) /\ Consistent(x) /\ \A q \in Requests : ~Holds(req[q], u)
    BY <1>2, <2>2 DEF StartDelete, Consistent, Issuing, Applying, Purging
  <2> HIDE DEF x
  <2> QED BY <2>1, <2>2, <2>3, OpenStep
<1>3. CASE StartCleanup(r)
  <2> DEFINE S == {t \in Tokens : /\ Stored(t)
                                  /\ link[t].purpose # "email"
                                  /\ link[t].expired \/ link[t].state = "used"}
             x == [Idle EXCEPT !.op = "cleanup", !.pc = "sweep", !.todo = S]
  <2>1. x \in Transaction
    BY IdleTransaction DEF Transaction, Steps, AllOps
  <2>2. x.op = "cleanup" /\ x.pc = "sweep" /\ x.new = None /\ x.locked = {}
    BY DEF Idle
  <2>3. Open(r, x) /\ Consistent(x)
    BY <1>3, <2>2 DEF StartCleanup, Consistent, Issuing, Applying, Purging
  <2> HIDE DEF x
  <2> QED BY <2>1, <2>2, <2>3, OpenStep
<1> QED BY <1>1, <1>2, <1>3

\* What the invariant says of the transaction that takes a step.
LEMMA Own ==
  ASSUME LinksInv, NEW r \in Requests
  PROVE  /\ req[r] \in Transaction /\ req \in [Requests -> Transaction]
         /\ Consistent(req[r])
         /\ req[r].pc = "flushed" => ~Taken(req[r])
         /\ \A q \in Requests \ {r} :
              Compatible(req[r], req[q]) /\ Harmless(req[r], req[q])
BY DEF LinksInv, TypeOK

\* Selecting the links to replace, and locking them one by one, keeps every link
\* with one writer; a statement of a bulk operation waits for each row.
LEMMA SweepStep ==
  ASSUME LinksInv, NEW r \in Requests,
         Invalidate(r) \/ \E t \in Tokens : SweepRow(r, t)
  PROVE  LinksInv'
<1>1. CASE Invalidate(r)
  <2> DEFINE S == {t \in Tokens : /\ link[t].state = "pending"
                                  /\ link[t].user = req[r].user
                                  /\ link[t].purpose = Purpose(req[r].op)}
             x == [req[r] EXCEPT !.pc = "sweep", !.todo = S]
  <2>1. x \in Transaction
    BY Own, MoveTransaction DEF Steps
  <2>2. /\ req' = [req EXCEPT ![r] = x] /\ account' = account /\ link' = link
        /\ uses' = uses
    BY <1>1, Own DEF Invalidate
  <2>3. /\ x.pc = "sweep" /\ x.op = req[r].op /\ x.user = req[r].user
        /\ x.new = req[r].new /\ x.locked = req[r].locked /\ x.email = req[r].email
    BY Own DEF Transaction
  <2>4. req[r].pc = "invalidate" /\ req[r].op \in Issuing
    BY <1>1, Own DEF Invalidate, Consistent
  <2>5. Consistent(x)
    BY <2>3, <2>4, Own DEF Consistent, Issuing, Applying
  <2>6. \A q \in Requests \ {r} : Compatible(x, req[q]) /\ Harmless(x, req[q])
    BY <2>3, <2>4, Own DEF Compatible, Harmless, Holds
  <2> HIDE DEF x
  <2> QED BY <2>1, <2>2, <2>3, <2>5, <2>6, SlotStep
<1>2. ASSUME NEW t \in Tokens, SweepRow(r, t) PROVE LinksInv'
  <2> DEFINE L == IF StillMatches(req[r], t) THEN req[r].locked \cup {t}
                                             ELSE req[r].locked
             S == req[r].todo \ {t}
             x == [req[r] EXCEPT !.todo = S, !.locked = L]
  <2>1. x \in Transaction
    <3>1. S \in SUBSET Tokens /\ L \in SUBSET Tokens
      BY Own, Fields
    <3> QED BY <3>1, Own, LockTransaction
  <2>2. /\ req' = [req EXCEPT ![r] = x] /\ account' = account /\ link' = link
        /\ uses' = uses
    BY <1>2, Own DEF SweepRow
  <2>3. /\ x.pc = "sweep" /\ x.op = req[r].op /\ x.user = req[r].user
        /\ x.new = req[r].new /\ x.locked = L /\ x.email = req[r].email
        /\ req[r].pc = "sweep"
    BY <1>2, Own DEF Transaction, SweepRow
  <2>4. req[r].op \notin Applying \cup {"edit"}
    BY <1>2, Own DEF SweepRow, Consistent, Issuing, Applying, Purging
  <2>5. Consistent(x)
    <3>1. \A s \in req[r].locked :
            Stored(s) /\ (req[r].op \notin Purging => link[s].state = "pending")
      BY Own DEF Consistent
    <3>2. \A s \in L :
            Stored(s) /\ (req[r].op \notin Purging => link[s].state = "pending")
      BY <3>1 DEF StillMatches, Stored
    <3>3. /\ req[r].op \notin Issuing => req[r].new = None
          /\ req[r].op \in Issuing => req[r].new \in Tokens /\ link[req[r].new].state = "free"
          /\ req[r].op \in Issuing \cup Purging
          /\ req[r].op \notin {"none", "cleanup"} => req[r].user \in Users
          /\ req[r].op = "request_email" => req[r].email \in Emails
      BY <2>3, Own DEF Consistent
    <3> HIDE DEF x, L
    <3> QED BY <2>3, <2>4, <3>2, <3>3 DEF Consistent
  <2>6. \A q \in Requests \ {r} : Compatible(x, req[q]) /\ Harmless(x, req[q])
    BY <1>2, <2>3, Own DEF Compatible, Harmless, Holds, SweepRow, LockedByOther
  <2> HIDE DEF x
  <2> QED BY <2>1, <2>2, <2>3, <2>5, <2>6, SlotStep
<1> QED BY <1>1, <1>2

\* A row that is inserted only waits for its commit.
LEMMA InsertStep ==
  ASSUME LinksInv, NEW r \in Requests, InsertLink(r)
  PROVE  LinksInv'
<1>1. CASE ~Exists(req[r].user)
  BY <1>1, FinishStep DEF InsertLink
<1>2. CASE Exists(req[r].user)
  <2> DEFINE x == [req[r] EXCEPT !.pc = "inserted"]
  <2>1. x \in Transaction
    BY Own, MoveTransaction DEF Steps
  <2>2. /\ req' = [req EXCEPT ![r] = x] /\ account' = account /\ link' = link
        /\ uses' = uses
    BY <1>2, Own DEF InsertLink
  <2>3. /\ x.pc = "inserted" /\ x.op = req[r].op /\ x.user = req[r].user
        /\ x.new = req[r].new /\ x.locked = req[r].locked /\ x.email = req[r].email
    BY Own DEF Transaction
  <2>4. req[r].op \in Issuing
    BY <1>2, Own DEF InsertLink, InsertsNext, Consistent
  <2>5. Consistent(x)
    BY <2>3, <2>4, Own DEF Consistent, Issuing, Applying
  <2>6. \A q \in Requests \ {r} : Compatible(x, req[q]) /\ Harmless(x, req[q])
    BY <2>3, <2>4, Own DEF Compatible, Harmless, Holds, Issuing
  <2> HIDE DEF x
  <2> QED BY <2>1, <2>2, <2>3, <2>5, <2>6, SlotStep
<1> QED BY <1>1, <1>2

\* The claim finds the link pending and keeps it so.
LEMMA ClaimStep ==
  ASSUME LinksInv, NEW r \in Requests, Claim(r)
  PROVE  LinksInv'
<1>1. CASE ~Claimable(req[r].tok)
  BY <1>1, FinishStep DEF Claim
<1>2. CASE Claimable(req[r].tok)
  <2> DEFINE x == [req[r] EXCEPT !.pc = "save", !.locked = {req[r].tok}]
  <2>1. req[r].op \in Applying /\ req[r].tok \in Tokens /\ req[r].pc = "claim"
    BY Own DEF Claim, Consistent
  <2>2. x \in Transaction
    <3>1. {req[r].tok} \in SUBSET Tokens /\ "save" \in Steps
      BY <2>1 DEF Steps
    <3> QED BY <3>1, Own, MoveTransaction
  <2>3. /\ req' = [req EXCEPT ![r] = x] /\ account' = account /\ link' = link
        /\ uses' = uses
    BY <1>2, Own DEF Claim
  <2>4. /\ x.pc = "save" /\ x.op = req[r].op /\ x.user = req[r].user
        /\ x.new = req[r].new /\ x.locked = {req[r].tok} /\ x.tok = req[r].tok
    BY Own DEF Transaction
  <2>5. Consistent(x)
    BY <1>2, <2>1, <2>4, Own DEF Consistent, Claimable, Stored, Issuing, Applying
  <2>6. \A q \in Requests \ {r} : Compatible(x, req[q]) /\ Harmless(x, req[q])
    BY <2>1, <2>4, Own DEF Compatible, Harmless, Holds, Claim, LockedByOther, Applying
  <2> HIDE DEF x
  <2> QED BY <2>2, <2>3, <2>4, <2>5, <2>6, SlotStep
<1> QED BY <1>1, <1>2

\* Reading the account again changes nothing; a flush that succeeds clashes
\* neither with what is committed nor with what others have flushed.
LEMMA SaveStep ==
  ASSUME LinksInv, NEW r \in Requests, Merge(r) \/ Flush(r)
  PROVE  LinksInv'
<1>1. CASE Merge(r)
  <2> DEFINE i == ~Exists(req[r].user)
             D == {c \in Columns : ~Exists(req[r].user)
                                   \/ req[r].ent[c] # account[req[r].user][c]}
             x == [req[r] EXCEPT !.pc = "merged", !.inserts = i, !.diff = D]
  <2>1. x \in Transaction
    BY Own, MoveTransaction DEF Steps
  <2>2. /\ req' = [req EXCEPT ![r] = x] /\ account' = account /\ link' = link
        /\ uses' = uses
    BY <1>1, Own DEF Merge
  <2>3. /\ x.pc = "merged" /\ x.op = req[r].op /\ x.user = req[r].user
        /\ x.new = req[r].new /\ x.locked = req[r].locked /\ x.tok = req[r].tok
        /\ req[r].pc = "save"
    BY <1>1, Own DEF Transaction, Merge
  <2>4. Consistent(x)
    BY ZenonT(60), <2>3, Own DEF Consistent, Applying, Issuing
  <2>5. \A q \in Requests \ {r} : Compatible(x, req[q]) /\ Harmless(x, req[q])
    BY <2>3, Own DEF Compatible, Harmless, Holds
  <2> HIDE DEF x
  <2> QED BY <2>1, <2>2, <2>3, <2>4, <2>5, SlotStep
<1>2. CASE Flush(r)
  <2>1. CASE FlushFails(req[r])
    BY <1>2, <2>1, FinishStep DEF Flush
  <2>2. CASE ~FlushFails(req[r])
    <3> DEFINE x == [req[r] EXCEPT !.pc = "flushed"]
    <3>1. x \in Transaction
      BY Own, MoveTransaction DEF Steps
    <3>2. /\ req' = [req EXCEPT ![r] = x] /\ account' = account /\ link' = link
          /\ uses' = uses
      BY <1>2, <2>2, Own DEF Flush
    <3>3. /\ x.pc = "flushed" /\ x.op = req[r].op /\ x.user = req[r].user
          /\ x.new = req[r].new /\ x.locked = req[r].locked /\ x.tok = req[r].tok
          /\ x.ent = req[r].ent /\ x.diff = req[r].diff /\ req[r].pc = "merged"
      BY <1>2, Own DEF Transaction, Flush
    <3>4. Consistent(x)
      BY ZenonT(60), <3>3, Own DEF Consistent, Applying, Issuing
    <3>5. Written(x) = Written(req[r])
      BY <3>3 DEF Written
    <3>6. ~Taken(x)
      BY <2>2, <3>3, <3>5 DEF FlushFails, Taken
    <3>7. ASSUME NEW q \in Requests \ {r} PROVE Compatible(x, req[q])
      BY <1>2, <3>3, Own DEF Compatible, Holds, Flush
    <3>8. ASSUME NEW q \in Requests \ {r} PROVE Harmless(x, req[q])
      BY <1>2, <3>3, <3>5 DEF Harmless, Flush, ContendedBy, Holds
    <3> HIDE DEF x
    <3> QED BY <3>1, <3>2, <3>3, <3>4, <3>6, <3>7, <3>8, SlotStep
  <2> QED BY <2>1, <2>2
<1> QED BY <1>1, <1>2

\* A commit writes the account that its transaction has to itself, if any, with
\* what was flushed.
LEMMA CommitAccount ==
  ASSUME LinksInv, NEW r \in Requests, Commit(r)
  PROVE  /\ account' \in [Users -> Account]
         /\ \A u \in Users :
              \/ account'[u] = account[u]
              \/ /\ Holds(req[r], u)
                 /\ \/ account'[u] = Gone
                    \/ req[r].pc = "flushed" /\ account'[u] = Written(req[r])
<1>1. account \in [Users -> Account] /\ TypeOK
  BY DEF LinksInv, TypeOK
<1>2. req[r].pc = "flushed" => req[r].user \in Users
  BY Own DEF Consistent, Applying
<1>3. req[r].pc = "flushed" => Written(req[r]) \in Account
  BY <1>1, <1>2, Own, WrittenAccount
<1>4. account' = [u \in Users |->
          IF u # req[r].user THEN account[u]
          ELSE IF req[r].pc = "flushed" THEN Written(req[r])
          ELSE IF req[r].op = "delete" THEN Gone
          ELSE account[u]]
  BY DEF Commit
<1> QED BY <1>1, <1>3, <1>4, GoneAccount DEF Holds

\* It inserts the link that was drawn, and spends the links it has locked; only
\* a pending link has its effect.
LEMMA CommitLink ==
  ASSUME LinksInv, NEW r \in Requests, Commit(r)
  PROVE  /\ link' \in [Tokens -> Link] /\ uses' \in [Tokens -> Nat]
         /\ \A t \in Tokens :
              \/ link'[t] = link[t]
              \/ /\ t = req[r].new /\ t \notin req[r].locked
                 /\ link[t].state = "free" /\ link'[t].state = "pending"
                 /\ link'[t].user \in Users
                 /\ link'[t].purpose = "email" => link'[t].email \in Emails
              \/ t \in req[r].locked /\ link'[t].state \in {"used", "deleted"}
         /\ \A t \in Tokens :
              \/ uses'[t] = uses[t]
              \/ /\ uses'[t] = uses[t] + 1 /\ t \in req[r].locked
                 /\ link[t].state = "pending"
         /\ \A t \in req[r].locked : link'[t].state \in {"used", "deleted"}
<1>1. link \in [Tokens -> Link] /\ uses \in [Tokens -> Nat] /\ req[r] \in Transaction
  BY DEF LinksInv, TypeOK
<1>2. link' = [t \in Tokens |->
          IF t = req[r].new
          THEN [state |-> "pending", user |-> req[r].user, purpose |-> Purpose(req[r].op),
                email |-> req[r].email, expired |-> FALSE]
          ELSE IF t \in req[r].locked
          THEN IF req[r].op \in Purging THEN Purged ELSE [link[t] EXCEPT !.state = "used"]
          ELSE link[t]]
  BY DEF Commit
<1>3. uses' = [t \in Tokens |->
          IF req[r].op \in Applying /\ t = req[r].tok THEN uses[t] + 1 ELSE uses[t]]
  BY DEF Commit
<1>4. Purpose(req[r].op) \in {"reset", "invite", "email"}
      /\ (Purpose(req[r].op) = "email" => req[r].op = "request_email")
  BY DEF Purpose
<1>5. req[r].new \in Tokens =>
        /\ req[r].user \in Users /\ req[r].op \in Issuing
        /\ link[req[r].new].state = "free" /\ req[r].new \notin req[r].locked
  BY Own DEF Consistent, Issuing, Stored
<1>6. Purged \in Link /\ Purged.state = "deleted"
  BY DEF Purged, Unissued, Link
<1>7. req[r].locked \in SUBSET Tokens /\ req[r].email \in Emails \cup {None}
      /\ req[r].user \in Users \cup {None}
  BY <1>1, Fields
<1>8. \A t \in Tokens : [link[t] EXCEPT !.state = "used"] \in Link
                        /\ [link[t] EXCEPT !.state = "used"].state = "used"
  BY <1>1 DEF Link
<1>9. link' \in [Tokens -> Link]
  <2>1. [state |-> "pending", user |-> req[r].user, purpose |-> Purpose(req[r].op),
         email |-> req[r].email, expired |-> FALSE] \in Link
    BY <1>4, <1>7 DEF Link
  <2> QED BY <1>1, <1>2, <1>6, <1>8, <2>1
<1>10. \A t \in Tokens :
         \/ link'[t] = link[t]
         \/ /\ t = req[r].new /\ t \notin req[r].locked
            /\ link[t].state = "free" /\ link'[t].state = "pending"
            /\ link'[t].user \in Users
            /\ link'[t].purpose = "email" => link'[t].email \in Emails
         \/ t \in req[r].locked /\ link'[t].state \in {"used", "deleted"}
  <2> SUFFICES ASSUME NEW t \in Tokens
               PROVE  \/ link'[t] = link[t]
                      \/ /\ t = req[r].new /\ t \notin req[r].locked
                         /\ link[t].state = "free" /\ link'[t].state = "pending"
                         /\ link'[t].user \in Users
                         /\ link'[t].purpose = "email" => link'[t].email \in Emails
                      \/ t \in req[r].locked /\ link'[t].state \in {"used", "deleted"}
    OBVIOUS
  <2>1. CASE t = req[r].new
    BY <1>2, <1>4, <1>5, <2>1, Own DEF Consistent
  <2>2. CASE t # req[r].new
    BY <1>2, <1>6, <1>8, <2>2
  <2> QED BY <2>1, <2>2
<1>11. \A t \in req[r].locked : link'[t].state \in {"used", "deleted"}
  BY <1>2, <1>5, <1>6, <1>7, <1>8
<1>12. req[r].op \in Applying =>
         req[r].tok \in req[r].locked /\ link[req[r].tok].state = "pending"
  BY Own DEF Commit, Complete, Consistent, Applying, Issuing, Purging
<1> QED BY <1>1, <1>3, <1>9, <1>10, <1>11, <1>12

\* The other transactions are undisturbed by a commit: their links, and the
\* accounts they have flushed, are not the ones it wrote.
LEMMA CommitStep ==
  ASSUME LinksInv, NEW r \in Requests, Commit(r)
  PROVE  LinksInv'
<1>1. req' = [req EXCEPT ![r] = Idle] /\ req \in [Requests -> Transaction]
  BY DEF Commit, Finish, LinksInv, TypeOK
<1>2. \A q \in Requests : req'[q] = IF q = r THEN Idle ELSE req[q]
  BY <1>1
<1>3. TypeOK'
  BY <1>1, CommitAccount, CommitLink, IdleTransaction DEF TypeOK
<1>4. Idle.pc = "idle" /\ Consistent(Idle)'
  BY DEF Idle, Consistent, Issuing, Applying
<1>5. \A y : (Compatible(Idle, y) /\ Compatible(y, Idle))'
  BY DEF Idle, Compatible, Holds
<1>6. ASSUME NEW q \in Requests PROVE Consistent(req[q])'
  <2>1. CASE q = r
    BY <1>2, <1>4, <2>1 DEF Consistent
  <2>2. CASE q # r
    <3>1. req'[q] = req[q] /\ Consistent(req[q]) /\ Compatible(req[r], req[q])
      BY <1>2, <2>2, Own
    <3>2. req[q].locked \in SUBSET Tokens /\ req[q].new \in Tokens \cup {None}
      BY Own, Fields
    <3>3. \A t \in req[q].locked : link'[t] = link[t]
      BY <3>1, <3>2, CommitLink DEF Compatible, Consistent, Stored
    <3>4. req[q].op \in Issuing => link'[req[q].new] = link[req[q].new]
      <4> SUFFICES ASSUME req[q].op \in Issuing
                   PROVE  link'[req[q].new] = link[req[q].new]
        OBVIOUS
      <4>1. req[q].new \in Tokens /\ link[req[q].new].state = "free"
        BY <3>1 DEF Consistent
      <4>2. req[q].new # req[r].new
        BY <3>1, <4>1 DEF Compatible
      <4>3. req[q].new \notin req[r].locked
        BY <4>1, Own DEF Consistent, Stored
      <4> QED BY <4>1, <4>2, <4>3, CommitLink
    <3> QED BY <3>1, <3>3, <3>4 DEF Consistent, Stored
  <2> QED BY <2>1, <2>2
<1>7. ASSUME NEW q \in Requests, q # r, req[q].pc = "flushed"
      PROVE  /\ req[q].user \in Users /\ ~Holds(req[r], req[q].user)
             /\ Written(req[q])' = Written(req[q])
  <2>1. req[q].user \in Users
    BY <1>7, Own DEF Consistent, Applying
  <2>2. ~Holds(req[r], req[q].user)
    BY <1>7, <2>1, Own DEF Compatible, Holds
  <2>3. account'[req[q].user] = account[req[q].user]
    BY <2>1, <2>2, CommitAccount
  <2>4. req'[q] = req[q]
    BY <1>2, <1>7
  <2> QED BY <2>1, <2>2, <2>3, <2>4 DEF Written
<1>8. ASSUME NEW p \in Requests, NEW q \in Requests, p # q
      PROVE  (Compatible(req[p], req[q]) /\ Harmless(req[p], req[q]))'
  <2>1. Compatible(req'[p], req'[q])
    BY <1>2, <1>5, <1>8 DEF LinksInv, Compatible, Holds, Idle
  <2>2. Harmless(req[p], req[q])'
    <3> SUFFICES ASSUME req'[p].pc = "flushed", req'[q].pc = "flushed",
                        req'[p].user # req'[q].user
                 PROVE  ~Clash(Written(req[p]), Written(req[q]))'
      BY DEF Harmless
    <3>1. p # r /\ q # r /\ req'[p] = req[p] /\ req'[q] = req[q]
      BY <1>2, <1>4
    <3>2. ~Clash(Written(req[p]), Written(req[q]))
      BY <1>8, <3>1 DEF LinksInv, Harmless
    <3>3. Written(req[p])' = Written(req[p]) /\ Written(req[q])' = Written(req[q])
      BY <1>7, <3>1
    <3> QED BY <3>2, <3>3 DEF Clash
  <2> QED BY <2>1, <2>2 DEF Compatible, Holds
<1>9. ASSUME NEW q \in Requests, req'[q].pc = "flushed" PROVE ~Taken(req[q])'
  <2>1. q # r /\ req'[q] = req[q] /\ req[q].pc = "flushed"
    BY <1>2, <1>4, <1>9
  <2>2. Written(req[q])' = Written(req[q]) /\ ~Taken(req[q])
    BY <1>7, <2>1, Own
  <2>3. ASSUME NEW v \in Users \ {req[q].user}
        PROVE  ~Clash(Written(req[q]), account'[v])
    <3>1. CASE account'[v] = account[v]
      BY <2>2, <3>1 DEF Taken
    <3>2. CASE account'[v] = Gone
      BY <3>2, GoneAccount DEF Clash
    <3>3. CASE /\ Holds(req[r], v) /\ req[r].pc = "flushed"
               /\ account'[v] = Written(req[r])
      <4>1. req[r].user # req[q].user
        BY <2>3, <3>3 DEF Holds
      <4>2. ~Clash(Written(req[r]), Written(req[q]))
        BY <2>1, <3>3, <4>1, Own DEF Harmless
      <4> QED BY <3>3, <4>2, ClashSymmetric
    <3> QED BY <3>1, <3>2, <3>3, CommitAccount
  <2> QED BY <2>1, <2>2, <2>3 DEF Taken, Clash
<1>10. ActiveEmailUnique'
  <2> SUFFICES ASSUME NEW u \in Users, NEW v \in Users, u # v
               PROVE  ~Clash(account'[u], account'[v])
    BY DEF ActiveEmailUnique, Clash
  <2>1. ASSUME NEW a \in Users, NEW b \in Users, a # b, account'[b] = account[b]
        PROVE  ~Clash(account'[a], account'[b])
    <3>1. CASE account'[a] = account[a]
      BY <2>1, <3>1 DEF LinksInv, ActiveEmailUnique
    <3>2. CASE account'[a] = Gone
      BY <3>2, GoneAccount DEF Clash
    <3>3. CASE /\ Holds(req[r], a) /\ req[r].pc = "flushed"
               /\ account'[a] = Written(req[r])
      BY <2>1, <3>3, Own DEF Taken, Holds
    <3> QED BY <3>1, <3>2, <3>3, CommitAccount
  <2>2. account'[u] = account[u] \/ account'[v] = account[v]
    BY CommitAccount DEF Holds
  <2> QED BY <2>1, <2>2, ClashSymmetric
<1>11. Addressed'
  BY CommitLink DEF LinksInv, Addressed
<1>12. Spent'
  <2> SUFFICES ASSUME NEW t \in Tokens
               PROVE  /\ uses'[t] <= 1
                      /\ uses'[t] = 1 => link'[t].state \in {"used", "deleted"}
    BY DEF Spent
  <2>1. /\ uses[t] \in Nat /\ uses[t] <= 1
        /\ uses[t] = 1 => link[t].state \in {"used", "deleted"}
    BY DEF LinksInv, TypeOK, Spent
  <2>2. CASE uses'[t] = uses[t]
    BY <2>1, <2>2, CommitLink
  <2>3. CASE /\ uses'[t] = uses[t] + 1 /\ t \in req[r].locked
             /\ link[t].state = "pending"
    BY <2>1, <2>3, CommitLink
  <2> QED BY <2>2, <2>3, CommitLink
<1> QED BY <1>3, <1>6, <1>8, <1>9, <1>10, <1>11, <1>12 DEF LinksInv

\* A link may expire at any moment, claimed or not.
LEMMA ExpireStep ==
  ASSUME LinksInv, NEW t \in Tokens, Expire(t)
  PROVE  LinksInv'
<1>1. /\ link' = [link EXCEPT ![t].expired = TRUE] /\ account' = account
      /\ uses' = uses /\ req' = req
  BY DEF Expire
<1>2. link \in [Tokens -> Link]
  BY DEF LinksInv, TypeOK
<1>3. link' \in [Tokens -> Link]
  <2>1. [link[t] EXCEPT !.expired = TRUE] \in Link
    <3>1. link[t] \in Link
      BY <1>2
    <3> QED BY <3>1 DEF Link
  <2>2. link' = [s \in Tokens |-> IF s = t THEN [link[t] EXCEPT !.expired = TRUE] ELSE link[s]]
    BY <1>1, <1>2
  <2> QED BY <1>2, <2>1, <2>2
<1>4. \A s \in Tokens : /\ link'[s].state = link[s].state
                        /\ link'[s].user = link[s].user
                        /\ link'[s].purpose = link[s].purpose
                        /\ link'[s].email = link[s].email
  BY <1>1, <1>2 DEF Link
<1>5. TypeOK'
  BY <1>1, <1>3 DEF LinksInv, TypeOK
<1>6. ASSUME NEW q \in Requests PROVE Consistent(req[q])'
  <2>1. Consistent(req[q]) /\ req[q].locked \in SUBSET Tokens /\ req'[q] = req[q]
    BY <1>1, Own, Fields
  <2>2. \A s \in req[q].locked : link'[s].state = link[s].state
    BY <1>4, <2>1
  <2>3. req[q].op \in Issuing => link'[req[q].new].state = link[req[q].new].state
    BY <1>4, <2>1 DEF Consistent
  <2> QED BY <2>1, <2>2, <2>3 DEF Consistent, Stored
<1>7. \A p, q \in Requests :
        p # q => (Compatible(req[p], req[q]) /\ Harmless(req[p], req[q]))'
  BY <1>1 DEF LinksInv, Compatible, Harmless, Holds, Clash, Written
<1>8. \A q \in Requests : (req[q].pc = "flushed" => ~Taken(req[q]))'
  BY <1>1 DEF LinksInv, Taken, Clash, Written
<1>9. ActiveEmailUnique' /\ Addressed' /\ Spent'
  BY <1>1, <1>4 DEF LinksInv, ActiveEmailUnique, Addressed, Spent, Clash
<1> QED BY <1>5, <1>6, <1>7, <1>8, <1>9 DEF LinksInv

\* Every step keeps the inductive invariant.
LEMMA LinksStep == LinksInv /\ [Next]_vars => LinksInv'
<1> SUFFICES ASSUME LinksInv, [Next]_vars PROVE LinksInv'
  OBVIOUS
<1>1. ASSUME NEW r \in Requests, Start(r) PROVE LinksInv'
  BY <1>1, StartLinkStep, StartApplyStep, StartOtherStep DEF Start
<1>2. ASSUME NEW r \in Requests, Work(r) PROVE LinksInv'
  BY <1>2, SweepStep, InsertStep, ClaimStep, SaveStep, CommitStep DEF Work
<1>3. ASSUME NEW r \in Requests, Rollback(r) \/ AbortDeadlock(r) PROVE LinksInv'
  BY <1>3, FinishStep DEF Rollback, AbortDeadlock
<1>4. ASSUME NEW t \in Tokens, Expire(t) PROVE LinksInv'
  BY <1>4, ExpireStep
<1>5. CASE UNCHANGED vars
  <2>1. account' = account /\ link' = link /\ uses' = uses /\ req' = req
    BY <1>5 DEF vars
  <2>2. TypeOK'
    BY <2>1 DEF LinksInv, TypeOK
  <2>3. \A q \in Requests : Consistent(req[q])'
    BY <2>1 DEF LinksInv, Consistent, Stored
  <2>4. \A p, q \in Requests :
          p # q => (Compatible(req[p], req[q]) /\ Harmless(req[p], req[q]))'
    BY <2>1 DEF LinksInv, Compatible, Harmless, Holds, Clash, Written
  <2>5. \A q \in Requests : (req[q].pc = "flushed" => ~Taken(req[q]))'
    BY <2>1 DEF LinksInv, Taken, Clash, Written
  <2>6. ActiveEmailUnique' /\ Addressed' /\ Spent'
    BY <2>1 DEF LinksInv, ActiveEmailUnique, Addressed, Spent, Clash
  <2> QED BY <2>2, <2>3, <2>4, <2>5, <2>6 DEF LinksInv
<1> QED BY <1>1, <1>2, <1>3, <1>4, <1>5 DEF Next

\* Links, claims and addresses are consistent in every reachable state, for every
\* number of accounts, links, addresses and concurrent requests.
THEOREM LinksConsistent == Spec => []LinksInv
<1>1. Init => LinksInv
  BY InitLinks
<1>2. LinksInv /\ [Next]_vars => LinksInv'
  BY LinksStep
<1> QED BY <1>1, <1>2, PTL DEF Spec

\* Type correctness.
THEOREM TypeCorrect == Spec => []TypeOK
<1>1. LinksInv => TypeOK
  BY DEF LinksInv
<1> QED BY <1>1, LinksConsistent, PTL

\* No two active accounts ever share an address, although every check of the use
\* cases can be overtaken.
THEOREM AddressesUnique == Spec => []ActiveEmailUnique
<1>1. LinksInv => ActiveEmailUnique
  BY DEF LinksInv
<1> QED BY <1>1, LinksConsistent, PTL

\* No link has its effect twice, however often and at once it is opened.
THEOREM UsedOnce == Spec => [](\A t \in Tokens : uses[t] <= 1)
<1>1. LinksInv => \A t \in Tokens : uses[t] <= 1
  BY DEF LinksInv, Spent
<1> QED BY <1>1, LinksConsistent, PTL

\* A commit is one step of the abstract link: it issues one in place of others,
\* uses one, removes several, or leaves all as they are.
LEMMA CommitRefines ==
  ASSUME LinksInv, NEW r \in Requests, Commit(r)
  PROVE  Abstract!Next
<1> DEFINE live == {t \in Tokens : link[t].state = "pending"}
           issued == {t \in Tokens : link[t].state # "free"}
<1>0. /\ Consistent(req[r]) /\ Complete(req[r]) /\ req[r].locked \in SUBSET Tokens
      /\ link \in [Tokens -> Link] /\ uses \in [Tokens -> Nat]
  BY Own, Fields DEF Commit, LinksInv, TypeOK
<1>1. live' = {t \in Tokens : link'[t].state = "pending"}
      /\ issued' = {t \in Tokens : link'[t].state # "free"}
  OBVIOUS
<1>2. uses' = [t \in Tokens |->
          IF req[r].op \in Applying /\ t = req[r].tok THEN uses[t] + 1 ELSE uses[t]]
  BY DEF Commit
<1>3. \A t \in Tokens : t # req[r].new /\ t \notin req[r].locked => link'[t] = link[t]
  BY CommitLink
<1>4. \A t \in req[r].locked : link[t].state # "free"
  BY <1>0 DEF Consistent, Stored
<1>5. CASE req[r].op \in Issuing
  <2>1. req[r].new \in Tokens /\ link[req[r].new].state = "free"
    BY <1>0, <1>5 DEF Consistent
  <2>2. link'[req[r].new].state = "pending" /\ req[r].new \notin req[r].locked
    BY <1>4, <2>1 DEF Commit
  <2>3. uses' = uses
    BY <1>0, <1>2, <1>5 DEF Issuing, Applying
  <2>4. live' = (live \ req[r].locked) \cup {req[r].new}
    BY <1>1, <1>3, <2>1, <2>2, CommitLink
  <2>5. issued' = issued \cup {req[r].new}
    BY <1>1, <1>3, <1>4, <2>1, <2>2, CommitLink
  <2>6. Abstract!Issue(req[r].new, req[r].locked)
    BY <2>1, <2>3, <2>4, <2>5 DEF Abstract!Issue
  <2> QED BY <1>0, <2>1, <2>6 DEF Abstract!Next, Abstract!Issue
<1>6. CASE req[r].op \notin Issuing
  <2>1. req[r].new = None
    BY <1>0, <1>6 DEF Consistent
  <2>2. \A t \in Tokens : t \notin req[r].locked => link'[t] = link[t]
    BY <1>3, <2>1
  <2>3. live' = live \ req[r].locked
    BY <1>1, <2>2, CommitLink
  <2>4. issued' = issued
    BY <1>1, <1>4, <2>2, CommitLink
  <2>5. CASE req[r].op \in Applying
    <3>1. req[r].locked = {req[r].tok} /\ req[r].tok \in live
      BY <1>0, <2>5 DEF Consistent, Complete, Applying, Purging, Issuing
    <3>2. uses' = [uses EXCEPT ![req[r].tok] = @ + 1]
      BY <1>0, <1>2, <2>5
    <3>3. Abstract!Use(req[r].tok)
      BY <2>3, <2>4, <3>1, <3>2 DEF Abstract!Use
    <3> QED BY <3>1, <3>3 DEF Abstract!Next, Abstract!Use
  <2>6. CASE req[r].op \notin Applying
    <3>1. uses' = uses
      BY <1>0, <1>2, <2>6
    <3>2. Abstract!Void(req[r].locked)
      BY <2>3, <2>4, <3>1 DEF Abstract!Void
    <3> QED BY <1>0, <3>2 DEF Abstract!Next, Abstract!Void
  <2> QED BY <2>5, <2>6
<1> QED BY <1>5, <1>6

\* Everything else is invisible to the abstract link.
LEMMA StepRefines == LinksInv /\ [Next]_vars => [Abstract!Next]_(Abstract!linkVars)
<1> SUFFICES ASSUME LinksInv, [Next]_vars PROVE [Abstract!Next]_(Abstract!linkVars)
  OBVIOUS
<1>1. ASSUME link' = link, uses' = uses PROVE [Abstract!Next]_(Abstract!linkVars)
  BY <1>1 DEF Abstract!linkVars
<1>2. ASSUME NEW r \in Requests, Start(r) PROVE link' = link /\ uses' = uses
  BY <1>2 DEF Start, StartRequestReset, StartResendInvite, StartRequestEmail, StartReset,
     StartConfirm, StartEdit, StartDelete, StartCleanup, Open
<1>3. ASSUME NEW r \in Requests, Work(r), ~Commit(r) PROVE link' = link /\ uses' = uses
  BY <1>3 DEF Work, Invalidate, SweepRow, InsertLink, Claim, Merge, Flush
<1>4. ASSUME NEW r \in Requests, Rollback(r) \/ AbortDeadlock(r)
      PROVE  link' = link /\ uses' = uses
  BY <1>4 DEF Rollback, AbortDeadlock
<1>5. ASSUME NEW t \in Tokens, Expire(t) PROVE [Abstract!Next]_(Abstract!linkVars)
  <2>1. link \in [Tokens -> Link]
    BY DEF LinksInv, TypeOK
  <2>2. link' = [link EXCEPT ![t].expired = TRUE] /\ uses' = uses
    BY <1>5 DEF Expire
  <2>3. \A s \in Tokens : link'[s].state = link[s].state
    BY <2>1, <2>2 DEF Link
  <2> QED BY <2>2, <2>3 DEF Abstract!linkVars
<1>6. CASE UNCHANGED vars
  BY <1>1, <1>6 DEF vars
<1> QED BY <1>1, <1>2, <1>3, <1>4, <1>5, <1>6, CommitRefines DEF Next

\* Links implements OneTimeLink: whatever requests do at the same time, a link
\* works once at most, and never after it was replaced, purged or used.
THEOREM LinksImplementOneTimeLink == Spec => LinkSpec
<1>1. Init => Abstract!Init
  BY DEF Init, Abstract!Init, Unissued
<1>2. LinksInv /\ [Next]_vars => [Abstract!Next]_(Abstract!linkVars)
  BY StepRefines
<1> QED BY <1>1, <1>2, LinksConsistent, PTL DEF Spec, LinkSpec, Abstract!Spec

-----------------------------------------------------------------------------
(* Who links and passwords belong to: no link outlives its account, no      *)
(* password is set but by a link that was used, once, and for this account. *)

\* A deletion knows every link of its account; an account that gets a link exists;
\* nothing that is saved makes an account disappear.
Rooted(x) ==
  /\ x.op = "delete" =>
       \A t \in Tokens : Stored(t) /\ link[t].user = x.user => t \in x.todo \cup x.locked
  /\ x.pc = "inserted" => Exists(x.user)
  /\ x.op \in Applying \cup {"edit"} => x.ent.status # "deleted"
  /\ x.pc \in {"merged", "flushed"} /\ x.inserts => x.diff = Columns
  /\ x.pc = "flushed" => Written(x).status # "deleted"

\* No account is being deleted that a new link refers to.
KeptApart(x, y) == x.op = "delete" /\ y.pc = "inserted" => x.user # y.user

OwnersInv ==
  /\ NoOrphanLink
  /\ \A t \in Tokens : Stored(t) => link[t].user \in Users
  /\ \A r \in Requests : Rooted(req[r])
  /\ \A r, q \in Requests : KeptApart(req[r], req[q])

\* The password p is that of account u, or of a copy of it that may be saved.
Carries(x, u, p) == x.op \in Applying \cup {"edit"} /\ x.user = u /\ x.ent.password = p

Bears(u, p) == account[u].password = p \/ \E r \in Requests : Carries(req[r], u, p)

\* A copy has the password of the link it applies, or one that a link has set.
Copied(x) ==
  /\ x.op = "reset" => x.ent.password = x.tok
  /\ x.op \in {"confirm", "edit"} /\ x.ent.password \in Tokens => uses[x.ent.password] = 1

PasswordInv ==
  /\ \A u \in Users : account[u].password \in Tokens => uses[account[u].password] = 1
  /\ \A r \in Requests : Copied(req[r])
  /\ \A u \in Users, p \in Tokens : Bears(u, p) =>
       /\ link[p].state # "free"
       /\ link[p].state = "pending" => u = link[p].user
       /\ \A v \in Users : Bears(v, p) => v = u

USE LinksAssumption DEF LinksAssumption

-----------------------------------------------------------------------------
(* Steps *)

\* Only a commit changes rows, and only the slot that steps changes.
LEMMA QuietStep ==
  ASSUME LinksInv, NEW r \in Requests,
         Start(r) \/ Work(r) \/ Rollback(r) \/ AbortDeadlock(r), ~Commit(r)
  PROVE  /\ account' = account /\ link' = link /\ uses' = uses
         /\ \A q \in Requests \ {r} : req'[q] = req[q]
<1>1. req \in [Requests -> Transaction]
  BY DEF LinksInv, TypeOK
<1>2. CASE Start(r)
  <2>1. ASSUME NEW x, Open(r, x)
        PROVE  /\ account' = account /\ link' = link /\ uses' = uses
               /\ \A q \in Requests \ {r} : req'[q] = req[q]
    BY <1>1, <2>1 DEF Open
  <2> QED BY <1>2, <2>1 DEF Start, StartRequestReset, StartResendInvite, StartRequestEmail,
     StartReset, StartConfirm, StartEdit, StartDelete, StartCleanup
<1>3. CASE Work(r)
  BY <1>1, <1>3 DEF Work, Invalidate, SweepRow, InsertLink, Claim, Merge, Flush, Finish
<1>4. CASE Rollback(r) \/ AbortDeadlock(r)
  BY <1>1, <1>4 DEF Rollback, AbortDeadlock, Finish
<1> QED BY <1>2, <1>3, <1>4

\* Where a transaction is that ends or fails: nowhere.
LEMMA FinishIdle ==
  ASSUME LinksInv, NEW r \in Requests, Finish(r)
  PROVE  req'[r] = Idle
BY DEF Finish, LinksInv, TypeOK

\* What a commit leaves in the row of a link.
LEMMA CommitOutcome ==
  ASSUME LinksInv, NEW r \in Requests, Commit(r), NEW t \in Tokens
  PROVE  \/ link'[t] = link[t] /\ t \notin req[r].locked
         \/ /\ t = req[r].new /\ req[r].pc = "inserted" /\ link[t].state = "free"
            /\ link'[t].state = "pending" /\ link'[t].user = req[r].user
         \/ /\ t \in req[r].locked /\ req[r].op \in Purging /\ link'[t].state = "deleted"
         \/ /\ t \in req[r].locked /\ req[r].op \notin Purging
            /\ link'[t].state = "used" /\ link'[t].user = link[t].user
<1> DEFINE x == req[r]
<1>1. x \in Transaction /\ Consistent(x) /\ Complete(x) /\ link[t] \in Link
  BY Own DEF Commit, LinksInv, TypeOK
<1>2. link'[t] =
          IF t = x.new
          THEN [state |-> "pending", user |-> x.user, purpose |-> Purpose(x.op),
                email |-> x.email, expired |-> FALSE]
          ELSE IF t \in x.locked
          THEN IF x.op \in Purging THEN Purged ELSE [link[t] EXCEPT !.state = "used"]
          ELSE link[t]
  BY DEF Commit
<1>3. CASE t = x.new
  <2>1. x.op \in Issuing /\ link[t].state = "free"
    BY <1>1, <1>3 DEF Consistent
  <2>2. x.pc = "inserted"
    BY <1>1, <2>1 DEF Complete, Consistent, Issuing, Applying, Purging
  <2> QED BY <1>2, <1>3, <2>1, <2>2
<1>4. CASE t # x.new /\ t \in x.locked /\ x.op \in Purging
  BY <1>2, <1>4 DEF Purged, Unissued
<1>5. CASE t # x.new /\ t \in x.locked /\ x.op \notin Purging
  <2>1. link'[t] = [link[t] EXCEPT !.state = "used"]
    BY <1>2, <1>5
  <2> QED BY <1>1, <1>5, <2>1 DEF Link
<1>6. CASE t # x.new /\ t \notin x.locked
  BY <1>2, <1>6
<1> QED BY <1>3, <1>4, <1>5, <1>6

-----------------------------------------------------------------------------
(* Links and their accounts *)

LEMMA StartRooted ==
  ASSUME LinksInv, NEW r \in Requests, Start(r)
  PROVE  /\ Rooted(req'[r]) /\ req'[r].pc # "inserted"
         /\ req'[r].op = "delete" =>
              \A q \in Requests : ~(req[q].pc = "inserted" /\ req[q].user = req'[r].user)
<1>1. ASSUME NEW x, Open(r, x) PROVE req'[r] = x
  BY <1>1 DEF Open, LinksInv, TypeOK
<1>2. ASSUME NEW u \in Users, NEW n \in Tokens,
             \/ StartRequestReset(r, u, n)
             \/ StartResendInvite(r, u, n)
             \/ \E e \in Emails : StartRequestEmail(r, u, e, n)
      PROVE  /\ req'[r].op \in Issuing /\ req'[r].pc \in {"insert", "invalidate"}
  <2>1. CASE StartRequestReset(r, u, n)
    BY ZenonT(60), <1>1, <2>1 DEF StartRequestReset, Idle, Issuing
  <2>2. CASE StartResendInvite(r, u, n)
    BY ZenonT(60), <1>1, <2>2 DEF StartResendInvite, Idle, Issuing
  <2>3. CASE \E e \in Emails : StartRequestEmail(r, u, e, n)
    BY ZenonT(60), <1>1, <2>3 DEF StartRequestEmail, Idle, Issuing
  <2> QED BY <1>2, <2>1, <2>2, <2>3
<1>3. ASSUME NEW t \in Tokens, StartReset(r, t) \/ StartConfirm(r, t)
      PROVE  /\ req'[r].op \in Applying /\ req'[r].pc = "claim"
             /\ req'[r].ent.status # "deleted"
  <2>1. link[t].user \in Users
    BY <1>3 DEF LinksInv, Addressed, StartReset, StartConfirm, Usable
  <2>2. account[link[t].user] \in Account
    BY <2>1 DEF LinksInv, TypeOK
  <2>3. CASE StartReset(r, t)
    <3> DEFINE e == [account[link[t].user] EXCEPT !.password = t]
               x == [Idle EXCEPT !.op = "reset", !.pc = "claim", !.user = link[t].user,
                                 !.tok = t, !.ent = e]
    <3>0. req'[r] = x
      BY <1>1, <2>3 DEF StartReset
    <3>1. x.op = "reset" /\ x.pc = "claim" /\ x.ent = e
      <4> HIDE DEF e
      <4> QED BY DEF Idle
    <3>2. account[link[t].user].status = "active"
      BY <2>3 DEF StartReset, Active
    <3>3. e.status = account[link[t].user].status
      BY <2>2 DEF Account
    <3> HIDE DEF e, x
    <3> QED BY <3>0, <3>1, <3>2, <3>3 DEF Applying
  <2>4. CASE StartConfirm(r, t)
    <3> DEFINE e == [account[link[t].user] EXCEPT !.email = link[t].email]
               x == [Idle EXCEPT !.op = "confirm", !.pc = "claim", !.user = link[t].user,
                                 !.tok = t, !.ent = e]
    <3>0. req'[r] = x
      BY <1>1, <2>4 DEF StartConfirm
    <3>1. x.op = "confirm" /\ x.pc = "claim" /\ x.ent = e
      <4> HIDE DEF e
      <4> QED BY DEF Idle
    <3>2. account[link[t].user].status # "deleted"
      BY <2>4 DEF StartConfirm, Exists
    <3>3. e.status = account[link[t].user].status
      BY <2>2 DEF Account
    <3> HIDE DEF e, x
    <3> QED BY <3>0, <3>1, <3>2, <3>3 DEF Applying
  <2> QED BY <1>3, <2>3, <2>4
<1>4. ASSUME NEW u \in Users, NEW s \in {"active", "inactive"}, StartEdit(r, u, s)
      PROVE  req'[r].op = "edit" /\ req'[r].pc = "save" /\ req'[r].ent.status # "deleted"
  <2>1. account[u] \in Account
    BY DEF LinksInv, TypeOK
  <2>2. /\ req'[r].op = "edit" /\ req'[r].pc = "save"
        /\ req'[r].ent = [account[u] EXCEPT !.status = s]
    BY ZenonT(60), <1>1, <1>4 DEF StartEdit, Idle
  <2> QED BY <2>1, <2>2 DEF Account
<1>5. ASSUME NEW u \in Users, StartDelete(r, u)
      PROVE  /\ req'[r].op = "delete" /\ req'[r].pc = "sweep" /\ req'[r].user = u
             /\ req'[r].todo = {t \in Tokens : Stored(t) /\ link[t].user = u}
             /\ \A q \in Requests : ~(req[q].pc = "inserted" /\ req[q].user = u)
  BY ZenonT(60), <1>1, <1>5 DEF StartDelete, Idle
<1>6. StartCleanup(r) => req'[r].op = "cleanup" /\ req'[r].pc = "sweep"
  BY ZenonT(60), <1>1 DEF StartCleanup, Idle
<1>7. Askers \subseteq Users
  OBVIOUS
<1> QED BY <1>2, <1>3, <1>4, <1>5, <1>6, <1>7 DEF Start, Rooted, Issuing, Applying

LEMMA WorkRooted ==
  ASSUME LinksInv, NEW r \in Requests, Rooted(req[r]), Work(r), ~Commit(r)
  PROVE  /\ Rooted(req'[r])
         /\ req'[r].op = "delete" => req[r].op = "delete" /\ req'[r].user = req[r].user
         /\ req'[r].pc = "inserted" =>
              \A q \in Requests : ~(req[q].op = "delete" /\ req[q].user = req'[r].user)
<1> DEFINE x == req[r]
           y == req'[r]
<1>1. x \in Transaction /\ Consistent(x) /\ req \in [Requests -> Transaction]
  BY Own
<1>2. CASE y = Idle
  BY <1>2 DEF Idle, Rooted, Applying
<1>3. CASE Invalidate(r)
  <2>1. x.op \in Issuing /\ y.op = x.op /\ y.pc = "sweep"
    BY <1>1, <1>3 DEF Invalidate, Consistent
  <2> QED BY <2>1 DEF Rooted, Issuing, Applying
<1>4. ASSUME NEW t \in Tokens, SweepRow(r, t)
      PROVE  /\ Rooted(y) /\ y.op = x.op /\ y.user = x.user /\ y.pc = "sweep"
  <2>1. /\ y.op = x.op /\ y.user = x.user /\ y.pc = "sweep" /\ y.todo = x.todo \ {t}
        /\ y.locked = IF StillMatches(x, t) THEN x.locked \cup {t} ELSE x.locked
        /\ x.pc = "sweep"
    BY <1>1, <1>4 DEF SweepRow
  <2>2. x.op \in Issuing \cup Purging
    BY <1>1, <2>1 DEF Consistent
  <2>3. x.op = "delete" /\ Stored(t) => t \in y.locked
    BY <2>1 DEF StillMatches, Purging
  <2>4. x.op = "delete" =>
          \A s \in Tokens : Stored(s) /\ link[s].user = x.user => s \in y.todo \cup y.locked
    BY <2>1, <2>3 DEF Rooted
  <2>5. y.op \notin Applying \cup {"edit"}
    BY <2>1, <2>2 DEF Issuing, Applying, Purging
  <2> HIDE DEF y
  <2> QED BY <2>1, <2>4, <2>5 DEF Rooted
<1>5. CASE InsertLink(r) /\ y # Idle
  <2>1. /\ y.op = x.op /\ y.user = x.user /\ y.pc = "inserted" /\ Exists(x.user)
        /\ \A q \in Requests : ~(req[q].op = "delete" /\ req[q].user = x.user)
    <3>1. ~Finish(r)
      BY <1>5, FinishIdle
    <3>2. /\ req' = [req EXCEPT ![r].pc = "inserted"] /\ Exists(x.user)
          /\ \A q \in Requests : ~(req[q].op = "delete" /\ req[q].user = x.user)
      BY <1>5, <3>1 DEF InsertLink
    <3> QED BY <1>1, <3>2
  <2>2. x.op \in Issuing
    BY <1>1, <1>5 DEF InsertLink, InsertsNext, Consistent
  <2> QED BY <2>1, <2>2 DEF Rooted, Issuing, Applying
<1>6. CASE Claim(r) /\ y # Idle
  <2>1. y.op = x.op /\ y.user = x.user /\ y.pc = "save" /\ y.ent = x.ent /\ x.pc = "claim"
    <3>1. ~Finish(r)
      BY <1>6, FinishIdle
    <3>2. /\ req' = [req EXCEPT ![r].pc = "save", ![r].locked = {x.tok}]
          /\ x.pc = "claim"
      BY <1>6, <3>1 DEF Claim
    <3> QED BY <1>1, <3>2
  <2>2. x.op \in Applying
    BY <1>1, <2>1 DEF Consistent
  <2> QED BY <2>1, <2>2 DEF Rooted, Applying
<1>7. CASE Merge(r)
  <2>1. /\ y.op = x.op /\ y.user = x.user /\ y.pc = "merged" /\ y.ent = x.ent /\ x.pc = "save"
        /\ y.inserts = ~Exists(x.user)
        /\ y.diff = {c \in Columns : ~Exists(x.user) \/ x.ent[c] # account[x.user][c]}
    BY <1>1, <1>7 DEF Merge
  <2>2. x.op \in Applying \cup {"edit"}
    BY <1>1, <2>1 DEF Consistent
  <2> HIDE DEF y
  <2>3. y.inserts => y.diff = Columns
    BY <2>1
  <2> QED BY <2>1, <2>2, <2>3 DEF Rooted, Applying, y
<1>8. CASE Flush(r) /\ y # Idle
  <2>1. /\ y.op = x.op /\ y.user = x.user /\ y.pc = "flushed" /\ y.ent = x.ent
        /\ y.inserts = x.inserts /\ y.diff = x.diff /\ x.pc = "merged"
        /\ x.inserts # Exists(x.user)
    <3>1. ~Finish(r)
      BY <1>8, FinishIdle
    <3>2. /\ req' = [req EXCEPT ![r].pc = "flushed"] /\ x.pc = "merged"
          /\ x.inserts # Exists(x.user)
      BY <1>8, <3>1 DEF Flush, FlushFails
    <3> QED BY <1>1, <3>2
  <2>2. x.op \in Applying \cup {"edit"}
    BY <1>1, <2>1 DEF Consistent
  <2>3. x.ent.status # "deleted" /\ (x.inserts => x.diff = Columns)
    BY <2>1, <2>2 DEF Rooted
  <2> HIDE DEF y
  <2>4. Written(y).status = IF "status" \in x.diff THEN x.ent.status ELSE account[x.user].status
    BY <2>1 DEF Written
  <2>5. x.inserts \in BOOLEAN /\ (~x.inserts => Exists(x.user))
    BY <1>1, <2>1, Fields DEF Exists
  <2>6. Written(y).status # "deleted"
    <3>1. CASE x.inserts
      BY <2>3, <2>4, <3>1 DEF Columns
    <3>2. CASE ~x.inserts
      BY <2>3, <2>4, <2>5, <3>2 DEF Exists
    <3> QED BY <3>1, <3>2
  <2> QED BY <2>1, <2>2, <2>3, <2>6 DEF Rooted, Applying, y
<1>9. Invalidate(r) => y.op \in Issuing /\ y.pc = "sweep"
  BY <1>1 DEF Invalidate, Consistent
<1>10. CASE \E t \in Tokens : SweepRow(r, t)
  BY <1>4, <1>10
<1> QED BY <1>2, <1>3, <1>5, <1>6, <1>7, <1>8, <1>9, <1>10 DEF Work

\* A commit makes an account vanish only when it deletes it.
LEMMA CommitKeeps ==
  ASSUME LinksInv, NEW r \in Requests, Rooted(req[r]), Commit(r), NEW u \in Users,
         Exists(u)
  PROVE  \/ account'[u].status # "deleted"
         \/ req[r].op = "delete" /\ req[r].user = u /\ req[r].todo = {}
<1>1. Consistent(req[r]) /\ Complete(req[r])
  BY Own DEF Commit
<1>2. CASE account'[u] = account[u]
  BY <1>2 DEF Exists
<1>3. CASE Holds(req[r], u) /\ req[r].pc = "flushed" /\ account'[u] = Written(req[r])
  BY <1>3 DEF Rooted
<1>4. CASE Holds(req[r], u) /\ req[r].pc # "flushed"
  <2>1. req[r].op = "delete" /\ req[r].user = u
    BY <1>4 DEF Holds
  <2>2. req[r].todo = {}
    BY <1>1, <1>4, <2>1 DEF Complete, Consistent, Issuing
  <2> QED BY <2>1, <2>2
<1>5. CASE Holds(req[r], u) /\ req[r].pc = "flushed" /\ account'[u] = Gone
  <2>1. req[r].user = u /\ account' = [v \in Users |->
          IF v # req[r].user THEN account[v]
          ELSE IF req[r].pc = "flushed" THEN Written(req[r])
          ELSE IF req[r].op = "delete" THEN Gone
          ELSE account[v]]
    BY <1>5 DEF Commit, Holds
  <2> QED BY <1>5, <2>1 DEF Rooted
<1> QED BY <1>2, <1>3, <1>4, <1>5, CommitAccount

LEMMA CommitOwners ==
  ASSUME LinksInv, OwnersInv, NEW r \in Requests, Commit(r)
  PROVE  OwnersInv'
<1> DEFINE x == req[r]
<1>1. x \in Transaction /\ Consistent(x) /\ Complete(x) /\ Rooted(x)
  BY Own DEF Commit, OwnersInv
<1>2. \A q \in Requests : req'[q] = IF q = r THEN Idle ELSE req[q]
  BY Own DEF Commit, Finish
<1>3. x.pc = "inserted" => x.op \in Issuing /\ x.user \in Users /\ Exists(x.user)
  BY <1>1 DEF Consistent, Rooted, Issuing
<1>4. ASSUME NEW t \in Tokens, link'[t].state \in {"pending", "used"}
      PROVE  link'[t].user \in Users /\ account'[link'[t].user].status # "deleted"
  <2>1. CASE link'[t] = link[t] /\ t \notin x.locked
    <3>1. link[t].user \in Users /\ Exists(link[t].user) /\ Stored(t)
      BY <1>4, <2>1 DEF OwnersInv, NoOrphanLink, Stored
    <3>2. ~(x.op = "delete" /\ x.user = link[t].user /\ x.todo = {})
      BY <1>1, <2>1, <3>1 DEF Rooted
    <3> QED BY <1>1, <2>1, <3>1, <3>2, CommitKeeps
  <2>2. CASE x.pc = "inserted" /\ link'[t].user = x.user
    BY <1>1, <1>3, <2>2, CommitKeeps DEF Issuing
  <2>3. CASE /\ t \in x.locked /\ x.op \notin Purging /\ link'[t].user = link[t].user
    <3>1. Stored(t)
      BY <1>1, <2>3 DEF Consistent
    <3>2. link[t].user \in Users /\ Exists(link[t].user)
      BY <3>1 DEF OwnersInv, NoOrphanLink
    <3> QED BY <1>1, <2>3, <3>2, CommitKeeps DEF Purging
  <2> QED BY <1>4, <2>1, <2>2, <2>3, CommitOutcome
<1>5. ASSUME NEW q \in Requests PROVE Rooted(req[q])'
  <2>1. CASE q = r
    <3>1. req'[q] = Idle
      BY <1>2, <2>1
    <3> QED BY <3>1 DEF Rooted, Idle, Applying
  <2>2. CASE q # r
    <3> DEFINE y == req[q]
    <3>1. req'[q] = y /\ y \in Transaction /\ Consistent(y) /\ Rooted(y)
      BY <1>2, <2>2, Own DEF OwnersInv
    <3>2. KeptApart(x, y) /\ KeptApart(y, x)
      BY DEF OwnersInv
    <3>3. ASSUME y.op = "delete", NEW t \in Tokens, Stored(t)', link'[t].user = y.user
          PROVE  t \in y.todo \cup y.locked
      <4>1. CASE link'[t] = link[t]
        BY <3>1, <3>3, <4>1 DEF Rooted, Stored
      <4>2. CASE x.pc = "inserted" /\ link'[t].user = x.user
        BY <3>2, <3>3, <4>2 DEF KeptApart
      <4>3. CASE t \in x.locked /\ link'[t].user = link[t].user
        BY <1>1, <3>1, <3>3, <4>3 DEF Rooted, Consistent
      <4> QED BY <3>3, <4>1, <4>2, <4>3, CommitOutcome DEF Stored
    <3>4. ASSUME y.pc = "inserted" PROVE account'[y.user].status # "deleted"
      <4>1. y.user \in Users /\ Exists(y.user)
        BY <3>1, <3>4 DEF Consistent, Rooted, Issuing
      <4> QED BY <1>1, <3>2, <3>4, <4>1, CommitKeeps DEF KeptApart
    <3>5. ASSUME y.pc = "flushed" PROVE Written(y)' = Written(y)
      <4>1. y.user \in Users
        BY <3>1, <3>5 DEF Consistent, Applying
      <4>2. ~Holds(x, y.user)
        BY <2>2, <3>5, <4>1, Own DEF Compatible, Holds
      <4>3. account'[y.user] = account[y.user]
        BY <4>1, <4>2, CommitAccount
      <4> QED BY <3>1, <4>3 DEF Written
    <3>6. /\ y.op \in Applying \cup {"edit"} => y.ent.status # "deleted"
          /\ y.pc \in {"merged", "flushed"} /\ y.inserts => y.diff = Columns
          /\ y.pc = "flushed" => Written(req[q])'.status # "deleted"
      BY <3>1, <3>5 DEF Rooted
    <3> QED BY <3>1, <3>3, <3>4, <3>6 DEF Rooted, Exists
  <2> QED BY <2>1, <2>2
<1>6. ASSUME NEW p \in Requests, NEW q \in Requests PROVE KeptApart(req[p], req[q])'
  BY <1>2 DEF KeptApart, OwnersInv, Idle
<1> QED BY <1>4, <1>5, <1>6 DEF OwnersInv, NoOrphanLink, Stored, Exists

\* Before its commit a request only disturbs its own slot: an account with a new
\* link cannot begin to be deleted, one that is being deleted gets no link.
LEMMA QuietOwners ==
  ASSUME LinksInv, OwnersInv, NEW r \in Requests,
         Start(r) \/ Work(r) \/ Rollback(r) \/ AbortDeadlock(r), ~Commit(r)
  PROVE  OwnersInv'
<1>1. /\ account' = account /\ link' = link
      /\ \A q \in Requests \ {r} : req'[q] = req[q]
  BY QuietStep
<1>2. /\ Rooted(req'[r])
      /\ req'[r].op = "delete" => \A q \in Requests :
           ~(req[q].pc = "inserted" /\ req[q].user = req'[r].user) \/ q = r
      /\ req'[r].pc = "inserted" => \A q \in Requests :
           ~(req[q].op = "delete" /\ req[q].user = req'[r].user) \/ q = r
      /\ ~(req'[r].op = "delete" /\ req'[r].pc = "inserted")
  <2>1. CASE Start(r)
    BY <2>1, StartRooted
  <2>2. CASE Work(r)
    <3>1. Rooted(req[r])
      BY DEF OwnersInv
    <3>2. /\ Rooted(req'[r])
          /\ req'[r].op = "delete" => req[r].op = "delete" /\ req'[r].user = req[r].user
          /\ req'[r].pc = "inserted" =>
               \A q \in Requests : ~(req[q].op = "delete" /\ req[q].user = req'[r].user)
      BY <2>2, <3>1, WorkRooted
    <3> QED BY <3>2 DEF OwnersInv, KeptApart
  <2>3. CASE Rollback(r) \/ AbortDeadlock(r)
    BY <2>3, FinishIdle DEF Rollback, AbortDeadlock, Idle, Rooted, Applying
  <2> QED BY <2>1, <2>2, <2>3
<1>3. ASSUME NEW q \in Requests PROVE Rooted(req[q])'
  <2>1. Rooted(req'[q])
    BY <1>1, <1>2 DEF OwnersInv
  <2> QED BY <1>1, <2>1 DEF Rooted, Stored, Exists, Written
<1>4. ASSUME NEW p \in Requests, NEW q \in Requests PROVE KeptApart(req'[p], req'[q])
  BY <1>1, <1>2 DEF OwnersInv, KeptApart
<1> QED BY <1>1, <1>3, <1>4 DEF OwnersInv, NoOrphanLink, Stored, Exists, KeptApart

LEMMA OwnersStep == LinksInv /\ OwnersInv /\ [Next]_vars => OwnersInv'
<1> SUFFICES ASSUME LinksInv, OwnersInv, [Next]_vars PROVE OwnersInv'
  OBVIOUS
<1>1. ASSUME NEW r \in Requests, Start(r) \/ Work(r) \/ Rollback(r) \/ AbortDeadlock(r)
      PROVE  OwnersInv'
  BY <1>1, QuietOwners, CommitOwners
<1>2. ASSUME account' = account, req' = req,
             \A t \in Tokens : link'[t].state = link[t].state /\ link'[t].user = link[t].user
      PROVE  OwnersInv'
  <2>1. \A r \in Requests : Rooted(req[r])'
    BY <1>2 DEF OwnersInv, Rooted, Stored, Exists, Written
  <2> QED BY <1>2, <2>1 DEF OwnersInv, NoOrphanLink, Stored, Exists, KeptApart
<1>3. ASSUME NEW t \in Tokens, Expire(t) PROVE OwnersInv'
  <2>1. link \in [Tokens -> Link] /\ link' = [link EXCEPT ![t].expired = TRUE]
    BY <1>3 DEF LinksInv, TypeOK, Expire
  <2>2. \A s \in Tokens : link'[s].state = link[s].state /\ link'[s].user = link[s].user
    BY <2>1 DEF Link
  <2> QED BY <1>2, <1>3, <2>2 DEF Expire
<1> QED BY <1>1, <1>2, <1>3 DEF Next, vars

\* No link outlives its account in any reachable state: the account cannot be
\* deleted between the insertion of a link and its commit, and its deletion misses
\* no link.
THEOREM LinksHaveAccounts == Spec => []NoOrphanLink
<1>1. Init => OwnersInv
  BY DEF Init, OwnersInv, NoOrphanLink, Stored, Unissued, Rooted, KeptApart, Idle, Applying
<1>2. LinksInv /\ OwnersInv /\ [Next]_vars => OwnersInv'
  BY OwnersStep
<1>3. OwnersInv => NoOrphanLink
  BY DEF OwnersInv
<1> QED BY <1>1, <1>2, <1>3, LinksConsistent, PTL DEF Spec

-----------------------------------------------------------------------------
(* Passwords and the links that set them *)

\* Only what applies a link or edits an account carries a copy to save.
LEMMA CarriesNothing ==
  ASSUME NEW x, x = Idle \/ x.op \in Issuing \cup Purging
  PROVE  Copied(x) /\ \A u, p : ~Carries(x, u, p)
BY DEF Idle, Copied, Carries, Issuing, Applying, Purging

\* A copy that is read carries the password of the account, or the link that is
\* about to replace it.
LEMMA StartCopies ==
  ASSUME LinksInv, PasswordInv, NEW r \in Requests, Start(r)
  PROVE  /\ Copied(req'[r])
         /\ \A u, p : Carries(req'[r], u, p) =>
              \/ account[u].password = p
              \/ p \in Tokens /\ link[p].state = "pending" /\ link[p].user = u
<1>1. ASSUME NEW x, Open(r, x) PROVE req'[r] = x
  BY <1>1 DEF Open, LinksInv, TypeOK
<1>2. ASSUME NEW u \in Users, NEW n \in Tokens,
             \/ StartRequestReset(r, u, n)
             \/ StartResendInvite(r, u, n)
             \/ \E e \in Emails : StartRequestEmail(r, u, e, n)
      PROVE  req'[r].op \in Issuing
  <2>1. CASE StartRequestReset(r, u, n)
    BY <1>1, <2>1 DEF StartRequestReset, Idle, Issuing
  <2>2. CASE StartResendInvite(r, u, n)
    BY ZenonT(60), <1>1, <2>2 DEF StartResendInvite, Idle, Issuing
  <2>3. CASE \E e \in Emails : StartRequestEmail(r, u, e, n)
    BY <1>1, <2>3 DEF StartRequestEmail, Idle, Issuing
  <2> QED BY <1>2, <2>1, <2>2, <2>3
<1>3. ASSUME NEW t \in Tokens, StartReset(r, t)
      PROVE  /\ req'[r].op = "reset" /\ req'[r].user = link[t].user /\ req'[r].tok = t
             /\ req'[r].ent.password = t /\ link[t].state = "pending"
  <2>1. link[t].user \in Users /\ link[t].state = "pending"
    BY <1>3 DEF LinksInv, Addressed, StartReset, Usable
  <2>2. account[link[t].user] \in Account
    BY <2>1 DEF LinksInv, TypeOK
  <2>3. /\ req'[r].op = "reset" /\ req'[r].user = link[t].user /\ req'[r].tok = t
        /\ req'[r].ent = [account[link[t].user] EXCEPT !.password = t]
    <3> DEFINE x == [Idle EXCEPT !.op = "reset", !.pc = "claim", !.user = link[t].user,
                !.tok = t, !.ent = [account[link[t].user] EXCEPT !.password = t]]
    <3>1. req'[r] = x
      BY <1>1, <1>3 DEF StartReset
    <3>2. /\ x.op = "reset" /\ x.user = link[t].user /\ x.tok = t
          /\ x.ent = [account[link[t].user] EXCEPT !.password = t]
      BY DEF Idle
    <3> QED BY <3>1, <3>2
  <2> QED BY <2>1, <2>2, <2>3 DEF Account
<1>4. ASSUME NEW t \in Tokens, StartConfirm(r, t)
      PROVE  /\ req'[r].op = "confirm" /\ req'[r].user = link[t].user
             /\ link[t].user \in Users
             /\ req'[r].ent.password = account[link[t].user].password
  <2>1. link[t].user \in Users
    BY <1>4 DEF LinksInv, Addressed, StartConfirm, Usable
  <2>2. account[link[t].user] \in Account
    BY <2>1 DEF LinksInv, TypeOK
  <2>3. /\ req'[r].op = "confirm" /\ req'[r].user = link[t].user
        /\ req'[r].ent = [account[link[t].user] EXCEPT !.email = link[t].email]
    BY ZenonT(60), <1>1, <1>4 DEF StartConfirm, Idle
  <2> QED BY <2>1, <2>2, <2>3 DEF Account
<1>5. ASSUME NEW u \in Users, NEW s \in {"active", "inactive"}, StartEdit(r, u, s)
      PROVE  /\ req'[r].op = "edit" /\ req'[r].user = u
             /\ req'[r].ent.password = account[u].password
  <2>1. account[u] \in Account
    BY DEF LinksInv, TypeOK
  <2>2. /\ req'[r].op = "edit" /\ req'[r].user = u
        /\ req'[r].ent = [account[u] EXCEPT !.status = s]
    BY ZenonT(60), <1>1, <1>5 DEF StartEdit, Idle
  <2> QED BY <2>1, <2>2 DEF Account
<1>6. ASSUME NEW u \in Users, StartDelete(r, u) PROVE req'[r].op \in Purging
  BY <1>1, <1>6 DEF StartDelete, Idle, Purging
<1>7. StartCleanup(r) => req'[r].op \in Purging
  BY <1>1 DEF StartCleanup, Idle, Purging
<1>8. Askers \subseteq Users
  OBVIOUS
<1>9. \A u \in Users : account[u].password \in Tokens => uses[account[u].password] = 1
  BY DEF PasswordInv
<1>10. CASE req'[r].op \in Issuing \cup Purging
  BY <1>10, CarriesNothing
<1>11. CASE \E t \in Tokens : StartReset(r, t)
  BY <1>3, <1>11 DEF Copied, Carries
<1>12. CASE \E t \in Tokens : StartConfirm(r, t)
  BY <1>4, <1>9, <1>12 DEF Copied, Carries
<1>13. CASE \E u \in Users, s \in {"active", "inactive"} : StartEdit(r, u, s)
  BY <1>5, <1>9, <1>13 DEF Copied, Carries
<1> QED BY <1>2, <1>6, <1>7, <1>8, <1>10, <1>11, <1>12, <1>13 DEF Start

\* The copy is not read again before it is saved.
LEMMA WorkCopies ==
  ASSUME LinksInv, NEW r \in Requests, Work(r), ~Commit(r)
  PROVE  \/ req'[r] = Idle
         \/ /\ req'[r].op = req[r].op /\ req'[r].user = req[r].user
            /\ req'[r].tok = req[r].tok /\ req'[r].ent = req[r].ent
<1>1. req[r] \in Transaction /\ req \in [Requests -> Transaction]
  BY Own
<1>2. CASE Finish(r)
  BY <1>2, FinishIdle
<1>3. CASE InsertLink(r) /\ ~Finish(r)
  <2>1. req' = [req EXCEPT ![r].pc = "inserted"]
    BY <1>3 DEF InsertLink
  <2> QED BY <1>1, <2>1
<1>4. CASE Claim(r) /\ ~Finish(r)
  <2>1. req' = [req EXCEPT ![r].pc = "save", ![r].locked = {req[r].tok}]
    BY <1>4 DEF Claim
  <2> QED BY <1>1, <2>1
<1>5. CASE Flush(r) /\ ~Finish(r)
  <2>1. req' = [req EXCEPT ![r].pc = "flushed"]
    BY <1>5 DEF Flush
  <2> QED BY <1>1, <2>1
<1>6. CASE Invalidate(r)
  BY <1>1, <1>6 DEF Invalidate
<1>7. CASE Merge(r)
  BY <1>1, <1>7 DEF Merge
<1>8. ASSUME NEW t \in Tokens, SweepRow(r, t)
      PROVE  /\ req'[r].op = req[r].op /\ req'[r].user = req[r].user
             /\ req'[r].tok = req[r].tok /\ req'[r].ent = req[r].ent
  BY <1>1, <1>8 DEF SweepRow
<1> QED BY <1>2, <1>3, <1>4, <1>5, <1>6, <1>7, <1>8 DEF Work

\* Until a commit, a password only comes to be borne by the account its link is for.
LEMMA QuietPasswords ==
  ASSUME LinksInv, PasswordInv, NEW r \in Requests,
         Start(r) \/ Work(r) \/ Rollback(r) \/ AbortDeadlock(r), ~Commit(r)
  PROVE  PasswordInv'
<1>1. /\ account' = account /\ link' = link /\ uses' = uses
      /\ \A q \in Requests \ {r} : req'[q] = req[q]
  BY QuietStep
<1>2. /\ Copied(req'[r])
      /\ \A u \in Users, p \in Tokens : Carries(req'[r], u, p) =>
           Bears(u, p) \/ (link[p].state = "pending" /\ link[p].user = u)
  <2>1. CASE Start(r)
    BY ZenonT(60), <2>1, StartCopies DEF Bears
  <2>2. CASE req'[r] = Idle
    BY <2>2, CarriesNothing
  <2>3. CASE /\ req'[r].op = req[r].op /\ req'[r].user = req[r].user
             /\ req'[r].tok = req[r].tok /\ req'[r].ent = req[r].ent
    <3>1. Copied(req[r])
      BY DEF PasswordInv
    <3> QED BY <2>3, <3>1 DEF Copied, Carries, Bears
  <2> QED BY <2>1, <2>2, <2>3, WorkCopies, FinishIdle DEF Rollback, AbortDeadlock
<1>3. ASSUME NEW q \in Requests PROVE Copied(req[q])'
  <2>1. Copied(req'[q])
    BY <1>1, <1>2 DEF PasswordInv
  <2> QED BY <1>1, <2>1 DEF Copied
<1>4. ASSUME NEW u \in Users, NEW p \in Tokens, Bears(u, p)'
      PROVE  Bears(u, p) \/ (link[p].state = "pending" /\ link[p].user = u)
  <2>1. CASE account[u].password = p
    BY <2>1 DEF Bears
  <2>2. ASSUME NEW q \in Requests, Carries(req'[q], u, p)
        PROVE  Bears(u, p) \/ (link[p].state = "pending" /\ link[p].user = u)
    BY <1>1, <1>2, <2>2 DEF Bears
  <2> QED BY <1>1, <1>4, <2>1, <2>2 DEF Bears, Carries
<1>5. ASSUME NEW u \in Users, NEW p \in Tokens, Bears(u, p)
      PROVE  /\ link[p].state # "free"
             /\ link[p].state = "pending" => u = link[p].user
             /\ \A v \in Users : Bears(v, p) => v = u
  BY <1>5 DEF PasswordInv
<1>6. ASSUME NEW u \in Users, NEW p \in Tokens, Bears(u, p)'
      PROVE  /\ link[p].state # "free"
             /\ link[p].state = "pending" => u = link[p].user
             /\ \A v \in Users : Bears(v, p)' => v = u
  BY <1>4, <1>5, <1>6
<1>7. \A u \in Users : account'[u].password \in Tokens => uses'[account'[u].password] = 1
  BY <1>1 DEF PasswordInv
<1> QED BY <1>1, <1>3, <1>6, <1>7 DEF PasswordInv

\* A commit spends the link it applies together with the password it writes.
LEMMA CommitPasswords ==
  ASSUME LinksInv, PasswordInv, NEW r \in Requests, Commit(r)
  PROVE  PasswordInv'
<1> DEFINE x == req[r]
<1>1. x \in Transaction /\ Consistent(x) /\ Complete(x) /\ Copied(x)
  BY Own DEF Commit, PasswordInv
<1>2. \A q \in Requests : req'[q] = IF q = r THEN Idle ELSE req[q]
  BY Own DEF Commit, Finish
<1>3. ASSUME NEW p \in Tokens, uses[p] = 1 PROVE uses'[p] = 1
  <2>1. link[p].state \in {"used", "deleted"}
    BY <1>3 DEF LinksInv, Spent
  <2> QED BY <1>3, <2>1, CommitLink
<1>4. x.op = "reset" => uses'[x.tok] = 1
  <2> SUFFICES ASSUME x.op = "reset" PROVE uses'[x.tok] = 1
    OBVIOUS
  <2>1. x.tok \in Tokens /\ x.pc = "flushed"
    BY <1>1 DEF Consistent, Complete, Applying, Issuing, Purging
  <2>2. x.tok \in x.locked
    BY <1>1, <2>1 DEF Consistent, Applying
  <2>3. link[x.tok].state = "pending"
    BY <1>1, <2>2 DEF Consistent, Purging
  <2>4. uses[x.tok] = 0
    BY <2>1, <2>3 DEF LinksInv, TypeOK, Spent
  <2>5. uses' = [t \in Tokens |->
          IF x.op \in Applying /\ t = x.tok THEN uses[t] + 1 ELSE uses[t]]
    BY DEF Commit
  <2> QED BY <2>1, <2>4, <2>5 DEF Applying
<1>5. ASSUME NEW u \in Users, NEW p \in Tokens, account'[u].password = p
      PROVE  account[u].password = p \/ Carries(x, u, p)
  <2>1. CASE account'[u] = Gone
    BY <1>5, <2>1 DEF Gone
  <2>2. CASE x.pc = "flushed" /\ x.user = u /\ account'[u] = Written(x)
    <3>1. x.op \in Applying \cup {"edit"}
      BY <1>1, <2>2 DEF Consistent
    <3>2. Written(x).password \in {x.ent.password, account[u].password}
      BY <2>2 DEF Written
    <3> QED BY <1>5, <2>2, <3>1, <3>2 DEF Carries
  <2> QED BY <1>5, <2>1, <2>2, CommitAccount DEF Holds
<1>6. ASSUME NEW u \in Users, account'[u].password \in Tokens
      PROVE  uses'[account'[u].password] = 1
  <2> DEFINE p == account'[u].password
  <2>1. CASE account[u].password = p
    BY <1>3, <1>6, <2>1 DEF PasswordInv
  <2>2. CASE Carries(x, u, p)
    BY <1>1, <1>3, <1>4, <1>6, <2>2 DEF Carries, Copied, Applying
  <2> QED BY <1>5, <1>6, <2>1, <2>2
<1>7. ASSUME NEW q \in Requests PROVE Copied(req[q])'
  <2>1. CASE q = r
    BY <1>2, <2>1 DEF Copied, Idle
  <2>2. CASE q # r
    <3>1. req'[q] = req[q] /\ Copied(req[q])
      BY <1>2, <2>2 DEF PasswordInv
    <3> QED BY <1>3, <3>1 DEF Copied
  <2> QED BY <2>1, <2>2
<1>8. ASSUME NEW u \in Users, NEW p \in Tokens, Bears(u, p)' PROVE Bears(u, p)
  <2>1. ASSUME NEW q \in Requests, Carries(req'[q], u, p) PROVE Bears(u, p)
    <3>1. q # r
      BY <1>2, <2>1, CarriesNothing
    <3> QED BY <1>2, <2>1, <3>1 DEF Bears
  <2>2. account'[u].password = p => Bears(u, p)
    BY <1>5 DEF Bears
  <2> QED BY <1>8, <2>1, <2>2 DEF Bears, Carries
<1>9. ASSUME NEW u \in Users, NEW p \in Tokens, Bears(u, p)'
      PROVE  /\ link'[p].state # "free"
             /\ link'[p].state = "pending" => u = link'[p].user
             /\ \A v \in Users : Bears(v, p)' => v = u
  <2>1. /\ link[p].state # "free" /\ (link[p].state = "pending" => u = link[p].user)
        /\ \A v \in Users : Bears(v, p) => v = u
    BY <1>8, <1>9 DEF PasswordInv
  <2>2. link'[p].state # "free" /\ (link'[p].state = "pending" => u = link'[p].user)
    BY <2>1, CommitOutcome
  <2> QED BY <1>8, <2>1, <2>2
<1> QED BY <1>6, <1>7, <1>9 DEF PasswordInv

LEMMA PasswordStep == LinksInv /\ PasswordInv /\ [Next]_vars => PasswordInv'
<1> SUFFICES ASSUME LinksInv, PasswordInv, [Next]_vars PROVE PasswordInv'
  OBVIOUS
<1>1. ASSUME NEW r \in Requests, Start(r) \/ Work(r) \/ Rollback(r) \/ AbortDeadlock(r)
      PROVE  PasswordInv'
  BY <1>1, QuietPasswords, CommitPasswords
<1>2. ASSUME account' = account, uses' = uses, req' = req,
             \A t \in Tokens : link'[t].state = link[t].state /\ link'[t].user = link[t].user
      PROVE  PasswordInv'
  BY <1>2 DEF PasswordInv, Copied, Bears, Carries
<1>3. ASSUME NEW t \in Tokens, Expire(t) PROVE PasswordInv'
  <2>1. link \in [Tokens -> Link] /\ link' = [link EXCEPT ![t].expired = TRUE]
    BY <1>3 DEF LinksInv, TypeOK, Expire
  <2>2. \A s \in Tokens : link'[s].state = link[s].state /\ link'[s].user = link[s].user
    BY <2>1 DEF Link
  <2> QED BY <1>2, <1>3, <2>2 DEF Expire
<1> QED BY <1>1, <1>2, <1>3 DEF Next, vars

\* However many requests save stale copies of an account, its password was set by
\* a link that was used, once, and that no other account owes its password to.
THEOREM PasswordsHaveUsedLinks == Spec => []PasswordsFromUsedLinks
<1>1. Init => PasswordInv
  <2> SUFFICES ASSUME Init PROVE PasswordInv
    OBVIOUS
  <2>1. \A u \in Users : account[u].password \notin Tokens
    BY DEF Init
  <2>2. \A r \in Requests : req[r] = Idle
    BY DEF Init
  <2>3. \A u \in Users, p \in Tokens : ~Bears(u, p)
    BY <2>1, <2>2, CarriesNothing DEF Bears
  <2> QED BY <2>1, <2>2, <2>3, CarriesNothing DEF PasswordInv
<1>2. LinksInv /\ PasswordInv /\ [Next]_vars => PasswordInv'
  BY PasswordStep
<1>3. PasswordInv => PasswordsFromUsedLinks
  BY DEF PasswordInv, PasswordsFromUsedLinks, Bears
<1> QED BY <1>1, <1>2, <1>3, LinksConsistent, PTL DEF Spec
=============================================================================
