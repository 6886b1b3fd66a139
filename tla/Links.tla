------------------------------- MODULE Links -------------------------------
(***************************************************************************)
(* Accounts and the links that are e-mailed for them: invitations to set a *)
(* first password, password resets, confirmations of a new address. The    *)
(* tables password_reset_tokens and email_change_tokens work alike and are *)
(* one here; the purpose tells their rows apart.                           *)
(*                                                                         *)
(* Every request runs in one READ COMMITTED transaction (get_db). A link   *)
(* is claimed by a conditional UPDATE; the account is then saved whole, by *)
(* session.merge, from the copy that was read before the claim. Every      *)
(* other save of an account (preferences, avatar, tour, library selection, *)
(* deactivation) goes through the same merge of a copy.                    *)
(***************************************************************************)
EXTENDS Integers, FiniteSets

CONSTANTS
  Requests,      \* transactions that can be open at the same time
  Users,
  Tokens,        \* link tokens that can be drawn; bounds the model
  Emails,
  FirstEmail,    \* the address each account was created with
  Children,      \* child accounts; the others registered or were invited
  Askers,        \* accounts that links are issued for; bounds the instance
  Ops,           \* operations of the instance
  None

AllOps ==
  {"request_reset", "resend_invite", "request_email", "reset", "confirm",
   "edit", "delete", "cleanup"}

Issuing == {"request_reset", "resend_invite", "request_email"}
Applying == {"reset", "confirm"}
Purging == {"delete", "cleanup"}

ASSUME LinksAssumption ==
  /\ None \notin Tokens
  /\ None \notin Users
  /\ {"unset", "first"} \cap Tokens = {}
  /\ Emails # {}
  /\ FirstEmail \in [Users -> Emails]
  /\ \A u, v \in Users : FirstEmail[u] = FirstEmail[v] => u = v
  /\ Children \subseteq Users
  /\ Askers \subseteq Users
  /\ Ops \subseteq AllOps

VARIABLES
  account,       \* committed users rows
  link,          \* committed rows of the two token tables
  uses,          \* (history) committed effects of each link
  req            \* the open transaction of each request slot

vars == <<account, link, uses, req>>

Columns == {"email", "password", "status"}

\* password: the link it was set by; "first" for the one a child was created with;
\* "unset" while password_set_at is null: the random one of an invited account, and
\* the one chosen at registration too, which does not set password_set_at.
Account ==
  [email : Emails, password : Tokens \cup {"unset", "first"},
   status : {"active", "inactive", "deleted"}]

Link ==
  [state : {"free", "pending", "used", "deleted"}, user : Users \cup {None},
   purpose : {"reset", "invite", "email"}, email : Emails \cup {None},
   expired : BOOLEAN]

Unissued ==
  [state |-> "free", user |-> None, purpose |-> "reset", email |-> None,
   expired |-> FALSE]

Purged == [Unissued EXCEPT !.state = "deleted"]

Steps ==
  {"idle", "invalidate", "sweep", "insert", "inserted", "claim", "save", "merged",
   "flushed"}

\* tok: the link presented; new, email: the link to insert; ent: the edited copy
\* of the account; inserts, diff: what merge decided; todo: links a bulk
\* statement selected and has not reached; locked: links this transaction wrote.
Transaction ==
  [op : AllOps \cup {"none"}, pc : Steps, user : Users \cup {None},
   tok : Tokens \cup {None}, new : Tokens \cup {None}, email : Emails \cup {None},
   ent : Account, inserts : BOOLEAN, diff : SUBSET Columns,
   todo : SUBSET Tokens, locked : SUBSET Tokens]

Gone == [email |-> CHOOSE e \in Emails : TRUE, password |-> "unset", status |-> "deleted"]

Idle ==
  [op |-> "none", pc |-> "idle", user |-> None, tok |-> None, new |-> None,
   email |-> None, ent |-> Gone, inserts |-> FALSE, diff |-> {}, todo |-> {},
   locked |-> {}]

TypeOK ==
  /\ account \in [Users -> Account]
  /\ link \in [Tokens -> Link]
  /\ uses \in [Tokens -> Nat]
  /\ req \in [Requests -> Transaction]

\* Accounts that were created some time ago.
Init ==
  /\ account = [u \in Users |->
       [email |-> FirstEmail[u], status |-> "active",
        password |-> IF u \in Children THEN "first" ELSE "unset"]]
  /\ link = [t \in Tokens |-> Unissued]
  /\ uses = [t \in Tokens |-> 0]
  /\ req = [r \in Requests |-> Idle]

-----------------------------------------------------------------------------
(* Rows, locks and the unique index *)

Exists(u) == account[u].status # "deleted"
Active(u) == account[u].status = "active"
Stored(t) == link[t].state \in {"pending", "used"}

\* Mutated form of LockedByOther: writers do not wait for each other.
NoRowLock(r, t) == FALSE

LockedByOther(r, t) == \E q \in Requests \ {r} : t \in req[q].locked

\* Who has the users row locked: its writer from the flush, its deletion from
\* the start.
Holds(x, u) == x.user = u /\ (x.pc = "flushed" \/ x.op = "delete")

\* The account as the UPDATE or INSERT of a flush leaves it.
Written(x) ==
  LET old == account[x.user]
      col(c) == IF c \in x.diff THEN x.ent[c] ELSE old[c]
  IN [email |-> col("email"), password |-> col("password"), status |-> col("status")]

\* uq_users_email_active: an active account keeps its address to itself.
Clash(m, n) == m.status = "active" /\ n.status = "active" /\ m.email = n.email

\* A conflicting row of another account is, or is about to be, committed.
Taken(x) == \E v \in Users \ {x.user} : Clash(Written(x), account[v])

\* Another transaction is writing a row that conflicts now or will at its commit.
ContendedBy(x, y) ==
  /\ y.user # x.user
  /\ Holds(y, y.user)
  /\ \/ Clash(Written(x), account[y.user])
     \/ y.pc = "flushed" /\ Clash(Written(x), Written(y))

InsertsNext(x) ==
  \/ x.pc = "insert"
  \/ x.pc = "sweep" /\ x.todo = {} /\ x.op \in Issuing

WaitsFor(r, q) ==
  LET x == req[r]
      y == req[q]
  IN /\ q # r
     /\ \/ x.pc = "claim" /\ x.tok \in y.locked
        \/ x.pc = "sweep" /\ x.todo \cap y.locked # {}
        \/ InsertsNext(x) /\ y.op = "delete" /\ y.user = x.user
        \/ x.pc = "merged" /\ (Holds(y, x.user) \/ ContendedBy(x, y))

Circle(S) == \A p \in S : \E q \in S : WaitsFor(p, q)

Deadlocked(r) == \E S \in SUBSET Requests : r \in S /\ Circle(S)

Finish(r) == req' = [req EXCEPT ![r] = Idle]

Open(r, x) ==
  /\ x.op \in Ops
  /\ req[r].pc = "idle"
  /\ req' = [req EXCEPT ![r] = x]
  /\ UNCHANGED <<account, link, uses>>

-----------------------------------------------------------------------------
(* Issuing a link *)

\* find_by_email fails when two rows, active or not, have the address.
Findable(e) == \A u, v \in Users :
  Exists(u) /\ Exists(v) /\ account[u].email = e /\ account[v].email = e => u = v

EmailFree(u, e) == \A v \in Users \ {u} : ~(Active(v) /\ account[v].email = e)

Unused(n) == link[n].state = "free" /\ \A q \in Requests : req[q].new # n

StartRequestReset(r, u, n) ==
  /\ Active(u)
  /\ Findable(account[u].email)
  /\ Unused(n)
  /\ Open(r, [Idle EXCEPT !.op = "request_reset", !.pc = "insert", !.user = u, !.new = n])

StartResendInvite(r, u, n) ==
  /\ Exists(u)
  /\ account[u].password = "unset"
  /\ Unused(n)
  /\ Open(r, [Idle EXCEPT !.op = "resend_invite", !.pc = "invalidate", !.user = u,
                          !.new = n])

StartRequestEmail(r, u, e, n) ==
  /\ Exists(u)
  /\ account[u].email # e
  /\ Findable(e)
  /\ EmailFree(u, e)
  /\ Unused(n)
  /\ Open(r, [Idle EXCEPT !.op = "request_email", !.pc = "invalidate", !.user = u,
                          !.new = n, !.email = e])

Purpose(op) ==
  CASE op = "resend_invite" -> "invite" [] op = "request_email" -> "email" [] OTHER -> "reset"

\* invalidate_pending selects from what is committed when it begins.
Invalidate(r) ==
  /\ req[r].pc = "invalidate"
  /\ req' = [req EXCEPT ![r].pc = "sweep",
       ![r].todo = {t \in Tokens : /\ link[t].state = "pending"
                                   /\ link[t].user = req[r].user
                                   /\ link[t].purpose = Purpose(req[r].op)}]
  /\ UNCHANGED <<account, link, uses>>

\* The foreign key waits for a deletion in progress and fails after it.
InsertLink(r) ==
  /\ InsertsNext(req[r])
  /\ \A q \in Requests : ~(req[q].op = "delete" /\ req[q].user = req[r].user)
  /\ \/ Exists(req[r].user) /\ req' = [req EXCEPT ![r].pc = "inserted"]
     \/ ~Exists(req[r].user) /\ Finish(r)
  /\ UNCHANGED <<account, link, uses>>

-----------------------------------------------------------------------------
(* Applying a link: find, check, claim; then the account is saved *)

Usable(t) == link[t].state = "pending" /\ ~link[t].expired

StartReset(r, t) ==
  LET u == link[t].user
  IN /\ Usable(t)
     /\ link[t].purpose # "email"
     /\ Active(u)
     /\ Open(r, [Idle EXCEPT !.op = "reset", !.pc = "claim", !.user = u, !.tok = t,
                             !.ent = [account[u] EXCEPT !.password = t]])

\* The account need not be active.
StartConfirm(r, t) ==
  LET u == link[t].user
      e == link[t].email
  IN /\ Usable(t)
     /\ link[t].purpose = "email"
     /\ Exists(u)
     /\ Findable(e)
     /\ EmailFree(u, e)
     /\ Open(r, [Idle EXCEPT !.op = "confirm", !.pc = "claim", !.user = u, !.tok = t,
                             !.ent = [account[u] EXCEPT !.email = e]])

\* Mutated form of Claimable: mark_used() without its condition on used_at.
ClaimUnconditionally(t) == Stored(t)

\* The conditional UPDATE of mark_used ... WHERE used_at IS NULL.
Claimable(t) == link[t].state = "pending"

Claim(r) ==
  /\ req[r].pc = "claim"
  /\ ~LockedByOther(r, req[r].tok)
  /\ \/ /\ Claimable(req[r].tok)
        /\ req' = [req EXCEPT ![r].pc = "save", ![r].locked = {req[r].tok}]
     \/ /\ ~Claimable(req[r].tok)      \* "already been used"
        /\ Finish(r)
  /\ UNCHANGED <<account, link, uses>>

-----------------------------------------------------------------------------
(* Saving an account: read, edit, merge, flush *)

\* Preferences, avatar, tour, selected library are other columns of the copy;
\* PATCH /users/{id} may also set is_active. One account is saved, and nothing before
\* it: the membership that a PATCH locks and saves first, and the further accounts of
\* an import, are in Memberships and Locks.
StartEdit(r, u, s) ==
  /\ Exists(u)
  /\ Open(r, [Idle EXCEPT !.op = "edit", !.pc = "save", !.user = u,
                          !.ent = [account[u] EXCEPT !.status = s]])

\* merge reads the row again; it inserts the copy when the row is gone.
Merge(r) ==
  LET x == req[r]
  IN /\ x.pc = "save"
     /\ req' = [req EXCEPT ![r].pc = "merged",
          ![r].inserts = ~Exists(x.user),
          ![r].diff = {c \in Columns : ~Exists(x.user) \/ x.ent[c] # account[x.user][c]}]
     /\ UNCHANGED <<account, link, uses>>

\* Mutated form of FlushFails: only the use cases check the address.
NoUniqueIndex(x) == x.inserts = Exists(x.user)

\* The row to update vanished, the row to insert appeared, or the address is taken.
FlushFails(x) == x.inserts = Exists(x.user) \/ Taken(x)

Flush(r) ==
  /\ req[r].pc = "merged"
  /\ \A q \in Requests \ {r} :
       ~Holds(req[q], req[r].user) /\ ~ContendedBy(req[r], req[q])
  /\ \/ ~FlushFails(req[r]) /\ req' = [req EXCEPT ![r].pc = "flushed"]
     \/ FlushFails(req[r]) /\ Finish(r)
  /\ UNCHANGED <<account, link, uses>>

-----------------------------------------------------------------------------
(* Statements over a set of links: invalidation, cleanup, cascade *)

StartCleanup(r) ==
  Open(r, [Idle EXCEPT !.op = "cleanup", !.pc = "sweep",
       !.todo = {t \in Tokens : /\ Stored(t)
                                /\ link[t].purpose # "email"
                                /\ link[t].expired \/ link[t].state = "used"}])

\* DELETE FROM users locks the row, then cascades to the committed links.
StartDelete(r, u) ==
  /\ Exists(u)
  /\ \A q \in Requests : ~Holds(req[q], u) /\ ~(req[q].pc = "inserted" /\ req[q].user = u)
  /\ Open(r, [Idle EXCEPT !.op = "delete", !.pc = "sweep", !.user = u,
                          !.todo = {t \in Tokens : Stored(t) /\ link[t].user = u}])

\* Mutated form of StillMatches: every statement skips the links used meanwhile.
SkipsUsed(x, t) == link[t].state = "pending"

\* The WHERE clause, on the row as it is once the lock is granted.
StillMatches(x, t) ==
  IF x.op \in Purging THEN Stored(t) ELSE link[t].state = "pending"

SweepRow(r, t) ==
  /\ req[r].pc = "sweep"
  /\ t \in req[r].todo
  /\ ~LockedByOther(r, t)
  /\ req' = [req EXCEPT ![r].todo = @ \ {t},
       ![r].locked = IF StillMatches(req[r], t) THEN @ \cup {t} ELSE @]
  /\ UNCHANGED <<account, link, uses>>

-----------------------------------------------------------------------------
(* Commit, failures, time *)

Complete(x) ==
  \/ x.pc \in {"inserted", "flushed"}
  \/ x.pc = "sweep" /\ x.todo = {} /\ x.op \in Purging

Commit(r) ==
  LET x == req[r]
  IN /\ Complete(x)
     /\ link' = [t \in Tokens |->
          IF t = x.new
          THEN [state |-> "pending", user |-> x.user, purpose |-> Purpose(x.op),
                email |-> x.email, expired |-> FALSE]
          ELSE IF t \in x.locked
          THEN IF x.op \in Purging THEN Purged ELSE [link[t] EXCEPT !.state = "used"]
          ELSE link[t]]
     /\ account' = [u \in Users |->
          IF u # x.user THEN account[u]
          ELSE IF x.pc = "flushed" THEN Written(x)
          ELSE IF x.op = "delete" THEN Gone
          ELSE account[u]]
     /\ uses' = [t \in Tokens |->
          IF x.op \in Applying /\ t = x.tok THEN uses[t] + 1 ELSE uses[t]]
     /\ Finish(r)

\* An exception after some of the steps (the e-mail cannot be sent, say), a lost
\* connection, a killed process.
Rollback(r) ==
  /\ req[r].pc # "idle"
  /\ Finish(r)
  /\ UNCHANGED <<account, link, uses>>

\* PostgreSQL ends one of the transactions that wait for each other.
AbortDeadlock(r) ==
  /\ Deadlocked(r)
  /\ Finish(r)
  /\ UNCHANGED <<account, link, uses>>

\* The lifetime of a link, 15 minutes to days, may end at any moment.
Expire(t) ==
  /\ link[t].state = "pending" /\ ~link[t].expired
  /\ link' = [link EXCEPT ![t].expired = TRUE]
  /\ UNCHANGED <<account, uses, req>>

Start(r) ==
  \/ \E u \in Askers, n \in Tokens :
       \/ StartRequestReset(r, u, n)
       \/ StartResendInvite(r, u, n)
       \/ \E e \in Emails : StartRequestEmail(r, u, e, n)
  \/ \E t \in Tokens : StartReset(r, t) \/ StartConfirm(r, t)
  \/ \E u \in Users :
       \/ \E s \in {"active", "inactive"} : StartEdit(r, u, s)
       \/ StartDelete(r, u)
  \/ StartCleanup(r)

Work(r) ==
  \/ Invalidate(r)
  \/ \E t \in Tokens : SweepRow(r, t)
  \/ InsertLink(r)
  \/ Claim(r)
  \/ Merge(r)
  \/ Flush(r)
  \/ Commit(r)

Next ==
  \/ \E r \in Requests : Start(r) \/ Work(r) \/ Rollback(r) \/ AbortDeadlock(r)
  \/ \E t \in Tokens : Expire(t)

Spec == Init /\ [][Next]_vars

-----------------------------------------------------------------------------
(* Properties *)

\* However accounts are moved to another address, deactivated, activated and, by the
\* save of a stale copy, inserted again at the same time, no two active ones share an
\* address. The checks of the use cases read without a lock; only the index is exact.
ActiveEmailUnique == \A u, v \in Users : u # v => ~Clash(account[u], account[v])

\* What an open transaction holds. A link that was claimed stays pending until
\* the commit: nobody uses, replaces or purges it in between.
Consistent(x) ==
  /\ x.pc = "idle" => x = Idle
  /\ x.op \notin Issuing => x.new = None
  /\ x.op \in Applying =>
       x.tok \in Tokens /\ x.locked = IF x.pc = "claim" THEN {} ELSE {x.tok}
  /\ x.op = "edit" => x.locked = {}
  /\ x.op \in Issuing => x.new \in Tokens /\ link[x.new].state = "free"
  /\ x.pc \in {"insert", "inserted", "invalidate"} => x.op \in Issuing
  /\ x.pc = "claim" => x.op \in Applying
  /\ x.pc = "sweep" => x.op \in Issuing \cup Purging
  /\ x.pc \in {"save", "merged", "flushed"} => x.op \in Applying \cup {"edit"}
  /\ x.op \notin {"none", "cleanup"} => x.user \in Users
  /\ x.op = "request_email" => x.email \in Emails
  /\ \A t \in x.locked :
       Stored(t) /\ (x.op \notin Purging => link[t].state = "pending")

\* No link is written, no new one drawn, and no account written by two open
\* transactions.
Compatible(x, y) ==
  /\ x.locked \cap y.locked = {}
  /\ x.new # None => x.new # y.new
  /\ \A u \in Users : ~(Holds(x, u) /\ Holds(y, u))

\* What two flushed transactions are about to commit does not clash.
Harmless(x, y) ==
  x.pc = "flushed" /\ y.pc = "flushed" /\ x.user # y.user =>
    ~Clash(Written(x), Written(y))

\* A link that had its effect is spent.
Spent ==
  \A t \in Tokens :
    /\ uses[t] <= 1
    /\ uses[t] = 1 => link[t].state \in {"used", "deleted"}

\* A link that works is somebody's, and a change of address has an address.
Addressed ==
  \A t \in Tokens :
    link[t].state = "pending" =>
      link[t].user \in Users /\ (link[t].purpose = "email" => link[t].email \in Emails)

\* The inductive invariant of links and addresses: row locks make the claim of a
\* link exact, the index makes the address of an active account exact.
LinksInv ==
  /\ TypeOK
  /\ \A r \in Requests : Consistent(req[r])
  /\ \A r, q \in Requests :
       r # q => Compatible(req[r], req[q]) /\ Harmless(req[r], req[q])
  /\ \A r \in Requests : req[r].pc = "flushed" => ~Taken(req[r])
  /\ ActiveEmailUnique
  /\ Addressed
  /\ Spent

\* A link is issued while its account is being deleted, or used; a deletion passes a
\* link whose insertion is not committed: no stored link outlives its account.
NoOrphanLink == \A t \in Tokens : Stored(t) => Exists(link[t].user)

\* However stale the copies that are saved, the password of an account was set by a
\* link that had its one effect, on this account and on no other; a copy never
\* carries the password of a link whose use was rolled back.
PasswordsFromUsedLinks ==
  \A u \in Users :
    account[u].password \in Tokens =>
      /\ uses[account[u].password] = 1
      /\ \A v \in Users : account[v].password = account[u].password => v = u

\* The three kinds of link implement the abstract one-time link: whatever
\* requests do at the same time, a link works once at most, and never after it
\* was replaced or purged.
Abstract == INSTANCE OneTimeLink WITH
  live <- {t \in Tokens : link[t].state = "pending"},
  issued <- {t \in Tokens : link[t].state # "free"}

LinkSpec == Abstract!Spec

\* An active account can be found by its address, whoever had it before ("a
\* disabled account must not permanently squat an address", user_model.py).
EmailFindsAccount == \A u \in Users : Active(u) => Findable(account[u].email)
=============================================================================
