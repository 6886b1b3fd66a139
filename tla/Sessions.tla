------------------------------ MODULE Sessions ------------------------------
(***************************************************************************)
(* Refresh tokens of the auth service under concurrent requests.           *)
(*                                                                         *)
(* Every request runs in one READ COMMITTED transaction (get_db): its      *)
(* writes stay private until Commit..., a row it has written is locked     *)
(* against other writers until then, and an UPDATE or DELETE that waited   *)
(* for such a lock evaluates its WHERE clause again on the new row.        *)
(*                                                                         *)
(* The variables status, owner, expires hold the committed rows of table   *)
(* refresh_tokens; parent and session are history: the token a row was     *)
(* exchanged for, and the login its chain of exchanges began with.         *)
(***************************************************************************)
EXTENDS Integers, FiniteSets

CONSTANTS
  Requests,      \* transactions that can be open at the same time (the pool)
  Users,
  Tokens,        \* refresh-token values that can be drawn; bounds the model
  Libraries,
  Home,          \* users.library_id of each user, never updated by the code
  Lifetime,      \* refresh_token_expire_days, in clock ticks
  MaxTime,       \* bound on the clock
  MaxRollbacks,  \* bound on transactions lost to errors, crashes, disconnects
  None

ASSUME SessionsAssumption ==
  /\ None \notin Tokens
  /\ None \notin Users
  /\ Home \in [Users -> Libraries]
  /\ Lifetime \in Nat
  /\ MaxTime \in Nat
  /\ MaxRollbacks \in Nat

VARIABLES
  now,           \* the application clock
  userState,     \* committed users row: "active", "inactive" or "deleted"
  status,        \* committed row: "free" (never inserted), "live", "revoked", "deleted"
  owner,
  expires,
  parent,
  session,
  req,           \* the open transaction of each request slot
  rollbacks

tokenVars == <<status, owner, expires, parent, session>>
vars == <<now, userState, status, owner, expires, parent, session, req, rollbacks>>

Ops == {"none", "login", "refresh", "logout", "revoke_all", "cleanup", "delete_user"}
Steps == {"idle", "found", "claimed", "checked", "inserted", "sweep"}

\* tok: the token presented; new: the token to insert; user: whose request;
\* at: the clock value the request uses; lib: the library to revoke;
\* todo: rows a bulk statement has selected and not reached yet;
\* locked: token rows this transaction has written;
\* seen: (history) tokens that a bulk statement found live when it began.
Transaction ==
  [op : Ops, pc : Steps, tok : Tokens \cup {None}, new : Tokens \cup {None},
   user : Users \cup {None}, at : Nat, lib : Libraries \cup {None},
   todo : SUBSET Tokens, locked : SUBSET Tokens, seen : SUBSET Tokens]

Idle ==
  [op |-> "none", pc |-> "idle", tok |-> None, new |-> None, user |-> None,
   at |-> 0, lib |-> None, todo |-> {}, locked |-> {}, seen |-> {}]

TypeOK ==
  /\ now \in Nat
  /\ userState \in [Users -> {"active", "inactive", "deleted"}]
  /\ status \in [Tokens -> {"free", "live", "revoked", "deleted"}]
  /\ owner \in [Tokens -> Users \cup {None}]
  /\ expires \in [Tokens -> Nat]
  /\ parent \in [Tokens -> Tokens \cup {None}]
  /\ session \in [Tokens -> Tokens]
  /\ req \in [Requests -> Transaction]
  /\ rollbacks \in Nat

Init ==
  /\ now = 0
  /\ userState = [u \in Users |-> "active"]
  /\ status = [t \in Tokens |-> "free"]
  /\ owner = [t \in Tokens |-> None]
  /\ expires = [t \in Tokens |-> 0]
  /\ parent = [t \in Tokens |-> None]
  /\ session = [t \in Tokens |-> t]
  /\ req = [r \in Requests |-> Idle]
  /\ rollbacks = 0

-----------------------------------------------------------------------------
(* Rows and locks *)

Stored(t) == status[t] \in {"live", "revoked"}

\* Mutated form of LockedByOther: writers do not wait for each other.
NoRowLock(r, t) == FALSE

LockedByOther(r, t) == \E q \in Requests \ {r} : t \in req[q].locked

\* DELETE FROM users holds the row against the foreign-key check of an insert.
DeletesUser(q, u) == req[q].op = "delete_user" /\ req[q].user = u

\* An uncommitted insert holds the users row against its deletion.
SharesUser(q, u) == req[q].pc = "inserted" /\ req[q].user = u

Unused(n) == status[n] = "free" /\ \A q \in Requests : req[q].new # n

\* r waits for a lock that q holds.
WaitsFor(r, q) ==
  /\ q # r
  /\ \/ req[r].pc = "found" /\ req[r].tok \in req[q].locked
     \/ req[r].pc = "checked" /\ DeletesUser(q, req[r].user)
     \/ req[r].pc = "sweep" /\ req[r].todo \cap req[q].locked # {}

Circle(S) == \A p \in S : \E q \in S : WaitsFor(p, q)

Deadlocked(r) == \E S \in SUBSET Requests : r \in S /\ Circle(S)

Finish(r) == req' = [req EXCEPT ![r] = Idle]

-----------------------------------------------------------------------------
(* Login and refresh: find, claim, check the user, insert, commit *)

\* LoginUseCase up to the check that the user is active.
StartLogin(r, u, n) ==
  /\ req[r].pc = "idle"
  /\ userState[u] = "active"
  /\ Unused(n)
  /\ req' = [req EXCEPT ![r] =
       [Idle EXCEPT !.op = "login", !.pc = "checked", !.new = n, !.user = u]]
  /\ UNCHANGED <<now, userState, tokenVars, rollbacks>>

\* RefreshTokenUseCase reads the row without a lock; a revoked row is found too.
StartRefresh(r, t, n) ==
  /\ req[r].pc = "idle"
  /\ Stored(t)
  /\ expires[t] >= now
  /\ Unused(n)
  /\ req' = [req EXCEPT ![r] =
       [Idle EXCEPT !.op = "refresh", !.pc = "found", !.tok = t, !.new = n,
                    !.user = owner[t], !.at = now]]
  /\ UNCHANGED <<now, userState, tokenVars, rollbacks>>

\* Mutated form of Claimable: revoke() without its condition on revoked_at.
ClaimUnconditionally(t) == Stored(t)

\* The conditional UPDATE of revoke() ... WHERE revoked_at IS NULL.
Claimable(t) == status[t] = "live"

\* Mutated form of Claim: the loser keeps its connection instead of raising.
ClaimOrHang(r) ==
  /\ req[r].pc = "found"
  /\ ~LockedByOther(r, req[r].tok)
  /\ Claimable(req[r].tok)
  /\ req' = [req EXCEPT ![r].pc = "claimed", ![r].locked = {req[r].tok}]
  /\ UNCHANGED <<now, userState, tokenVars, rollbacks>>

Claim(r) ==
  /\ req[r].pc = "found"
  /\ ~LockedByOther(r, req[r].tok)
  /\ \/ /\ Claimable(req[r].tok)
        /\ req' = [req EXCEPT ![r].pc = "claimed", ![r].locked = {req[r].tok}]
     \/ /\ ~Claimable(req[r].tok)      \* "Token revoked"
        /\ Finish(r)
  /\ UNCHANGED <<now, userState, tokenVars, rollbacks>>

\* A missing or inactive user raises: the claim is rolled back.
CheckUser(r) ==
  /\ req[r].pc = "claimed"
  /\ \/ /\ userState[req[r].user] = "active"
        /\ req' = [req EXCEPT ![r].pc = "checked"]
     \/ /\ userState[req[r].user] # "active"
        /\ Finish(r)
  /\ UNCHANGED <<now, userState, tokenVars, rollbacks>>

\* INSERT INTO refresh_tokens: the foreign key takes a share lock on the user,
\* waiting for a deletion in progress, and fails when the user is gone. Login
\* reads the clock here, refresh at its start.
InsertToken(r) ==
  /\ req[r].pc = "checked"
  /\ \A q \in Requests : ~DeletesUser(q, req[r].user)
  /\ \/ /\ userState[req[r].user] # "deleted"
        /\ req' = [req EXCEPT ![r].pc = "inserted",
                              ![r].at = IF req[r].op = "login" THEN now ELSE @]
     \/ /\ userState[req[r].user] = "deleted"
        /\ Finish(r)
  /\ UNCHANGED <<now, userState, tokenVars, rollbacks>>

CommitToken(r) ==
  /\ req[r].pc = "inserted"
  /\ LET n == req[r].new
         p == req[r].tok
     IN /\ status' = [t \in Tokens |->
             IF t = n THEN "live"
             ELSE IF t \in req[r].locked THEN "revoked" ELSE status[t]]
        /\ owner' = [owner EXCEPT ![n] = req[r].user]
        /\ expires' = [expires EXCEPT ![n] = req[r].at + Lifetime]
        /\ parent' = [parent EXCEPT ![n] = p]
        /\ session' = [session EXCEPT ![n] = IF p = None THEN n ELSE session[p]]
  /\ Finish(r)
  /\ UNCHANGED <<now, userState, rollbacks>>

-----------------------------------------------------------------------------
(* Statements over a set of rows: logout, revoke-sessions, cleanup, cascade *)

\* The statement selects its rows from what is committed when it begins.
BeginSweep(r, op, t, u, lib, rows) ==
  /\ req[r].pc = "idle"
  /\ req' = [req EXCEPT ![r] =
       [Idle EXCEPT !.op = op, !.pc = "sweep", !.tok = t, !.user = u, !.lib = lib,
                    !.todo = rows,
                    !.seen = {x \in rows : status[x] = "live"}]]
  /\ UNCHANGED <<now, userState, tokenVars, rollbacks>>

\* Mutated form of StartLogout: log out everywhere.
LogoutEverywhere(r, t) ==
  BeginSweep(r, "logout", t, None, None,
             {x \in Tokens : status[x] = "live" /\ owner[x] = owner[t]})

StartLogout(r, t) ==
  BeginSweep(r, "logout", t, None, None, {x \in {t} : status[x] = "live"})

\* find_by_library selects by users.library_id, then one UPDATE.
StartRevokeAll(r, lib) ==
  BeginSweep(r, "revoke_all", None, None, lib,
             {t \in Tokens : status[t] = "live" /\ Home[owner[t]] = lib})

\* Mutated forms of StartCleanup: a row is purged in its last valid tick; rows
\* that were never revoked are kept.
CleanupTooEarly(r) ==
  BeginSweep(r, "cleanup", None, None, None,
             {t \in Tokens : Stored(t) /\ expires[t] <= now})

CleanupRevokedOnly(r) ==
  BeginSweep(r, "cleanup", None, None, None,
             {t \in Tokens : status[t] = "revoked" /\ expires[t] < now})

StartCleanup(r) ==
  BeginSweep(r, "cleanup", None, None, None,
             {t \in Tokens : Stored(t) /\ expires[t] < now})

\* DELETE FROM users locks the row first, then ON DELETE CASCADE reaches the
\* tokens that are committed by then.
StartDeleteUser(r, u) ==
  /\ userState[u] # "deleted"
  /\ \A q \in Requests : ~DeletesUser(q, u) /\ ~SharesUser(q, u)
  /\ BeginSweep(r, "delete_user", None, u, None,
                {t \in Tokens : Stored(t) /\ owner[t] = u})

Revokes(r) == req[r].op \in {"logout", "revoke_all"}

\* Mutated form of StillMatches: every statement skips the rows revoked meanwhile.
SkipsRevoked(r, t) == status[t] = "live"

\* The WHERE clause, on the row as it is once the lock is granted.
StillMatches(r, t) == IF Revokes(r) THEN status[t] = "live" ELSE Stored(t)

\* Mutated form of SweepRow: rows locked by others are skipped (SKIP LOCKED).
SweepFreeRows(r, t) ==
  /\ req[r].pc = "sweep"
  /\ t \in req[r].todo
  /\ req' = [req EXCEPT ![r].todo = @ \ {t},
                        ![r].locked = IF StillMatches(r, t) /\ ~LockedByOther(r, t)
                                      THEN @ \cup {t} ELSE @]
  /\ UNCHANGED <<now, userState, tokenVars, rollbacks>>

SweepRow(r, t) ==
  /\ req[r].pc = "sweep"
  /\ t \in req[r].todo
  /\ ~LockedByOther(r, t)
  /\ req' = [req EXCEPT ![r].todo = @ \ {t},
                        ![r].locked = IF StillMatches(r, t) THEN @ \cup {t} ELSE @]
  /\ UNCHANGED <<now, userState, tokenVars, rollbacks>>

CommitSweep(r) ==
  /\ req[r].pc = "sweep"
  /\ req[r].todo = {}
  /\ status' = [t \in Tokens |->
       IF t \in req[r].locked
       THEN IF Revokes(r) THEN "revoked" ELSE "deleted"
       ELSE status[t]]
  /\ userState' = [u \in Users |-> IF DeletesUser(r, u) THEN "deleted" ELSE userState[u]]
  /\ Finish(r)
  /\ UNCHANGED <<now, owner, expires, parent, session, rollbacks>>

-----------------------------------------------------------------------------
(* Failures, the rest of the service, time *)

\* An exception after some of the steps, a lost connection, a killed process.
Rollback(r) ==
  /\ req[r].pc # "idle"
  /\ rollbacks < MaxRollbacks
  /\ rollbacks' = rollbacks + 1
  /\ Finish(r)
  /\ UNCHANGED <<now, userState, tokenVars>>

\* PostgreSQL ends one of the transactions that wait for each other.
AbortDeadlock(r) ==
  /\ Deadlocked(r)
  /\ Finish(r)
  /\ UNCHANGED <<now, userState, tokenVars, rollbacks>>

\* UpdateUserUseCase deactivates or reactivates a user; it leaves tokens alone.
SetUserActive(u) ==
  /\ \A q \in Requests : ~DeletesUser(q, u)
  /\ \/ userState[u] = "active" /\ userState' = [userState EXCEPT ![u] = "inactive"]
     \/ userState[u] = "inactive" /\ userState' = [userState EXCEPT ![u] = "active"]
  /\ UNCHANGED <<now, tokenVars, req, rollbacks>>

Tick ==
  /\ now < MaxTime
  /\ now' = now + 1
  /\ UNCHANGED <<userState, tokenVars, req, rollbacks>>

Start(r) ==
  \/ \E u \in Users, n \in Tokens : StartLogin(r, u, n)
  \/ \E t, n \in Tokens : StartRefresh(r, t, n)
  \/ \E t \in Tokens : StartLogout(r, t)
  \/ \E lib \in Libraries : StartRevokeAll(r, lib)
  \/ StartCleanup(r)
  \/ \E u \in Users : StartDeleteUser(r, u)

Work(r) ==
  \/ Claim(r)
  \/ CheckUser(r)
  \/ InsertToken(r)
  \/ CommitToken(r)
  \/ \E t \in Tokens : SweepRow(r, t)
  \/ CommitSweep(r)

Next ==
  \/ \E r \in Requests : Start(r) \/ Work(r) \/ Rollback(r) \/ AbortDeadlock(r)
  \/ \E u \in Users : SetUserActive(u)
  \/ Tick

Spec == Init /\ [][Next]_vars

\* A request that was accepted is run to its end: the event loop schedules its
\* coroutine and PostgreSQL queues the waiters of a row, so that a waiter is not
\* overtaken for ever (strong fairness: a step waits while the row is locked).
RequestFairness ==
  \A r \in Requests : SF_vars(Work(r)) /\ WF_vars(AbortDeadlock(r))

\* The scheduler starts the cleanup job at every interval.
CleanupFairness == SF_vars(\E r \in Requests : StartCleanup(r))

FairSpec == Spec /\ RequestFairness /\ CleanupFairness

-----------------------------------------------------------------------------
(* Properties *)

Live(t) == status[t] = "live"

SessionOpen(s) == \E t \in Tokens : Live(t) /\ session[t] = s

\* However requests interleave, fail or are retried, a session never has two
\* tokens that can continue it (RefreshTokenUseCase: "exactly one can win").
OneLiveToken ==
  \A t1, t2 \in Tokens :
    Live(t1) /\ Live(t2) /\ session[t1] = session[t2] => t1 = t2

\* Rotation is exactly-once: no two committed rows were obtained by presenting
\* the same refresh token (RefreshTokenRepository.revoke).
ExchangedOnce ==
  \A t1, t2 \in Tokens :
    parent[t1] # None /\ parent[t1] = parent[t2] => t1 = t2

\* A token is inserted while its user is being deleted, or a deletion passes a
\* token whose insertion is not committed: no stored token outlives its user.
NoOrphanToken ==
  \A t \in Tokens : Stored(t) => userState[owner[t]] # "deleted"

\* The cleanup job deletes the rows it selected some time ago, and others write
\* them meanwhile: only an expired row, or one of a deleted user, disappears.
OnlyExpiredPurged ==
  [][\A t \in Tokens :
       status'[t] = "deleted" /\ status[t] # "deleted" =>
         expires[t] < now \/ userState'[owner[t]] = "deleted"]_vars

\* What an open transaction holds. A row it claimed stays live, whatever else
\* runs, until it commits: nobody revokes, exchanges or purges it in between.
Consistent(x) ==
  /\ x.pc = "idle" => x = Idle
  /\ x.pc \in {"found", "claimed"} => x.op = "refresh"
  /\ x.pc \in {"checked", "inserted"} => x.op \in {"refresh", "login"}
  /\ x.pc = "sweep" => x.op \in {"logout", "revoke_all", "cleanup", "delete_user"}
  /\ x.op = "refresh" =>
       x.tok \in Tokens /\ x.locked = IF x.pc = "found" THEN {} ELSE {x.tok}
  /\ x.op = "login" => x.tok = None /\ x.locked = {}
  /\ x.op \in {"login", "refresh"} =>
       x.user \in Users /\ x.new \in Tokens /\ status[x.new] = "free"
  /\ \A t \in x.locked :
       Stored(t) /\ (x.op \in {"refresh", "logout", "revoke_all"} => status[t] = "live")

RowLocks == \A r \in Requests : Consistent(req[r])

\* No row is written, and no new value drawn, by two open transactions; none
\* inserts a token for a user that another is deleting.
Compatible(x, y) ==
  /\ x.locked \cap y.locked = {}
  /\ x.new # None => x.new # y.new
  /\ x.pc = "inserted" => ~(y.op = "delete_user" /\ y.user = x.user)

Exclusive == \A r, q \in Requests : r # q => Compatible(req[r], req[q])

\* A deletion in progress has reached, or will reach, every token of its user;
\* a token is only inserted for a user who exists.
Covered(x) ==
  /\ x.op = "delete_user" =>
       \A t \in Tokens : Stored(t) /\ owner[t] = x.user => t \in x.todo \cup x.locked
  /\ x.pc = "inserted" => userState[x.user] # "deleted"

UserRows == \A r \in Requests : Covered(req[r])

\* A token that was presented is spent; a chain begins with an issued token.
History ==
  \A t \in Tokens :
    /\ status[t] = "free" => parent[t] = None /\ session[t] = t
    /\ status[t] # "free" => status[session[t]] # "free" /\ owner[t] \in Users
    /\ parent[t] # None => status[parent[t]] \in {"revoked", "deleted"}

\* The inductive invariant of the exchange: row locks, exclusive writers and
\* spent parents are what makes rotation exactly-once under any interleaving.
RotationInv ==
  /\ TypeOK
  /\ RowLocks
  /\ Exclusive
  /\ History
  /\ UserRows
  /\ OneLiveToken
  /\ ExchangedOnce
  /\ NoOrphanToken

\* Every request ends, although transactions wait for each other's row locks in
\* different orders (refresh against deletion, two bulk statements).
RequestsFinish == \A r \in Requests : req[r].pc # "idle" ~> req[r].pc = "idle"

\* The hourly job eventually removes every row whose lifetime is over, unless it
\* meets deadlocks for ever (a failed run is only logged and left to the next).
ExpiredPurged ==
  <>[](\A r \in Requests : ~Deadlocked(r)) =>
    \A t \in Tokens : (Stored(t) /\ expires[t] < now) ~> status[t] = "deleted"

\* What logout and revoke-sessions achieve, which is less than "forcing everyone to
\* log in again" (revoke_sessions.py). Every token that the statement found has ended
\* when it commits, however long it waited for others, and a session goes on only if
\* that very token was exchanged meanwhile, by a refresh that was already under way.
OnlyExchangeEscapes ==
  [][\A r \in Requests :
       Revokes(r) /\ CommitSweep(r) =>
         \A t \in req[r].seen :
           /\ ~Live(t)'
           /\ SessionOpen(session[t])' => \E c \in Tokens : parent[c] = t]_vars

Bulk(x) == x.pc = "sweep" /\ x.op \in {"revoke_all", "cleanup"}

\* What users do with their own sessions never deadlocks: a circle of waits has the
\* deletion of a user in it, or two statements over many rows.
DeadlocksNeedBulk ==
  \A S \in SUBSET Requests :
    S # {} /\ Circle(S) =>
      \/ \E q \in S : req[q].op = "delete_user"
      \/ \E p, q \in S : p # q /\ Bulk(req[p]) /\ Bulk(req[q])

\* The exchange protocol implements the abstract chain of tokens: every commit
\* opens, exchanges or closes sessions, and nothing else is visible.
Holder ==
  [s \in Tokens |->
     IF SessionOpen(s) THEN CHOOSE t \in Tokens : Live(t) /\ session[t] = s ELSE None]

Chain == INSTANCE SessionChain WITH
  holder <- Holder, issued <- {t \in Tokens : status[t] # "free"}

ChainSpec == Chain!Spec
=============================================================================
