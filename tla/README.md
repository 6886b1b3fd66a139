# A formal model of the Jinbocho auth service

TLA+ modules, TLC configurations and machine-checked proofs about
`src/app/`, the authentication service: accounts, sessions, memberships of
libraries, and the links it sends by mail. Paths below are relative to
`src/app/` unless they begin with `src/`.

- [1. The system](#1-the-system)
- [2. The transaction model](#2-the-transaction-model)
- [3. Modules](#3-modules)
- [4. Runs](#4-runs)
- [5. Fairness](#5-fairness)
- [6. Theorems](#6-theorems)
- [7. Where the code and its documentation disagree](#7-where-the-code-and-its-documentation-disagree)
- [8. Known behaviour without a run](#8-known-behaviour-without-a-run)
- [9. Not modelled](#9-not-modelled)
- [10. Plan](#10-plan)

## 1. The system

A FastAPI process over PostgreSQL. The process keeps no state of its own but
configuration and rate limits; everything that matters is in six tables, and
every difficulty comes from requests whose transactions are open at the same time.

| Component | State | Operations | Hard because |
|---|---|---|---|
| Sessions | `refresh_tokens` | login, refresh (rotation), logout, revoke-sessions, hourly cleanup, cascade of a user's deletion | the same token presented twice; bulk statements against rotations in flight; lock order; the boundary of a lifetime |
| Memberships | `user_library_memberships` | invite, accept, decline, update, remove, the `last_accessed_at` save of login, refresh and select | rows are read without a lock and saved whole; the last-admin check locks other rows than it writes |
| Links | `password_reset_tokens`, `email_change_tokens` | request a reset, invite and resend, request a new address, use a link, cleanup, cascade | a link opened twice, replaced or purged while it is being used; a mail that cannot be sent |
| Accounts | `users` | register, create, import, child accounts, update, delete; the whole-row save of every profile operation | the save writes back everything the request read, the password included; an address is checked without a lock; a save inserts a row that is gone |
| Libraries | `libraries` | register, update, delete with everything in it | a deletion meets accounts and memberships that are being created, and copies that are being saved |
| Library context | `users.last_selected_library_id` | choose the library of a login or refresh, select one | the choice is read before other requests commit |
| Authorization | none but the signed access token | role and library of a request | the claims stay as issued for the token's lifetime, whatever becomes of the membership |
| Row locks | the locks of the open transactions, over the six tables and the address index | every use case, seen as the rows that its statements lock | no use case was written with a lock order in mind; a request may hold rows of three tables and wait for a fourth |
| HTTP, mail, profile pictures, queries, operations | none | translation and I/O | - |

How they meet: login and refresh read an account, touch a membership and insert a
refresh token in one transaction; deleting an account removes its tokens, links and
memberships by `ON DELETE CASCADE`; a link changes an account; the cleanup job
(`core/lifespan.py`) purges tokens and password links in one transaction. What
makes each part correct:

- *Sessions*: a refresh token is exchanged once at most; a session has at most one
  token that continues it; no token outlives its user; a row is purged only after
  its last valid instant, and then eventually.
- *Memberships*: the last-admin check is worth what it says at the commit, not only
  when it is made; a library keeps an active admin, and a removal is final, both of which
  the code fails to guarantee (sections 7 and 8).
- *Links*: a link has its effect once at most, never after it was replaced, purged or
  used.
- *Accounts and libraries*: two active accounts never share an address; no account is
  left without its library and no membership without both; an account has a membership
  of the library it was created in; what a last-admin check found is still there at the
  commit; a deletion takes everything it should and nothing else.
- *Access*: what a token claims, and what a request is admitted by, was true a bounded
  time ago; a role or library that is lost leaves every token in the end; while the selected
  library stays what it is, a refresh does not take the user to another one.
- *Row locks*: no two statements of the use cases lock in opposite order, so that only
  deletions, imports and requests that lock several rows of one table can deadlock; every
  request ends.

`PROJECT.json` lists the components with their sources, every hazard of this kind at
its line of the code, and for every definition the lines it models.

## 2. The transaction model

All modules rest on the same reading of `infrastructure/database/session.py`
and of the repositories.

- One request is one transaction: `get_db` opens a session, the endpoint runs, then
  comes the commit, or the rollback on any exception. `req[r]` is the open
  transaction of slot `r`; `pc` says which statement comes next; a guard that fails
  ends the request with an error (`Finish`), which undoes everything.
- READ COMMITTED: a statement sees what is committed when it begins. The committed
  rows are the module's table variables; what a transaction wrote stays in its `req`
  record until its `Commit`.
- Row locks: a row that a transaction has written (or read `FOR UPDATE`) is in its
  `locked`; others wait (`LockedByOther`). After the wait PostgreSQL evaluates the
  `WHERE` clause again on the new row (`Claimable`, `StillMatches`,
  `OtherAdminLocked`). A statement over several rows selects them when it begins and
  reaches them one by one in any order (`todo`).
- `save()` is `session.merge`: the row is read again, the copy that was read at the
  start of the request is laid over it, the flush updates the columns in which they
  differ, or inserts the copy when the row is gone. Columns that the copy and the
  second reading agree on are left alone, whatever is committed in between, so that
  stale copies mix column by column (`diff`, `Overlay`, `Written`).
- Foreign keys: inserting a child row waits for a deletion of its parent and fails
  after it; deleting the parent waits for the insert. A conflicting entry of a unique
  index makes a writer wait for the transaction that made it.
- Transactions that wait for each other in a circle are ended one at a time
  (`AbortDeadlock`). Any request may also be lost between any two steps
  (`Rollback`): a mail that cannot be sent, a lost connection, a killed process.
  Nothing but the database survives a crash, so that a crash is a rollback of every
  open transaction.

The reads that a use case makes before its first write are one step: what they saw
may be out of date at every later step, which covers their interleavings with writers.

Not every module needs every statement. `Memberships` and `Links` have the two readings
of a save and its column-wise UPDATE as steps of their own. `Accounts` is about whole
rows: there the second reading and the UPDATE are one step and the copy replaces the row.
`Access` is about time: a request is its beginning, with everything it has read, and its
commit, where `Outcomes` says what a save can leave in a column (an edited one holds the
edit; another one what was read first, or what is committed, as the second reading fell).

## 3. Modules

| Module | Models |
|---|---|
| `Sessions` | refresh tokens: rotation by claim, check, insert; logout, revoke-sessions, cleanup, cascade |
| `SessionChain` | what a session promises: it is opened, handed from one token to the next, and closed for good |
| `Memberships` | the memberships of one library: reading, checking with locks, merging, committing |
| `Links` | accounts and all e-mailed links; saving, deactivating and deleting an account |
| `OneTimeLink` | what a link promises: issued once, perhaps in place of others; used at most once; void for good |
| `Accounts` | which libraries, accounts and memberships exist: creation, the saves of stale copies, deletion with its cascade, both last-admin checks |
| `Tenancy` | what the service promises about libraries and their accounts: a deletion is one step and complete |
| `Lease` | what the claims of an access token promise: granted only to who is entitled, ended by time alone |
| `Access` | access tokens over time: resolving the library, issuing, expiry, and the changes of memberships and accounts that a token admits (not creation, import and deletion) |
| `Locks` | who waits for whom: the row locks of every transaction of the service, statement by statement |
| `MCSessions`, `MCMemberships`, `MCLinks`, `MCAccounts`, `MCAccess`, `MCLocks` | constants of the small instances |
| `SessionsProofs`, `MembershipsProofs`, `LinksProofs`, `AccountsProofs`, `AccessProofs`, `LocksProofs` | the theorems about each |
| `AccountsAdminProofs` | when a library keeps an admin although two tables are checked |
| `LeaseProofs` | what the abstract lease is worth |

State and code. In `Sessions`, `status`, `owner`, `expires` are the columns of
`refresh_tokens` (`live` is `revoked_at IS NULL`); `parent` and `session` are history:
the token a row was exchanged for and the login its chain began with. `Claim` is the
conditional UPDATE in `RefreshTokenRepository.revoke`; a rotation is `StartRefresh`,
`Claim`, `CheckUser`, `InsertToken`, `CommitToken`. `now` is the application's clock;
login reads it when it inserts, refresh at its start. `seen` remembers what a bulk
statement or a logout found live, for the property about what they miss.

In `Memberships`, `row[u]` is role and status. `base` is the row as first read, `ent`
the edited copy; `DropsAdmin` is the condition under which `update_membership.py` and
`remove_membership.py` call `lock_active_admins`. The role and status part of
`UpdateUserUseCase` (PATCH /users/{id}) is `StartUpdate` on an active row, with the
same check. The module follows a request as far as its membership goes: that a login or
refresh then refers to the account, that select and PATCH /users/{id} then save it, and
that a refresh comes with a claimed token, is in `Locks`.

In `Links`, `account[u]` has the three columns that the properties tell apart: address,
password (named by the link it was set by) and status. Everything else a profile
operation changes is another column of the same copy, so that upload_avatar,
delete_avatar, update_tour_status, and the account's part of select_library_context and
update_user are `StartEdit`, `Merge`, `Flush`, `Commit`; the membership that the latter two
save first is in `Memberships`, both in one transaction in `Locks`. The two token tables have the same life and
are one variable; `purpose` tells the rows apart. `uses` counts committed effects.
`Taken` and `ContendedBy` are the partial unique index `uq_users_email_active`.

In `Accounts` a row is named by a pair: `<<None, l>>` is a library, `<<u, None>>` an
account, `<<u, l>>` a membership. `account[u].home` is `users.library_id` (`None`: no such
account), `role` the legacy column `users.role`. `StartCreate` is create_user.py,
create_child_account.py and the branch of invite_member.py for an unknown address;
`StartImport` is one item of import_users.py, which deactivates some accounts again in
the transaction that creates them. `Sweep` is a DELETE with its `ON DELETE CASCADE`, row by row
(`todo`, `doomed`); `shared` are the parents whose key an insert holds. The two
`lock_active_admins`, of users by the legacy role and of memberships, are `BeginLock`,
`LockRow` and `CheckAdmin`, told apart in `Candidates` and `OtherAdminHeld`. `revived` is
history: accounts that a stale save inserted again after their deletion.

In `Access`, `token[u][c]` is the time for which the longest-lived token of user `u` with
the claims `c` is still valid: a library and a role, or `None` for a token that only says
who the user is. `ago[u][c]` is history, the time since the membership behind the claims was
last there. `Resolve` is library_context_resolver.py, `Authenticated` and `Authorized` the
dependencies of `api/dependencies.py`, `Administer` is `require_role("admin")` with the
edit it admits; `by` remembers the claims, `grant` the contexts of the tokens to be handed
out. `StartUpdateUser` is all of PATCH /users/{id}, `StartProfile` every operation that
saves the caller's account.

`Locks` leaves out what the rows hold and keeps which of them a transaction locks, in which mode
and in which order. `req[r].plan` is the list of its statements, `at` the one it has come to, `todo` the
rows that this one has not locked yet. A plan is put together from what the repositories do: a
conditional UPDATE or an UPDATE by `merge` (`Update`, the lock of an UPDATE that changes no key), a DELETE or
`SELECT ... FOR UPDATE` (`Exclude`), the check of a foreign key (`Refer`). `Conflict` is
PostgreSQL's table of the three modes. Which rows a statement finds is chosen freely, so that
every state of the tables is covered; the operators from `Login` to `DeleteLibrary` are the use
cases, `Cascade` what `ON DELETE CASCADE` reaches.

Operators whose comment begins with "Mutated form of" are not part of the model. They
are the plausible bugs that show each property can fail (`mutants` in
`PROJECT.json`): writers that do not wait, a claim without its condition, the check
that counts its target as its own replacement, a cleanup one instant early.

## 4. Runs

Nine runs must pass, three must find a violation (section 7).

| Run | Instance | States | Shows |
|---|---|---|---|
| `sessions_safety` | 2 requests, 1 user, 3 tokens, clock 0..2, lifetime 1, 1 rollback | 0.6 M | `OneLiveToken`, `ExchangedOnce`, `NoOrphanToken`, `OnlyExpiredPurged`, `RotationInv`, `OnlyExchangeEscapes`, `DeadlocksNeedBulk`; implements `SessionChain` (`ChainSpec`) |
| `sessions_liveness` | 2 requests, 1 user, 2 tokens, clock 0..1, lifetime 0 | 92 k | `RequestsFinish`, `ExpiredPurged` |
| `memberships_safety` | 2 requests, 2 users, all operations, 1 rollback | 2.3 M | `AdminLockInv`, `CheckedCommitLeavesAdmin`, `FreshCommitKeepsAdmin` |
| `links_safety` | 2 requests, 2 users, 2 links, 2 addresses, all operations, any number of rollbacks | 1.3 M | `LinksInv`, `ActiveEmailUnique`, `NoOrphanLink`, `PasswordsFromUsedLinks`; implements `OneTimeLink` (`LinkSpec`) |
| `accounts_safety` | 2 requests, 2 users, 2 libraries, all operations, any number of rollbacks | 1.1 M | `AccountsInv`, `HomeMembership`, `CheckedLeavesAdmin`, `RevivedWithoutMembership`; implements `Tenancy` (`TenancySpec`) |
| `accounts_home` | 2 requests, 3 users, 2 libraries, everybody at home; register, create, demote, deactivate, delete users and libraries | 0.1 M | `LibraryHasAdmin` |
| `access_safety` | 2 requests, 2 users, 1 library, 2 roles, all operations, token lifetime 1, requests of up to 1 tick, 2 administrative requests | 0.9 M | `AccessInv`, `AuthorityIsRecent` |
| `access_liveness` | 2 requests, 1 caller, 2 libraries, login, refresh, select, remove, PATCH of a user, profile | 0.3 M | `AccessEnds`, `SelectionSettles`; implements `Lease` (`LeaseSpec`) |
| `locks` | 2 requests, 2 users, 1 library, 2 addresses, 2 tokens or links of one user, all operations of the service | 0.2 M | `LocksInv`, `DeadlocksNeedMany`, `RequestsFinish` |

Why these bounds are enough. Every hazard is a race of two transactions: one has
read, the other commits, the first goes on; two slots give every such order, and a
slot is used again and again. Three tokens make a chain of two exchanges, or two
sessions of which one is exchanged; two links are the one being used and the one that
replaces it; two users are the last admin and the other one, or the two owners of an
address. The clock of `sessions_safety` has an instant before, at and after the end
of a lifetime. `MaxRollbacks` bounds how many transactions are lost, never at which
step. Requests and tokens (and users other than the founder) are symmetric in the
safety runs; the liveness runs use no symmetry. Links are issued for one of the two
accounts only (`Askers`): the other one is there to own, take and lose addresses. The
theorems of section 6 have no such bounds.

In `accounts_safety` two libraries are the one that is deleted and the one whose member
was created in it; every role but admin is treated alike, and every account is created as
an admin, so that every check is made. `Patches` has the one edit that drops an admin;
`accounts_last_admin` has the promotions. In `Access` a tick is as long as the longest
request (`MaxAge`) or any fraction of it; time is what matters, not its unit.
`MaxChanges` bounds the administrative requests of a behaviour, two being a loss and what
happens because of it: an actor demoted while its own request is open. The bound that
`AuthorityIsRecent` states, `Lifetime + 2 * MaxAge`, is reached: with one tick less the run
finds a violation (a token handed out by a slow login just after a removal, used just
before it expires by a slow request). `access_safety` has one library, because claims of
different libraries do not meet in the properties; `access_liveness` has two, for the choice
between them.

In `locks` two rows of each table that a bulk statement, a check or a change of address can reach in
either order are enough for each exemption of `DeadlocksNeedMany` to be needed: without any one of them
the run finds a circle. The save of an account leaves its address alone or changes it (`AddressChanges`);
one address alone is taken by the creations. All tokens are of one user, the other user being somebody whose memberships
are checked and who is deleted or referred to.

`accounts_home` has both kinds of edit and two slots: with three requests, columns of two stale copies
can mix in the code (section 8), which `Accounts` does not model.

Real circles of waits occur in the instances of the two deadlock invariants, so that
neither of them holds for want of one. In `accounts_home` three users are the founder of one library,
the founder of the other and a second admin of either: `HomeInit` says that all memberships are
in the library of the account.

Deadlock is checked in all passing runs: a state with an open request always has a next
step, because waiting in a circle is ended by `AbortDeadlock` (in `Accounts` by the
`Rollback` that stands for every failure; `Access` has no locks to wait for).

## 5. Fairness

Safety runs use `Spec`, without fairness. The three liveness runs use `FairSpec`.

- `SF_vars(Work(r))`: an accepted request is run to its end. The event loop schedules its
  coroutine and PostgreSQL queues the waiters of a row, so that a waiter whose lock
  becomes free again and again gets it at last. Strong fairness, because the step is
  disabled while another transaction holds the row.
- `WF_vars(AbortDeadlock(r))`: the deadlock detector runs after `deadlock_timeout`. In `Locks` the two
  are one action under strong fairness: a request that can go on, or be ended, again and again is.
- `CleanupFairness` (`Sessions`): the scheduler starts the job again after every interval
  and time goes on (`core/lifespan.py`).
- `WF_vars(Tick)` and `WF_vars(End(r))` (`Access`): the clock goes on, and an accepted
  request comes to its commit or its rollback. The locks are not in this module, so that
  weak fairness is enough.
- No operation of a user is fair: nobody has to log in, and no request has to fail.

`ExpiredPurged` assumes that deadlocks do not recur for ever: a failed run of the job is
only logged and left to the next one.

## 6. Theorems

Proved by TLAPS for every value of the constants: any number of requests, users,
tokens, links, addresses, libraries, any token lifetime. They assume what the modules' `ASSUME`s say of the
constants (`None` is none of the other values, numbers are natural, the founder exists,
accounts start with different addresses, an edit has the shape of the request body); TLC
evaluates these in every run.

**Rotation** (`SessionsProofs`). `RotationInv` is inductive. `OneLiveToken` alone is not: a
step may end a rotation whose claim was not exclusive. The invariant adds that no
two transactions hold a row (`RowLocks`), that a claimed token is still live and its
successor drawn by this request alone (`Exclusive`), that a parent is spent
(`History`), and that a deletion has the committed tokens of its user in sight
(`UserRows`). `SessionHasOneLiveToken`, `RotationExactlyOnce` and `TokensHaveUsers`
follow; `RotationImplementsChain` maps every commit to a step of `SessionChain`.
`PurgeIsRight` (`OnlyExpiredPurged`) needs one more invariant: what a cleanup or a deletion
has selected or locked still exists and is expired, or of the deleted user, until the
commit (`Selected`), since rows keep their owner and expiry and time does not run back.
`EscapeByExchange` (`OnlyExchangeEscapes`) says what logout and revoke-sessions do reach, and that
they miss nothing but what a refresh under way exchanges: what the statement found live has been revoked, by it or
by others, or is still on its list or locked by it, at every step until its commit (`FollowedInv`); and a
session whose token ended otherwise than by an exchange has no live token left. `DeadlocksAreBulk`
(`DeadlocksNeedBulk`) needs one invariant more, that a logout has one row to lock (`OneRowInv`).
Each member of a circle holds something and waits for more. A logout never does both; a refresh that
has claimed its token waits for the deletion of its user and for nothing else. That leaves deletions
and statements over many rows, and one such statement cannot wait for itself.

**Admins** (`MembershipsProofs`). `AdminLockInv`: past the check, a request has a row of
another active admin locked, and it stays one, because each writer of that row must
first get the lock (`OneWriter`). Hence `CheckedCommit`. `FreshCommit` says who can
still take the last admin: only a commit over a row that changed since it was read.
`LossesLeaveAdmin` proves that an active admin remains (`AdminRemains`) when requests only suspend,
remove and decline, for any number of them; it needs `LossInv`, that an unlocked copy can only
be staler in the direction of activity. With demotions, promotions or logins it is false
(section 8), which is why no run has it.

**Links** (`LinksProofs`). `LinksInv`: what an open transaction has claimed is still pending
(`Consistent`), no two hold or draw the same link or account (`Compatible`), what two
flushed accounts are about to become does not clash (`Harmless`) nor does it with a
committed one (`Taken`), and a link with an effect is spent (`Spent`).
`AddressesUnique`, `UsedOnce` and `LinksImplementOneTimeLink` follow.

*Owners*. `LinksHaveAccounts` (`NoOrphanLink`) needs `OwnersInv`: whoever is about
to insert a link holds its account against deletion, and a deletion that has the account has the
committed links of that account locked or on its list, whoever uses or purges them meanwhile.
`PasswordsHaveUsedLinks` (`PasswordsFromUsedLinks`) is about stale copies. `PasswordInv` says of every
copy and every merged row, not only of the committed accounts, that the password in it is of
a used link of this very account, or of the link that this request has claimed; without the copies it is
not inductive, since a save writes what was read long before.

**Accounts** (`AccountsProofs`). `NoOrphans` is not inductive: a commit must know that the
parents of what it inserts are still there. `AccountsInv` adds, for every open
transaction (`Fits`): where it stands and what it has written by then (`Shape`); that a new
account is written together with its membership and a copy agrees with the row on its library
(`Copies`); that a written row replaces a committed one or has its parents secured
(`Secured`); that a deletion has, or still has on its list, every child of what it took
(`Closure`); that the admin a check found is still locked (`Checked`); and for two of them
(`Compatible`) that they hold no row in common and none deletes a parent of the other's
child. `ForeignKeysHold`, `AccountsReachable` (`HomeMembership`), `CheckedKeepsAdmin`
(`CheckedLeavesAdmin`) and `AccountsImplementTenancy` follow. `RevivedAreStrangers`
(`RevivedWithoutMembership`) adds `BackedInv`: a save that also writes a membership of its account
has replaced a row that was there, and keeps the account from being deleted, so that the saves which
insert an account again are those that touch no membership.

*The two last-admin checks* (`AccountsAdminProofs`). `accounts_last_admin` refutes `LibraryHasAdmin`:
the checks go by different tables. `HomeKeepsAdmin` says when it does hold, for any number of
requests. The two tables must agree, which `HomeInv` keeps up as long as everybody is a member of the
library they were created in and of no other (`HomeSpec`, `Ops \subseteq HomeOps`): it fails with
a promotion by the membership alone, with the save of a profile (it writes back an old role),
and with members from other libraries, whom the account does not know. And requests must take one
kind of authority away (`OneKindOfLoss`), since in the code columns of two stale copies can mix, which
`Accounts` does not model. Under these hypotheses a copy that is still to be saved holds no active
admin, each lock of either check blocks the other, and what a check found is in both tables.

**Access** (`AccessProofs`). Claims cannot be bounded by their age, for nothing records it.
`AccessInv` bounds a sum: what is left of a token and the time since its claims
were held (`TokensRunOut`), and for an open request the time since what it will hand out,
or was admitted by, was held (`Fits`). A tick moves one unit from the first summand to the
second, a commit starts a new sum. `AuthorityRecent` follows: whatever asks for the admin
role is committed less than a token's lifetime and two requests after the actor
was an active admin of that library.

`AccessImplementsLease` (`LeaseSpec`) is the same without arithmetic about requests: `Lease` knows
neither requests nor rows, only who is entitled to which claim, what is left of each lease and how long
ago its claim was held. A commit is `Renew`, granting what the request carries, for which
`Fits` bounds the time since the reading; a tick is `Tick`; beginnings and rollbacks stutter. In
particular nothing takes a lease back: a change of a membership leaves the tokens that are out as they are.
`LeaseRunsOut` (`LeaseProofs`) then says of `Lease` alone what it is worth, for any term, grace and
cap beyond both: a lease outlives the entitlement by no more than term and grace together.

**Row locks** (`LocksProofs`). `LockOrder` (`DeadlocksNeedMany`) holds for any number of requests, users,
libraries, addresses and tokens. `LocksInv` (`LocksInvariant`) has two parts that matter. Every plan of an ordinary request is
`InOrder`: libraries, links, refresh tokens, memberships, accounts, addresses, one statement never
before one of an earlier table; each use case is one case of `StartOpens`, by `Chain`. And no row is
held by two requests in modes that exclude each other (`OneHolder`). In a circle without deletions
and imports take the request that waits furthest in the order (`Foremost`). Whoever it waits for has
locked a row of that table, so that it waits in the same table itself, and for another row, since the one it
has is nobody else's (`MeetsMany`); the same holds of the next one in the circle. The checks of
foreign keys are exempt from the order: they conflict with deletions alone.

Only model-checked: the liveness properties (`RequestsFinish` in two runs, `ExpiredPurged`,
`AccessEnds`, `SelectionSettles`), which are out of the prover's reach; and
`accounts_home` mixes demotions and deactivations where `HomeKeepsAdmin` has one of them. That every
deadlock is ended, and every request after it, is part of `RequestsFinish`.

## 7. Where the code and its documentation disagree

Each is a run that finds a violation, and an entry under `findings`.

| Run | What happens | The text |
|---|---|---|
| `memberships_touch_revoked` | the `last_accessed_at` save of a login writes `active` over a removal | "Revokes a membership permanently" |
| `links_email` | an active account takes over the address of a disabled one; `find_by_email` then finds two rows and fails for both | "a disabled account must not permanently squat an address" |
| `accounts_last_admin` | the check of a deletion goes by `users.role`: an admin promoted through the membership is deleted unchecked, the last one included | "Cannot remove the library's last active admin" |

## 8. Known behaviour without a run

The models do these things too; no property forbids them.

- A logout that waits for a refresh of the same token revokes nothing and answers 204; that this is
  the only way out is `OnlyExchangeEscapes`.
- revoke-sessions, of which revoke_sessions.py says "forcing everyone to log in again", misses the
  token of a refresh that is not committed when its UPDATE begins, as `OnlyExchangeEscapes` admits.
- revoke-sessions selects users by `users.library_id`, the library they were created in:
  a member by invitation keeps their sessions.
- A library can lose its last active admin without a check failing. A login of a member reads their
  role; the member is promoted; the only other admin is demoted, the check finding the
  new one; the login's save of `last_accessed_at` writes the old role back. Two PATCH
  requests for one member do the same, and so do three that mix demotion and suspension,
  with columns of two stale copies combined to a state that none of them wrote.
  `CheckedCommitLeavesAdmin` and `FreshCommitKeepsAdmin` say what the check is worth all the same,
  `LossesLeaveAdmin` where it is enough. No run has `AdminRemains`, since a bound under which it
  holds would only hide this; `accounts_last_admin` refutes the same promise by another way.
- A profile change that read the account before a password reset writes the old password
  back, with the link spent; one that merges after a deletion inserts the account again
  (`revived`, without a membership), and the same holds of a library (`Open` without founders in `Tenancy`).
- In the same way it can write back the library that was selected before, so that the next refresh takes
  the user there: `SelectionSettles` speaks of a selection that stays.
- Two changes of address, two last-admin checks, two bulk statements over the same rows or two
  imports can deadlock, and a deletion with almost anything; PostgreSQL ends one of the
  requests with an error. `DeadlocksNeedMany` says that nothing else can.
- An acceptance that was read before the revocation of the invitation makes it a membership; the
  instance of `memberships_touch_revoked` shows the same of a login.
- An admin who has been demoted or removed can still administer: until the access token
  expires and the requests in flight have ended, as `AuthorityIsRecent` says, and no longer.
- Deactivating a member in one library disables the account, which may be the only admin
  of another library; the check is made in the first one only.
- PATCH with `status=active` turns an invitation into a membership without the invited
  user; an invitation may grant the role `child`.
- Two concurrent resends leave two working invitations; earlier reset links keep working
  until they expire.
- The password a link sets does not end the sessions of the account.
- Registration leaves `password_set_at` null, as for an invited account: a registered
  admin counts as "invite pending", and an invitation can be sent again to them.

## 9. Not modelled

- The HTTP layer: translation of bodies and errors, rate limits, the shared secret of
  internal calls. Queries and export read only. Configuration, logging, tracing.
- Of authorization, the gates of editors and children and those of reads: `Access` has the admin's gate
  for the changes of a membership and PATCH /users/{id}; creation, import and deletion pass the same gate
  and are not in the module. In the other modules every operation may start
  at any time, which includes the roles that were demoted a moment ago.
- Passwords, hashes, the text of mails, picture files, preferences, `kids_mode`: no state that a
  property tells apart. A profile operation is the save of its whole copy.
- The mail server's time inside a transaction, and a mail whose transaction then fails: the
  link in it is unknown to the service.

What the modules simplify:

- `Locks`: rows are chosen freely, whether they exist or not; a row that a transaction inserts, a token
  say, is locked by nobody else; an import is two items, the first of them perhaps checked, which is
  what a longer file repeats; the foreign keys that a stale copy writes back along with the rest
  (inviter, selected library) are left out: like all of them they conflict with deletions alone. So are the rows
  in which a deletion sets a reference to null, and its cascades come in one order: a circle
  with a deletion in it is exempt anyway.
- `Memberships`: a request ends with its membership; `Links`: an edit is the save of one account. What they
  lock before and after is in `Locks`, which has no contents: a property about the contents of rows in two of these
  tables at once is only in `Accounts`.
- `Accounts`: an import is one item per transaction (the code has one transaction for the
  whole file; that its failure half-way leaves nothing is the rollback of one transaction); a save replaces the whole row; every role but admin is alike; addresses
  and links are in `Links`; the row locks that `ON DELETE SET NULL` takes on accounts that
  merely selected the library are left out. An import creates its accounts active and
  updates them afterwards, `StartImport` with the outcome of both.
- `Access`: `MaxAge`, the longest a request may take, is an assumption (the code has no
  limit of its own, and without one nothing bounds what a request may be admitted by); an
  edited column always holds the edit at the commit, though a save whose second reading
  finds the edited value already there leaves the column alone; refresh tokens are left
  to `Sessions`, so that a refresh may happen at any time; nothing is deleted.
- `Sessions`, `Memberships` and `Links` begin with the accounts that exist by then.

## 10. Plan

Done: sessions, memberships, links, accounts with libraries, access over time, and the row locks of
all of them, each with its theorems. What is left, in order:

1. `Sessions` and `Access` composed: what the end of a session (logout, revoke-sessions, a
   rotation that fails) means for the claims of access tokens, and deletions in `Access`.
2. `find_by_email` and its race with creation against the address index, in the modules of
   `Links` and `Accounts` together; an import of several items in one transaction.
3. The gates of editors and children, with the role hierarchy, as operators checked
   against the table of roles.
4. Theorems: `AdminRemains` with demotions only (as `HomeKeepsAdmin` has them);
   `AuthorityIsRecent` from `Lease`; the address index under creation.

The runs are kept to about a dozen: a run of a new module takes the place of one whose
question it subsumes. `accounts_safety`, `accounts_last_admin`, `access_safety` and
`access_liveness` took the place of four runs about behaviour that section 8 now lists, and `accounts_home` that
of a run which showed the race of revoke-sessions and a refresh: `OnlyExchangeEscapes` says
exactly how far that goes. `locks` took the place of a run of `Memberships` with two slots and no
promotions: its liveness is that of every operation now, and its deadlocks are too.
