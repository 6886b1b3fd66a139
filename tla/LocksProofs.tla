---------------------------- MODULE LocksProofs ----------------------------
(* Theorems of Locks, for every number of open requests, users, libraries, *)
(* addresses and tokens.                                                   *)
EXTENDS Locks, SequenceTheorems, TLAPS

USE LocksAssumption DEF LocksAssumption

-----------------------------------------------------------------------------
(* Plans *)

\* The order is one of numbers, and no two tables share one.
LEMMA Ranks ==
  /\ \A t \in Tables : Rank(t) \in 1..7
  /\ \A t, u \in Tables : Rank(t) = Rank(u) => t = u
  /\ Rank("libraries") = 1 /\ Rank("email_change_tokens") = 2
  /\ Rank("password_reset_tokens") = 3 /\ Rank("refresh_tokens") = 4
  /\ Rank("user_library_memberships") = 5 /\ Rank("users") = 6
  /\ Rank("uq_users_email_active") = 7
<1>1. Rank("libraries") = 1
  BY DEF Rank
<1>2. Rank("email_change_tokens") = 2
  BY DEF Rank
<1>3. Rank("password_reset_tokens") = 3
  BY DEF Rank
<1>4. Rank("refresh_tokens") = 4
  BY DEF Rank
<1>5. Rank("user_library_memberships") = 5
  BY DEF Rank
<1>6. Rank("users") = 6
  BY DEF Rank
<1>7. Rank("uq_users_email_active") = 7
  BY DEF Rank
<1> QED BY <1>1, <1>2, <1>3, <1>4, <1>5, <1>6, <1>7 DEF Tables

LEMMA RankNat ==
  ASSUME NEW t \in Tables PROVE Rank(t) \in Nat
BY Ranks

\* A plan in order all of whose statements, but for the exempt ones, lock tables
\* from the a-th to the b-th.
Within(plan, a, b) ==
  /\ plan \in Seq(Statements)
  /\ InOrder(plan)
  /\ \A i \in 1..Len(plan) :
       Exempt(plan[i]) \/ (a <= Rank(plan[i].table) /\ Rank(plan[i].table) <= b)

LEMMA StatementPlan ==
  ASSUME NEW table \in Tables, NEW rows \in SUBSET Rows, NEW mode \in Modes
  PROVE  Statement(table, rows, mode) \in Seq(Statements)
<1>1. CASE rows = {}
  BY <1>1, EmptySeq DEF Statement
<1>2. CASE rows # {}
  <2>1. [table |-> table, rows |-> rows, mode |-> mode] \in Statements
    BY DEF Statements
  <2> QED BY <1>2, <2>1 DEF Statement
<1> QED BY <1>1, <1>2

LEMMA StatementWithin ==
  ASSUME NEW table \in Tables, NEW rows \in SUBSET Rows, NEW mode \in Modes,
         table \in {"users", "libraries"} => mode # "update",
         table \notin {"users", "libraries"} => mode # "key_share",
         NEW a \in Nat, NEW b \in Nat,
         mode # "key_share" => a <= Rank(table) /\ Rank(table) <= b
  PROVE  Within(Statement(table, rows, mode), a, b)
<1> DEFINE s == [table |-> table, rows |-> rows, mode |-> mode]
<1>1. Statement(table, rows, mode) \in Seq(Statements)
  BY StatementPlan
<1>2. CASE rows = {}
  BY <1>1, <1>2 DEF Statement, Within, InOrder
<1>3. CASE rows # {}
  <2>1. Statement(table, rows, mode) = <<s>>
    BY <1>3 DEF Statement
  <2>2. Len(<<s>>) = 1 /\ <<s>>[1] = s
    OBVIOUS
  <2>3. Exempt(s) <=> mode = "key_share"
    BY DEF Exempt
  <2>4. InOrder(<<s>>)
    BY <2>2, <2>3 DEF InOrder, Modes
  <2>5. \A i \in 1..Len(<<s>>) :
          Exempt(<<s>>[i]) \/ (a <= Rank(<<s>>[i].table) /\ Rank(<<s>>[i].table) <= b)
    <3> TAKE i \in 1..Len(<<s>>)
    <3>1. <<s>>[i] = s /\ s.table = table
      BY <2>2
    <3> HIDE DEF s
    <3> QED BY <2>3, <3>1
  <2> QED BY <1>1, <2>1, <2>4, <2>5 DEF Within
<1> QED BY <1>2, <1>3

LEMMA UpdateWithin ==
  ASSUME NEW table \in Tables, NEW rows \in SUBSET Rows
  PROVE  Within(Update(table, rows), Rank(table), Rank(table))
BY StatementWithin, Ranks DEF Update, Modes

LEMMA ExcludeWithin ==
  ASSUME NEW table \in Tables \ {"users", "libraries"}, NEW rows \in SUBSET Rows
  PROVE  Within(Exclude(table, rows), Rank(table), Rank(table))
BY StatementWithin, Ranks DEF Exclude, Modes

LEMMA ReferWithin ==
  ASSUME NEW table \in {"users", "libraries"}, NEW rows \in SUBSET Rows
  PROVE  Within(Refer(table, rows), 7, 7)
<1>1. table \in Tables
  BY DEF Tables
<1> QED BY <1>1, StatementWithin DEF Refer, Modes

\* A plan may be followed by one that begins where it ends.
LEMMA Chain ==
  ASSUME NEW p, NEW q, NEW a \in Nat, NEW b \in Nat, NEW c \in Nat, NEW d \in Nat,
         Within(p, a, b), Within(q, c, d), a <= b, b <= c, c <= d
  PROVE  Within(p \o q, a, d)
<1>1. p \in Seq(Statements) /\ q \in Seq(Statements)
  BY DEF Within
<1> DEFINE s == p \o q
           At(i) == IF i <= Len(p) THEN p[i] ELSE q[i - Len(p)]
<1>2. /\ s \in Seq(Statements)
      /\ Len(s) = Len(p) + Len(q)
      /\ \A i \in 1..Len(s) : s[i] = At(i)
  BY <1>1, ConcatProperties
<1> HIDE DEF s
<1>3. \A i \in 1..Len(s) :
        \/ i \in 1..Len(p) /\ s[i] = p[i]
        \/ i - Len(p) \in 1..Len(q) /\ i > Len(p) /\ s[i] = q[i - Len(p)]
  BY <1>1, <1>2, LenProperties
<1>4. \A i \in 1..Len(s) : s[i].table \in Tables
  <2>1. \A i \in 1..Len(s) : s[i] \in Statements
    BY <1>2, ElementOfSeq
  <2> QED BY <2>1 DEF Statements
<1>5. \A i \in 1..Len(s) :
        \/ Exempt(s[i])
        \/ /\ a <= Rank(s[i].table) /\ Rank(s[i].table) <= d
           /\ i <= Len(p) => Rank(s[i].table) <= b
           /\ i > Len(p) => c <= Rank(s[i].table)
  <2> TAKE i \in 1..Len(s)
  <2> SUFFICES ASSUME ~Exempt(s[i])
               PROVE  /\ a <= Rank(s[i].table) /\ Rank(s[i].table) <= d
                      /\ i <= Len(p) => Rank(s[i].table) <= b
                      /\ i > Len(p) => c <= Rank(s[i].table)
    OBVIOUS
  <2>1. Rank(s[i].table) \in Nat
    BY <1>4, RankNat
  <2>2. Len(p) \in Nat /\ i \in Nat
    BY <1>1, <1>2, LenProperties
  <2>3. CASE i \in 1..Len(p) /\ s[i] = p[i]
    <3>1. a <= Rank(s[i].table) /\ Rank(s[i].table) <= b
      BY <2>3 DEF Within
    <3> QED BY <2>1, <2>2, <2>3, <3>1
  <2>4. CASE i - Len(p) \in 1..Len(q) /\ i > Len(p) /\ s[i] = q[i - Len(p)]
    <3>1. c <= Rank(s[i].table) /\ Rank(s[i].table) <= d
      BY <2>4 DEF Within
    <3> QED BY <2>1, <2>2, <2>4, <3>1
  <2> QED BY <1>3, <2>3, <2>4
<1>6. InOrder(s)
  <2> SUFFICES ASSUME NEW j \in 1..Len(s)
               PROVE  IF Exempt(s[j]) THEN s[j].table \in {"users", "libraries"}
                      ELSE /\ s[j].table \in {"users", "libraries"}
                                => s[j].mode = "no_key_update"
                           /\ \A i \in 1..(j - 1) :
                                Exempt(s[i]) \/ Rank(s[i].table) <= Rank(s[j].table)
    BY DEF InOrder
  <2>1. IF Exempt(s[j]) THEN s[j].table \in {"users", "libraries"}
        ELSE s[j].table \in {"users", "libraries"} => s[j].mode = "no_key_update"
    BY <1>3 DEF Within, InOrder
  <2>2. ASSUME NEW i \in 1..(j - 1), ~Exempt(s[j]), ~Exempt(s[i])
        PROVE  Rank(s[i].table) <= Rank(s[j].table)
    <3>1. /\ i \in 1..Len(s) /\ i < j /\ i \in Nat /\ j \in Nat
          /\ Len(p) \in Nat /\ Len(q) \in Nat
      BY <1>1, <1>2, LenProperties
    <3>2. Rank(s[i].table) \in Nat /\ Rank(s[j].table) \in Nat
      BY <1>4, <3>1, RankNat
    <3>3. CASE j <= Len(p)
      <4>1. j \in 1..Len(p) /\ i \in 1..(j - 1) /\ i \in 1..Len(p)
        BY <3>1, <3>3
      <4>2. s[i] = p[i] /\ s[j] = p[j]
        BY <1>2, <3>1, <3>3
      <4> QED BY <2>2, <4>1, <4>2 DEF Within, InOrder
    <3>4. CASE i > Len(p)
      <4>1. /\ j - Len(p) \in 1..Len(q)
            /\ i - Len(p) \in 1..((j - Len(p)) - 1)
        BY <1>2, <3>1, <3>4
      <4>2. s[i] = q[i - Len(p)] /\ s[j] = q[j - Len(p)]
        BY <1>2, <3>1, <3>4
      <4> QED BY <2>2, <4>1, <4>2 DEF Within, InOrder
    <3>5. CASE i <= Len(p) /\ j > Len(p)
      BY <1>5, <2>2, <3>1, <3>2, <3>5
    <3> QED BY <3>1, <3>3, <3>4, <3>5
  <2> QED BY <2>1, <2>2
<1> QED BY <1>2, <1>5, <1>6 DEF Within, s

\* The statements that the use cases are made of, with their places in the order.
LEMMA TokensWithin ==
  ASSUME NEW ts \in SUBSET Issued
  PROVE  /\ Within(Update("email_change_tokens", ts), 2, 2)
         /\ Within(Update("password_reset_tokens", ts), 3, 3)
         /\ Within(Update("refresh_tokens", ts), 4, 4)
         /\ Within(Exclude("password_reset_tokens", ts), 3, 3)
         /\ Within(Exclude("refresh_tokens", ts), 4, 4)
<1>1. /\ ts \in SUBSET Rows
      /\ "email_change_tokens" \in Tables
      /\ "password_reset_tokens" \in Tables \ {"users", "libraries"}
      /\ "refresh_tokens" \in Tables \ {"users", "libraries"}
  BY DEF Rows, Tables
<1>2. /\ Within(Update("email_change_tokens", ts), 2, 2)
      /\ Within(Update("password_reset_tokens", ts), 3, 3)
      /\ Within(Update("refresh_tokens", ts), 4, 4)
  BY <1>1, UpdateWithin, Ranks
<1>3. /\ Within(Exclude("password_reset_tokens", ts), 3, 3)
      /\ Within(Exclude("refresh_tokens", ts), 4, 4)
  BY <1>1, ExcludeWithin, Ranks
<1> QED BY <1>2, <1>3

LEMMA MembershipsWithin ==
  ASSUME NEW ms \in SUBSET (Users \X Libraries)
  PROVE  /\ Within(SaveMembership(ms), 5, 5)
         /\ Within(LockActiveAdmins(ms), 5, 5)
<1>1. /\ ms \in SUBSET Rows
      /\ "user_library_memberships" \in Tables \ {"users", "libraries"}
  BY DEF Rows, Tables
<1>2. Within(SaveMembership(ms), 5, 5)
  BY <1>1, UpdateWithin, Ranks DEF SaveMembership
<1>3. Within(LockActiveAdmins(ms), 5, 5)
  BY <1>1, ExcludeWithin, Ranks DEF LockActiveAdmins
<1> QED BY <1>2, <1>3

LEMMA AddressesWithin ==
  ASSUME NEW as \in SUBSET Addresses
  PROVE  Within(Update("uq_users_email_active", as), 7, 7)
<1>1. as \in SUBSET Rows /\ "uq_users_email_active" \in Tables
  BY DEF Rows, Tables
<1> QED BY <1>1, UpdateWithin, Ranks

LEMMA AccountWithin ==
  ASSUME NEW u \in Users, NEW as \in SUBSET Addresses
  PROVE  Within(SaveAccount(u, as), 6, 7)
<1>1. {u} \in SUBSET Rows /\ "users" \in Tables
  BY DEF Rows, Tables
<1>2. Within(Update("users", {u}), 6, 6)
  BY <1>1, UpdateWithin, Ranks
<1>3. Within(Update("uq_users_email_active", as), 7, 7)
  BY AddressesWithin
<1>4. Within(Update("users", {u}) \o Update("uq_users_email_active", as), 6, 7)
  BY <1>2, <1>3, Chain, 6 \in Nat, 7 \in Nat, 6 <= 6, 6 <= 7, 7 <= 7
<1> QED BY <1>4 DEF SaveAccount

LEMMA UsersReferred ==
  ASSUME NEW us \in SUBSET Users
  PROVE  Within(Refer("users", us), 7, 7)
BY ReferWithin DEF Rows

LEMMA LibraryReferred ==
  ASSUME NEW l \in Libraries
  PROVE  Within(Refer("libraries", {l}), 7, 7)
BY ReferWithin DEF Rows

LEMMA CreationWithin ==
  ASSUME NEW e \in Addresses, NEW l \in Libraries
  PROVE  Within(CreateAccount(e, l), 7, 7)
BY AddressesWithin, LibraryReferred, Chain DEF CreateAccount

\* A plan that any number of requests can run side by side.
Admitted(kind, plan) ==
  /\ kind \in {"request", "import", "deletion"}
  /\ plan \in Seq(Statements)
  /\ kind = "request" => InOrder(plan)

Opens(r) == \E kind, plan : Admitted(kind, plan) /\ Open(r, kind, plan)

LEMMA ServeOpens ==
  ASSUME NEW r, NEW plan, NEW a, NEW b, Within(plan, a, b), Serve(r, plan)
  PROVE  Opens(r)
BY DEF Within, Serve, Opens, Admitted

\* Sessions: token, membership, reference to the account.
LEMMA SessionsOpen ==
  ASSUME NEW r \in Requests,
         Login(r) \/ RefreshToken(r) \/ Logout(r) \/ RevokeSessions(r) \/ Cleanup(r)
  PROVE  Opens(r)
<1>1. CASE Login(r)
  <2>1. PICK u \in Users, ms \in SUBSET (Users \X Libraries) :
          Serve(r, SaveMembership(ms) \o Refer("users", {u}))
    BY <1>1 DEF Login, AtMost, MembershipsOf
  <2>2. {u} \in SUBSET Users
    OBVIOUS
  <2>3. Within(SaveMembership(ms) \o Refer("users", {u}), 5, 7)
    BY <2>2, MembershipsWithin, UsersReferred, Chain
  <2> QED BY <2>1, <2>3, ServeOpens
<1>2. CASE RefreshToken(r)
  <2>1. PICK t \in Issued, ms \in SUBSET (Users \X Libraries) :
          Serve(r, Update("refresh_tokens", {t}) \o SaveMembership(ms)
                     \o Refer("users", {Owner[t]}))
    BY <1>2 DEF RefreshToken, AtMost, MembershipsOf
  <2>2. {Owner[t]} \in SUBSET Users /\ {t} \in SUBSET Issued
    OBVIOUS
  <2>3. Within(Update("refresh_tokens", {t}) \o SaveMembership(ms), 4, 5)
    BY <2>2, TokensWithin, MembershipsWithin, Chain
  <2>4. Within(Update("refresh_tokens", {t}) \o SaveMembership(ms)
                 \o Refer("users", {Owner[t]}), 4, 7)
    BY <2>2, <2>3, UsersReferred, Chain
  <2> QED BY <2>1, <2>4, ServeOpens
<1>3. CASE Logout(r)
  <2>1. PICK t \in Issued : Serve(r, Update("refresh_tokens", {t}))
    BY <1>3 DEF Logout
  <2>2. {t} \in SUBSET Issued
    OBVIOUS
  <2> QED BY <2>1, <2>2, TokensWithin, ServeOpens
<1>4. CASE RevokeSessions(r)
  BY <1>4, TokensWithin, ServeOpens DEF RevokeSessions
<1>5. CASE Cleanup(r)
  <2>1. PICK ks \in SUBSET Issued, ts \in SUBSET Issued :
          Serve(r, Exclude("password_reset_tokens", ks) \o Exclude("refresh_tokens", ts))
    BY <1>5 DEF Cleanup
  <2>2. Within(Exclude("password_reset_tokens", ks) \o Exclude("refresh_tokens", ts), 3, 4)
    BY TokensWithin, Chain
  <2> QED BY <2>1, <2>2, ServeOpens
<1> QED BY <1>1, <1>2, <1>3, <1>4, <1>5

\* Links: the link, then the account or a reference to it.
LEMMA LinksOpen ==
  ASSUME NEW r \in Requests,
         \/ RequestReset(r) \/ ResendInvite(r) \/ RequestEmail(r)
         \/ ResetPassword(r) \/ ConfirmEmail(r)
  PROVE  Opens(r)
<1>1. CASE RequestReset(r)
  <2>1. PICK u \in Users : Serve(r, Refer("users", {u}))
    BY <1>1 DEF RequestReset
  <2>2. {u} \in SUBSET Users
    OBVIOUS
  <2> QED BY <2>1, <2>2, UsersReferred, ServeOpens
<1>2. CASE ResendInvite(r)
  <2>1. PICK u \in Users, ks \in SUBSET Issued :
          Serve(r, Update("password_reset_tokens", ks) \o Refer("users", {u}))
    BY <1>2 DEF ResendInvite, OwnedBy
  <2>2. {u} \in SUBSET Users
    OBVIOUS
  <2>3. Within(Update("password_reset_tokens", ks) \o Refer("users", {u}), 3, 7)
    BY <2>2, TokensWithin, UsersReferred, Chain
  <2> QED BY <2>1, <2>3, ServeOpens
<1>3. CASE RequestEmail(r)
  <2>1. PICK u \in Users, ks \in SUBSET Issued :
          Serve(r, Update("email_change_tokens", ks) \o Refer("users", {u}))
    BY <1>3 DEF RequestEmail, OwnedBy
  <2>2. {u} \in SUBSET Users
    OBVIOUS
  <2>3. Within(Update("email_change_tokens", ks) \o Refer("users", {u}), 2, 7)
    BY <2>2, TokensWithin, UsersReferred, Chain
  <2> QED BY <2>1, <2>3, ServeOpens
<1>4. CASE ResetPassword(r)
  <2>1. PICK k \in Issued, as \in SUBSET Addresses :
          Serve(r, Update("password_reset_tokens", {k}) \o SaveAccount(Owner[k], as))
    BY <1>4 DEF ResetPassword
  <2>2. Owner[k] \in Users /\ {k} \in SUBSET Issued
    OBVIOUS
  <2>3. Within(Update("password_reset_tokens", {k}), 3, 3) /\ Within(SaveAccount(Owner[k], as), 6, 7)
    BY <2>2, TokensWithin, AccountWithin
  <2>4. Within(Update("password_reset_tokens", {k}) \o SaveAccount(Owner[k], as), 3, 7)
    BY <2>3, Chain, 3 \in Nat, 6 \in Nat, 7 \in Nat, 3 <= 3, 3 <= 6, 6 <= 7
  <2> QED BY <2>1, <2>4, ServeOpens
<1>5. CASE ConfirmEmail(r)
  <2>1. PICK k \in Issued, as \in SUBSET Addresses :
          Serve(r, Update("email_change_tokens", {k}) \o SaveAccount(Owner[k], as))
    BY <1>5 DEF ConfirmEmail
  <2>2. Owner[k] \in Users /\ {k} \in SUBSET Issued
    OBVIOUS
  <2>3. Within(Update("email_change_tokens", {k}), 2, 2) /\ Within(SaveAccount(Owner[k], as), 6, 7)
    BY <2>2, TokensWithin, AccountWithin
  <2>4. Within(Update("email_change_tokens", {k}) \o SaveAccount(Owner[k], as), 2, 7)
    BY <2>3, Chain, 2 \in Nat, 6 \in Nat, 7 \in Nat, 2 <= 2, 2 <= 6, 6 <= 7
  <2> QED BY <2>1, <2>4, ServeOpens
<1> QED BY <1>1, <1>2, <1>3, <1>4, <1>5

\* Accounts and memberships: membership, account, address, reference.
LEMMA PeopleOpen ==
  ASSUME NEW r \in Requests,
         \/ Profile(r) \/ SelectLibrary(r) \/ UpdateUser(r)
         \/ ChangeMembership(r) \/ AnswerInvitation(r) \/ Invite(r)
  PROVE  Opens(r)
<1> USE 5 \in Nat, 6 \in Nat, 7 \in Nat, 5 <= 5, 5 <= 6, 5 <= 7, 6 <= 7, 7 <= 7
<1>1. CASE Profile(r)
  <2>1. PICK u \in Users, as \in SUBSET Addresses : Serve(r, SaveAccount(u, as))
    BY <1>1 DEF Profile
  <2> QED BY <2>1, AccountWithin, ServeOpens
<1>2. CASE SelectLibrary(r)
  <2>1. PICK u \in Users, l \in Libraries, as \in SUBSET Addresses :
          Serve(r, SaveMembership({<<u, l>>}) \o SaveAccount(u, as)
                     \o Refer("libraries", {l}))
    BY <1>2 DEF SelectLibrary
  <2>2. /\ Within(SaveMembership({<<u, l>>}), 5, 5)
        /\ Within(SaveAccount(u, as), 6, 7)
        /\ Within(Refer("libraries", {l}), 7, 7)
    <3>1. {<<u, l>>} \in SUBSET (Users \X Libraries)
      OBVIOUS
    <3> QED BY <3>1, MembershipsWithin, AccountWithin, LibraryReferred
  <2>3. Within(SaveMembership({<<u, l>>}) \o SaveAccount(u, as), 5, 7)
    BY <2>2, Chain
  <2>4. Within(SaveMembership({<<u, l>>}) \o SaveAccount(u, as)
                 \o Refer("libraries", {l}), 5, 7)
    BY <2>2, <2>3, Chain
  <2> QED BY <2>1, <2>4, ServeOpens
<1>3. CASE UpdateUser(r)
  <2>1. PICK u \in Users, l \in Libraries, as \in Entries :
          \E locked \in Checks(l), ms \in SUBSET {<<u, l>>} :
            Serve(r, LockActiveAdmins(locked) \o SaveMembership(ms) \o SaveAccount(u, as))
    BY <1>3 DEF UpdateUser
  <2>2. PICK locked \in Checks(l), ms \in SUBSET {<<u, l>>} :
          Serve(r, LockActiveAdmins(locked) \o SaveMembership(ms) \o SaveAccount(u, as))
    BY <2>1
  <2>3. /\ locked \in SUBSET (Users \X Libraries)
        /\ ms \in SUBSET (Users \X Libraries)
        /\ as \in SUBSET Addresses
    <3>1. locked \in SUBSET (Users \X Libraries)
      BY DEF Checks
    <3>2. ms \in SUBSET (Users \X Libraries)
      OBVIOUS
    <3>3. as \in SUBSET Addresses
      OBVIOUS
    <3> QED BY <3>1, <3>2, <3>3
  <2>4. /\ Within(LockActiveAdmins(locked), 5, 5)
        /\ Within(SaveMembership(ms), 5, 5)
        /\ Within(SaveAccount(u, as), 6, 7)
    BY <2>3, MembershipsWithin, AccountWithin
  <2>5. Within(LockActiveAdmins(locked) \o SaveMembership(ms), 5, 5)
    BY <2>4, Chain
  <2>6. Within(LockActiveAdmins(locked) \o SaveMembership(ms) \o SaveAccount(u, as), 5, 7)
    BY <2>4, <2>5, Chain
  <2> QED BY <2>2, <2>6, ServeOpens
<1>4. CASE ChangeMembership(r)
  <2>1. PICK u \in Users, l \in Libraries, locked \in SUBSET (Users \X Libraries) :
          Serve(r, LockActiveAdmins(locked) \o SaveMembership({<<u, l>>}))
    BY <1>4 DEF ChangeMembership, Checks
  <2>2. Within(LockActiveAdmins(locked), 5, 5) /\ Within(SaveMembership({<<u, l>>}), 5, 5)
    BY MembershipsWithin
  <2>3. Within(LockActiveAdmins(locked) \o SaveMembership({<<u, l>>}), 5, 5)
    BY <2>2, Chain
  <2> QED BY <2>1, <2>3, ServeOpens
<1>5. CASE AnswerInvitation(r)
  BY <1>5, MembershipsWithin, ServeOpens DEF AnswerInvitation
<1>6. CASE Invite(r)
  <2>1. PICK u \in Users, l \in Libraries, inviter \in Users :
          Serve(r, SaveMembership({<<u, l>>}) \o Refer("users", {u, inviter})
                     \o Refer("libraries", {l}))
    BY <1>6 DEF Invite
  <2>2. /\ Within(SaveMembership({<<u, l>>}), 5, 5)
        /\ Within(Refer("users", {u, inviter}), 7, 7)
        /\ Within(Refer("libraries", {l}), 7, 7)
    BY MembershipsWithin, UsersReferred, LibraryReferred
  <2>3. Within(SaveMembership({<<u, l>>}) \o Refer("users", {u, inviter}), 5, 7)
    BY <2>2, Chain
  <2>4. Within(SaveMembership({<<u, l>>}) \o Refer("users", {u, inviter})
                 \o Refer("libraries", {l}), 5, 7)
    BY <2>2, <2>3, Chain
  <2> QED BY <2>1, <2>4, ServeOpens
<1> QED BY <1>1, <1>2, <1>3, <1>4, <1>5, <1>6

\* Creation, imports and deletions.
LEMMA ExclusionPlan ==
  /\ \A us \in SUBSET Users : Exclude("users", us) \in Seq(Statements)
  /\ \A ts \in SUBSET Issued :
       /\ Exclude("refresh_tokens", ts) \in Seq(Statements)
       /\ Exclude("password_reset_tokens", ts) \in Seq(Statements)
       /\ Exclude("email_change_tokens", ts) \in Seq(Statements)
  /\ \A ms \in SUBSET (Users \X Libraries) :
       Exclude("user_library_memberships", ms) \in Seq(Statements)
  /\ \A ls \in SUBSET Libraries : Exclude("libraries", ls) \in Seq(Statements)
BY StatementPlan DEF Exclude, Rows, Tables, Modes

LEMMA CascadePlan ==
  ASSUME NEW us \in SUBSET Users
  PROVE  Cascade(us) \in Seq(Statements)
<1> DEFINE owned == {i \in Issued : Owner[i] \in us}
<1>1. owned \in SUBSET Issued /\ us \X Libraries \in SUBSET (Users \X Libraries)
  OBVIOUS
<1> HIDE DEF owned
<1>2. /\ Exclude("users", us) \in Seq(Statements)
      /\ Exclude("refresh_tokens", owned) \in Seq(Statements)
      /\ Exclude("password_reset_tokens", owned) \in Seq(Statements)
      /\ Exclude("user_library_memberships", us \X Libraries) \in Seq(Statements)
      /\ Exclude("email_change_tokens", owned) \in Seq(Statements)
  BY <1>1, ExclusionPlan
<1>3. Exclude("users", us) \o Exclude("refresh_tokens", owned)
        \o Exclude("password_reset_tokens", owned)
        \o Exclude("user_library_memberships", us \X Libraries)
        \o Exclude("email_change_tokens", owned) \in Seq(Statements)
  BY <1>2, ConcatProperties
<1> QED BY <1>3 DEF Cascade, owned

LEMMA CreationsOpen ==
  ASSUME NEW r \in Requests,
         \/ Register(r) \/ Create(r) \/ RenameLibrary(r) \/ Import(r)
         \/ DeleteUser(r) \/ DeleteLibrary(r)
  PROVE  Opens(r)
<1>1. CASE Register(r)
  BY <1>1, AddressesWithin, ServeOpens DEF Register
<1>2. CASE Create(r)
  <2>1. PICK e \in Addresses, l \in Libraries, inviters \in SUBSET Users :
          Serve(r, CreateAccount(e, l) \o Refer("users", inviters))
    BY <1>2 DEF Create, AtMost
  <2>2. Within(CreateAccount(e, l), 7, 7) /\ Within(Refer("users", inviters), 7, 7)
    BY CreationWithin, UsersReferred
  <2>3. Within(CreateAccount(e, l) \o Refer("users", inviters), 7, 7)
    BY <2>2, Chain, 7 \in Nat, 7 <= 7
  <2> QED BY <2>1, <2>3, ServeOpens
<1>3. CASE RenameLibrary(r)
  <2>1. PICK l \in Libraries : Serve(r, Update("libraries", {l}))
    BY <1>3 DEF RenameLibrary
  <2>2. {l} \in SUBSET Rows /\ "libraries" \in Tables
    BY DEF Rows, Tables
  <2>3. Within(Update("libraries", {l}), 1, 1)
    BY <2>2, UpdateWithin, Ranks
  <2> QED BY <2>1, <2>3, ServeOpens
<1>4. CASE Import(r)
  <2>1. PICK e \in Addresses, f \in Addresses, l \in Libraries,
             locked \in SUBSET (Users \X Libraries) :
          Open(r, "import", CreateAccount(e, l) \o LockActiveAdmins(locked)
                              \o Update("uq_users_email_active", {f}))
    BY <1>4 DEF Import, Checks
  <2>2. /\ CreateAccount(e, l) \in Seq(Statements)
        /\ LockActiveAdmins(locked) \in Seq(Statements)
        /\ Update("uq_users_email_active", {f}) \in Seq(Statements)
    BY CreationWithin, MembershipsWithin, AddressesWithin DEF Within
  <2>3. CreateAccount(e, l) \o LockActiveAdmins(locked)
          \o Update("uq_users_email_active", {f}) \in Seq(Statements)
    BY <2>2, ConcatProperties
  <2> QED BY <2>1, <2>3 DEF Opens, Admitted
<1>5. CASE DeleteUser(r)
  <2>1. PICK u \in Users, locked \in SUBSET Users :
          Open(r, "deletion", Exclude("users", locked) \o Cascade({u}))
    BY <1>5 DEF DeleteUser
  <2>2. Exclude("users", locked) \in Seq(Statements) /\ Cascade({u}) \in Seq(Statements)
    BY ExclusionPlan, CascadePlan
  <2>3. Exclude("users", locked) \o Cascade({u}) \in Seq(Statements)
    BY <2>2, ConcatProperties
  <2> QED BY <2>1, <2>3 DEF Opens, Admitted
<1>6. CASE DeleteLibrary(r)
  <2>1. PICK l \in Libraries, us \in SUBSET Users :
          Open(r, "deletion", Exclude("libraries", {l}) \o Cascade(us)
                                \o Exclude("user_library_memberships", Users \X {l}))
    BY <1>6 DEF DeleteLibrary
  <2>2. {l} \in SUBSET Libraries /\ Users \X {l} \in SUBSET (Users \X Libraries)
    OBVIOUS
  <2>3. /\ Exclude("libraries", {l}) \in Seq(Statements)
        /\ Cascade(us) \in Seq(Statements)
        /\ Exclude("user_library_memberships", Users \X {l}) \in Seq(Statements)
    BY <2>2, ExclusionPlan, CascadePlan
  <2>4. Exclude("libraries", {l}) \o Cascade(us)
          \o Exclude("user_library_memberships", Users \X {l}) \in Seq(Statements)
    BY <2>3, ConcatProperties
  <2> QED BY <2>1, <2>4 DEF Opens, Admitted
<1> QED BY <1>1, <1>2, <1>3, <1>4, <1>5, <1>6

LEMMA StartOpens ==
  ASSUME NEW r \in Requests, Start(r)
  PROVE  Opens(r)
BY SessionsOpen, LinksOpen, PeopleOpen, CreationsOpen DEF Start

-----------------------------------------------------------------------------
(* Type correctness and the invariant *)

LEMMA IdleTransaction == Idle \in Transaction
BY EmptySeq DEF Idle, Transaction

\* What an open transaction looks like.
LEMMA OpenTransaction ==
  ASSUME TypeOK, NEW r \in Requests, req[r].kind # "none"
  PROVE  /\ req[r].plan \in Seq(Statements)
         /\ req[r].at \in 1..Len(req[r].plan)
         /\ req[r].plan[req[r].at] \in Statements
         /\ req[r].todo \subseteq req[r].plan[req[r].at].rows
BY ElementOfSeq DEF TypeOK, Transaction, Now

LEMMA WaitersAreOpen ==
  ASSUME TypeOK, NEW r \in Requests, NEW v, v \in req[r].todo
  PROVE  req[r].kind # "none"
BY DEF TypeOK, Idle

\* An empty slot holds nothing, and neither does a request that has just begun.
LEMMA IdleHasNothing ==
  ASSUME NEW i, i \in 1..Idle.at PROVE FALSE
BY DEF Idle

\* Two modes exclude each other whichever comes first.
LEMMA ConflictSymmetric ==
  ASSUME NEW m, NEW n PROVE Conflict(m, n) <=> Conflict(n, m)
BY DEF Conflict

\* Invariant and step, one request at a time.
Fits(x) ==
  /\ IF x.kind = "none" THEN x = Idle
     ELSE x.at \in 1..Len(x.plan) /\ x.todo \subseteq Now(x).rows
  /\ x.kind = "request" => InOrder(x.plan)

Apart(x, y) ==
  \A i \in 1..x.at, j \in 1..y.at :
    x.plan[i].table = y.plan[j].table /\ Conflict(x.plan[i].mode, y.plan[j].mode)
      => Got(x, i) \cap Got(y, j) = {}

LEMMA ApartSymmetric ==
  ASSUME NEW x, NEW y, Apart(x, y) PROVE Apart(y, x)
BY ConflictSymmetric DEF Apart

LEMMA InvByRequest ==
  LocksInv <=>
    /\ req \in [Requests -> Transaction]
    /\ \A r \in Requests : Fits(req[r])
    /\ \A p, q \in Requests : p # q => Apart(req[p], req[q])
BY DEF LocksInv, TypeOK, OneHolder, Fits, Apart

\* A step of one slot keeps the invariant when the new transaction fits and is apart
\* from the others.
LEMMA SlotStep ==
  ASSUME LocksInv, NEW r \in Requests, NEW x \in Transaction, Fits(x),
         req' = [req EXCEPT ![r] = x],
         \A q \in Requests \ {r} : Apart(x, req[q])
  PROVE  LocksInv'
<1>1. /\ req \in [Requests -> Transaction]
      /\ \A p \in Requests : Fits(req[p])
      /\ \A p, q \in Requests : p # q => Apart(req[p], req[q])
  BY InvByRequest
<1>2. /\ req'[r] = x
      /\ \A q \in Requests \ {r} : req'[q] = req[q]
  BY <1>1
<1>3. req' \in [Requests -> Transaction]
  BY <1>1
<1>4. \A p \in Requests : Fits(req'[p])
  BY <1>1, <1>2
<1>5. \A p, q \in Requests : p # q => Apart(req'[p], req'[q])
  <2> SUFFICES ASSUME NEW p \in Requests, NEW q \in Requests, p # q
               PROVE  Apart(req'[p], req'[q])
    OBVIOUS
  <2>1. CASE p = r
    BY <1>2, <2>1
  <2>2. CASE q = r
    BY <1>2, <2>2, ApartSymmetric
  <2>3. CASE p # r /\ q # r
    BY <1>1, <1>2, <2>3
  <2> QED BY <2>1, <2>2, <2>3
<1> QED BY <1>3, <1>4, <1>5 DEF LocksInv, TypeOK, OneHolder, Fits, Apart

LEMMA EndStep ==
  ASSUME LocksInv, NEW r \in Requests, Finish(r)
  PROVE  LocksInv'
<1>1. Fits(Idle)
  BY DEF Fits, Idle
<1>2. \A q \in Requests \ {r} : Apart(Idle, req[q])
  BY DEF Apart, Idle
<1> QED BY <1>1, <1>2, IdleTransaction, SlotStep DEF Finish

LEMMA OpenStep ==
  ASSUME LocksInv, NEW r \in Requests, Opens(r)
  PROVE  LocksInv'
<1>1. PICK kind, plan : Admitted(kind, plan) /\ Open(r, kind, plan)
  BY DEF Opens
<1> DEFINE x == [kind |-> kind, plan |-> plan, at |-> 1, todo |-> plan[1].rows]
<1>2. /\ kind \in {"request", "import", "deletion"} /\ plan \in Seq(Statements)
      /\ kind = "request" => InOrder(plan) /\ plan # <<>>
  BY <1>1 DEF Admitted, Open
<1>3. 1 \in 1..Len(plan) /\ plan[1] \in Statements
  <2>1. plan # <<>> /\ plan \in Seq(Statements)
    BY <1>1 DEF Admitted, Open
  <2>2. Len(plan) \in Nat /\ Len(plan) # 0
    BY <2>1, EmptySeq, LenProperties
  <2>3. 1 \in 1..Len(plan)
    BY <2>2
  <2> QED BY <2>1, <2>3, ElementOfSeq
<1>4. plan[1].rows \in SUBSET Rows
  BY <1>3 DEF Statements
<1>5. x \in Transaction
  BY <1>2, <1>4 DEF Transaction
<1>6. Fits(x)
  BY <1>2, <1>3 DEF Fits, Now
<1>7. \A q \in Requests \ {r} : Apart(x, req[q])
  <2>1. \A i \in 1..x.at : i = 1 /\ Got(x, i) = {}
    BY DEF Got
  <2> HIDE DEF x
  <2> QED BY <2>1 DEF Apart
<1>8. req' = [req EXCEPT ![r] = x]
  BY <1>1 DEF Open
<1> HIDE DEF x
<1> QED BY <1>5, <1>6, <1>7, <1>8, SlotStep

\* What a request has more after a row is locked is that row alone.
LEMMA LockStep ==
  ASSUME LocksInv, NEW r \in Requests, NEW v, LockRow(r, v)
  PROVE  LocksInv'
<1> DEFINE y == req[r]
           x == [y EXCEPT !.todo = @ \ {v}]
           z == IF x.todo = {} /\ ~Last(x) THEN NextStatement(x) ELSE x
<1>1. /\ req \in [Requests -> Transaction]
      /\ \A p \in Requests : Fits(req[p])
      /\ \A p, q \in Requests : p # q => Apart(req[p], req[q])
  BY InvByRequest
<1>2. /\ v \in y.todo
      /\ \A q \in Requests \ {r} : ~Blocks(req[q], y, v)
      /\ req' = [req EXCEPT ![r] = z]
  BY DEF LockRow
<1>3. TypeOK /\ y \in Transaction /\ y.kind # "none"
  BY <1>1, <1>2, WaitersAreOpen DEF LocksInv
<1>4. /\ y.plan \in Seq(Statements)
      /\ y.at \in 1..Len(y.plan) /\ y.at \in Nat /\ Len(y.plan) \in Nat
      /\ y.plan[y.at] \in Statements
      /\ y.todo \subseteq y.plan[y.at].rows
  BY <1>3, OpenTransaction, LenProperties
<1>5. x \in Transaction /\ x.kind = y.kind /\ x.plan = y.plan /\ x.at = y.at
      /\ x.todo = y.todo \ {v}
  BY <1>3 DEF Transaction
<1>6. Fits(x)
  BY <1>1, <1>3, <1>4, <1>5 DEF Fits, Now
<1>7. \A i \in 1..x.at :
        Got(x, i) \subseteq (IF i = y.at THEN Got(y, i) \cup {v} ELSE Got(y, i))
  BY <1>5 DEF Got
<1>8. ASSUME NEW q \in Requests \ {r} PROVE Apart(x, req[q])
  <2> SUFFICES ASSUME NEW i \in 1..x.at, NEW j \in 1..req[q].at,
                      x.plan[i].table = req[q].plan[j].table,
                      Conflict(x.plan[i].mode, req[q].plan[j].mode)
               PROVE  Got(x, i) \cap Got(req[q], j) = {}
    BY DEF Apart
  <2>1. Got(y, i) \cap Got(req[q], j) = {}
    BY <1>1, <1>5, <1>8 DEF Apart
  <2>2. ASSUME i = y.at PROVE v \notin Got(req[q], j)
    <3> SUFFICES ASSUME v \in Got(req[q], j) PROVE FALSE
      OBVIOUS
    <3>1. y.plan[y.at].mode = x.plan[i].mode /\ y.plan[y.at].table = x.plan[i].table
      BY <1>5, <2>2
    <3>2. Conflict(req[q].plan[j].mode, Now(y).mode)
      BY <3>1, ConflictSymmetric DEF Now
    <3>3. Blocks(req[q], y, v)
      BY <3>1, <3>2 DEF Blocks, Now
    <3> QED BY <1>2, <1>8, <3>3
  <2>3. CASE i = y.at
    <3>1. Got(x, i) \subseteq Got(y, i) \cup {v}
      BY <1>7, <2>3
    <3> QED BY <2>1, <2>2, <2>3, <3>1
  <2>4. CASE i # y.at
    <3>1. Got(x, i) \subseteq Got(y, i)
      BY <1>7, <2>4
    <3> QED BY <2>1, <3>1
  <2> QED BY <2>3, <2>4
<1> HIDE DEF x
<1>9. CASE ~(x.todo = {} /\ ~Last(x))
  <2>1. z = x
    BY <1>9
  <2> HIDE DEF z
  <2> QED BY <1>2, <1>5, <1>6, <1>8, <2>1, SlotStep
<1>10. CASE x.todo = {} /\ ~Last(x)
  <2>1. z = [x EXCEPT !.at = @ + 1, !.todo = x.plan[x.at + 1].rows]
    BY <1>10 DEF NextStatement
  <2>2. x.at + 1 \in 1..Len(x.plan) /\ x.at + 1 \in Nat
    BY <1>4, <1>5, <1>10 DEF Last
  <2>3. x.plan[x.at + 1] \in Statements
    BY <1>4, <1>5, <2>2, ElementOfSeq
  <2>4. x.plan[x.at + 1].rows \in SUBSET Rows
    BY <2>3 DEF Statements
  <2>5. /\ z \in Transaction /\ z.kind = x.kind /\ z.plan = x.plan
        /\ z.at = x.at + 1 /\ z.todo = x.plan[x.at + 1].rows
    BY <1>5, <2>1, <2>2, <2>4 DEF Transaction
  <2> HIDE DEF z
  <2>6. Fits(z)
    BY <1>3, <1>5, <1>6, <2>2, <2>5 DEF Fits, Now
  <2>7. \A i \in 1..z.at :
          Got(z, i) = IF i = z.at THEN {} ELSE Got(x, i)
    BY <1>10, <2>5 DEF Got
  <2>8. ASSUME NEW q \in Requests \ {r} PROVE Apart(z, req[q])
    <3>1. \A i \in 1..z.at : i # z.at => i \in 1..x.at
      BY <1>4, <1>5, <2>5
    <3>2. Apart(x, req[q])
      BY <1>8, <2>8
    <3> QED BY <2>5, <2>7, <3>1, <3>2 DEF Apart
  <2> QED BY <1>2, <2>5, <2>6, <2>8, SlotStep
<1> QED BY <1>9, <1>10

\* Whatever rows the statements find and whichever of them wait, all requests lock
\* their tables in one order, and no two hold a row against each other.
THEOREM LocksInvariant == Spec => []LocksInv
<1>1. Init => LocksInv
  <2> SUFFICES ASSUME Init PROVE LocksInv
    OBVIOUS
  <2>1. req \in [Requests -> Transaction] /\ \A r \in Requests : req[r] = Idle
    BY IdleTransaction DEF Init
  <2>2. \A r \in Requests : Fits(req[r])
    BY <2>1 DEF Fits, Idle
  <2>3. \A p, q \in Requests : Apart(req[p], req[q])
    BY <2>1 DEF Apart, Idle
  <2> QED BY <2>1, <2>2, <2>3, InvByRequest
<1>2. LocksInv /\ [Next]_vars => LocksInv'
  <2> SUFFICES ASSUME LocksInv, [Next]_vars PROVE LocksInv'
    OBVIOUS
  <2>1. CASE UNCHANGED vars
    BY <2>1 DEF vars, LocksInv, TypeOK, OneHolder
  <2>2. ASSUME NEW r \in Requests, Start(r) PROVE LocksInv'
    BY <2>2, StartOpens, OpenStep
  <2>3. ASSUME NEW r \in Requests, Work(r) PROVE LocksInv'
    <3>1. ASSUME NEW v \in req[r].todo, LockRow(r, v) PROVE LocksInv'
      BY <3>1, LockStep
    <3>2. CASE Commit(r)
      BY <3>2, EndStep DEF Commit
    <3> QED BY <2>3, <3>1, <3>2 DEF Work
  <2>4. ASSUME NEW r \in Requests, Rollback(r) PROVE LocksInv'
    BY <2>4, EndStep DEF Rollback
  <2>5. ASSUME NEW r \in Requests, AbortDeadlock(r) PROVE LocksInv'
    BY <2>5, EndStep DEF AbortDeadlock
  <2> QED BY <2>1, <2>2, <2>3, <2>4, <2>5 DEF Next
<1> QED BY <1>1, <1>2, PTL DEF Spec

-----------------------------------------------------------------------------
(* Deadlocks *)

\* x has row v of a table locked in a mode.
Holds(x, table, v, mode) ==
  \E i \in 1..x.at :
    x.plan[i].table = table /\ x.plan[i].mode = mode /\ v \in Got(x, i)

\* How far in the order the statement of a request is.
Reached(p) == Rank(Now(req[p]).table)

\* A request in order that waits for another one in order: the other has locked a row
\* of the same table, in a mode that would make anybody wait, and is not behind.
LEMMA WaitsInOrder ==
  ASSUME LocksInv, NEW p \in Requests, NEW q \in Requests, WaitsFor(p, q),
         req[p].kind = "request", req[q].kind = "request"
  PROVE  \E v, mode :
           /\ Holds(req[q], Now(req[p]).table, v, mode)
           /\ mode \in Modes \ {"key_share"}
           /\ Now(req[p]).mode \in Modes \ {"key_share"}
           /\ v \in req[p].todo
<1>1. PICK v \in req[p].todo, i \in 1..req[q].at :
        /\ req[q].plan[i].table = Now(req[p]).table
        /\ Conflict(req[q].plan[i].mode, Now(req[p]).mode)
        /\ v \in Got(req[q], i)
  BY DEF WaitsFor, Blocks
<1> DEFINE mode == req[q].plan[i].mode
<1>2. Holds(req[q], Now(req[p]).table, v, mode)
  BY <1>1 DEF Holds
<1>3. /\ TypeOK /\ InOrder(req[p].plan) /\ InOrder(req[q].plan)
  BY DEF LocksInv
<1>4. /\ req[p].plan \in Seq(Statements) /\ req[p].at \in 1..Len(req[p].plan)
      /\ req[q].plan \in Seq(Statements) /\ req[q].at \in 1..Len(req[q].plan)
      /\ Now(req[p]) \in Statements
  BY <1>3, OpenTransaction DEF Now
<1>5. i \in 1..Len(req[q].plan)
  BY <1>4, LenProperties
<1>6. req[q].plan[i] \in Statements
  BY <1>4, <1>5, ElementOfSeq
<1>7. /\ mode \in Modes /\ Now(req[p]).mode \in Modes
  BY <1>4, <1>6 DEF Statements
<1>8. mode = "key_share" => req[q].plan[i].table \in {"users", "libraries"}
  BY <1>3, <1>5 DEF InOrder, Exempt
<1>9. mode = "update" => req[q].plan[i].table \notin {"users", "libraries"}
  BY <1>3, <1>5 DEF InOrder, Exempt
<1>10. Now(req[p]).mode = "key_share" => Now(req[p]).table \in {"users", "libraries"}
  BY <1>3, <1>4 DEF InOrder, Exempt, Now
<1>11. Now(req[p]).mode = "update" => Now(req[p]).table \notin {"users", "libraries"}
  BY <1>3, <1>4 DEF InOrder, Exempt, Now
<1>12. mode # "key_share" /\ Now(req[p]).mode # "key_share"
  BY <1>1, <1>7, <1>8, <1>9, <1>10, <1>11 DEF Conflict, Modes
<1> QED BY <1>1, <1>2, <1>7, <1>12

\* In a circle, one that waits for a request that has come no further than itself
\* waits for one that has another row of the same table.
LEMMA MeetsMany ==
  ASSUME LocksInv, NEW p \in Requests, NEW q \in Requests, NEW s \in Requests,
         WaitsFor(p, q), WaitsFor(q, s), Reached(q) <= Reached(p),
         req[p].kind = "request", req[q].kind = "request", req[s].kind = "request"
  PROVE  /\ Now(req[q]).table = Now(req[p]).table
         /\ Many(req[q], Now(req[p]).table)
<1>1. PICK v, m : /\ Holds(req[q], Now(req[p]).table, v, m)
                  /\ m \in Modes \ {"key_share"}
  BY WaitsInOrder
<1>2. PICK w, n : /\ Holds(req[s], Now(req[q]).table, w, n)
                  /\ n \in Modes \ {"key_share"}
                  /\ Now(req[q]).mode \in Modes \ {"key_share"}
                  /\ w \in req[q].todo
  BY WaitsInOrder
<1>3. PICK i \in 1..req[q].at :
        /\ req[q].plan[i].table = Now(req[p]).table /\ req[q].plan[i].mode = m
        /\ v \in Got(req[q], i)
  BY <1>1 DEF Holds
<1>4. PICK j \in 1..req[s].at :
        /\ req[s].plan[j].table = Now(req[q]).table /\ req[s].plan[j].mode = n
        /\ w \in Got(req[s], j)
  BY <1>2 DEF Holds
<1>5. TypeOK /\ InOrder(req[q].plan)
  BY DEF LocksInv
<1>6. /\ req[q].plan \in Seq(Statements) /\ req[q].at \in 1..Len(req[q].plan)
      /\ Now(req[q]) \in Statements /\ Now(req[p]) \in Statements
      /\ req[q].todo \subseteq Now(req[q]).rows
      /\ req[q].at \in Nat
  BY <1>5, OpenTransaction, LenProperties DEF Now
<1>7. i \in 1..Len(req[q].plan)
  BY <1>6, LenProperties
<1>8. Now(req[q]).table = Now(req[p]).table
  <2>1. /\ Now(req[q]).table \in Tables /\ Now(req[p]).table \in Tables
    BY <1>6 DEF Statements
  <2>2. Reached(q) \in Nat /\ Reached(p) \in Nat
    BY <2>1, RankNat DEF Reached
  <2>3. CASE i = req[q].at
    BY <1>3, <2>3 DEF Now
  <2>4. CASE i # req[q].at
    <3>1. i \in 1..(req[q].at - 1)
      BY <1>6, <2>4
    <3>2. Rank(req[q].plan[i].table) <= Rank(req[q].plan[req[q].at].table)
      BY <1>1, <1>2, <1>3, <1>5, <1>6, <3>1 DEF InOrder, Exempt, Now
    <3>3. Reached(p) <= Reached(q)
      BY <1>3, <3>2 DEF Reached, Now
    <3>4. Reached(p) = Reached(q)
      BY <2>2, <3>3
    <3> QED BY <2>1, <3>4, Ranks DEF Reached
  <2> QED BY <2>3, <2>4
<1>9. v # w
  <2> SUFFICES ASSUME v = w PROVE FALSE
    OBVIOUS
  <2>1. q # s
    BY DEF WaitsFor
  <2>2. Apart(req[q], req[s])
    BY <2>1, InvByRequest
  <2>3. req[q].plan[i].table = req[s].plan[j].table
    BY <1>3, <1>4, <1>8
  <2>4. Conflict(m, n)
    BY <1>1, <1>2 DEF Conflict, Modes
  <2>5. Got(req[q], i) \cap Got(req[s], j) = {}
    BY <1>3, <1>4, <2>2, <2>3, <2>4 DEF Apart
  <2> QED BY <1>3, <1>4, <2>5
<1>10. v \in req[q].plan[i].rows /\ w \in req[q].plan[req[q].at].rows
  BY <1>2, <1>3, <1>6 DEF Got, Now
<1>11. req[q].plan[req[q].at].table = Now(req[p]).table
  BY <1>8 DEF Now
<1>12. Many(req[q], Now(req[p]).table)
  BY <1>3, <1>6, <1>7, <1>9, <1>10, <1>11 DEF Many
<1> QED BY <1>8, <1>12

\* Some request of a set has come at least as far as the others.
LEMMA Foremost ==
  ASSUME TypeOK, NEW S \in SUBSET Requests, S # {},
         \A p \in S : req[p].kind # "none"
  PROVE  \E p \in S : \A q \in S : Reached(q) <= Reached(p)
<1>1. \A p \in S : Reached(p) \in 1..7
  <2> TAKE p \in S
  <2>1. Now(req[p]) \in Statements
    BY OpenTransaction DEF Now
  <2>2. Now(req[p]).table \in Tables
    BY <2>1 DEF Statements
  <2> QED BY <2>2, Ranks DEF Reached
<1> HIDE DEF Reached
<1>2. CASE \E p \in S : Reached(p) = 7
  BY <1>1, <1>2
<1>3. CASE \E p \in S : Reached(p) = 6 /\ \A q \in S : Reached(q) <= 6
  BY <1>3
<1>4. CASE \E p \in S : Reached(p) = 5 /\ \A q \in S : Reached(q) <= 5
  BY <1>4
<1>5. CASE \E p \in S : Reached(p) = 4 /\ \A q \in S : Reached(q) <= 4
  BY <1>5
<1>6. CASE \E p \in S : Reached(p) = 3 /\ \A q \in S : Reached(q) <= 3
  BY <1>6
<1>7. CASE \E p \in S : Reached(p) = 2 /\ \A q \in S : Reached(q) <= 2
  BY <1>7
<1>8. CASE \A q \in S : Reached(q) <= 1
  BY <1>1, <1>8
<1>9. \/ \E p \in S : Reached(p) = 7
      \/ \A q \in S : Reached(q) <= 6
  BY <1>1
<1>10. (\A q \in S : Reached(q) <= 6) =>
         \/ \E p \in S : Reached(p) = 6
         \/ \A q \in S : Reached(q) <= 5
  BY <1>1
<1>11. (\A q \in S : Reached(q) <= 5) =>
         \/ \E p \in S : Reached(p) = 5
         \/ \A q \in S : Reached(q) <= 4
  BY <1>1
<1>12. (\A q \in S : Reached(q) <= 4) =>
         \/ \E p \in S : Reached(p) = 4
         \/ \A q \in S : Reached(q) <= 3
  BY <1>1
<1>13. (\A q \in S : Reached(q) <= 3) =>
         \/ \E p \in S : Reached(p) = 3
         \/ \A q \in S : Reached(q) <= 2
  BY <1>1
<1>14. (\A q \in S : Reached(q) <= 2) =>
         \/ \E p \in S : Reached(p) = 2
         \/ \A q \in S : Reached(q) <= 1
  BY <1>1
<1> QED BY <1>2, <1>3, <1>4, <1>5, <1>6, <1>7, <1>8, <1>9, <1>10, <1>11, <1>12, <1>13, <1>14

\* Of any number of overlapping requests, only deletions, imports, and requests that
\* lock several rows of one table can come to wait for each other in a circle.
THEOREM LockOrder == Spec => []DeadlocksNeedMany
<1>1. LocksInv => DeadlocksNeedMany
  <2> SUFFICES ASSUME LocksInv, NEW S \in SUBSET Requests, S # {}, Circle(S),
                      \A p \in S : req[p].kind \notin {"deletion", "import"}
               PROVE  \E p, q \in S : \E table \in Tables :
                        p # q /\ Many(req[p], table) /\ Many(req[q], table)
    BY DEF DeadlocksNeedMany
  <2>1. \A p \in S : \E q \in S : WaitsFor(p, q)
    BY DEF Circle
  <2>2. TypeOK
    BY DEF LocksInv
  <2>3. \A p \in S : req[p].kind = "request"
    <3> TAKE p \in S
    <3>1. req[p].kind # "none"
      BY <2>1, <2>2, WaitersAreOpen DEF WaitsFor
    <3>2. req[p] \in Transaction
      BY <2>2 DEF TypeOK
    <3> QED BY <3>1, <3>2 DEF Transaction
  <2>4. PICK p \in S : \A q \in S : Reached(q) <= Reached(p)
    BY <2>2, <2>3, Foremost
  <2>5. PICK q \in S : WaitsFor(p, q)
    BY <2>1
  <2>6. PICK s \in S : WaitsFor(q, s)
    BY <2>1
  <2>7. PICK t \in S : WaitsFor(s, t)
    BY <2>1
  <2>8. /\ Now(req[q]).table = Now(req[p]).table
        /\ Many(req[q], Now(req[p]).table)
    BY <2>3, <2>4, <2>5, <2>6, MeetsMany
  <2>9. Reached(s) <= Reached(q)
    BY <2>4, <2>8 DEF Reached
  <2>10. Many(req[s], Now(req[q]).table)
    BY <2>3, <2>6, <2>7, <2>9, MeetsMany
  <2>11. q # s
    BY <2>6 DEF WaitsFor
  <2>12. Now(req[p]).table \in Tables
    <3>1. Now(req[p]) \in Statements
      BY <2>2, <2>3, OpenTransaction DEF Now
    <3> QED BY <3>1 DEF Statements
  <2> QED BY <2>8, <2>10, <2>11, <2>12
<1> QED BY <1>1, LocksInvariant, PTL

=============================================================================
