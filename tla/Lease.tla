------------------------------- MODULE Lease -------------------------------
(***************************************************************************)
(* What the claims of an access token promise, without requests, rows or   *)
(* transactions: a lease. It is granted or renewed only to who is entitled *)
(* to the claim, or was until shortly before. The loss of the entitlement  *)
(* does not end it, time does; nothing else prolongs it.                   *)
(***************************************************************************)
EXTENDS Integers

CONSTANTS
  Claims,
  Term,      \* the time a lease is granted for
  Grace,     \* how long after its loss an entitlement may still grant one
  Cap        \* longer ago than this is not told apart

VARIABLES
  held,      \* the claims somebody is entitled to
  left,      \* what is left of the lease of each claim
  since      \* how long ago each claim was held

leaseVars == <<held, left, since>>

Init ==
  /\ held \in SUBSET Claims
  /\ left = [c \in Claims |-> 0]
  /\ since = [c \in Claims |-> IF c \in held THEN 0 ELSE Cap]

\* Entitlements change, and some leases begin anew.
Renew ==
  /\ left' \in [Claims -> 0..Term]
  /\ \A c \in Claims : left'[c] = left[c] \/ (left'[c] = Term /\ since[c] <= Grace)
  /\ held' \in SUBSET Claims
  /\ since' = [c \in Claims |-> IF c \in held' THEN 0 ELSE since[c]]

Tick ==
  /\ left' = [c \in Claims |-> IF left[c] = 0 THEN 0 ELSE left[c] - 1]
  /\ since' = [c \in Claims |->
       IF c \in held THEN 0 ELSE IF since[c] = Cap THEN Cap ELSE since[c] + 1]
  /\ UNCHANGED held

Next == Renew \/ Tick

Spec == Init /\ [][Next]_leaseVars

\* The promise: a lease outlives the entitlement by no more than its term and the
\* grace.
RunsOut == \A c \in Claims : left[c] > 0 => since[c] + left[c] <= Term + Grace
=============================================================================
