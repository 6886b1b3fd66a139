----------------------------- MODULE LeaseProofs -----------------------------
(***************************************************************************)
(* What the abstract lease promises, for any claims and any times.         *)
(***************************************************************************)
EXTENDS Lease, TLAPS

\* The invariant: the time a lease has left and the time since its claim was held
\* run against each other.
LeaseInv ==
  /\ held \in SUBSET Claims
  /\ left \in [Claims -> 0..Term]
  /\ since \in [Claims -> 0..Cap]
  /\ \A c \in held : since[c] = 0
  /\ RunsOut

\* Term and grace are times, and the cap is beyond both together.
Times == Term \in Nat /\ Grace \in Nat /\ Cap \in Nat /\ Term + Grace <= Cap

LEMMA RenewKeeps ==
  ASSUME Times, LeaseInv, Renew
  PROVE  LeaseInv'
<1>1. ASSUME NEW c \in Claims
      PROVE  /\ left[c] \in 0..Term /\ left'[c] \in 0..Term
             /\ since[c] \in 0..Cap /\ since'[c] = IF c \in held' THEN 0 ELSE since[c]
             /\ left'[c] = left[c] \/ (left'[c] = Term /\ since[c] <= Grace)
  BY DEF LeaseInv, Renew
<1>2. since' \in [Claims -> 0..Cap]
  BY <1>1 DEF Renew, Times
<1>3. RunsOut'
  BY <1>1 DEF LeaseInv, RunsOut, Times
<1> QED BY <1>1, <1>2, <1>3 DEF LeaseInv, Renew

LEMMA TickKeeps ==
  ASSUME Times, LeaseInv, Tick
  PROVE  LeaseInv'
<1>1. ASSUME NEW c \in Claims
      PROVE  /\ left[c] \in 0..Term /\ since[c] \in 0..Cap
             /\ left'[c] = IF left[c] = 0 THEN 0 ELSE left[c] - 1
             /\ since'[c] = IF c \in held THEN 0
                            ELSE IF since[c] = Cap THEN Cap ELSE since[c] + 1
  BY DEF LeaseInv, Tick
<1>2. left' \in [Claims -> 0..Term] /\ since' \in [Claims -> 0..Cap]
  BY <1>1 DEF Tick, Times
<1>3. RunsOut'
  BY <1>1 DEF LeaseInv, RunsOut, Times
<1> QED BY <1>1, <1>2, <1>3 DEF LeaseInv, Tick

\* A lease is over, at the latest, its term and the grace after its claim was lost.
THEOREM LeaseRunsOut ==
  ASSUME Times
  PROVE  Spec => []RunsOut
<1>1. Init => LeaseInv
  <2> SUFFICES ASSUME Init PROVE LeaseInv
    OBVIOUS
  <2>1. ASSUME NEW c \in Claims
        PROVE  left[c] = 0 /\ since[c] = IF c \in held THEN 0 ELSE Cap
    BY DEF Init
  <2>2. ASSUME NEW c \in Claims
        PROVE  left[c] \in 0..Term /\ since[c] \in 0..Cap /\ ~(left[c] > 0)
    BY <2>1 DEF Times
  <2>3. left \in [Claims -> 0..Term]
    BY <2>2 DEF Init
  <2>4. since \in [Claims -> 0..Cap]
    BY <2>2 DEF Init
  <2>5. \A c \in held : since[c] = 0
    BY <2>1 DEF Init
  <2> QED BY <2>2, <2>3, <2>4, <2>5 DEF Init, LeaseInv, RunsOut
<1>2. LeaseInv /\ [Next]_leaseVars => LeaseInv'
  <2> SUFFICES ASSUME LeaseInv, [Next]_leaseVars PROVE LeaseInv'
    OBVIOUS
  <2>1. CASE UNCHANGED leaseVars
    BY <2>1 DEF leaseVars, LeaseInv, RunsOut
  <2> QED BY <2>1, RenewKeeps, TickKeeps DEF Next
<1>3. LeaseInv => RunsOut
  BY DEF LeaseInv
<1> QED BY <1>1, <1>2, <1>3, PTL DEF Spec
=============================================================================
