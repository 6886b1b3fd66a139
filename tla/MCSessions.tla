----------------------------- MODULE MCSessions -----------------------------
(* Small instances of Sessions: every user was created in l1.              *)
EXTENDS Sessions, TLC

CONSTANTS r1, r2, t1, t2, t3, u1, l1

MCHomeOnly == [u \in Users |-> l1]

Symmetric == Permutations(Requests) \cup Permutations(Tokens)
=============================================================================
