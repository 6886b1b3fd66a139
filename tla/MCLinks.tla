------------------------------ MODULE MCLinks ------------------------------
(* Small instances of Links: u1 and u2 were created with addresses e1 and   *)
(* e2; e3 is nobody's.                                                      *)
EXTENDS Links, TLC

CONSTANTS r1, r2, u1, u2, t1, t2, e1, e2, e3

MCFirstEmail == [u \in Users |-> IF u = u2 THEN e2 ELSE e1]

Symmetric == Permutations(Requests) \cup Permutations(Tokens)
=============================================================================
