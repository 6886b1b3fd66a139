------------------------------ MODULE MCAccess ------------------------------
(* Constants of the small instances of Access. *)
EXTENDS Access, TLC

CONSTANTS u1, u2, l1, l2, r1, r2

\* Demotion, and what undoes a suspension.
SomeEdits ==
  {[role |-> "viewer", status |-> None], [role |-> None, status |-> "active"]}

Symmetry ==
  {p @@ q @@ s : p \in Permutations(Requests), q \in Permutations(Users),
                 s \in Permutations(Libraries)}
=============================================================================
