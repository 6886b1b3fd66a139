----------------------------- MODULE MCAccounts -----------------------------
(* Small instances of Accounts. *)
EXTENDS Accounts, TLC

CONSTANTS u1, u2, u3, l1, l2, r1, r2, r3

SomeEdits == {[role |-> None, active |-> None],
              [role |-> None, active |-> FALSE]}

\* Demotion and deactivation.
LosingEdits == {[role |-> "viewer", active |-> None],
                [role |-> None, active |-> FALSE]}

SomePatches == {[role |-> "admin", status |-> "revoked"]}

\* An account created with one role gets another one by its membership.
Promotions == {[role |-> "admin", status |-> "active"],
               [role |-> "viewer", status |-> "active"]}

Symmetry ==
  {p @@ q @@ s : p \in Permutations(Requests), q \in Permutations(Users),
                 s \in Permutations(Libraries)}
=============================================================================
