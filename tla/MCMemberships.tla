--------------------------- MODULE MCMemberships ---------------------------
(* Small instances of Memberships: u1 founded the library. *)
EXTENDS Memberships, TLC

CONSTANTS r1, r2, r3, u1, u2, u3

Edit(role, status) == [role |-> role, status |-> status]

MCDemote == Edit("viewer", None)
MCPromote == Edit("admin", None)
MCSuspend == Edit(None, "suspended")
MCActivate == Edit(None, "active")

MCEdits == {MCDemote, MCPromote, MCSuspend, MCActivate}
MCNoEdits == {}

Symmetric == Permutations(Requests) \cup Permutations(Users \ {Founder})
=============================================================================
