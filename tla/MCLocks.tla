------------------------------ MODULE MCLocks ------------------------------
(* Constants of the small instance of Locks: everything was issued to u1; the *)
(* save of an account leaves its address alone or changes it.                *)
EXTENDS Locks, TLC

CONSTANTS r1, r2, u1, u2, l1, e1, e2, k1, k2

IssuedToU1 == [i \in Issued |-> u1]

AddressChanges == {{}, Addresses}
=============================================================================
