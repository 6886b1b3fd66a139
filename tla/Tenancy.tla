------------------------------ MODULE Tenancy ------------------------------
(***************************************************************************)
(* What the service promises about libraries and the accounts created in   *)
(* them: an account belongs to one open library, from the step in which it *)
(* appears to the step in which it goes; closing a library takes every one *)
(* of its accounts along, in the same step.                                *)
(***************************************************************************)
CONSTANTS Users, Libraries, None

VARIABLES
  open,    \* libraries that exist
  home     \* the library in which an account was created, None: no account

vars == <<open, home>>

Init ==
  /\ open \in SUBSET Libraries
  /\ home \in [Users -> open \cup {None}]

\* Without a founder: a library that was deleted is saved again.
Open(l, founders) ==
  /\ l \notin open
  /\ \A u \in founders : home[u] = None
  /\ open' = open \cup {l}
  /\ home' = [u \in Users |-> IF u \in founders THEN l ELSE home[u]]

Join(u, l) ==
  /\ l \in open
  /\ home[u] = None
  /\ home' = [home EXCEPT ![u] = l]
  /\ UNCHANGED open

Leave(u) ==
  /\ home' = [home EXCEPT ![u] = None]
  /\ UNCHANGED open

Close(l) ==
  /\ open' = open \ {l}
  /\ home' = [u \in Users |-> IF home[u] = l THEN None ELSE home[u]]

Next ==
  \/ \E l \in Libraries, founders \in SUBSET Users : Open(l, founders)
  \/ \E u \in Users, l \in Libraries : Join(u, l)
  \/ \E u \in Users : Leave(u)
  \/ \E l \in Libraries : Close(l)

Spec == Init /\ [][Next]_vars
=============================================================================
