---------------------------- MODULE OneTimeLink ----------------------------
(***************************************************************************)
(* What an e-mailed link promises, without requests, rows or locks: it is  *)
(* issued once, possibly in place of earlier links, which stop working; a  *)
(* link that works can be used; after its use, its replacement or its      *)
(* removal it never works again.                                           *)
(***************************************************************************)
EXTENDS Naturals

CONSTANT Tokens

VARIABLES live,     \* links that work
          issued,   \* links that were ever issued
          uses      \* how often each link had its effect

linkVars == <<live, issued, uses>>

Init ==
  /\ live = {}
  /\ issued = {}
  /\ uses = [t \in Tokens |-> 0]

Issue(t, replaced) ==
  /\ t \notin issued
  /\ live' = (live \ replaced) \cup {t}
  /\ issued' = issued \cup {t}
  /\ UNCHANGED uses

Use(t) ==
  /\ t \in live
  /\ live' = live \ {t}
  /\ uses' = [uses EXCEPT ![t] = @ + 1]
  /\ UNCHANGED issued

Void(voided) ==
  /\ live' = live \ voided
  /\ UNCHANGED <<issued, uses>>

Next ==
  \/ \E t \in Tokens, replaced \in SUBSET Tokens : Issue(t, replaced)
  \/ \E t \in Tokens : Use(t)
  \/ \E voided \in SUBSET Tokens : Void(voided)

Spec == Init /\ [][Next]_linkVars
=============================================================================
