---------------------------- MODULE SessionChain ----------------------------
(***************************************************************************)
(* What refresh-token rotation promises, without requests, rows or locks:  *)
(* a login opens a session; at every moment an open session is held by one *)
(* token; an exchange moves it to a token that was never issued before;    *)
(* logout, the emergency revocation, the cleanup job and the deletion of a *)
(* user close sessions; a closed session never opens again.                *)
(***************************************************************************)
CONSTANTS Tokens, None

\* A session is named by the token its login issued.
VARIABLES holder,   \* holder[s]: the token that can continue session s, or None
          issued    \* every token that was ever committed

chainVars == <<holder, issued>>

Init ==
  /\ holder = [s \in Tokens |-> None]
  /\ issued = {}

Open(s) ==
  /\ s \notin issued
  /\ holder' = [holder EXCEPT ![s] = s]
  /\ issued' = issued \cup {s}

Exchange(s, t) ==
  /\ holder[s] # None
  /\ t \notin issued
  /\ holder' = [holder EXCEPT ![s] = t]
  /\ issued' = issued \cup {t}

\* One commit may close several sessions (all those of a library, of a user).
Close(S) ==
  /\ holder' = [s \in Tokens |-> IF s \in S THEN None ELSE holder[s]]
  /\ UNCHANGED issued

Next ==
  \/ \E s \in Tokens : Open(s)
  \/ \E s, t \in Tokens : Exchange(s, t)
  \/ \E S \in SUBSET Tokens : Close(S)

Spec == Init /\ [][Next]_chainVars
=============================================================================
