--------------------------- MODULE TokenFamilies ---------------------------
(***************************************************************************)
(* What refresh tokens promise, whatever requests do concurrently: the     *)
(* tokens that a login leads to form a family.  Its one live token hands   *)
(* over to a fresh one, or the family is closed for good.                  *)
(***************************************************************************)
CONSTANTS Tokens, None

VARIABLES
  state,    \* "fresh", "live" or "revoked"
  family    \* the token that began the family, None for a fresh token

Init ==
  /\ state = [t \in Tokens |-> "fresh"]
  /\ family = [t \in Tokens |-> None]

Open(t) ==
  /\ state[t] = "fresh"
  /\ state' = [state EXCEPT ![t] = "live"]
  /\ family' = [family EXCEPT ![t] = t]

HandOver(old, new) ==
  /\ state[old] = "live"
  /\ state[new] = "fresh"
  /\ state' = [state EXCEPT ![old] = "revoked", ![new] = "live"]
  /\ family' = [family EXCEPT ![new] = family[old]]

Close(t) ==
  /\ state[t] = "live"
  /\ state' = [state EXCEPT ![t] = "revoked"]
  /\ UNCHANGED family

Next ==
  \E t \in Tokens :
    \/ Open(t)
    \/ Close(t)
    \/ \E new \in Tokens : HandOver(t, new)

Spec == Init /\ [][Next]_<<state, family>>

\* What users of the tokens rely on: a family has at most one live token, so
\* that a stolen copy and its original cannot both be exchanged.
OneLive ==
  \A t, u \in Tokens :
    state[t] = "live" /\ state[u] = "live" /\ family[t] = family[u] => t = u

=============================================================================
