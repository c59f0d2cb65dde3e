------------------------- MODULE TokenFamiliesProofs -------------------------
(***************************************************************************)
(* A family of refresh tokens has at most one live token.                  *)
(*                                                                         *)
(* OneLive alone is not inductive: a token that opens a family must not    *)
(* name one that exists.  Rooted says so: the token that names a family    *)
(* has left the fresh ones before any other joins.                         *)
(***************************************************************************)
EXTENDS TokenFamilies, TLAPS

TypeInv ==
  /\ state \in [Tokens -> {"fresh", "live", "revoked"}]
  /\ family \in [Tokens -> Tokens \cup {None}]

Rooted ==
  \A t \in Tokens : state[t] # "fresh" =>
    family[t] \in Tokens /\ state[family[t]] # "fresh"

Inv == TypeInv /\ Rooted /\ OneLive

LEMMA InvInit == Init => Inv
  BY DEF Init, Inv, TypeInv, Rooted, OneLive

LEMMA OpenKeepsInv ==
  ASSUME Inv, NEW t \in Tokens, Open(t)
  PROVE  Inv'
<1>1. TypeInv'
  BY DEF Inv, TypeInv, Open
<1>2. Rooted'
  BY DEF Inv, TypeInv, Rooted, Open
<1>3. OneLive'
  BY DEF Inv, TypeInv, Rooted, OneLive, Open
<1> QED BY <1>1, <1>2, <1>3 DEF Inv

LEMMA CloseKeepsInv ==
  ASSUME Inv, NEW t \in Tokens, Close(t)
  PROVE  Inv'
  BY DEF Inv, TypeInv, Rooted, OneLive, Close

LEMMA HandOverKeepsInv ==
  ASSUME Inv, NEW old \in Tokens, NEW new \in Tokens, HandOver(old, new)
  PROVE  Inv'
<1>1. TypeInv' /\ Rooted'
  BY DEF Inv, TypeInv, Rooted, HandOver
<1>2. ASSUME NEW t \in Tokens, NEW u \in Tokens,
             state'[t] = "live", state'[u] = "live", family'[t] = family'[u]
      PROVE  t = u
  <2>1. \A x \in Tokens \ {new} :
          state'[x] = "live" => state[x] = "live" /\ x # old
    BY DEF Inv, TypeInv, HandOver
  <2>2. \A x \in Tokens \ {new} : family'[x] = family[x]
    BY DEF Inv, TypeInv, HandOver
  <2>3. \A x \in Tokens : state[x] = "live" /\ family[x] = family[old] => x = old
    BY DEF Inv, OneLive, HandOver
  <2>4. family'[new] = family[old]
    BY DEF Inv, TypeInv, HandOver
  <2> QED BY <1>2, <2>1, <2>2, <2>3, <2>4 DEF Inv, OneLive
<1> QED BY <1>1, <1>2 DEF Inv, OneLive

LEMMA StepKeepsInv ==
  Inv /\ [Next]_<<state, family>> => Inv'
<1> SUFFICES ASSUME Inv, [Next]_<<state, family>> PROVE Inv'
  OBVIOUS
<1>1. CASE UNCHANGED <<state, family>>
  BY <1>1 DEF Inv, TypeInv, Rooted, OneLive
<1>2. CASE Next
  BY <1>2, OpenKeepsInv, CloseKeepsInv, HandOverKeepsInv DEF Next
<1> QED BY <1>1, <1>2

\* However logins, refreshes, reuse and logouts follow each other, a family of
\* refresh tokens never has two live tokens.
THEOREM FamiliesStaySingle == Spec => []OneLive
<1>1. Inv => OneLive
  BY DEF Inv
<1> QED BY <1>1, InvInit, StepKeepsInv, PTL DEF Spec

=============================================================================
