----------------------------- MODULE MCSessions -----------------------------
(* Instances of Sessions for TLC.                                          *)
EXTENDS Sessions, TLC

CONSTANTS e1, e2, g1, b1, b2, q1, q2, t1, t2, t3, s1, s2

Symmetry == Permutations(Requests) \cup Permutations(Browsers)
              \cup Permutations(Tokens) \cup Permutations(Emails)
              \cup Permutations(States)

EachOnce == [d \in Disturbances |-> 1]
=============================================================================
