------------------------------ MODULE MCAiChat ------------------------------
(* Instances of AiChat for TLC.                                            *)
EXTENDS AiChat, TLC

CONSTANTS k0, k1, k2, c1, c2, r1, r2

\* More than are fetched, relevant ones not first, the best of them last.
FiveRoutes ==
  <<[relevant |-> FALSE, score |-> 0, size |-> 120],
    [relevant |-> TRUE, score |-> 1, size |-> 120],
    [relevant |-> FALSE, score |-> 0, size |-> 120],
    [relevant |-> FALSE, score |-> 0, size |-> 120],
    [relevant |-> TRUE, score |-> 2, size |-> 120]>>

\* What befalls chats, and what befalls scans.
OfChats == {"overlap", "lost", "failure", "delete"}
EachOnce == [d \in Disturbances |-> IF d \in OfChats THEN 1 ELSE 0]
OfScans == [d \in Disturbances |-> IF d \in OfChats THEN 0 ELSE 2]
=============================================================================
