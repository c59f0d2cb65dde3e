-------------------------- MODULE MCScanLifecycle --------------------------
(* Instances of ScanLifecycle for TLC.                                     *)
EXTENDS ScanLifecycle, TLC

CONSTANTS s1, s2, r1, r2, w1, w2, q1, q2, repo

OneRepo == [s \in Scans |-> repo]

\* The shape of the scan with every kind of step once.
ShortScript ==
  Do("gate") \o Do("mark") \o Do("watch") \o Do("poll") \o Do("gate")
    \o CompleteScan

Symmetry == Permutations(Scans) \cup Permutations(Runs)
              \cup Permutations(Workers) \cup Permutations(Requests)

Only(allowed) ==
  [d \in Disturbances |-> IF d \in DOMAIN allowed THEN allowed[d] ELSE 0]

OverlapLimit == Only([timeout |-> 1, slow |-> 1, cancel |-> 1])
RivalLimit == Only([fault |-> 1, drop |-> 1, cancel |-> 1])
RecoveryLimit == Only([failure |-> 2, cancel |-> 1, crash |-> 1])
CancelLimit == Only([cancel |-> 1])
=============================================================================
