-------------------------- MODULE MCScanWorkspace --------------------------
(* Instances of ScanWorkspace for TLC.                                     *)
EXTENDS ScanWorkspace, TLC

CONSTANTS r1, r2, f1, f2

\* The branch lost a file and kept one between the two executions.
MovedHead == [r \in Runs |-> IF r = r1 THEN {f1, f2} ELSE {f2}]

\* The same commit for everyone.
SameHead == [r \in Runs |-> Files]

Only(allowed) ==
  [d \in Disturbances |-> IF d \in DOMAIN allowed THEN allowed[d] ELSE 0]

EachOnce == [d \in Disturbances |-> 1]
SharedLimit == Only([abort |-> 1, overlap |-> 1])
DeafLimit == Only([abort |-> 1, deaf |-> 1])
=============================================================================
