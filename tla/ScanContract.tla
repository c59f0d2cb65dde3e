---------------------------- MODULE ScanContract ----------------------------
(***************************************************************************)
(* What the status column of the scan rows promises, whatever the queue,   *)
(* the workers and the requests do behind it.                              *)
(*                                                                         *)
(* hands[s] says who can still act on scan s: "attempt" when the scan is   *)
(* queued for an execution or an execution has yet to mark it running,     *)
(* "write" when somebody is about to write its row on an earlier read.     *)
(***************************************************************************)
CONSTANTS Scans, RepoOf

VARIABLES status, hands

Active == {"QUEUED", "RUNNING"}

Init ==
  /\ status = [s \in Scans |-> "ABSENT"]
  /\ hands = [s \in Scans |-> {}]

Rival(s) ==
  \E t \in Scans \ {s} : RepoOf[t] = RepoOf[s] /\ status[t] \in Active

Become(s, v) == status' = [status EXCEPT ![s] = v]

\* A scan is queued when its repository has no other active one.
Queue(s) == status[s] = "ABSENT" /\ ~Rival(s) /\ Become(s, "QUEUED")

\* A scan that exists is taken up, or taken up again after it ended.
Run(s) ==
  /\ status[s] # "ABSENT"
  /\ "write" \in hands[s]
  /\ ~Rival(s)
  /\ Become(s, "RUNNING")

\* Only a running scan completes.
Finish(s) == status[s] = "RUNNING" /\ Become(s, "COMPLETED")

Close(s) ==
  /\ status[s] # "ABSENT"
  /\ "write" \in hands[s]
  /\ Become(s, "FAILED") \/ Become(s, "CANCELLED")

\* Nobody gets a hand on a scan out of nothing: a new attempt comes from an
\* attempt or a pending write; a new write from the creation of the row, from
\* a row that is active, or from an attempt at a row that is not cancelled.
HandedOn(s) ==
  /\ "attempt" \in hands'[s] => hands[s] # {}
  /\ "write" \in hands'[s] \ hands[s] =>
       \/ status[s] = "ABSENT" /\ status'[s] = "QUEUED"
       \/ status[s] \in Active
       \/ status[s] # "CANCELLED" /\ "attempt" \in hands[s]

Next ==
  /\ \/ UNCHANGED status
     \/ \E s \in Scans : Queue(s) \/ Run(s) \/ Finish(s) \/ Close(s)
  /\ \A s \in Scans : HandedOn(s)

Spec == Init /\ [][Next]_<<status, hands>>
=============================================================================
