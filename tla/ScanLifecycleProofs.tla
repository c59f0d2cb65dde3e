------------------------ MODULE ScanLifecycleProofs ------------------------
(***************************************************************************)
(* What ScanLifecycle promises for any number of scans, repositories,      *)
(* workers, executions and requests, for any script and any number of      *)
(* disturbances.                                                           *)
(***************************************************************************)
EXTENDS ScanLifecycle, TLAPS

-----------------------------------------------------------------------------
(* Types                                                                   *)

\* A job that can still run has an attempt left.
AttemptsLeft ==
  \A s \in Scans : job[s].state \in {"absent", "waiting", "active"} =>
                     job[s].attempts < MaxAttempts

Typed == TypeOK /\ AttemptsLeft

\* The script's entries are steps.
LEMMA ScriptEntry ==
  \A i \in 1..Len(Script) :
    /\ Script[i] \in [kind : StepKinds, pct : 0..100]
    /\ Script[i].pct \in 0..100
<1> DEFINE Step == [kind : StepKinds, pct : 0..100]
<1>1. Script \in Seq(Step)
  BY ScriptAssumption
<1>2. \A i \in 1..Len(Script) : Script[i] \in Step
  <2> HIDE DEF Step
  <2> QED BY <1>1
<1> QED BY <1>2

LEMMA LenNat == Len(Script) \in Nat
  BY ScriptAssumption

\* An execution record replaced by one of the right type keeps the type.
LEMMA UpdateType ==
  ASSUME run \in [Runs -> Executions], NEW r \in Runs, NEW e \in Executions,
         Update(r, e)
  PROVE  run' \in [Runs -> Executions]
<1>1. Free \in Executions
  BY LenNat, SMT DEF Free, Executions
<1> QED BY <1>1 DEF Update

LEMMA ProceedType ==
  ASSUME run \in [Runs -> Executions], NEW r \in Runs,
         run[r].at \in 1..Len(Script), Proceed(r)
  PROVE  run' \in [Runs -> Executions]
<1>1. [run[r] EXCEPT !.at = @ + 1] \in Executions
  BY LenNat DEF Executions
<1> QED BY <1>1, UpdateType DEF Proceed

\* The record edits that change more than one field.
LEMMA StoppedType ==
  ASSUME NEW x \in Executions, NEW o \in {"value", "cancelled", "failed"}
  PROVE  [x EXCEPT !.op = "unwinding", !.outcome = o] \in Executions
  BY DEF Executions

LEMMA EndedType ==
  ASSUME NEW x \in Executions
  PROVE  /\ [x EXCEPT !.op = "ended"] \in Executions
         /\ [[x EXCEPT !.op = "ended"] EXCEPT !.handler = "resolve"] \in Executions
<1>1. \A y \in Executions : [y EXCEPT !.handler = "resolve"] \in Executions
  BY DEF Executions
<1>2. [x EXCEPT !.op = "ended"] \in Executions
  BY DEF Executions
<1> QED BY <1>1, <1>2

LEMMA DetachedType ==
  ASSUME NEW x \in Executions
  PROVE  [x EXCEPT !.aborted = TRUE, !.handler = "failRead", !.cause = "failed"]
           \in Executions
  BY DEF Executions

LEMMA ThrowType ==
  ASSUME run \in [Runs -> Executions], NEW r \in Runs,
         NEW error \in {"cancelled", "failed"}, Throw(r, error)
  PROVE  run' \in [Runs -> Executions]
<1>1. [run[r] EXCEPT !.op = "unwinding", !.outcome = error] \in Executions
  BY StoppedType
<1> QED BY <1>1, UpdateType DEF Throw

LEMMA HandlerType ==
  ASSUME run \in [Runs -> Executions], NEW r \in Runs,
         NEW h \in {"resolve", "failMark", "failCache", "rethrow", "settled"},
         SetHandler(r, h)
  PROVE  run' \in [Runs -> Executions]
<1>1. [run[r] EXCEPT !.handler = h] \in Executions
  BY DEF Executions
<1> QED BY <1>1, UpdateType DEF SetHandler

LEMMA SpendType ==
  ASSUME used \in [Disturbances -> Nat], NEW d \in Disturbances, Spend(d)
  PROVE  used' \in [Disturbances -> Nat]
  BY DEF Spend

LEMMA RequestType ==
  ASSUME req \in [Requests -> Calls], NEW q \in Requests
  PROVE  /\ EndRequest(q) => req' \in [Requests -> Calls]
         /\ \A pc \in {"create", "announce", "enqueue", "annotate", "reject",
                       "remove", "cancel", "notify"} :
            \A s \in Scans \cup {NoScan} :
              SetRequest(q, pc, s) => req' \in [Requests -> Calls]
         /\ req[q].scan \in Scans \cup {NoScan}
  BY DEF EndRequest, SetRequest, Calls, Idle

LEMMA InitTyped == Init => Typed
<1> SUFFICES ASSUME Init PROVE Typed
  OBVIOUS
<1>1. Free \in Executions
  BY LenNat DEF Free, Executions
<1>2. NoJob \in Jobs /\ NoJob.state = "absent" /\ NoJob.attempts < MaxAttempts
  BY BoundAssumption DEF NoJob, Jobs
<1>3. Idle \in Calls
  BY DEF Idle, Calls
<1> QED BY <1>1, <1>2, <1>3
        DEF Init, Typed, TypeOK, AttemptsLeft, Statuses, Stages

\* The typing context of one step, for the four groups of actions.
LEMMA RequestTyped ==
  ASSUME Typed, NEW q \in Requests,
         \/ RequestStep(q) \/ RequestFault(q) \/ DropRequest(q)
         \/ \E s \in Scans : StartFind(q, s) \/ CancelRead(q, s)
  PROVE  Typed'
<1> USE DEF Typed, TypeOK, AttemptsLeft, rowVars
<1>1. req' \in [Requests -> Calls]
  <2>1. req[q].scan \in Scans \cup {NoScan}
    BY RequestType
  <2>2. \/ EndRequest(q)
        \/ \E pc \in {"create", "announce", "enqueue", "annotate", "reject",
                      "remove", "cancel", "notify"} :
             \E s \in Scans \cup {req[q].scan} : SetRequest(q, pc, s)
    BY DEF RequestStep, RequestFault, DropRequest, StartFind, CancelRead,
           StartCreate, StartAnnounce, StartEnqueue, StartAnnotate, StartReject,
           CancelRemove, CancelMark, CancelNotify
  <2> QED BY <2>1, <2>2, RequestType
<1>2. used' \in [Disturbances -> Nat]
  <2>1. UNCHANGED used \/ Spend("fault") \/ Spend("drop") \/ Spend("cancel")
    BY DEF RequestStep, RequestFault, DropRequest, StartFind, CancelRead,
           StartCreate, StartAnnounce, StartEnqueue, StartAnnotate, StartReject,
           CancelRemove, CancelMark, CancelNotify
  <2> QED BY <2>1, SpendType DEF Disturbances
<1>3. /\ run' \in [Runs -> Executions]
      /\ status' \in [Scans -> Statuses]
      /\ progress' \in [Scans -> 0..100]
      /\ cache' \in [Scans -> Stages]
  BY DEF RequestStep, RequestFault, DropRequest, StartFind, CancelRead,
         StartCreate, StartAnnounce, StartEnqueue, StartAnnotate, StartReject,
         CancelRemove, CancelMark, CancelNotify, Statuses, Active, Terminal, Stages
<1>4. /\ job' \in [Scans -> Jobs]
      /\ AttemptsLeft'
  <2>1. CASE StartEnqueue(q)
    <3>1. /\ [NoJob EXCEPT !.state = "waiting"] \in Jobs
          /\ [NoJob EXCEPT !.state = "waiting"].attempts < MaxAttempts
      BY BoundAssumption DEF NoJob, Jobs
    <3> QED BY <2>1, <3>1 DEF StartEnqueue
  <2>2. CASE CancelRemove(q)
    <3>1. \A x \in Scans : /\ [job[x] EXCEPT !.state = "removed"] \in Jobs
                           /\ job'[x] \in {job[x], [job[x] EXCEPT !.state = "removed"]}
      BY <2>2 DEF CancelRemove, Jobs
    <3>2. job' \in [Scans -> Jobs]
      BY <2>2, <3>1 DEF CancelRemove
    <3>3. \A x \in Scans : [job[x] EXCEPT !.state = "removed"].state = "removed"
      BY DEF Jobs
    <3> QED BY <3>1, <3>2, <3>3
  <2>3. CASE UNCHANGED job
    BY <2>3
  <2> QED BY <2>1, <2>2, <2>3
          DEF RequestStep, RequestFault, DropRequest, StartFind, CancelRead,
              StartCreate, StartAnnounce, StartAnnotate, StartReject, CancelMark,
              CancelNotify
<1> QED BY <1>1, <1>2, <1>3, <1>4

LEMMA OperationTyped ==
  ASSUME Typed, NEW r \in Runs,
         OperationStep(r) \/ WorkFails(r) \/ OperationFault(r)
  PROVE  Typed'
<1> USE DEF Typed, TypeOK, AttemptsLeft, rowVars
<1>1. run' \in [Runs -> Executions]
  <2>1. CASE Return(r)
    <3>1. [run[r] EXCEPT !.op = "unwinding", !.outcome = "value"] \in Executions
      BY StoppedType
    <3> QED BY <2>1, <3>1, UpdateType DEF Return
  <2>2. CASE Unwind(r)
    <3> DEFINE e == [run[r] EXCEPT !.op = "ended"]
               f == [e EXCEPT !.handler = "resolve"]
               g == [e EXCEPT !.handler = "failRead", !.cause = e.outcome]
    <3>1. e \in Executions /\ f \in Executions
      BY EndedType
    <3>2. e.outcome # "value" => g \in Executions
      <4>1. \A x \in Executions, c \in {"none", "cancelled", "failed"} :
              [x EXCEPT !.handler = "failRead", !.cause = c] \in Executions
        BY DEF Executions
      <4>2. e.outcome \in {"none", "value", "cancelled", "failed"}
        BY <3>1 DEF Executions
      <4> HIDE DEF e
      <4> QED BY <3>1, <4>1, <4>2
    <3>3. Update(r, e) \/ Update(r, f) \/ (e.outcome # "value" /\ Update(r, g))
      BY <2>2 DEF Unwind
    <3> HIDE DEF e, f, g
    <3> QED BY <3>1, <3>2, <3>3, UpdateType
  <2>3. CASE run[r].at \in 1..Len(Script) /\ Proceed(r)
    BY <2>3, ProceedType DEF Proceed
  <2>4. CASE Throw(r, "cancelled") \/ Throw(r, "failed")
    BY <2>4, ThrowType
  <2> QED BY <2>1, <2>2, <2>3, <2>4
          DEF AtStep, OperationStep, Gate, Mark, Poll, Work, AtWork, Interrupt, Report,
              CacheProgress, Tick, Complete, Verify, WorkFails, OperationFault
<1>2. used' \in [Disturbances -> Nat]
  <2>1. UNCHANGED used \/ Spend("failure") \/ Spend("fault")
    BY DEF OperationStep, Gate, Mark, Poll, Work, AtWork, Interrupt, Report,
           CacheProgress, Tick, Complete, Verify, WorkFails, OperationFault,
           Return, Unwind
  <2> QED BY <2>1, SpendType DEF Disturbances
<1>3. progress' \in [Scans -> 0..100]
  <2>1. CASE Report(r)
    BY <2>1, ScriptEntry DEF Report, AtStep
  <2>2. CASE Complete(r)
    BY <2>2 DEF Complete
  <2>3. CASE UNCHANGED progress
    BY <2>3
  <2> QED BY <2>1, <2>2, <2>3
          DEF OperationStep, Gate, Mark, Poll, Work, AtWork, Interrupt, CacheProgress,
              Tick, Verify, WorkFails, OperationFault, Return, Unwind
<1>4. status' \in [Scans -> Statuses]
  BY DEF OperationStep, Gate, Mark, Poll, Work, AtWork, Interrupt, Report,
         CacheProgress, Tick, Complete, Verify, WorkFails, OperationFault,
         Return, Unwind, Statuses, Active, Terminal
<1>5. cache' \in [Scans -> Stages]
  BY DEF OperationStep, Gate, Mark, Poll, Work, AtWork, Interrupt, Report,
         CacheProgress, Tick, Complete, Verify, WorkFails, OperationFault,
         Return, Unwind, Stages
<1>6. UNCHANGED <<job, req>>
  BY DEF OperationStep, Gate, Mark, Poll, Work, AtWork, Interrupt, Report,
         CacheProgress, Tick, Complete, Verify, WorkFails, OperationFault,
         Return, Unwind
<1> QED BY <1>1, <1>2, <1>3, <1>4, <1>5, <1>6

LEMMA HandlerTyped ==
  ASSUME Typed, NEW r \in Runs,
         HandlerStep(r) \/ HandlerFault(r) \/ Timeout(r)
  PROVE  Typed'
<1> USE DEF Typed, TypeOK, AttemptsLeft, rowVars
<1>1. run' \in [Runs -> Executions]
  <2>1. CASE Timeout(r)
    <3>1. [run[r] EXCEPT !.aborted = TRUE, !.handler = "failRead",
                         !.cause = "failed"] \in Executions
      BY DetachedType
    <3> QED BY <2>1, <3>1, UpdateType DEF Timeout
  <2>2. CASE \E h \in {"resolve", "failMark", "failCache", "rethrow", "settled"} :
               SetHandler(r, h)
    BY <2>2, HandlerType
  <2> QED BY <2>1, <2>2
          DEF HandlerStep, HandlerFault, FailRead, FailMark, FailCache, Resolve,
              Rethrow
<1>2. used' \in [Disturbances -> Nat]
  <2>1. UNCHANGED used \/ Spend("fault") \/ Spend("timeout")
    BY DEF HandlerStep, HandlerFault, FailRead, FailMark, FailCache, Resolve,
           Rethrow, Timeout
  <2> QED BY <2>1, SpendType DEF Disturbances
<1>3. /\ status' \in [Scans -> Statuses]
      /\ progress' \in [Scans -> 0..100]
      /\ cache' \in [Scans -> Stages]
      /\ req' = req
  BY DEF HandlerStep, HandlerFault, FailRead, FailMark, FailCache, Resolve,
         Rethrow, Timeout, Verdict, Statuses, Terminal, Stages
<1>4. job' \in [Scans -> Jobs] /\ AttemptsLeft'
  <2>1. CASE Resolve(r)
    <3> DEFINE s == run[r].scan
               j == [job[s] EXCEPT !.state = "completed", !.owner = NoRun]
    <3>1. CASE s \in Scans /\ Holds(r, s)
      <4>1. j \in Jobs /\ j.state = "completed"
        BY <3>1 DEF Jobs
      <4>2. job' = [job EXCEPT ![s] = j]
        BY <2>1, <3>1 DEF Resolve, Jobs
      <4> HIDE DEF j
      <4> QED BY <3>1, <4>1, <4>2
    <3>2. CASE ~(s \in Scans /\ Holds(r, s))
      <4>1. job' = job
        BY <2>1, <3>2 DEF Resolve
      <4> QED BY <4>1
    <3> QED BY <3>1, <3>2
  <2>2. CASE Rethrow(r)
    <3> DEFINE s == run[r].scan
               n == job[s].attempts + 1
               j == [job[s] EXCEPT !.attempts = n, !.owner = NoRun,
                       !.state = IF n < MaxAttempts THEN "waiting" ELSE "failed"]
    <3>1. CASE s \in Scans /\ Holds(r, s)
      <4>1. job[s].attempts < MaxAttempts /\ n \in 0..MaxAttempts
        BY <3>1, BoundAssumption DEF Holds, Jobs
      <4>2. /\ j \in Jobs
            /\ j.state = "waiting" => j.attempts < MaxAttempts
            /\ j.state \in {"waiting", "failed"}
        BY <3>1, <4>1 DEF Jobs
      <4>3. job' = [job EXCEPT ![s] = j]
        BY <2>2, <3>1 DEF Rethrow, Jobs
      <4> HIDE DEF j
      <4> QED BY <3>1, <4>2, <4>3
    <3>2. CASE ~(s \in Scans /\ Holds(r, s))
      <4>1. job' = job
        BY <2>2, <3>2 DEF Rethrow
      <4> QED BY <4>1
    <3> QED BY <3>1, <3>2
  <2>3. CASE UNCHANGED job
    BY <2>3
  <2> QED BY <2>1, <2>2, <2>3
          DEF HandlerStep, HandlerFault, FailRead, FailMark, FailCache, Timeout
<1> QED BY <1>1, <1>2, <1>3, <1>4

LEMMA QueueTyped ==
  ASSUME Typed,
         \/ \E r \in Runs, w \in Workers, s \in Scans : PickUp(r, w, s)
         \/ \E s \in Scans : StallDead(s) \/ StallSlow(s)
         \/ \E w \in Workers : Crash(w)
  PROVE  Typed'
<1> USE DEF Typed, TypeOK, AttemptsLeft, rowVars
<1>1. CASE \E r \in Runs, w \in Workers, s \in Scans : PickUp(r, w, s)
  <2>1. PICK r \in Runs, w \in Workers, s \in Scans : PickUp(r, w, s)
    BY <1>1
  <2> DEFINE j == [job[s] EXCEPT !.state = "active", !.owner = r]
  <2>2. Begin(s, w) \in Executions
    <3>1. 1 \in 0..(Len(Script) + 1)
      BY LenNat
    <3> QED BY <3>1 DEF Begin, Executions
  <2>3. run' \in [Runs -> Executions]
    BY <2>1, <2>2, UpdateType DEF PickUp
  <2>4. /\ j \in Jobs
        /\ j.attempts = job[s].attempts
        /\ job[s].attempts < MaxAttempts
    BY <2>1 DEF PickUp, Jobs
  <2>5. job' = [job EXCEPT ![s] = j]
    BY <2>1 DEF PickUp, Jobs
  <2>6. job' \in [Scans -> Jobs] /\ AttemptsLeft'
    <3> HIDE DEF j
    <3> QED BY <2>4, <2>5
  <2> QED BY <2>1, <2>3, <2>6 DEF PickUp
<1>2. CASE \E s \in Scans : StallDead(s) \/ StallSlow(s)
  <2>1. PICK s \in Scans : StallDead(s) \/ StallSlow(s)
    BY <1>2
  <2> DEFINE j == [job[s] EXCEPT !.owner = NoRun,
                     !.stalls = IF @ < MaxStalls THEN @ + 1 ELSE @,
                     !.state = IF job[s].stalls < MaxStalls THEN "waiting"
                               ELSE "failed"]
  <2>2. /\ j \in Jobs
        /\ j.attempts = job[s].attempts
        /\ job[s].attempts < MaxAttempts
    <3>1. job[s] \in Jobs /\ job[s].state = "active"
      BY <2>1 DEF StallDead, StallSlow
    <3>2. CASE job[s].stalls < MaxStalls
      <4>1. job[s].stalls + 1 \in 0..MaxStalls
        BY <3>1, <3>2, BoundAssumption DEF Jobs
      <4> QED BY <3>1, <3>2, <4>1 DEF Jobs
    <3>3. CASE ~(job[s].stalls < MaxStalls)
      BY <3>1, <3>3 DEF Jobs
    <3> QED BY <3>2, <3>3
  <2>3. job' = [job EXCEPT ![s] = j]
    BY <2>1 DEF StallDead, StallSlow, Expire, Jobs
  <2>4. job' \in [Scans -> Jobs] /\ AttemptsLeft'
    <3> HIDE DEF j
    <3> QED BY <2>2, <2>3
  <2>5. used' \in [Disturbances -> Nat]
    BY <2>1, SpendType DEF StallDead, StallSlow, Disturbances
  <2> QED BY <2>1, <2>4, <2>5 DEF StallDead, StallSlow
<1>3. CASE \E w \in Workers : Crash(w)
  <2>1. PICK w \in Workers : Crash(w)
    BY <1>3
  <2>2. run' \in [Runs -> Executions]
    <3>1. Free \in Executions
      BY LenNat DEF Free, Executions
    <3> QED BY <2>1, <3>1 DEF Crash
  <2>3. \A s \in Scans : /\ [job[s] EXCEPT !.owner = NoRun] \in Jobs
                         /\ [job[s] EXCEPT !.owner = NoRun].state = job[s].state
                         /\ [job[s] EXCEPT !.owner = NoRun].attempts = job[s].attempts
    BY DEF Jobs
  <2>4. job' \in [Scans -> Jobs] /\ AttemptsLeft'
    BY <2>1, <2>3 DEF Crash
  <2>5. used' \in [Disturbances -> Nat]
    BY <2>1, SpendType DEF Crash, Disturbances
  <2> QED BY <2>1, <2>2, <2>4, <2>5 DEF Crash
<1> QED BY <1>1, <1>2, <1>3

LEMMA NextTyped == Typed /\ [Next]_vars => Typed'
<1> SUFFICES ASSUME Typed, [Next]_vars PROVE Typed'
  OBVIOUS
<1>1. CASE \E q \in Requests : RequestStep(q) \/ RequestFault(q) \/ DropRequest(q)
  BY <1>1, RequestTyped
<1>2. CASE \E q \in Requests, s \in Scans : StartFind(q, s) \/ CancelRead(q, s)
  BY <1>2, RequestTyped
<1>3. CASE \E r \in Runs : OperationStep(r) \/ WorkFails(r) \/ OperationFault(r)
  BY <1>3, OperationTyped
<1>4. CASE \E r \in Runs : HandlerStep(r) \/ HandlerFault(r) \/ Timeout(r)
  BY <1>4, HandlerTyped
<1>5. CASE \/ \E r \in Runs, w \in Workers, s \in Scans : PickUp(r, w, s)
           \/ \E s \in Scans : StallDead(s) \/ StallSlow(s)
           \/ \E w \in Workers : Crash(w)
  BY <1>5, QueueTyped
<1>6. CASE UNCHANGED vars
  BY <1>6 DEF vars, Typed, TypeOK, AttemptsLeft
<1> QED BY <1>1, <1>2, <1>3, <1>4, <1>5, <1>6 DEF Next

\* Every variable keeps its type, in particular a job's attempts never exceed
\* SCAN_JOB_ATTEMPTS and its stalls never exceed maxStalledCount.
THEOREM TypeCorrect == Spec => []TypeOK
<1>1. Spec => []Typed
  BY InitTyped, NextTyped, PTL DEF Spec
<1>2. Typed => TypeOK
  BY DEF Typed
<1> QED BY <1>1, <1>2, PTL

-----------------------------------------------------------------------------
(* One active scan per repository                                          *)

\* A step changes at most one row's status: to a terminal one, or to an
\* active one the index admits.
StatusStep(x, v) ==
  /\ status' = [status EXCEPT ![x] = v]
  /\ v \in Active => IndexAdmits(x)

LEMMA RowStep ==
  ASSUME TypeOK, [Next]_vars
  PROVE  \/ UNCHANGED status
         \/ \E x \in Scans \cup {NoScan}, v \in Active \cup Terminal : StatusStep(x, v)
<1> USE DEF rowVars, StatusStep, Active, Terminal
<1>1. CASE \E q \in Requests : RequestStep(q) \/ RequestFault(q) \/ DropRequest(q)
  <2>1. PICK q \in Requests : RequestStep(q) \/ RequestFault(q) \/ DropRequest(q)
    BY <1>1
  <2>2. req[q].scan \in Scans \cup {NoScan}
    BY DEF TypeOK, Calls
  <2> QED BY <2>1, <2>2
          DEF RequestStep, RequestFault, DropRequest, StartCreate, StartAnnounce,
              StartEnqueue, StartAnnotate, StartReject, CancelRemove, CancelMark,
              CancelNotify
<1>2. CASE \E q \in Requests, s \in Scans : StartFind(q, s) \/ CancelRead(q, s)
  BY <1>2 DEF StartFind, CancelRead
<1>3. CASE \E r \in Runs : \/ OperationStep(r) \/ WorkFails(r) \/ OperationFault(r)
                          \/ HandlerStep(r) \/ HandlerFault(r) \/ Timeout(r)
  <2>1. PICK r \in Runs : \/ OperationStep(r) \/ WorkFails(r) \/ OperationFault(r)
                        \/ HandlerStep(r) \/ HandlerFault(r) \/ Timeout(r)
    BY <1>3
  <2>2. run[r].scan \in Scans \cup {NoScan}
    BY DEF TypeOK, Executions
  <2>3. CASE Mark(r)
    BY <2>2, <2>3 DEF Mark
  <2>4. CASE Complete(r)
    <3>1. CASE status[run[r].scan] = "RUNNING" /\ run[r].scan \in Scans
      BY <2>4, <3>1 DEF Complete
    <3>2. CASE ~(status[run[r].scan] = "RUNNING" /\ run[r].scan \in Scans)
      BY <2>2, <2>4, <3>2 DEF Complete, TypeOK
    <3> QED BY <3>1, <3>2
  <2>5. CASE FailMark(r)
    <3>1. Verdict(r) \in Terminal /\ Verdict(r) \notin Active
      BY DEF Verdict
    <3>2. StatusStep(run[r].scan, Verdict(r))
      BY <2>5, <3>1 DEF FailMark
    <3> QED BY <2>2, <3>1, <3>2
  <2> QED BY <2>1, <2>3, <2>4, <2>5
          DEF OperationStep, Gate, Poll, Work, AtWork, Interrupt, Report, CacheProgress,
              Tick, Verify, Return, Unwind, WorkFails, OperationFault,
              HandlerStep, HandlerFault, FailRead, FailCache, Resolve, Rethrow,
              Timeout
<1>4. CASE \/ \E r \in Runs, w \in Workers, s \in Scans : PickUp(r, w, s)
           \/ \E s \in Scans : StallDead(s) \/ StallSlow(s)
           \/ \E w \in Workers : Crash(w)
  BY <1>4 DEF PickUp, StallDead, StallSlow, Crash
<1>5. CASE UNCHANGED vars
  BY <1>5 DEF vars
<1> QED BY <1>1, <1>2, <1>3, <1>4, <1>5 DEF Next

\* A repository never has two queued or running scans.
THEOREM OneActive == Spec => []OneActivePerRepository
<1>1. Init => OneActivePerRepository
  BY DEF Init, OneActivePerRepository, Active
<1>2. TypeOK /\ OneActivePerRepository /\ [Next]_vars => OneActivePerRepository'
  <2> SUFFICES ASSUME TypeOK, OneActivePerRepository, [Next]_vars
               PROVE  OneActivePerRepository'
    OBVIOUS
  <2>1. CASE UNCHANGED status
    BY <2>1 DEF OneActivePerRepository
  <2>2. CASE \E x \in Scans \cup {NoScan}, v \in Active \cup Terminal : StatusStep(x, v)
    <3>1. PICK x \in Scans \cup {NoScan}, v \in Active \cup Terminal : StatusStep(x, v)
      BY <2>2
    <3> QED BY <3>1
            DEF StatusStep, IndexAdmits, OneActivePerRepository, TypeOK, Active,
                Terminal
  <2> QED BY <2>1, <2>2, RowStep
<1> QED BY <1>1, <1>2, TypeCorrect, PTL DEF Spec

-----------------------------------------------------------------------------
(* A settled scan stays settled                                            *)

\* A row that does not exist yet has no job, no execution and no request but
\* the one that is about to create it.
Unborn(s) ==
  /\ job[s].state = "absent"
  /\ \A r \in Runs : run[r].scan # s
  /\ \A q \in Requests : req[q].scan = s => req[q].pc = "create"

CreatesUnborn ==
  \A q \in Requests : req[q].pc = "create" =>
    /\ req[q].scan \in Scans
    /\ status[req[q].scan] = "ABSENT"
    /\ \A p \in Requests : req[p].scan = req[q].scan => p = q

Birth ==
  /\ Typed
  /\ \A s \in Scans : status[s] = "ABSENT" => Unborn(s)
  /\ CreatesUnborn

LEMMA InitBirth == Init => Birth
<1>1. Init => Typed
  BY InitTyped
<1>2. Init => /\ \A s \in Scans : status[s] = "ABSENT" => Unborn(s)
              /\ CreatesUnborn
  BY IdentifierAssumption DEF Init, Unborn, CreatesUnborn, NoJob, Free, Idle
<1> QED BY <1>1, <1>2 DEF Birth

\* What a step of one execution leaves alone: every other execution, every
\* request, and the row and the job of every scan but its own.
LEMMA ExecutionStep ==
  ASSUME TypeOK, NEW r \in Runs,
         \/ OperationStep(r) \/ WorkFails(r) \/ OperationFault(r)
         \/ HandlerStep(r) \/ HandlerFault(r) \/ Timeout(r)
  PROVE  /\ req' = req
         /\ \A x \in Runs \ {r} : run'[x] = run[x]
         /\ run'[r].scan \in {run[r].scan, NoScan}
         /\ \A s \in Scans : s # run[r].scan =>
              status'[s] = status[s] /\ job'[s] = job[s]
         /\ \A s \in Scans : status'[s] = "ABSENT" => status[s] = "ABSENT"
<1> USE DEF TypeOK, rowVars
<1>1. req' = req
  BY DEF OperationStep, Gate, Mark, Poll, Work, AtWork, Interrupt, Report, CacheProgress,
         Tick, Complete, Verify, Return, Unwind, WorkFails, OperationFault,
         HandlerStep, HandlerFault, FailRead, FailMark, FailCache, Resolve,
         Rethrow, Timeout
<1>2. \E e : Update(r, e) /\ e.scan = run[r].scan
  <2>1. CASE Throw(r, "cancelled") \/ Throw(r, "failed") \/ Return(r)
    <3>1. \A o : [run[r] EXCEPT !.op = "unwinding", !.outcome = o].scan = run[r].scan
      BY DEF Executions
    <3> QED BY <2>1, <3>1 DEF Throw, Return
  <2>2. CASE Proceed(r)
    <3>1. \A n : [run[r] EXCEPT !.at = n].scan = run[r].scan
      BY DEF Executions
    <3> QED BY <2>2, <3>1 DEF Proceed
  <2>3. CASE Unwind(r)
    <3> DEFINE e == [run[r] EXCEPT !.op = "ended"]
               f == [e EXCEPT !.handler = "resolve"]
               g == [e EXCEPT !.handler = "failRead", !.cause = e.outcome]
    <3>1. Update(r, e) \/ Update(r, f) \/ Update(r, g)
      BY <2>3 DEF Unwind
    <3>2. e.scan = run[r].scan /\ f.scan = run[r].scan /\ g.scan = run[r].scan
      BY DEF Executions
    <3> HIDE DEF e, f, g
    <3> QED BY <3>1, <3>2
  <2>4. CASE Timeout(r)
    <3> DEFINE e == [run[r] EXCEPT !.aborted = TRUE, !.handler = "failRead",
                                   !.cause = "failed"]
    <3>1. Update(r, e) /\ e.scan = run[r].scan
      BY <2>4 DEF Timeout, Executions
    <3> HIDE DEF e
    <3> QED BY <3>1
  <2>5. CASE \E h : SetHandler(r, h)
    <3>1. \A h : [run[r] EXCEPT !.handler = h].scan = run[r].scan
      BY DEF Executions
    <3> QED BY <2>5, <3>1 DEF SetHandler
  <2> QED BY <2>1, <2>2, <2>3, <2>4, <2>5
          DEF OperationStep, Gate, Mark, Poll, Work, AtWork, Interrupt, Report,
              CacheProgress, Tick, Complete, Verify, WorkFails, OperationFault,
              HandlerStep, HandlerFault, FailRead, FailMark, FailCache, Resolve,
              Rethrow
<1>3. /\ \A x \in Runs \ {r} : run'[x] = run[x]
      /\ run'[r].scan \in {run[r].scan, NoScan}
  BY <1>2 DEF Update, Free
<1>4. \A s \in Scans : s # run[r].scan => status'[s] = status[s] /\ job'[s] = job[s]
  BY DEF OperationStep, Gate, Mark, Poll, Work, AtWork, Interrupt, Report, CacheProgress,
         Tick, Complete, Verify, Return, Unwind, WorkFails, OperationFault,
         HandlerStep, HandlerFault, FailRead, FailMark, FailCache, Resolve,
         Rethrow, Timeout
<1>5. \A s \in Scans : status'[s] = "ABSENT" => status[s] = "ABSENT"
  BY DEF OperationStep, Gate, Mark, Poll, Work, AtWork, Interrupt, Report, CacheProgress,
         Tick, Complete, Verify, Return, Unwind, WorkFails, OperationFault,
         HandlerStep, HandlerFault, FailRead, FailMark, FailCache, Resolve,
         Rethrow, Timeout, Verdict
<1> QED BY <1>1, <1>3, <1>4, <1>5

LEMMA ExecutionBirth ==
  ASSUME Birth, NEW r \in Runs,
         \/ OperationStep(r) \/ WorkFails(r) \/ OperationFault(r)
         \/ HandlerStep(r) \/ HandlerFault(r) \/ Timeout(r)
  PROVE  /\ \A s \in Scans : status'[s] = "ABSENT" => Unborn(s)'
         /\ CreatesUnborn'
<1>1. TypeOK
  BY DEF Birth, Typed
<1>2. ASSUME NEW s \in Scans, status'[s] = "ABSENT"
      PROVE  Unborn(s)'
  <2>1. Unborn(s)
    BY <1>1, <1>2, ExecutionStep DEF Birth
  <2> QED BY <1>1, <2>1, ExecutionStep, IdentifierAssumption DEF Unborn
<1>3. CreatesUnborn'
  <2>1. \A s \in Scans : status[s] = "ABSENT" => status'[s] = "ABSENT"
    BY <1>1, ExecutionStep DEF Birth, Unborn
  <2> QED BY <1>1, <2>1, ExecutionStep DEF Birth, CreatesUnborn
<1> QED BY <1>2, <1>3

LEMMA QueueBirth ==
  ASSUME Birth,
         \/ \E r \in Runs, w \in Workers, s \in Scans : PickUp(r, w, s)
         \/ \E s \in Scans : StallDead(s) \/ StallSlow(s)
         \/ \E w \in Workers : Crash(w)
  PROVE  /\ \A s \in Scans : status'[s] = "ABSENT" => Unborn(s)'
         /\ CreatesUnborn'
<1> USE DEF rowVars
<1>1. UNCHANGED <<status, req>>
  BY DEF PickUp, StallDead, StallSlow, Crash
<1>2. ASSUME NEW s \in Scans, status[s] = "ABSENT"
      PROVE  Unborn(s)'
  <2>1. Unborn(s) /\ job \in [Scans -> Jobs] /\ run \in [Runs -> Executions]
    BY <1>2 DEF Birth, Typed, TypeOK
  <2>2. CASE \E r \in Runs, w \in Workers, x \in Scans : PickUp(r, w, x)
    BY <1>1, <2>1, <2>2, IdentifierAssumption
       DEF PickUp, Unborn, Update, Begin, Free, Jobs
  <2>3. CASE \E x \in Scans : StallDead(x) \/ StallSlow(x)
    BY <1>1, <2>1, <2>3 DEF StallDead, StallSlow, Expire, Unborn, Jobs
  <2>4. CASE \E w \in Workers : Crash(w)
    BY <1>1, <2>1, <2>4, IdentifierAssumption DEF Crash, Unborn, Free, Jobs
  <2> QED BY <2>2, <2>3, <2>4
<1> QED BY <1>1, <1>2 DEF Birth, CreatesUnborn

\* The same of a step of one request.
LEMMA RequestShape ==
  ASSUME Typed, NEW q \in Requests,
         \/ RequestStep(q) \/ RequestFault(q) \/ DropRequest(q)
  PROVE  /\ req[q].pc # "idle"
         /\ run' = run
         /\ \A p \in Requests \ {q} : req'[p] = req[p]
         /\ \/ req'[q] = Idle
            \/ req'[q].scan = req[q].scan /\ req'[q].pc # "create"
         /\ \A s \in Scans : s # req[q].scan =>
              status'[s] = status[s] /\ job'[s] = job[s]
         /\ \A s \in Scans : status'[s] = "ABSENT" => status[s] = "ABSENT"
<1> USE DEF Typed, TypeOK, rowVars
<1>1. CASE StartCreate(q)
  BY <1>1 DEF StartCreate, SetRequest, EndRequest
<1>2. CASE StartAnnounce(q) \/ StartEnqueue(q) \/ StartAnnotate(q) \/ StartReject(q)
  BY <1>2 DEF StartAnnounce, StartEnqueue, StartAnnotate, StartReject, SetRequest,
              EndRequest
<1>3. CASE CancelRemove(q) \/ CancelMark(q) \/ CancelNotify(q)
  BY <1>3 DEF CancelRemove, CancelMark, CancelNotify, SetRequest, EndRequest
<1>4. CASE RequestFault(q) \/ DropRequest(q)
  <2>1. UNCHANGED <<status, job, run>> /\ req[q].pc # "idle"
    BY <1>4 DEF RequestFault, DropRequest
  <2>2. EndRequest(q) \/ SetRequest(q, "reject", req[q].scan)
          \/ SetRequest(q, "cancel", req[q].scan)
    BY <1>4 DEF RequestFault, DropRequest
  <2> QED BY <2>1, <2>2 DEF SetRequest, EndRequest
<1> QED BY <1>1, <1>2, <1>3, <1>4 DEF RequestStep

LEMMA RequestBirth ==
  ASSUME Birth, NEW q \in Requests,
         \/ RequestStep(q) \/ RequestFault(q) \/ DropRequest(q)
         \/ \E s \in Scans : StartFind(q, s) \/ CancelRead(q, s)
  PROVE  /\ \A s \in Scans : status'[s] = "ABSENT" => Unborn(s)'
         /\ CreatesUnborn'
<1>1. CASE \E s \in Scans : StartFind(q, s)
  BY <1>1, IdentifierAssumption
     DEF StartFind, SetRequest, Unborn, CreatesUnborn, Calls, rowVars, Birth,
         Typed, TypeOK
<1>2. CASE \E s \in Scans : CancelRead(q, s)
  BY <1>2, IdentifierAssumption
     DEF CancelRead, SetRequest, Unborn, CreatesUnborn, Calls, Active, rowVars,
         Birth, Typed, TypeOK
<1>3. CASE RequestStep(q) \/ RequestFault(q) \/ DropRequest(q)
  <2>1. Typed
    BY DEF Birth
  <2>2. CASE req[q].pc # "create"
    <3>1. ASSUME NEW s \in Scans, status[s] = "ABSENT"
          PROVE  req[q].scan # s
      BY <1>3, <2>2, <3>1 DEF Birth, Unborn
    <3>2. \A s \in Scans : status'[s] = "ABSENT" => Unborn(s)'
      BY <1>3, <2>1, <3>1, RequestShape, IdentifierAssumption
         DEF Birth, Unborn, Idle
    <3>3. \A s \in Scans : status[s] = "ABSENT" => status'[s] = "ABSENT"
      BY <1>3, <2>1, <3>1, RequestShape
    <3>4. \A p \in Requests : req'[p].pc = "create" => p # q
      BY <1>3, <2>1, RequestShape DEF Idle
    <3>5. \A p \in Requests :
            req'[p].scan = req[p].scan \/ req'[p].scan = NoScan
      BY <1>3, <2>1, RequestShape DEF Idle
    <3> QED BY <1>3, <2>1, <3>2, <3>3, <3>4, <3>5, RequestShape,
               IdentifierAssumption DEF Birth, CreatesUnborn
  <2>3. CASE req[q].pc = "create"
    <3>1. \A p \in Requests \ {q} : req[p].scan # req[q].scan
      BY <2>3 DEF Birth, CreatesUnborn
    <3>2. \/ /\ status' = [status EXCEPT ![req[q].scan] = "QUEUED"]
             /\ SetRequest(q, "announce", req[q].scan)
             /\ UNCHANGED <<job, run>>
          \/ EndRequest(q) /\ UNCHANGED <<status, job, run>>
      BY <1>3, <2>3
         DEF RequestStep, RequestFault, DropRequest, StartCreate, StartAnnounce,
             StartEnqueue, StartAnnotate, StartReject, CancelRemove, CancelMark, CancelNotify,
             rowVars
    <3>3. CASE EndRequest(q) /\ UNCHANGED <<status, job, run>>
      BY <3>1, <3>3, IdentifierAssumption
         DEF EndRequest, Idle, Birth, Typed, TypeOK, Unborn, CreatesUnborn
    <3>4. CASE /\ status' = [status EXCEPT ![req[q].scan] = "QUEUED"]
               /\ SetRequest(q, "announce", req[q].scan)
               /\ UNCHANGED <<job, run>>
      <4>1. req[q].scan \in Scans /\ status[req[q].scan] = "ABSENT"
        BY <2>3 DEF Birth, CreatesUnborn
      <4>2. \A s \in Scans : status'[s] = "ABSENT" => s # req[q].scan /\ status[s] = "ABSENT"
        BY <3>4, <4>1 DEF Birth, Typed, TypeOK
      <4>3. /\ req'[q].pc = "announce" /\ req'[q].scan = req[q].scan
            /\ \A p \in Requests \ {q} : req'[p] = req[p]
        BY <3>4 DEF SetRequest, Birth, Typed, TypeOK
      <4>4. \A s \in Scans : status'[s] = "ABSENT" => Unborn(s)'
        BY <3>4, <4>2, <4>3 DEF Birth, Unborn
      <4>5. CreatesUnborn'
        <5>1. ASSUME NEW p \in Requests, req'[p].pc = "create"
              PROVE  /\ p # q
                     /\ req'[p].scan \in Scans
                     /\ status'[req'[p].scan] = "ABSENT"
                     /\ \A x \in Requests : req'[x].scan = req'[p].scan => x = p
          <6>1. p # q /\ req[p].pc = "create" /\ req'[p] = req[p]
            BY <4>3, <5>1
          <6>2. /\ req[p].scan \in Scans
                /\ status[req[p].scan] = "ABSENT"
                /\ req[p].scan # req[q].scan
                /\ \A x \in Requests : req[x].scan = req[p].scan => x = p
            BY <6>1 DEF Birth, CreatesUnborn
          <6>3. status'[req[p].scan] = "ABSENT"
            BY <3>4, <6>2 DEF Birth, Typed, TypeOK
          <6> QED BY <4>3, <6>1, <6>2, <6>3
        <5> QED BY <5>1 DEF CreatesUnborn
      <4> QED BY <4>4, <4>5
    <3> QED BY <3>2, <3>3, <3>4
  <2> QED BY <2>2, <2>3
<1> QED BY <1>1, <1>2, <1>3

LEMMA NextBirth == Birth /\ [Next]_vars => Birth'
<1> SUFFICES ASSUME Birth, [Next]_vars PROVE Birth'
  OBVIOUS
<1>1. Typed'
  BY NextTyped DEF Birth
<1>2. /\ \A s \in Scans : status'[s] = "ABSENT" => Unborn(s)'
      /\ CreatesUnborn'
  <2>1. CASE UNCHANGED vars
    BY <2>1 DEF vars, Birth, Unborn, CreatesUnborn
  <2>2. CASE Next
    BY <2>2, RequestBirth, ExecutionBirth, QueueBirth DEF Next
  <2> QED BY <2>1, <2>2
<1> QED BY <1>1, <1>2 DEF Birth

LEMMA RequestSettled ==
  ASSUME Birth, NEW s \in Scans, Settled(s), NEW q \in Requests,
         \/ RequestStep(q) \/ RequestFault(q) \/ DropRequest(q)
         \/ \E x \in Scans : StartFind(q, x) \/ CancelRead(q, x)
  PROVE  Settled(s)' /\ status'[s] = status[s]
<1>1. /\ UNCHANGED run
      /\ status'[s] = status[s]
      /\ job'[s] = job[s]
      /\ \A p \in Requests : req'[p].scan = s => req'[p] = req[p]
  <2>1. CASE \E x \in Scans : StartFind(q, x) \/ CancelRead(q, x)
    <3>1. PICK x \in Scans : StartFind(q, x) \/ CancelRead(q, x)
      BY <2>1
    <3>2. x # s
      BY <3>1 DEF StartFind, CancelRead, Settled, Terminal, Active
    <3> QED BY <3>1, <3>2
            DEF StartFind, CancelRead, SetRequest, rowVars, Birth, Typed, TypeOK
  <2>2. CASE RequestStep(q) \/ RequestFault(q) \/ DropRequest(q)
    <3>1. Typed
      BY DEF Birth
    <3>2. CASE req[q].scan # s
      BY <2>2, <3>1, <3>2, RequestShape, IdentifierAssumption DEF Idle
    <3>3. CASE req[q].scan = s
      <4>1. req[q].pc = "notify"
        <5>1. req[q].pc # "create"
          BY <3>3 DEF Birth, CreatesUnborn, Settled, Terminal
        <5>2. req[q].pc # "idle" /\ req[q] \in Calls
          BY <2>2, <3>1, RequestShape DEF Typed, TypeOK
        <5> QED BY <3>3, <5>1, <5>2 DEF Settled, Writer, Calls
      <4>2. EndRequest(q) /\ UNCHANGED <<status, job, run>>
        BY <2>2, <4>1
           DEF RequestStep, RequestFault, DropRequest, StartCreate, StartAnnounce,
               StartEnqueue, StartAnnotate, StartReject, CancelRemove, CancelMark,
               CancelNotify, rowVars
      <4> QED BY <4>2, IdentifierAssumption
              DEF EndRequest, Idle, Birth, Typed, TypeOK
    <3> QED BY <3>2, <3>3
  <2> QED BY <2>1, <2>2
<1>2. Writer(s)' => Writer(s)
  BY <1>1 DEF Writer, AtStep
<1>3. Attempt(s)' => Attempt(s)
  BY <1>1 DEF Attempt
<1> QED BY <1>1, <1>2, <1>3 DEF Settled

\* How far one step takes an operation and its handler.
LEMMA ExecutionMotion ==
  ASSUME TypeOK, NEW r \in Runs,
         \/ OperationStep(r) \/ WorkFails(r) \/ OperationFault(r)
         \/ HandlerStep(r) \/ HandlerFault(r) \/ Timeout(r)
  PROVE  /\ run'[r].op = "running" =>
              /\ run[r].op = "running"
              /\ \/ run'[r].at = run[r].at
                 \/ /\ run[r].at \in 1..Len(Script)
                    /\ run'[r].at = run[r].at + 1
                    /\ Script[run[r].at].kind = "gate" =>
                         status[run[r].scan] # "CANCELLED"
         /\ run'[r].handler = "failMark" =>
              \/ run[r].handler = "failMark"
              \/ status[run[r].scan] \notin Terminal
<1>1. run[r] \in Executions /\ run \in [Runs -> Executions]
  BY DEF TypeOK
<1>2. ASSUME NEW e, Update(r, e)
      PROVE  run'[r] \in {e, Free}
  BY <1>1, <1>2 DEF Update
<1>3. Free.op = "idle" /\ Free.handler = "idle"
  BY DEF Free
<1>4. CASE Throw(r, "cancelled") \/ Throw(r, "failed") \/ Return(r)
  <2>1. \A o : /\ [run[r] EXCEPT !.op = "unwinding", !.outcome = o].op = "unwinding"
              /\ [run[r] EXCEPT !.op = "unwinding", !.outcome = o].handler = run[r].handler
    BY <1>1 DEF Executions
  <2>2. PICK o : Update(r, [run[r] EXCEPT !.op = "unwinding", !.outcome = o])
    BY <1>4 DEF Throw, Return
  <2>3. run'[r] \in {[run[r] EXCEPT !.op = "unwinding", !.outcome = o], Free}
    BY <1>2, <2>2
  <2> QED BY <1>3, <2>1, <2>3
<1>5. CASE /\ Proceed(r)
           /\ run[r].op = "running" /\ run[r].at \in 1..Len(Script)
           /\ Script[run[r].at].kind = "gate" => status[run[r].scan] # "CANCELLED"
  <2>1. /\ [run[r] EXCEPT !.at = @ + 1].at = run[r].at + 1
        /\ [run[r] EXCEPT !.at = @ + 1].handler = run[r].handler
    BY <1>1 DEF Executions
  <2> QED BY <1>2, <1>3, <1>5, <2>1 DEF Proceed
<1>6. CASE Unwind(r)
  <2> DEFINE e == [run[r] EXCEPT !.op = "ended"]
             f == [e EXCEPT !.handler = "resolve"]
             g == [e EXCEPT !.handler = "failRead", !.cause = e.outcome]
  <2>1. Update(r, e) \/ Update(r, f) \/ Update(r, g)
    BY <1>6 DEF Unwind
  <2>2. /\ e.op = "ended" /\ f.op = "ended" /\ g.op = "ended"
        /\ e.handler = run[r].handler /\ f.handler # "failMark" /\ g.handler # "failMark"
    BY <1>1 DEF Executions
  <2> HIDE DEF e, f, g
  <2> QED BY <1>2, <1>3, <2>1, <2>2
<1>7. CASE Timeout(r)
  <2> DEFINE e == [run[r] EXCEPT !.aborted = TRUE, !.handler = "failRead",
                                 !.cause = "failed"]
  <2>1. Update(r, e)
    BY <1>7 DEF Timeout
  <2>2. e.op = run[r].op /\ e.at = run[r].at /\ e.handler # "failMark"
    BY <1>1 DEF Executions
  <2> HIDE DEF e
  <2> QED BY <1>2, <1>3, <2>1, <2>2
<1>8. CASE \E h \in {"resolve", "failMark", "failCache", "rethrow", "settled"} :
             SetHandler(r, h) /\ (h = "failMark" => status[run[r].scan] \notin Terminal)
  <2>1. PICK h \in {"resolve", "failMark", "failCache", "rethrow", "settled"} :
             SetHandler(r, h) /\ (h = "failMark" => status[run[r].scan] \notin Terminal)
    BY <1>8
  <2> DEFINE e == [run[r] EXCEPT !.handler = h]
  <2>2. e.op = run[r].op /\ e.at = run[r].at /\ e.handler = h
    BY <1>1 DEF Executions
  <2>3. Update(r, e)
    BY <2>1 DEF SetHandler
  <2> HIDE DEF e
  <2>4. run'[r] = e \/ run'[r] = Free
    BY <1>2, <2>3
  <2> QED BY <1>3, <2>1, <2>2, <2>4
<1> QED BY <1>4, <1>5, <1>6, <1>7, <1>8
        DEF AtStep, OperationStep, Gate, Mark, Poll, Work, AtWork, Interrupt, Report,
            CacheProgress, Tick, Complete, Verify, WorkFails, OperationFault,
            HandlerStep, HandlerFault, FailRead, FailMark, FailCache, Resolve,
            Rethrow

LEMMA ExecutionSettled ==
  ASSUME Birth, NEW s \in Scans, Settled(s), NEW r \in Runs,
         \/ OperationStep(r) \/ WorkFails(r) \/ OperationFault(r)
         \/ HandlerStep(r) \/ HandlerFault(r) \/ Timeout(r)
  PROVE  Settled(s)' /\ status'[s] = status[s]
<1>1. TypeOK
  BY DEF Birth, Typed
<1>2. status'[s] = status[s]
  <2>1. CASE run[r].scan # s
    BY <1>1, <2>1, ExecutionStep
  <2>2. CASE run[r].scan = s
    <3>1. ~Mark(r) /\ ~FailMark(r)
      BY <2>2 DEF Settled, Writer, Mark, FailMark
    <3>2. status[s] # "RUNNING"
      BY DEF Settled, Terminal
    <3> QED BY <2>2, <3>1, <3>2
            DEF OperationStep, Gate, Poll, Work, AtWork, Interrupt, Report, CacheProgress,
                Tick, Complete, Verify, Return, Unwind, WorkFails, OperationFault,
                HandlerStep, HandlerFault, FailRead, FailCache, Resolve, Rethrow,
                Timeout, rowVars
  <2> QED BY <2>1, <2>2
<1>3. job'[s].state \in {"waiting", "active"} => job[s].state \in {"waiting", "active"}
  <2>1. CASE Resolve(r) \/ Rethrow(r)
    BY <1>1, <2>1 DEF Resolve, Rethrow, Holds, TypeOK, Jobs
  <2>2. CASE UNCHANGED job
    BY <2>2
  <2> QED BY <2>1, <2>2
          DEF OperationStep, Gate, Mark, Poll, Work, AtWork, Interrupt, Report,
              CacheProgress, Tick, Complete, Verify, Return, Unwind, WorkFails,
              OperationFault, HandlerStep, HandlerFault, FailRead, FailMark,
              FailCache, Timeout
<1>4. Attempt(s)' => Attempt(s)
  <2>1. ASSUME NEW x \in Runs, run'[x].scan = s, run'[x].op = "running",
               NEW i \in run'[x].at..Len(Script), Script[i].kind = "mark"
        PROVE  /\ run[x].scan = s /\ run[x].op = "running"
               /\ i \in run[x].at..Len(Script)
    <3>1. CASE x # r
      BY <1>1, <2>1, <3>1, ExecutionStep
    <3>2. CASE x = r
      <4>1. run[r].scan = s /\ run[r].op = "running"
        BY <1>1, <2>1, <3>2, ExecutionStep, ExecutionMotion, IdentifierAssumption
      <4>2. run[r].at \in Nat /\ (run'[r].at = run[r].at \/ run'[r].at = run[r].at + 1)
        BY <1>1, <2>1, <3>2, ExecutionMotion, LenNat DEF TypeOK, Executions
      <4> QED BY <2>1, <3>2, <4>1, <4>2, LenNat
    <3> QED BY <3>1, <3>2
  <2> QED BY <1>3, <2>1 DEF Attempt
<1>5. ASSUME NEW x \in Runs, run'[x].scan = s,
             AtStep(x, "mark")' \/ run'[x].handler = "failMark"
      PROVE  FALSE
  <2>1. CASE x # r
    BY <1>1, <1>5, <2>1, ExecutionStep DEF Settled, Writer, AtStep
  <2>2. CASE x = r
    <3>1. run[r].scan = s
      BY <1>1, <1>5, <2>2, ExecutionStep, IdentifierAssumption
    <3>2. run'[r].handler # "failMark"
      BY <1>1, <3>1, ExecutionMotion DEF Settled, Writer
    <3>3. AtStep(r, "mark")'
      BY <1>5, <2>2, <3>2
    <3>4. /\ run'[r].op = "running" /\ run'[r].at \in 1..Len(Script)
          /\ Script[run'[r].at].kind = "mark"
      BY <3>3 DEF AtStep
    <3>5. run[r].op = "running" /\ run'[r].at # run[r].at
      BY <1>1, <3>1, <3>4, ExecutionMotion DEF Settled, Writer, AtStep
    <3>6. /\ run[r].at \in 1..Len(Script) /\ run'[r].at = run[r].at + 1
          /\ Script[run[r].at].kind = "gate" => status[s] # "CANCELLED"
      BY <1>1, <3>1, <3>4, <3>5, ExecutionMotion
    <3>7. Script[run[r].at].kind = "gate"
      <4>1. run'[r].at - 1 = run[r].at
        BY <3>6, LenNat
      <4> QED BY <3>4, <4>1, ScriptAssumption
    <3>8. run'[r].at \in run[r].at..Len(Script)
      BY <3>4, <3>6, LenNat
    <3>9. Attempt(s)
      BY <3>1, <3>4, <3>5, <3>8 DEF Attempt
    <3> QED BY <3>6, <3>7, <3>9 DEF Settled
  <2> QED BY <2>1, <2>2
<1>6. ~Writer(s)'
  BY <1>1, <1>5, ExecutionStep DEF Settled, Writer
<1> QED BY <1>2, <1>4, <1>6 DEF Settled

LEMMA QueueSettled ==
  ASSUME Birth, NEW s \in Scans, Settled(s),
         \/ \E r \in Runs, w \in Workers, x \in Scans : PickUp(r, w, x)
         \/ \E x \in Scans : StallDead(x) \/ StallSlow(x)
         \/ \E w \in Workers : Crash(w)
  PROVE  Settled(s)' /\ status'[s] = status[s]
<1>1. UNCHANGED <<status, req>>
  BY DEF PickUp, StallDead, StallSlow, Crash, rowVars
<1>2. job \in [Scans -> Jobs] /\ run \in [Runs -> Executions]
  BY DEF Birth, Typed, TypeOK
<1>3. CASE \E r \in Runs, w \in Workers, x \in Scans : PickUp(r, w, x)
  <2>1. PICK r \in Runs, w \in Workers, x \in Scans : PickUp(r, w, x)
    BY <1>3
  <2>2. run' = [run EXCEPT ![r] = Begin(x, w)]
    BY <2>1 DEF PickUp, Update, Begin
  <2>3. Begin(x, w).at = 1 /\ Begin(x, w).handler = "await" /\ Begin(x, w).scan = x
    BY DEF Begin
  <2>4. 1 \notin 1..Len(Script) \/ Script[1].kind # "mark"
    BY ScriptAssumption
  <2>5. ~Writer(s)'
    BY <1>1, <1>2, <2>2, <2>3, <2>4 DEF Settled, Writer, AtStep
  <2>6. CASE x # s
    <3>1. Attempt(s)' => Attempt(s)
      BY <1>2, <2>1, <2>2, <2>3, <2>6 DEF PickUp, Attempt
    <3> QED BY <1>1, <2>5, <3>1 DEF Settled
  <2>7. CASE x = s
    <3>1. Attempt(s)
      BY <2>1, <2>7 DEF PickUp, Attempt
    <3> QED BY <1>1, <2>5, <3>1 DEF Settled
  <2> QED BY <2>6, <2>7
<1>4. CASE \E x \in Scans : StallDead(x) \/ StallSlow(x)
  <2>1. UNCHANGED run
    BY <1>4 DEF StallDead, StallSlow
  <2>2. job'[s].state \in {"waiting", "active"} => job[s].state \in {"waiting", "active"}
    BY <1>2, <1>4 DEF StallDead, StallSlow, Expire, Jobs
  <2>3. Attempt(s)' => Attempt(s)
    BY <2>1, <2>2 DEF Attempt
  <2>4. Writer(s)' => Writer(s)
    BY <1>1, <2>1 DEF Writer, AtStep
  <2> QED BY <1>1, <2>3, <2>4 DEF Settled
<1>5. CASE \E w \in Workers : Crash(w)
  <2>1. PICK w \in Workers : Crash(w)
    BY <1>5
  <2>2. \A r \in Runs : run'[r] = run[r] \/ run'[r] = Free
    BY <1>2, <2>1 DEF Crash
  <2>3. Free.scan = NoScan /\ s # NoScan
    BY IdentifierAssumption DEF Free
  <2>4. job'[s].state = job[s].state
    BY <1>2, <2>1 DEF Crash, Jobs
  <2>5. Attempt(s)' => Attempt(s)
    BY <2>2, <2>3, <2>4 DEF Attempt
  <2>6. Writer(s)' => Writer(s)
    BY <1>1, <2>2, <2>3 DEF Writer, AtStep
  <2> QED BY <1>1, <2>5, <2>6 DEF Settled
<1> QED BY <1>3, <1>4, <1>5

\* Once a scan is settled, no later step of any request, job, execution or
\* crash gives its row another status.
THEOREM SettledForGood == Spec => SettledIsFinal
<1>1. Spec => []Birth
  BY InitBirth, NextBirth, PTL DEF Spec
<1>2. Birth /\ [Next]_vars =>
        [\A s \in Scans : Settled(s) => Settled(s)' /\ status'[s] = status[s]]_vars
  <2> SUFFICES ASSUME Birth, Next, NEW s \in Scans, Settled(s)
               PROVE  Settled(s)' /\ status'[s] = status[s]
    OBVIOUS
  <2> QED BY RequestSettled, ExecutionSettled, QueueSettled DEF Next
<1> QED BY <1>1, <1>2, PTL DEF Spec, SettledIsFinal

-----------------------------------------------------------------------------
(* ScanLifecycle implements ScanContract: the initial states agree, and    *)
(* every step is a legal move of the status column.                        *)

LEMMA HandsMeaning ==
  ASSUME NEW s \in Scans
  PROVE  /\ "attempt" \in hands[s] <=> Attempt(s)
         /\ "write" \in hands[s] <=> Writer(s)
  BY DEF hands

LEMMA HandsMeaningNext ==
  ASSUME NEW s \in Scans
  PROVE  /\ "attempt" \in hands'[s] <=> Attempt(s)'
         /\ "write" \in hands'[s] <=> Writer(s)'
  BY DEF hands

LEMMA ContractInit == Init => C!Init
<1> SUFFICES ASSUME Init PROVE C!Init
  OBVIOUS
<1>1. ASSUME NEW s \in Scans PROVE ~Attempt(s) /\ ~Writer(s)
  BY IdentifierAssumption
     DEF Init, Attempt, Writer, NoJob, Free, Idle, AtStep
<1>2. hands = [s \in Scans |-> {}]
  BY <1>1 DEF hands
<1> QED BY <1>2 DEF Init, C!Init

\* A row somebody is about to write exists.
LEMMA WriterExists ==
  ASSUME Birth, NEW s \in Scans, Writer(s)
  PROVE  status[s] # "ABSENT"
  BY DEF Birth, Unborn, Writer

-----------------------------------------------------------------------------
(* The moves of a row                                                      *)

LEMMA NoRival ==
  ASSUME NEW s \in Scans, IndexAdmits(s)
  PROVE  ~C!Rival(s)
  BY DEF IndexAdmits, C!Rival, Active, C!Active

LEMMA RequestMove ==
  ASSUME Birth, NEW q \in Requests,
         \/ RequestStep(q) \/ RequestFault(q) \/ DropRequest(q)
         \/ \E x \in Scans : StartFind(q, x) \/ CancelRead(q, x)
  PROVE  \/ UNCHANGED status
         \/ \E s \in Scans : C!Queue(s) \/ C!Run(s) \/ C!Finish(s) \/ C!Close(s)
<1>1. CASE StartCreate(q) /\ ~UNCHANGED status
  <2>1. req[q].scan \in Scans /\ status[req[q].scan] = "ABSENT"
    BY <1>1 DEF StartCreate, Birth, CreatesUnborn
  <2>2. IndexAdmits(req[q].scan) /\ status' = [status EXCEPT ![req[q].scan] = "QUEUED"]
    BY <1>1 DEF StartCreate, rowVars
  <2>3. C!Queue(req[q].scan)
    BY <2>1, <2>2, NoRival DEF C!Queue, C!Become
  <2> QED BY <2>1, <2>3
<1>2. CASE (StartReject(q) \/ CancelMark(q)) /\ ~UNCHANGED status
  <2>1. \E v \in {"FAILED", "CANCELLED"} :
          status' = [status EXCEPT ![req[q].scan] = v]
    BY <1>2 DEF StartReject, CancelMark
  <2>2. req[q].scan \in Scans
    BY <1>2, <2>1 DEF Birth, Typed, TypeOK
  <2>3. Writer(req[q].scan)
    BY <1>2 DEF StartReject, CancelMark, Writer
  <2>4. status[req[q].scan] # "ABSENT" /\ "write" \in hands[req[q].scan]
    BY <2>2, <2>3, WriterExists, HandsMeaning
  <2>5. C!Close(req[q].scan)
    BY <2>1, <2>4 DEF C!Close, C!Become
  <2> QED BY <2>2, <2>5
<1> QED BY <1>1, <1>2
        DEF RequestStep, RequestFault, DropRequest, StartFind, StartAnnounce,
            StartEnqueue, StartAnnotate, CancelRead, CancelRemove, CancelNotify,
            rowVars

LEMMA ExecutionMove ==
  ASSUME Birth, NEW r \in Runs,
         \/ OperationStep(r) \/ WorkFails(r) \/ OperationFault(r)
         \/ HandlerStep(r) \/ HandlerFault(r) \/ Timeout(r)
  PROVE  \/ UNCHANGED status
         \/ \E s \in Scans : C!Queue(s) \/ C!Run(s) \/ C!Finish(s) \/ C!Close(s)
<1> DEFINE s == run[r].scan
<1>1. ASSUME ~UNCHANGED status, NEW v, status' = [status EXCEPT ![s] = v]
      PROVE  s \in Scans
  BY <1>1 DEF Birth, Typed, TypeOK
<1>2. CASE Mark(r) /\ ~UNCHANGED status
  <2>1. IndexAdmits(s) /\ status' = [status EXCEPT ![s] = "RUNNING"]
    BY <1>2 DEF Mark
  <2>2. s \in Scans
    BY <1>1, <1>2, <2>1
  <2>3. Writer(s)
    BY <1>2 DEF Mark, Writer
  <2>4. status[s] # "ABSENT" /\ "write" \in hands[s]
    BY <2>2, <2>3, WriterExists, HandsMeaning
  <2>5. C!Run(s)
    BY <2>1, <2>2, <2>4, NoRival DEF C!Run, C!Become
  <2> QED BY <2>2, <2>5
<1>3. CASE Complete(r) /\ ~UNCHANGED status
  <2>1. status[s] = "RUNNING" /\ status' = [status EXCEPT ![s] = "COMPLETED"]
    BY <1>3 DEF Complete, rowVars
  <2>2. s \in Scans
    BY <1>1, <1>3, <2>1
  <2>3. C!Finish(s)
    BY <2>1 DEF C!Finish, C!Become
  <2> QED BY <2>2, <2>3
<1>4. CASE FailMark(r) /\ ~UNCHANGED status
  <2>1. \E v \in {"FAILED", "CANCELLED"} : status' = [status EXCEPT ![s] = v]
    BY <1>4 DEF FailMark, Verdict
  <2>2. s \in Scans
    BY <1>1, <1>4, <2>1
  <2>3. Writer(s)
    BY <1>4 DEF FailMark, Writer
  <2>4. status[s] # "ABSENT" /\ "write" \in hands[s]
    BY <2>2, <2>3, WriterExists, HandsMeaning
  <2>5. C!Close(s)
    BY <2>1, <2>4 DEF C!Close, C!Become
  <2> QED BY <2>2, <2>5
<1> QED BY <1>2, <1>3, <1>4
        DEF OperationStep, Gate, Poll, Work, AtWork, Interrupt, Report, CacheProgress,
            Tick, Verify, Return, Unwind, WorkFails, OperationFault,
            HandlerStep, HandlerFault, FailRead, FailCache, Resolve, Rethrow,
            Timeout, rowVars

-----------------------------------------------------------------------------
(* The hands on a scan                                                     *)

\* HandedOn in terms of Attempt and Writer.
LEMMA HandedOnFrom ==
  ASSUME NEW s \in Scans,
         Attempt(s)' => Attempt(s) \/ Writer(s),
         Writer(s)' => \/ Writer(s)
                       \/ status[s] = "ABSENT" /\ status'[s] = "QUEUED"
                       \/ status[s] \in Active
                       \/ status[s] # "CANCELLED" /\ Attempt(s)
  PROVE  C!HandedOn(s)
  BY HandsMeaning, HandsMeaningNext DEF C!HandedOn, Active, C!Active

LEMMA RequestHands ==
  ASSUME Birth, NEW s \in Scans, NEW q \in Requests,
         \/ RequestStep(q) \/ RequestFault(q) \/ DropRequest(q)
         \/ \E x \in Scans : StartFind(q, x) \/ CancelRead(q, x)
  PROVE  C!HandedOn(s)
<1>1. UNCHANGED run
  BY DEF RequestStep, RequestFault, DropRequest, StartCreate, StartAnnounce,
         StartEnqueue, StartAnnotate, StartReject, CancelRemove, CancelMark,
         CancelNotify, StartFind, CancelRead
<1>2. job'[s].state \in {"waiting", "active"} =>
        job[s].state \in {"waiting", "active"} \/ Writer(s)
  <2>1. CASE StartEnqueue(q)
    BY <2>1 DEF StartEnqueue, Writer, Birth, Typed, TypeOK
  <2>2. CASE CancelRemove(q)
    BY <2>2 DEF CancelRemove, Birth, Typed, TypeOK, Jobs
  <2>3. CASE UNCHANGED job
    BY <2>3
  <2> QED BY <2>1, <2>2, <2>3
          DEF RequestStep, RequestFault, DropRequest, StartCreate, StartAnnounce,
              StartAnnotate, StartReject, CancelMark, CancelNotify, StartFind,
              CancelRead
<1>3. Attempt(s)' => Attempt(s) \/ Writer(s)
  BY <1>1, <1>2 DEF Attempt
<1>4. ASSUME NEW p \in Requests, req'[p].scan = s,
             req'[p].pc \in {"announce", "enqueue", "annotate", "reject",
                             "remove", "cancel"}
      PROVE  \/ Writer(s)
             \/ status[s] = "ABSENT" /\ status'[s] = "QUEUED"
             \/ status[s] \in Active
  <2>1. req \in [Requests -> Calls]
    BY DEF Birth, Typed, TypeOK
  <2>2. CASE req'[p] = req[p]
    BY <1>4, <2>2 DEF Writer
  <2>3. CASE p = q /\ (\E x \in Scans : StartFind(q, x) \/ CancelRead(q, x))
    BY <1>4, <2>1, <2>3 DEF StartFind, CancelRead, SetRequest
  <2>4. CASE p = q /\ StartCreate(q)
    <3>1. SetRequest(q, "announce", req[q].scan) \/ EndRequest(q)
      BY <2>4 DEF StartCreate
    <3>2. SetRequest(q, "announce", req[q].scan)
      BY <1>4, <2>1, <2>4, <3>1 DEF EndRequest, Idle
    <3>3. req[q].scan = s
      BY <1>4, <2>1, <2>4, <3>2 DEF SetRequest
    <3>4. status[s] = "ABSENT"
      BY <2>4, <3>3 DEF StartCreate, Birth, CreatesUnborn
    <3>5. status' = [status EXCEPT ![s] = "QUEUED"]
      BY <2>1, <2>4, <3>2, <3>3 DEF StartCreate, SetRequest, EndRequest, Idle
    <3> QED BY <3>4, <3>5 DEF Birth, Typed, TypeOK
  <2>5. CASE /\ p = q /\ req[q].scan = s
             /\ req[q].pc \in {"announce", "enqueue", "annotate", "reject",
                               "remove", "cancel"}
    BY <2>5 DEF Writer
  <2>6. CASE p = q /\ (RequestStep(q) \/ RequestFault(q) \/ DropRequest(q)) /\ ~StartCreate(q)
    <3>1. req'[q].scan = req[q].scan
      BY <1>4, <2>6, RequestShape, IdentifierAssumption DEF Birth, Idle
    <3>2. req[q].pc \in {"announce", "enqueue", "annotate", "reject", "remove",
                         "cancel"}
      BY <1>4, <2>1, <2>6
         DEF RequestStep, RequestFault, DropRequest, StartAnnounce, StartEnqueue,
             StartAnnotate, StartReject, CancelRemove, CancelMark, CancelNotify,
             SetRequest, EndRequest, Idle, Calls
    <3> QED BY <1>4, <2>5, <2>6, <3>1, <3>2
  <2>7. CASE p # q
    <3>1. req'[p] = req[p]
      BY <2>1, <2>7, RequestShape
         DEF StartFind, CancelRead, SetRequest, Birth
    <3> QED BY <2>2, <3>1
  <2> QED BY <2>3, <2>4, <2>6, <2>7
<1>5. Writer(s)' => \/ Writer(s)
                    \/ status[s] = "ABSENT" /\ status'[s] = "QUEUED"
                    \/ status[s] \in Active
  BY <1>1, <1>4 DEF Writer, AtStep
<1> QED BY <1>3, <1>5, HandedOnFrom

LEMMA ExecutionHands ==
  ASSUME Birth, NEW s \in Scans, NEW r \in Runs,
         \/ OperationStep(r) \/ WorkFails(r) \/ OperationFault(r)
         \/ HandlerStep(r) \/ HandlerFault(r) \/ Timeout(r)
  PROVE  C!HandedOn(s)
<1>1. TypeOK
  BY DEF Birth, Typed
<1>2. job'[s].state \in {"waiting", "active"} => job[s].state \in {"waiting", "active"}
  <2>1. CASE Resolve(r) \/ Rethrow(r)
    BY <1>1, <2>1 DEF Resolve, Rethrow, Holds, TypeOK, Jobs
  <2>2. CASE UNCHANGED job
    BY <2>2
  <2> QED BY <2>1, <2>2
          DEF OperationStep, Gate, Mark, Poll, Work, AtWork, Interrupt, Report,
              CacheProgress, Tick, Complete, Verify, Return, Unwind, WorkFails,
              OperationFault, HandlerStep, HandlerFault, FailRead, FailMark,
              FailCache, Timeout
<1>3. Attempt(s)' => Attempt(s)
  <2>1. ASSUME NEW x \in Runs, run'[x].scan = s, run'[x].op = "running",
               NEW i \in run'[x].at..Len(Script), Script[i].kind = "mark"
        PROVE  /\ run[x].scan = s /\ run[x].op = "running"
               /\ i \in run[x].at..Len(Script)
    <3>1. CASE x # r
      BY <1>1, <2>1, <3>1, ExecutionStep
    <3>2. CASE x = r
      <4>1. run[r].scan = s /\ run[r].op = "running"
        BY <1>1, <2>1, <3>2, ExecutionStep, ExecutionMotion, IdentifierAssumption
      <4>2. run[r].at \in Nat
        BY <1>1, LenNat DEF TypeOK, Executions
      <4>3. run'[r].at = run[r].at \/ run'[r].at = run[r].at + 1
        BY <1>1, <2>1, <3>2, ExecutionMotion
      <4> QED BY <2>1, <3>2, <4>1, <4>2, <4>3, LenNat
    <3> QED BY <3>1, <3>2
  <2> QED BY <1>2, <2>1 DEF Attempt
<1>4. ASSUME NEW x \in Runs, run'[x].scan = s,
             AtStep(x, "mark")' \/ run'[x].handler = "failMark"
      PROVE  \/ Writer(s)
             \/ status[s] \in Active
             \/ status[s] # "CANCELLED" /\ Attempt(s)
  <2>1. CASE x # r
    BY <1>1, <1>4, <2>1, ExecutionStep DEF Writer, AtStep
  <2>2. CASE x = r
    <3>1. run[r].scan = s
      BY <1>1, <1>4, <2>2, ExecutionStep, IdentifierAssumption
    <3>2. CASE run'[r].handler = "failMark"
      <4>1. CASE run[r].handler = "failMark"
        BY <3>1, <4>1 DEF Writer
      <4>2. CASE status[s] \notin Terminal
        <5>1. status[s] # "ABSENT"
          BY <3>1 DEF Birth, Unborn
        <5> QED BY <1>1, <4>2, <5>1 DEF TypeOK, Statuses
      <4> QED BY <1>1, <3>1, <3>2, <4>1, <4>2, ExecutionMotion
    <3>3. CASE AtStep(r, "mark")'
      <4>1. /\ run'[r].op = "running" /\ run'[r].at \in 1..Len(Script)
            /\ Script[run'[r].at].kind = "mark"
        BY <3>3 DEF AtStep
      <4>2. CASE run'[r].at = run[r].at
        <5>1. AtStep(r, "mark")
          BY <1>1, <4>1, <4>2, ExecutionMotion DEF AtStep
        <5> QED BY <3>1, <5>1 DEF Writer
      <4>3. CASE run'[r].at # run[r].at
        <5>1. /\ run[r].op = "running"
              /\ run[r].at \in 1..Len(Script) /\ run'[r].at = run[r].at + 1
              /\ Script[run[r].at].kind = "gate" => status[s] # "CANCELLED"
          BY <1>1, <3>1, <4>1, <4>3, ExecutionMotion
        <5>2. Script[run[r].at].kind = "gate"
          <6>1. run'[r].at - 1 = run[r].at
            BY <5>1, LenNat
          <6> QED BY <4>1, <6>1, ScriptAssumption
        <5>3. run'[r].at \in run[r].at..Len(Script)
          BY <4>1, <5>1, LenNat
        <5> QED BY <3>1, <4>1, <5>1, <5>2, <5>3 DEF Attempt
      <4> QED BY <4>2, <4>3
    <3> QED BY <1>4, <2>2, <3>2, <3>3
  <2> QED BY <2>1, <2>2
<1>5. Writer(s)' => \/ Writer(s)
                    \/ status[s] \in Active
                    \/ status[s] # "CANCELLED" /\ Attempt(s)
  BY <1>1, <1>4, ExecutionStep DEF Writer
<1> QED BY <1>3, <1>5, HandedOnFrom

LEMMA QueueHands ==
  ASSUME Birth, NEW s \in Scans,
         \/ \E r \in Runs, w \in Workers, x \in Scans : PickUp(r, w, x)
         \/ \E x \in Scans : StallDead(x) \/ StallSlow(x)
         \/ \E w \in Workers : Crash(w)
  PROVE  UNCHANGED status /\ C!HandedOn(s)
<1>1. UNCHANGED <<status, req>>
  BY DEF PickUp, StallDead, StallSlow, Crash, rowVars
<1>2. job \in [Scans -> Jobs] /\ run \in [Runs -> Executions]
  BY DEF Birth, Typed, TypeOK
<1>3. CASE \E r \in Runs, w \in Workers, x \in Scans : PickUp(r, w, x)
  <2>1. PICK r \in Runs, w \in Workers, x \in Scans : PickUp(r, w, x)
    BY <1>3
  <2>2. run' = [run EXCEPT ![r] = Begin(x, w)]
    BY <2>1 DEF PickUp, Update, Begin
  <2>3. Begin(x, w).at = 1 /\ Begin(x, w).handler = "await" /\ Begin(x, w).scan = x
    BY DEF Begin
  <2>4. 1 \notin 1..Len(Script) \/ Script[1].kind # "mark"
    BY ScriptAssumption
  <2>5. Writer(s)' => Writer(s)
    BY <1>1, <1>2, <2>2, <2>3, <2>4 DEF Writer, AtStep
  <2>6. Attempt(s)' => Attempt(s)
    <3>1. CASE x # s
      BY <1>2, <2>1, <2>2, <2>3, <3>1 DEF PickUp, Attempt
    <3>2. CASE x = s
      BY <2>1, <3>2 DEF PickUp, Attempt
    <3> QED BY <3>1, <3>2
  <2> QED BY <1>1, <2>5, <2>6, HandedOnFrom
<1>4. CASE \E x \in Scans : StallDead(x) \/ StallSlow(x)
  <2>1. UNCHANGED run
    BY <1>4 DEF StallDead, StallSlow
  <2>2. job'[s].state \in {"waiting", "active"} => job[s].state \in {"waiting", "active"}
    BY <1>2, <1>4 DEF StallDead, StallSlow, Expire, Jobs
  <2>3. Attempt(s)' => Attempt(s)
    BY <2>1, <2>2 DEF Attempt
  <2>4. Writer(s)' => Writer(s)
    BY <1>1, <2>1 DEF Writer, AtStep
  <2> QED BY <1>1, <2>3, <2>4, HandedOnFrom
<1>5. CASE \E w \in Workers : Crash(w)
  <2>1. PICK w \in Workers : Crash(w)
    BY <1>5
  <2>2. \A r \in Runs : run'[r] = run[r] \/ run'[r] = Free
    BY <1>2, <2>1 DEF Crash
  <2>3. Free.scan = NoScan /\ s # NoScan
    BY IdentifierAssumption DEF Free
  <2>4. job'[s].state = job[s].state
    BY <1>2, <2>1 DEF Crash, Jobs
  <2>5. Attempt(s)' => Attempt(s)
    BY <2>2, <2>3, <2>4 DEF Attempt
  <2>6. Writer(s)' => Writer(s)
    BY <1>1, <2>2, <2>3 DEF Writer, AtStep
  <2> QED BY <1>1, <2>5, <2>6, HandedOnFrom
<1> QED BY <1>3, <1>4, <1>5

-----------------------------------------------------------------------------
(* The refinement                                                          *)

LEMMA ContractStep == Birth /\ [Next]_vars => [C!Next]_<<status, hands>>
<1> SUFFICES ASSUME Birth, Next PROVE C!Next \/ UNCHANGED <<status, hands>>
  BY DEF vars, hands, Attempt, Writer, AtStep
<1>1. \/ UNCHANGED status
      \/ \E s \in Scans : C!Queue(s) \/ C!Run(s) \/ C!Finish(s) \/ C!Close(s)
  BY RequestMove, ExecutionMove DEF Next, PickUp, StallDead, StallSlow, Crash, rowVars
<1>2. \A s \in Scans : C!HandedOn(s)
  BY RequestHands, ExecutionHands, QueueHands DEF Next
<1> QED BY <1>1, <1>2 DEF C!Next

\* Every behaviour of the scan lifecycle is one of the status contract: rows
\* move only by legal transitions, and only under somebody's hand.
THEOREM ImplementsContract == Spec => KeepsContract
<1>1. Spec => []Birth
  BY InitBirth, NextBirth, PTL DEF Spec
<1> QED BY <1>1, ContractInit, ContractStep, PTL DEF Spec, KeepsContract, C!Spec

=============================================================================
