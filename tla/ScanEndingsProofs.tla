------------------------- MODULE ScanEndingsProofs -------------------------
(***************************************************************************)
(* How scans end, for any number of scans, workers, executions and         *)
(* requests and any script that keeps to OrderAssumption: who may work on  *)
(* a scan at a time, who answers for an active one, what its percentage    *)
(* tells, and whether its snapshot tells the same as its row.  Each part   *)
(* has an inductive invariant of its own: Exclusion, Custody, Percent and  *)
(* Peace.                                                                  *)
(***************************************************************************)
EXTENDS ScanLifecycleProofs

-----------------------------------------------------------------------------
(* How one step moves an execution                                         *)

ExecutionAction(r) ==
  \/ OperationStep(r) \/ WorkFails(r) \/ OperationFault(r)
  \/ HandlerStep(r) \/ HandlerFault(r) \/ Timeout(r)

\* The operation passes an await ...
Advanced(r) ==
  /\ run[r].op = "running" /\ run[r].at \in 1..Len(Script)
  /\ run'[r].op = "running" /\ run'[r].at = run[r].at + 1
  /\ run'[r].scan = run[r].scan /\ run'[r].handler = run[r].handler
  /\ run'[r].aborted = run[r].aborted
  /\ run'[r].outcome = run[r].outcome /\ run'[r].cause = run[r].cause

\* ... or leaves for its finally block, by a throw or by its return ...
Left(r, o) ==
  /\ run[r].op = "running" /\ run'[r].op = "unwinding"
  /\ run'[r].scan = run[r].scan /\ run'[r].handler = run[r].handler
  /\ run'[r].aborted = run[r].aborted
  /\ run'[r].outcome = o /\ run'[r].cause = run[r].cause

\* ... and ends, which the handler may be waiting for.
Ended(r) ==
  /\ run[r].op = "unwinding"
  /\ \/ run[r].handler = "settled" /\ run'[r] = Free
     \/ /\ run[r].handler # "settled"
        /\ run'[r].op = "ended" /\ run'[r].scan = run[r].scan
        /\ run'[r].aborted = run[r].aborted /\ run'[r].outcome = run[r].outcome
        /\ \/ /\ run[r].handler # "await"
              /\ run'[r].handler = run[r].handler /\ run'[r].cause = run[r].cause
           \/ /\ run[r].handler = "await" /\ run[r].outcome = "value"
              /\ run'[r].handler = "resolve" /\ run'[r].cause = run[r].cause
           \/ /\ run[r].handler = "await" /\ run[r].outcome # "value"
              /\ run'[r].handler = "failRead" /\ run'[r].cause = run[r].outcome

\* The handler goes from one of these places to another.
Handled(r, from, h) ==
  /\ run[r].handler = from
  /\ \/ h = "settled" /\ run[r].op = "ended" /\ run'[r] = Free
     \/ /\ ~(h = "settled" /\ run[r].op = "ended")
        /\ run'[r].op = run[r].op /\ run'[r].at = run[r].at
        /\ run'[r].scan = run[r].scan /\ run'[r].handler = h
        /\ run'[r].aborted = run[r].aborted
        /\ run'[r].outcome = run[r].outcome /\ run'[r].cause = run[r].cause

\* What each kind of update does to the fields of its execution.
LEMMA ProceedMoves ==
  ASSUME TypeOK, NEW r \in Runs, Proceed(r), run[r].op = "running",
         run[r].at \in 1..Len(Script)
  PROVE  Advanced(r)
<1> DEFINE e == [run[r] EXCEPT !.at = @ + 1]
<1>1. /\ e.op = run[r].op /\ e.at = run[r].at + 1 /\ e.scan = run[r].scan
      /\ e.handler = run[r].handler /\ e.aborted = run[r].aborted
      /\ e.outcome = run[r].outcome /\ e.cause = run[r].cause
  BY DEF TypeOK, Executions
<1>2. Update(r, e)
  BY DEF Proceed
<1> HIDE DEF e
<1> QED BY <1>1, <1>2 DEF Update, Advanced, TypeOK

LEMMA LeaveMoves ==
  ASSUME TypeOK, NEW r \in Runs, NEW o, run[r].op = "running",
         Update(r, [run[r] EXCEPT !.op = "unwinding", !.outcome = o])
  PROVE  Left(r, o)
<1> DEFINE e == [run[r] EXCEPT !.op = "unwinding", !.outcome = o]
<1>1. /\ e.op = "unwinding" /\ e.scan = run[r].scan
      /\ e.handler = run[r].handler /\ e.aborted = run[r].aborted
      /\ e.outcome = o /\ e.cause = run[r].cause
  BY DEF TypeOK, Executions
<1> HIDE DEF e
<1>2. Update(r, e)
  BY DEF e
<1> QED BY <1>1, <1>2 DEF Update, Left, TypeOK

LEMMA UnwindMoves ==
  ASSUME TypeOK, NEW r \in Runs, Unwind(r)
  PROVE  Ended(r)
<1> DEFINE e == [run[r] EXCEPT !.op = "ended"]
           f == [e EXCEPT !.handler = "resolve"]
           g == [e EXCEPT !.handler = "failRead", !.cause = e.outcome]
<1>1. /\ e.op = "ended" /\ e.scan = run[r].scan
      /\ e.handler = run[r].handler /\ e.aborted = run[r].aborted
      /\ e.outcome = run[r].outcome /\ e.cause = run[r].cause
  BY DEF TypeOK, Executions
<1>2. /\ f.op = "ended" /\ f.scan = run[r].scan
      /\ f.handler = "resolve" /\ f.aborted = run[r].aborted
      /\ f.outcome = run[r].outcome /\ f.cause = run[r].cause
  BY DEF TypeOK, Executions
<1>3. /\ g.op = "ended" /\ g.scan = run[r].scan
      /\ g.handler = "failRead" /\ g.aborted = run[r].aborted
      /\ g.outcome = run[r].outcome /\ g.cause = run[r].outcome
  BY DEF TypeOK, Executions
<1>4. /\ run[r].op = "unwinding"
      /\ \/ run[r].handler # "await" /\ Update(r, e)
         \/ run[r].handler = "await" /\ run[r].outcome = "value" /\ Update(r, f)
         \/ run[r].handler = "await" /\ run[r].outcome # "value" /\ Update(r, g)
  BY <1>1 DEF Unwind
<1> HIDE DEF e, f, g
<1> QED BY <1>1, <1>2, <1>3, <1>4 DEF Update, Ended, TypeOK

LEMMA HandlerMoves ==
  ASSUME TypeOK, NEW r \in Runs, NEW h, SetHandler(r, h)
  PROVE  Handled(r, run[r].handler, h)
<1> DEFINE e == [run[r] EXCEPT !.handler = h]
<1>1. /\ e.op = run[r].op /\ e.at = run[r].at /\ e.scan = run[r].scan
      /\ e.handler = h /\ e.aborted = run[r].aborted
      /\ e.outcome = run[r].outcome /\ e.cause = run[r].cause
  BY DEF TypeOK, Executions
<1>2. Update(r, e)
  BY DEF SetHandler
<1> HIDE DEF e
<1> QED BY <1>1, <1>2 DEF Update, Handled, TypeOK
LEMMA TimeoutMoves ==
  ASSUME TypeOK, NEW r \in Runs, Timeout(r)
  PROVE  /\ run'[r].op = run[r].op /\ run'[r].at = run[r].at
         /\ run'[r].handler = "failRead"
<1> DEFINE e == [run[r] EXCEPT !.aborted = TRUE, !.handler = "failRead",
                               !.cause = "failed"]
<1>1. e.at = run[r].at /\ e.op = run[r].op /\ e.handler = "failRead"
  BY DEF TypeOK, Executions
<1>2. Update(r, e)
  BY DEF Timeout
<1> HIDE DEF e
<1> QED BY <1>1, <1>2 DEF Update, TypeOK

\* Which of them a step of an execution is.
LEMMA ExecutionMoves ==
  ASSUME TypeOK, NEW r \in Runs, ExecutionAction(r)
  PROVE  \/ /\ Advanced(r)
            /\ Script[run[r].at].kind = "verify" => status[run[r].scan] = "COMPLETED"
            /\ UNCHANGED job
         \/ (\E o \in {"cancelled", "failed"} : Left(r, o)) /\ UNCHANGED <<rowVars, cache, job>>
         \/ Left(r, "value") /\ run[r].at = Len(Script) + 1 /\ UNCHANGED <<rowVars, cache, job>>
         \/ Ended(r) /\ UNCHANGED job
         \/ /\ \E from \in {"failRead", "failMark", "failCache"} :
               \E h \in {"failMark", "failCache", "rethrow"} : Handled(r, from, h)
            /\ UNCHANGED job
         \/ Handled(r, "resolve", "settled") /\ Resolve(r)
         \/ Handled(r, "rethrow", "settled") /\ Rethrow(r)
         \/ Timeout(r)
<1>1. CASE OperationStep(r) \/ WorkFails(r) \/ OperationFault(r)
  <2>1. UNCHANGED job
    BY <1>1 DEF OperationStep, Gate, Mark, Poll, Work, AtWork, Interrupt, Report,
                CacheProgress, Tick, Complete, Verify, Return, Unwind, WorkFails,
                OperationFault
  <2>2. \/ Unwind(r)
        \/ /\ run[r].op = "running" /\ run[r].at \in 1..Len(Script) /\ Proceed(r)
           /\ Script[run[r].at].kind = "verify" => status[run[r].scan] = "COMPLETED"
        \/ /\ run[r].op = "running" /\ UNCHANGED <<rowVars, cache>>
           /\ \E o \in {"cancelled", "failed"} :
                Update(r, [run[r] EXCEPT !.op = "unwinding", !.outcome = o])
        \/ /\ run[r].op = "running" /\ run[r].at = Len(Script) + 1
           /\ UNCHANGED <<rowVars, cache>>
           /\ Update(r, [run[r] EXCEPT !.op = "unwinding", !.outcome = "value"])
    BY <1>1 DEF OperationStep, Gate, Mark, Poll, Work, AtWork, Interrupt, Report,
                CacheProgress, Tick, Complete, Verify, Return, WorkFails,
                OperationFault, Throw, AtStep, rowVars
  <2> QED BY <2>1, <2>2, UnwindMoves, ProceedMoves, LeaveMoves
<1>2. CASE HandlerStep(r) \/ HandlerFault(r) \/ Timeout(r)
  <2>1. CASE FailRead(r) \/ FailMark(r) \/ FailCache(r) \/ HandlerFault(r)
    <3>1. /\ run[r].handler \in {"failRead", "failMark", "failCache"}
          /\ UNCHANGED job
          /\ \E h \in {"failMark", "failCache", "rethrow"} : SetHandler(r, h)
      BY <2>1 DEF FailRead, FailMark, FailCache, HandlerFault
    <3> QED BY <3>1, HandlerMoves
  <2>2. CASE Resolve(r) \/ Rethrow(r)
    <3>1. SetHandler(r, "settled") /\ run[r].handler \in {"resolve", "rethrow"}
          /\ (Resolve(r) => run[r].handler = "resolve")
          /\ (Rethrow(r) => run[r].handler = "rethrow")
      BY <2>2 DEF Resolve, Rethrow
    <3> QED BY <2>2, <3>1, HandlerMoves
  <2> QED BY <1>2, <2>1, <2>2 DEF HandlerStep
<1> QED BY <1>1, <1>2 DEF ExecutionAction

\* A disturbance counts itself and no other.
LEMMA SpendCounts ==
  ASSUME used \in [Disturbances -> Nat], NEW d \in Disturbances, Spend(d)
  PROVE  /\ used'[d] = used[d] + 1 /\ used'[d] > 0
         /\ \A x \in Disturbances \ {d} : used'[x] = used[x]
         /\ \A x \in Disturbances : used'[x] >= used[x]
  BY DEF Spend

\* What has happened stays counted.
LEMMA Counting ==
  ASSUME Typed, [Next]_vars
  PROVE  \A d \in Disturbances : used[d] \in Nat /\ used'[d] \in Nat /\ used[d] <= used'[d]
<1>1. Typed'
  BY NextTyped
<1>2. UNCHANGED used \/ \E d \in Disturbances : Spend(d)
  BY DEF vars, Next, Disturbances, RequestStep, RequestFault, DropRequest, StartFind,
         CancelRead, StartCreate, StartAnnounce, StartEnqueue, StartAnnotate,
         StartReject, CancelRemove, CancelMark, CancelNotify, OperationStep, Gate,
         Mark, Poll, Work, Interrupt, Report, CacheProgress, Tick, Complete, Verify,
         Return, Unwind, WorkFails, OperationFault, HandlerStep, HandlerFault,
         FailRead, FailMark, FailCache, Resolve, Rethrow, Timeout, PickUp, StallDead,
         StallSlow, Crash
<1> QED BY <1>1, <1>2, SpendCounts DEF Typed, TypeOK

\* What has never happened after a step has never happened before it.
LEMMA NeverBefore ==
  ASSUME Typed, [Next]_vars, NEW D, D \subseteq Disturbances
  PROVE  Never(D)' => Never(D)
  BY Counting DEF Never

-----------------------------------------------------------------------------
(* Two executions of one scan                                              *)

\* The job of a scan that is announced or about to be queued does not exist
\* yet, and one request is about to queue it.
Announced ==
  /\ \A s \in Scans : job[s].state = "absent" => \A r \in Runs : run[r].scan # s
  /\ \A q \in Requests : req[q].pc \in {"announce", "enqueue"} =>
       /\ req[q].scan \in Scans
       /\ job[req[q].scan].state = "absent"
       /\ \A p \in Requests \ {q} : req[p].scan = req[q].scan =>
            req[p].pc \notin {"announce", "enqueue"}

\* The handler waits as long as the operation lasts.
Waits(r) ==
  /\ run[r].op \in {"running", "unwinding"} <=> run[r].handler = "await"
  /\ run[r].op = "idle" => run[r].handler = "idle"
  /\ run[r].handler # "settled"

Exclusion ==
  /\ Birth
  /\ Announced
  /\ Never({"timeout"}) => \A r \in Runs : Waits(r)
  /\ Never({"timeout", "slow"}) =>
       \A r \in Runs : run[r].scan \in Scans => Holds(r, run[r].scan)

\* Exclusion holds at the start.
LEMMA InitExclusion == Init => Exclusion
<1> SUFFICES ASSUME Init PROVE Exclusion
  OBVIOUS
<1>1. Birth
  BY InitBirth
<1>2. \A r \in Runs : run[r].scan \notin Scans /\ Waits(r)
  BY IdentifierAssumption DEF Init, Free, Waits
<1>3. Announced
  BY <1>2 DEF Init, Announced, Idle
<1> QED BY <1>1, <1>2, <1>3 DEF Exclusion

RequestAction(q) ==
  \/ RequestStep(q) \/ RequestFault(q) \/ DropRequest(q)
  \/ \E s \in Scans : StartFind(q, s) \/ CancelRead(q, s)

QueueAction ==
  \/ \E r \in Runs, w \in Workers, s \in Scans : PickUp(r, w, s)
  \/ \E s \in Scans : StallDead(s) \/ StallSlow(s)
  \/ \E w \in Workers : Crash(w)

\* A step of the system is one of these three.
LEMMA NextActions ==
  Next => \/ \E q \in Requests : RequestAction(q)
          \/ \E r \in Runs : ExecutionAction(r)
          \/ QueueAction
  BY DEF Next, RequestAction, ExecutionAction, QueueAction

\* What a request does to the jobs, and where it goes.
LEMMA RequestMoves ==
  ASSUME Birth, Announced, NEW q \in Requests, RequestAction(q)
  PROVE  /\ run' = run
         /\ \A p \in Requests \ {q} : req'[p] = req[p]
         /\ \A s \in Scans : \/ job'[s] = job[s]
                             \/ /\ job[s].state \in {"waiting", "completed", "failed"}
                                /\ job'[s].state = "removed"
                                /\ job'[s].stalls = job[s].stalls
                                /\ req[q] = [pc |-> "remove", scan |-> s]
                                /\ req'[q] = [pc |-> "cancel", scan |-> s]
                             \/ /\ job[s].state = "absent"
                                /\ job'[s].state = "waiting"
                                /\ job'[s].stalls = 0
                                /\ req[q].scan = s /\ req[q].pc = "enqueue"
         /\ req'[q].pc = "announce" =>
              /\ req[q].pc = "create" /\ req'[q].scan = req[q].scan
              /\ UNCHANGED job
         /\ req'[q].pc = "enqueue" =>
              /\ req[q].pc = "announce" /\ req'[q].scan = req[q].scan
              /\ UNCHANGED job
<1> USE DEF Birth, Typed, TypeOK
<1>1. CASE StartEnqueue(q)
  BY <1>1 DEF StartEnqueue, SetRequest, Announced, NoJob
<1>2. CASE CancelRemove(q)
  <2>1. req[q] \in Calls /\ req[q].pc = "remove"
    BY <1>2 DEF CancelRemove
  <2>2. req[q] = [pc |-> "remove", scan |-> req[q].scan]
    BY <2>1 DEF Calls
  <2>3. \A s \in Scans : \/ job'[s] = job[s]
                         \/ /\ s = req[q].scan
                            /\ job[s].state \in {"waiting", "completed", "failed"}
                            /\ job'[s].state = "removed"
                            /\ job'[s].stalls = job[s].stalls
    BY <1>2 DEF CancelRemove, Jobs
  <2> QED BY <1>2, <2>2, <2>3 DEF CancelRemove, SetRequest
<1>3. CASE ~StartEnqueue(q) /\ ~CancelRemove(q)
  <2>1. UNCHANGED <<job, run>>
    BY <1>3 DEF RequestAction, RequestStep, RequestFault, DropRequest, StartFind,
                CancelRead, StartCreate, StartAnnounce, StartAnnotate, StartReject,
                CancelMark, CancelNotify
  <2>2. CASE StartCreate(q) \/ StartAnnounce(q)
    BY <2>1, <2>2 DEF StartCreate, StartAnnounce, SetRequest, EndRequest, Idle
  <2>3. CASE ~StartCreate(q) /\ ~StartAnnounce(q)
    <3>1. \/ EndRequest(q)
          \/ \E pc \in {"create", "reject", "remove", "cancel", "notify"},
                x \in Scans \cup {req[q].scan} : SetRequest(q, pc, x)
      BY <1>3, <2>3
         DEF RequestAction, RequestStep, RequestFault, DropRequest, StartFind,
             CancelRead, StartAnnotate, StartReject, CancelMark, CancelNotify
    <3> QED BY <2>1, <3>1 DEF SetRequest, EndRequest, Idle
  <2> QED BY <2>1, <2>2, <2>3
<1> QED BY <1>1, <1>2, <1>3

\* Every step keeps the announced jobs absent until one request enqueues them.
LEMMA RequestAnnounced ==
  ASSUME Birth, Announced, NEW q \in Requests, RequestAction(q)
  PROVE  Announced'
<1>1. /\ run' = run
      /\ \A p \in Requests \ {q} : req'[p] = req[p]
      /\ \A s \in Scans : job'[s].state = "absent" => job[s].state = "absent"
  BY RequestMoves
<1>2. ASSUME NEW p \in Requests, req'[p].pc \in {"announce", "enqueue"}
      PROVE  /\ req'[p].scan \in Scans
             /\ job'[req'[p].scan].state = "absent"
             /\ \A x \in Requests \ {p} : req'[x].scan = req'[p].scan =>
                  req'[x].pc \notin {"announce", "enqueue"}
  <2>1. CASE p = q
    <3>1. /\ req'[q].scan = req[q].scan /\ UNCHANGED job
          /\ req[q].pc \in {"create", "announce"}
      BY <1>2, <2>1, RequestMoves
    <3>2. CASE req[q].pc = "announce"
      BY <1>1, <2>1, <3>1, <3>2 DEF Announced
    <3>3. CASE req[q].pc = "create"
      BY <1>1, <2>1, <3>1, <3>3 DEF Birth, CreatesUnborn, Unborn
    <3> QED BY <3>1, <3>2, <3>3
  <2>2. CASE p # q
    <3>1. /\ req'[p] = req[p] /\ req[p].scan \in Scans
          /\ job[req[p].scan].state = "absent"
          /\ \A x \in Requests \ {p} : req[x].scan = req[p].scan =>
               req[x].pc \notin {"announce", "enqueue"}
      BY <1>1, <1>2, <2>2 DEF Announced
    <3>2. req[q].pc = "enqueue" => req[q].scan # req[p].scan
      BY <2>2, <3>1
    <3>3. job'[req[p].scan] = job[req[p].scan]
      BY <3>1, <3>2, RequestMoves
    <3>4. ASSUME req'[q].scan = req[p].scan, req'[q].pc \in {"announce", "enqueue"}
          PROVE  FALSE
      <4>1. req[q].scan = req[p].scan /\ req[q].pc \in {"create", "announce"}
        BY <3>4, RequestMoves
      <4> QED BY <2>2, <3>1, <4>1 DEF Birth, CreatesUnborn
    <3> QED BY <1>1, <3>1, <3>3, <3>4
  <2> QED BY <2>1, <2>2
<1> QED BY <1>1, <1>2 DEF Announced

LEMMA ExecutionAnnounced ==
  ASSUME TypeOK, Announced, NEW r \in Runs, ExecutionAction(r)
  PROVE  Announced'
<1>1. /\ req' = req
      /\ \A x \in Runs : run'[x].scan \in {run[x].scan, NoScan}
  BY ExecutionStep DEF ExecutionAction
<1>2. \A s \in Scans : job'[s].state = "absent" <=> job[s].state = "absent"
  <2>1. CASE Resolve(r) \/ Rethrow(r)
    BY <2>1 DEF Resolve, Rethrow, Holds, TypeOK, Jobs
  <2>2. CASE UNCHANGED job
    BY <2>2
  <2> QED BY <2>1, <2>2, ExecutionMoves DEF Timeout
<1> QED BY <1>1, <1>2, IdentifierAssumption DEF Announced

LEMMA QueueAnnounced ==
  ASSUME TypeOK, Announced, QueueAction
  PROVE  Announced'
<1>1. UNCHANGED req
  BY DEF QueueAction, PickUp, StallDead, StallSlow, Crash
<1>2. CASE \E r \in Runs, w \in Workers, s \in Scans : PickUp(r, w, s)
  <2>1. PICK r \in Runs, w \in Workers, s \in Scans : PickUp(r, w, s)
    BY <1>2
  <2>2. run' = [run EXCEPT ![r] = Begin(s, w)] /\ Begin(s, w).scan = s
    BY <2>1 DEF PickUp, Update, Begin
  <2>3. \A x \in Scans : /\ job'[x].state = "absent" <=> job[x].state = "absent"
                         /\ x = s => job'[x].state # "absent"
    BY <2>1 DEF PickUp, TypeOK, Jobs
  <2> QED BY <1>1, <2>2, <2>3 DEF Announced, TypeOK
<1>3. CASE \E s \in Scans : StallDead(s) \/ StallSlow(s)
  <2>1. UNCHANGED run
    BY <1>3 DEF StallDead, StallSlow
  <2>2. \A x \in Scans : job'[x].state = "absent" <=> job[x].state = "absent"
    BY <1>3 DEF StallDead, StallSlow, Expire, TypeOK, Jobs
  <2> QED BY <1>1, <2>1, <2>2 DEF Announced
<1>4. CASE \E w \in Workers : Crash(w)
  <2>1. \A x \in Runs : run'[x].scan \in {run[x].scan, NoScan}
    BY <1>4 DEF Crash, Free
  <2>2. \A x \in Scans : job'[x].state = job[x].state
    BY <1>4 DEF Crash, TypeOK, Jobs
  <2> QED BY <1>1, <2>1, <2>2, IdentifierAssumption DEF Announced
<1> QED BY <1>2, <1>3, <1>4 DEF QueueAction

\* A timeout, and a lock lost by a live worker, are counted.
LEMMA TimeoutCounts ==
  ASSUME Typed, NEW r \in Runs, Timeout(r)
  PROVE  used'["timeout"] > 0
  BY SpendCounts DEF Timeout, Disturbances, Typed, TypeOK

LEMMA SlowCounts ==
  ASSUME Typed, NEW s \in Scans, StallSlow(s)
  PROVE  used'["slow"] = used["slow"] + 1 /\ used'["slow"] > 0
         /\ used'["crash"] = used["crash"]
  BY SpendCounts DEF StallSlow, Disturbances, Typed, TypeOK

\* While withTimeout has not fired, the handler waits for its operation.
LEMMA NextWaits ==
  ASSUME Exclusion, Next, Never({"timeout"})'
  PROVE  \A x \in Runs : Waits(x)'
<1>1. Typed /\ TypeOK
  BY DEF Exclusion, Birth, Typed
<1>2. \A x \in Runs : Waits(x)
  BY <1>1, NeverBefore DEF Exclusion, Disturbances
<1>4. ASSUME NEW x \in Runs, run'[x] = run[x]
      PROVE  Waits(x)'
  BY <1>2, <1>4 DEF Waits
<1>5. ASSUME NEW x \in Runs, run'[x] = Free
      PROVE  Waits(x)'
  BY <1>5 DEF Waits, Free
<1>6. CASE \E q \in Requests : RequestAction(q)
  BY <1>4, <1>6, RequestMoves DEF Exclusion
<1>7. CASE \E r \in Runs : ExecutionAction(r)
  <2>1. PICK r \in Runs : ExecutionAction(r)
    BY <1>7
  <2>2. ~Timeout(r)
    BY <1>1, TimeoutCounts DEF Never
  <2>3. Waits(r)'
    <3>1. CASE Advanced(r) \/ \E o \in {"value", "cancelled", "failed"} : Left(r, o)
      BY <1>2, <3>1 DEF Waits, Advanced, Left
    <3>2. CASE Ended(r)
      BY <1>2, <1>5, <3>2 DEF Waits, Ended
    <3>3. CASE \E from \in {"failRead", "failMark", "failCache"},
                  h \in {"failMark", "failCache", "rethrow"} : Handled(r, from, h)
      BY <1>2, <3>3 DEF Waits, Handled
    <3>4. CASE Handled(r, "resolve", "settled") \/ Handled(r, "rethrow", "settled")
      <4>1. run[r].op \in {"running", "unwinding", "ended", "idle"}
        BY <1>1 DEF TypeOK, Executions
      <4>2. run'[r] = Free
        BY <1>2, <3>4, <4>1 DEF Waits, Handled
      <4> QED BY <1>5, <4>2
    <3> QED BY <1>1, <2>1, <2>2, <3>1, <3>2, <3>3, <3>4, ExecutionMoves
  <2>4. \A x \in Runs \ {r} : run'[x] = run[x]
    BY <1>1, <2>1, ExecutionStep DEF ExecutionAction
  <2> QED BY <1>4, <2>3, <2>4
<1>8. CASE QueueAction
  <2>1. CASE \E r \in Runs, w \in Workers, s \in Scans : PickUp(r, w, s)
    <3>1. PICK r \in Runs, w \in Workers, s \in Scans : run' = [run EXCEPT ![r] = Begin(s, w)]
      BY <2>1 DEF PickUp, Update, Begin
    <3>2. Waits(r)'
      BY <1>1, <3>1 DEF Waits, Begin, TypeOK
    <3>3. \A x \in Runs \ {r} : run'[x] = run[x]
      BY <1>1, <3>1 DEF TypeOK
    <3> QED BY <1>4, <3>2, <3>3
  <2>2. CASE \E s \in Scans : StallDead(s) \/ StallSlow(s)
    BY <1>4, <2>2 DEF StallDead, StallSlow
  <2>3. CASE \E w \in Workers : Crash(w)
    <3>1. \A x \in Runs : run'[x] = run[x] \/ run'[x] = Free
      BY <2>3 DEF Crash
    <3> QED BY <1>4, <1>5, <3>1
  <2> QED BY <1>8, <2>1, <2>2, <2>3 DEF QueueAction
<1> QED BY <1>6, <1>7, <1>8, NextActions

\* Every execution holds the lock of its job.
LEMMA NextHolds ==
  ASSUME Exclusion, Next, Never({"timeout", "slow"})',
         NEW x \in Runs, NEW s \in Scans, run'[x].scan = s
  PROVE  Holds(x, s)'
<1>1. Typed /\ TypeOK
  BY DEF Exclusion, Birth, Typed
<1>2. /\ \A r \in Runs : run[r].scan \in Scans => Holds(r, run[r].scan)
      /\ \A r \in Runs : Waits(r)
  BY <1>1, NeverBefore DEF Exclusion, Disturbances, Never
<1>3. ASSUME run[x].scan = s, job'[s] = job[s]
      PROVE  Holds(x, s)'
  BY <1>2, <1>3 DEF Holds
<1>4. CASE \E q \in Requests : RequestAction(q)
  <2>1. PICK q \in Requests : RequestAction(q)
    BY <1>4
  <2>2. run' = run
    BY <2>1, RequestMoves DEF Exclusion
  <2>3. job[s].state = "active"
    BY <1>2, <2>2 DEF Holds
  <2>4. job'[s] = job[s]
    BY <2>1, <2>3, RequestMoves DEF Exclusion
  <2> QED BY <1>3, <2>2, <2>4
<1>5. CASE \E r \in Runs : ExecutionAction(r)
  <2>1. PICK r \in Runs : ExecutionAction(r)
    BY <1>5
  <2>2. ~Timeout(r)
    BY <1>1, TimeoutCounts DEF Never
  <2>3. run[x].scan = s
    BY <1>1, <2>1, ExecutionStep, IdentifierAssumption DEF ExecutionAction
  <2>4. CASE UNCHANGED job
    BY <1>3, <2>3, <2>4
  <2>5. CASE Resolve(r) \/ Rethrow(r)
    <3>1. Handled(r, "resolve", "settled") \/ Handled(r, "rethrow", "settled")
      BY <1>1, <2>5, HandlerMoves DEF Resolve, Rethrow
    <3>2. run[r].op \in {"running", "unwinding", "ended", "idle"}
      BY <1>1 DEF TypeOK, Executions
    <3>3. run[r].op = "ended" /\ run'[r] = Free
      BY <1>2, <3>1, <3>2 DEF Waits, Handled
    <3>4. x # r
      BY <3>3, IdentifierAssumption DEF Free
    <3>5. CASE run[r].scan = s
      BY <1>2, <2>3, <3>4, <3>5 DEF Holds
    <3>6. CASE run[r].scan # s
      <4>1. job'[s] = job[s]
        BY <1>1, <2>1, <3>6, ExecutionStep DEF ExecutionAction
      <4> QED BY <1>3, <2>3, <4>1
    <3> QED BY <3>5, <3>6
  <2> QED BY <1>1, <2>1, <2>2, <2>4, <2>5, ExecutionMoves
<1>6. CASE \E r \in Runs, w \in Workers, y \in Scans : PickUp(r, w, y)
  <2>1. PICK r \in Runs, w \in Workers, y \in Scans : PickUp(r, w, y)
    BY <1>6
  <2>2. run' = [run EXCEPT ![r] = Begin(y, w)] /\ Begin(y, w).scan = y
    BY <2>1 DEF PickUp, Update, Begin
  <2>3. CASE x = r
    <3>1. y = s
      BY <1>1, <2>2, <2>3 DEF TypeOK
    <3> QED BY <1>1, <2>1, <2>3, <3>1 DEF PickUp, Holds, TypeOK, Jobs
  <2>4. CASE x # r
    <3>1. run[x].scan = s
      BY <1>1, <2>2, <2>4 DEF TypeOK
    <3>2. y # s
      BY <1>2, <2>1, <3>1 DEF PickUp, Holds
    <3>3. job'[s] = job[s]
      BY <1>1, <2>1, <3>2 DEF PickUp, TypeOK
    <3> QED BY <1>3, <3>1, <3>3
  <2> QED BY <2>3, <2>4
<1>7. CASE \E y \in Scans : StallDead(y) \/ StallSlow(y)
  <2>1. PICK y \in Scans : StallDead(y) \/ StallSlow(y)
    BY <1>7
  <2>2. StallDead(y)
    BY <1>1, <2>1, SlowCounts DEF Never
  <2>3. run[x].scan = s
    BY <2>2 DEF StallDead
  <2>4. y # s
    BY <1>2, <2>2, <2>3, IdentifierAssumption DEF StallDead, Holds
  <2>5. job'[s] = job[s]
    BY <1>1, <2>2, <2>4 DEF StallDead, Expire, TypeOK
  <2> QED BY <1>3, <2>3, <2>5
<1>8. CASE \E w \in Workers : Crash(w)
  <2>1. PICK w \in Workers : Crash(w)
    BY <1>8
  <2>2. run[x].worker # w /\ run[x].scan = s
    BY <2>1, IdentifierAssumption DEF Crash, Free
  <2>3. job'[s] = job[s]
    BY <1>2, <2>1, <2>2 DEF Crash, Holds
  <2> QED BY <1>3, <2>2, <2>3
<1> QED BY <1>4, <1>5, <1>6, <1>7, <1>8, NextActions DEF QueueAction

\* Exclusion is inductive.
LEMMA NextExclusion == Exclusion /\ [Next]_vars => Exclusion'
<1> SUFFICES ASSUME Exclusion, [Next]_vars PROVE Exclusion'
  OBVIOUS
<1>1. Birth'
  BY NextBirth DEF Exclusion
<1>2. CASE UNCHANGED vars
  BY <1>1, <1>2 DEF vars, Exclusion, Announced, Never, Waits, Holds
<1>3. CASE Next
  <2>1. Announced'
    BY <1>3, NextActions, RequestAnnounced, ExecutionAnnounced, QueueAnnounced
       DEF Exclusion, Birth, Typed
  <2>2. Never({"timeout"})' => \A r \in Runs : Waits(r)'
    BY <1>3, NextWaits
  <2>3. Never({"timeout", "slow"})' =>
          \A r \in Runs : run'[r].scan \in Scans => Holds(r, run[r].scan)'
    BY <1>3, NextHolds
  <2> QED BY <1>1, <2>1, <2>2, <2>3 DEF Exclusion
<1> QED BY <1>2, <1>3

LEMMA ExclusionHolds == Spec => []Exclusion
  BY InitExclusion, NextExclusion, PTL DEF Spec

\* The two executions of one scan are one.
LEMMA Sole ==
  ASSUME Exclusion, Never({"timeout", "slow"}), NEW r \in Runs, NEW x \in Runs,
         run[r].scan = run[x].scan, run[r].scan \in Scans
  PROVE  r = x
  BY DEF Exclusion, Holds

\* While withTimeout has not fired and BullMQ has taken the lock of no live
\* worker, no two executions of RepositoryScanProcessor.process work on one
\* scan at a time.
THEOREM Exclusive == Spec => []ExclusiveExecution
<1>1. Exclusion => ExclusiveExecution
  <2> SUFFICES ASSUME Exclusion, Never({"timeout", "slow"}), NEW r \in Runs,
                      NEW x \in Runs, run[r].scan = run[x].scan, run[r].scan # NoScan
               PROVE  r = x
    BY DEF ExclusiveExecution
  <2>1. run[r].scan \in Scans
    BY DEF Exclusion, Birth, Typed, TypeOK, Executions
  <2> QED BY <2>1, Sole
<1> QED BY <1>1, ExclusionHolds, PTL

-----------------------------------------------------------------------------
(* The order of the script                                                 *)

\* The steps before the next one are the steps before this one, and this one.
LEMMA BeforeNext ==
  ASSUME NEW i \in 1..Len(Script), NEW kind
  PROVE  Before(i + 1, kind) <=> Before(i, kind) \/ Script[i].kind = kind
<1>1. 1..((i + 1) - 1) = (1..(i - 1)) \cup {i}
  BY LenNat
<1> QED BY <1>1 DEF Before

LEMMA NothingBefore == ASSUME NEW kind PROVE ~Before(1, kind)
  BY DEF Before

\* The verification is after the completion, and neither precedes a mark.
LEMMA Order ==
  ASSUME NEW i \in 1..Len(Script)
  PROVE  /\ Before(i, "verify") => Before(i, "complete")
         /\ Before(i, "complete") => Before(i, "mark")
         /\ Before(i, "complete") =>
              Script[i].kind \in {"verify", "report", "cache", "tick"}
<1>1. ASSUME NEW j \in 1..(i - 1), NEW k \in 1..(j - 1)
      PROVE  j \in 1..Len(Script) /\ k \in 1..(i - 1)
  BY LenNat
<1>2. \A j \in 1..(i - 1) : j \in 1..Len(Script)
  BY LenNat
<1> QED BY <1>1, <1>2, OrderAssumption DEF Before

-----------------------------------------------------------------------------
(* Nobody forgets an active scan                                           *)

\* A lock that was lost was lost by a crash or by a slow worker.
Budget ==
  \A s \in Scans :
    /\ job[s].stalls <= used["crash"] + used["slow"]
    /\ job[s].state = "active" /\ job[s].owner = NoRun =>
         job[s].stalls < used["crash"] + used["slow"]

\* The execution will still settle the row: its verification is ahead of it,
\* or its failure is on the way to failRepositoryScan.
Tended(r) ==
  \/ run[r].op = "running" /\ ~Before(run[r].at, "verify")
  \/ run[r].op = "unwinding" /\ run[r].outcome # "value"
  \/ run[r].handler \in {"failRead", "failMark"}

Cares(s) ==
  \/ job[s].state = "waiting"
  \/ job[s].state = "active" /\ job[s].owner = NoRun
  \/ \E q \in Requests : req[q].scan = s /\ req[q].pc \in {"announce", "enqueue", "remove", "cancel"}
  \/ \E r \in Runs : run[r].scan = s /\ Tended(r)

Custody ==
  /\ Exclusion
  /\ Budget
  /\ Spared => \A s \in Scans : status[s] \in Active => Cares(s)

\* Custody holds at the start.
LEMMA InitCustody == Init => Custody
<1> SUFFICES ASSUME Init PROVE Custody
  OBVIOUS
<1>1. Exclusion
  BY InitExclusion
<1>2. Budget
  BY DEF Init, Budget, NoJob, Disturbances
<1>3. \A s \in Scans : status[s] \notin Active
  BY DEF Init, Active
<1> QED BY <1>1, <1>2, <1>3 DEF Custody

\* What the end of a handler does to the jobs.
LEMMA Released ==
  ASSUME TypeOK, NEW r \in Runs, Resolve(r) \/ Rethrow(r), NEW s \in Scans
  PROVE  \/ job'[s] = job[s]
         \/ /\ s = run[r].scan /\ Holds(r, s)
            /\ job'[s].stalls = job[s].stalls
            /\ job'[s].owner = NoRun
            /\ job'[s].state \in {"completed", "failed", "waiting"}
<1> DEFINE y == run[r].scan
           n == job[y].attempts + 1
           j == [job[y] EXCEPT !.state = "completed", !.owner = NoRun]
           k == [job[y] EXCEPT !.attempts = n, !.owner = NoRun,
                   !.state = IF n < MaxAttempts THEN "waiting" ELSE "failed"]
<1>1. CASE y \in Scans /\ Holds(r, y)
  <2>1. /\ j.stalls = job[y].stalls /\ k.stalls = job[y].stalls
        /\ j.owner = NoRun /\ k.owner = NoRun
        /\ j.state \in {"completed", "failed", "waiting"}
        /\ k.state \in {"completed", "failed", "waiting"}
    BY <1>1 DEF TypeOK, Jobs
  <2>2. job' = [job EXCEPT ![y] = j] \/ job' = [job EXCEPT ![y] = k]
    BY <1>1 DEF Resolve, Rethrow, TypeOK, Jobs
  <2> HIDE DEF j, k
  <2> QED BY <1>1, <2>1, <2>2 DEF TypeOK
<1>2. CASE ~(y \in Scans /\ Holds(r, y))
  BY <1>2 DEF Resolve, Rethrow, TypeOK
<1> QED BY <1>1, <1>2

\* The stalls of a job are paid for by crashes and lost locks.
LEMMA NextBudget ==
  ASSUME Exclusion, Budget, Next
  PROVE  Budget'
<1>1. Typed /\ TypeOK
  BY DEF Exclusion, Birth, Typed
<1>2. /\ used["crash"] \in Nat /\ used["slow"] \in Nat
      /\ used'["crash"] \in Nat /\ used'["slow"] \in Nat
      /\ used["crash"] <= used'["crash"] /\ used["slow"] <= used'["slow"]
  BY <1>1, Counting DEF Disturbances
<1>3. \A s \in Scans : job[s] \in Jobs /\ job[s].stalls \in Nat
  BY <1>1, BoundAssumption DEF TypeOK, Jobs
<1>4. ASSUME NEW s \in Scans, job'[s].stalls = job[s].stalls \/ job'[s].stalls = 0,
             \/ job'[s].state # "active"
             \/ job'[s].owner # NoRun
             \/ job'[s] = job[s]
      PROVE  /\ job'[s].stalls <= used'["crash"] + used'["slow"]
             /\ job'[s].state = "active" /\ job'[s].owner = NoRun =>
                  job'[s].stalls < used'["crash"] + used'["slow"]
  BY <1>2, <1>3, <1>4 DEF Budget
<1>5. CASE \E q \in Requests : RequestAction(q)
  BY <1>4, <1>5, RequestMoves DEF Exclusion, Budget
<1>6. CASE \E r \in Runs : ExecutionAction(r)
  <2>1. PICK r \in Runs : ExecutionAction(r)
    BY <1>6
  <2>2. CASE UNCHANGED job
    BY <1>4, <2>2 DEF Budget
  <2>3. CASE Resolve(r) \/ Rethrow(r)
    <3>1. \A s \in Scans : \/ job'[s] = job[s]
                           \/ job'[s].stalls = job[s].stalls /\ job'[s].state # "active"
      BY <1>1, <2>3, Released
    <3> QED BY <1>4, <3>1 DEF Budget
  <2> QED BY <1>1, <2>1, <2>2, <2>3, ExecutionMoves DEF Timeout
<1>7. CASE \E r \in Runs, w \in Workers, s \in Scans : PickUp(r, w, s)
  <2>1. \A s \in Scans : \/ job'[s] = job[s]
                         \/ job'[s].stalls = job[s].stalls /\ job'[s].owner \in Runs
    BY <1>1, <1>7 DEF PickUp, TypeOK, Jobs
  <2> QED BY <1>4, <2>1, IdentifierAssumption DEF Budget
<1>8. CASE \E y \in Scans : StallDead(y) \/ StallSlow(y)
  <2>1. PICK y \in Scans : StallDead(y) \/ StallSlow(y)
    BY <1>8
  <2>2. \A s \in Scans \ {y} : job'[s] = job[s]
    BY <1>1, <2>1 DEF StallDead, StallSlow, Expire, TypeOK
  <2>3. /\ job'[y].state # "active"
        /\ job'[y].stalls <= job[y].stalls + 1
    BY <1>1, <1>3, <2>1 DEF StallDead, StallSlow, Expire, TypeOK, Jobs
  <2>4. job[y].stalls + 1 <= used'["crash"] + used'["slow"]
    <3>1. CASE StallDead(y)
      BY <1>2, <1>3, <3>1 DEF StallDead, Budget
    <3>2. CASE StallSlow(y)
      BY <1>1, <1>2, <1>3, <3>2, SlowCounts DEF Budget
    <3> QED BY <2>1, <3>1, <3>2
  <2>5. job'[y] \in Jobs
    BY <1>1, NextTyped DEF Typed, TypeOK
  <2>6. job'[y].stalls \in Nat
    BY <2>5, BoundAssumption DEF Jobs
  <2> QED BY <1>2, <1>3, <1>4, <2>2, <2>3, <2>4, <2>6 DEF Budget
<1>9. CASE \E w \in Workers : Crash(w)
  <2>1. used'["crash"] = used["crash"] + 1
    BY <1>1, <1>9, SpendCounts DEF Crash, Disturbances, TypeOK
  <2>2. \A s \in Scans : job'[s].stalls = job[s].stalls
    BY <1>1, <1>9 DEF Crash, TypeOK, Jobs
  <2> QED BY <1>2, <1>3, <2>1, <2>2 DEF Budget
<1> QED BY <1>5, <1>6, <1>7, <1>8, <1>9, NextActions DEF QueueAction

\* A request in custody hands it on, unless it cancels the scan.
LEMMA RequestCares ==
  ASSUME Custody, NEW q \in Requests, RequestAction(q), Spared', Next,
         NEW s \in Scans, status'[s] \in Active, status[s] \in Active => Cares(s)
  PROVE  Cares(s)'
<1> USE DEF Custody, Exclusion, Birth
<1>1. Typed /\ TypeOK
  BY DEF Typed
<1>2. ~DropRequest(q) /\ ~RequestFault(q)
  BY <1>1, SpendCounts DEF DropRequest, RequestFault, Spared, Never, Disturbances, TypeOK
<1>3. CASE status[s] \notin Active
  <2>1. StartCreate(q) /\ req[q].scan = s /\ SetRequest(q, "announce", s)
    <3>1. StartCreate(q)
      BY <1>1, <1>3
         DEF RequestAction, RequestStep, RequestFault, DropRequest, StartFind,
             CancelRead, StartAnnounce, StartEnqueue, StartAnnotate, StartReject,
             CancelRemove, CancelMark, CancelNotify, rowVars, TypeOK, Active
    <3> QED BY <1>1, <1>3, <3>1 DEF StartCreate, rowVars, TypeOK
  <2> QED BY <1>1, <2>1 DEF Cares, SetRequest, TypeOK
<1>4. CASE status[s] \in Active
  <2>1. CASE job[s].state = "waiting" \/ (job[s].state = "active" /\ job[s].owner = NoRun)
    <3>1. \/ job'[s] = job[s]
          \/ req'[q].pc = "cancel" /\ req'[q].scan = s
      <4>1. /\ req'[q] = [pc |-> "cancel", scan |-> s] =>
                 req'[q].pc = "cancel" /\ req'[q].scan = s
            /\ job[s].state # "absent"
        BY <2>1
      <4> QED BY <4>1, RequestMoves
    <3> QED BY <2>1, <3>1 DEF Cares
  <2>2. CASE \E r \in Runs : run[r].scan = s /\ Tended(r)
    BY <2>2, RequestMoves DEF Cares, Tended
  <2>3. CASE \E p \in Requests : /\ req[p].scan = s
                                 /\ req[p].pc \in {"announce", "enqueue", "remove", "cancel"}
    <3>1. PICK p \in Requests : /\ req[p].scan = s
                                /\ req[p].pc \in {"announce", "enqueue", "remove", "cancel"}
      BY <2>3
    <3>2. CASE p # q
      BY <3>1, <3>2, RequestMoves DEF Cares
    <3>3. CASE p = q
      <4>1. \/ StartAnnounce(q) \/ StartEnqueue(q) \/ CancelRemove(q) \/ CancelMark(q)
        BY <1>2, <3>1, <3>3
           DEF RequestAction, RequestStep, StartFind, CancelRead, StartCreate,
               StartAnnotate, StartReject, CancelNotify
      <4>2. CASE StartEnqueue(q)
        <5>1. job'[s] = [NoJob EXCEPT !.state = "waiting"]
          BY <1>1, <3>1, <3>3, <4>2 DEF StartEnqueue, TypeOK
        <5> QED BY <5>1 DEF Cares, NoJob
      <4>3. CASE CancelMark(q)
        BY <1>1, <3>1, <3>3, <4>3 DEF CancelMark, TypeOK, Active
      <4>4. CASE StartAnnounce(q) \/ CancelRemove(q)
        BY <1>1, <3>1, <3>3, <4>4 DEF StartAnnounce, CancelRemove, SetRequest, Cares, TypeOK
      <4> QED BY <4>1, <4>2, <4>3, <4>4
    <3> QED BY <3>2, <3>3
  <2> QED BY <1>4, <2>1, <2>2, <2>3 DEF Cares
<1> QED BY <1>3, <1>4

\* A step of an execution leaves its scan to itself or to the queue.
LEMMA ExecutionCares ==
  ASSUME Custody, NEW r \in Runs, ExecutionAction(r), Spared', Next,
         NEW s \in Scans, status'[s] \in Active, status[s] \in Active => Cares(s)
  PROVE  Cares(s)'
<1> USE DEF Custody, Exclusion, Birth
<1>1. Typed /\ TypeOK
  BY DEF Typed
<1>2. ~Timeout(r) /\ ~HandlerFault(r) /\ ~OperationFault(r)
  BY <1>1, SpendCounts DEF Timeout, HandlerFault, OperationFault, Spared, Never,
                           Disturbances, TypeOK
<1>3. Waits(r)
  BY <1>1, NeverBefore DEF Spared, Never, Disturbances
<1>4. /\ req' = req
      /\ \A x \in Runs \ {r} : run'[x] = run[x]
  BY <1>1, ExecutionStep DEF ExecutionAction
<1>5. CASE Mark(r) /\ run[r].scan = s
  <2>1. CASE Proceed(r)
    <3>1. Advanced(r) /\ Script[run[r].at].kind = "mark"
      BY <1>1, <1>5, <2>1, ProceedMoves DEF Mark, AtStep
    <3>2. ~Before(run[r].at + 1, "verify")
      BY <3>1, BeforeNext, Order DEF Advanced
    <3> QED BY <1>5, <3>1, <3>2 DEF Advanced, Cares, Tended
  <2>2. CASE Throw(r, "failed") /\ AtStep(r, "mark")
    <3>1. Left(r, "failed")
      BY <1>1, <2>2, LeaveMoves DEF Throw, AtStep
    <3> QED BY <1>5, <3>1 DEF Left, Cares, Tended
  <2> QED BY <1>5, <2>1, <2>2 DEF Mark
<1>6. CASE ~(Mark(r) /\ run[r].scan = s)
  <2>1. status[s] \in Active /\ Cares(s)
    <3>1. status'[s] = status[s] \/ status'[s] \notin Active
      BY <1>1, <1>6
         DEF ExecutionAction, OperationStep, Gate, Mark, Poll, Work, Interrupt, Report,
             CacheProgress, Tick, Complete, Verify, Return, Unwind, WorkFails,
             OperationFault, HandlerStep, HandlerFault, FailRead, FailMark, FailCache,
             Resolve, Rethrow, Timeout, Verdict, rowVars, TypeOK, Active
    <3> QED BY <3>1
  <2>2. CASE job[s].state = "waiting" \/ (job[s].state = "active" /\ job[s].owner = NoRun)
    <3>1. job'[s] = job[s]
      <4>1. CASE UNCHANGED job
        BY <4>1
      <4>2. CASE Resolve(r) \/ Rethrow(r)
        BY <1>1, <2>2, <4>2, Released, IdentifierAssumption DEF Holds
      <4> QED BY <1>1, <1>2, <4>1, <4>2, ExecutionMoves
    <3> QED BY <2>2, <3>1 DEF Cares
  <2>3. CASE \E q \in Requests : /\ req[q].scan = s
                                 /\ req[q].pc \in {"announce", "enqueue", "remove", "cancel"}
    BY <1>4, <2>3 DEF Cares
  <2>4. CASE \E x \in Runs \ {r} : run[x].scan = s /\ Tended(x)
    BY <1>4, <2>4 DEF Cares, Tended
  <2>5. CASE run[r].scan = s /\ Tended(r)
    <3>1. CASE Advanced(r) /\ (Script[run[r].at].kind = "verify" => status[s] = "COMPLETED")
      <4>1. Script[run[r].at].kind # "verify"
        BY <2>1, <3>1 DEF Active
      <4>2. Tended(r)'
        BY <2>5, <3>1, <4>1, BeforeNext DEF Tended, Advanced
      <4> QED BY <2>5, <3>1, <4>2 DEF Cares, Advanced
    <3>2. CASE \E o \in {"cancelled", "failed"} : Left(r, o)
      BY <2>5, <3>2 DEF Left, Cares, Tended
    <3>3. CASE Left(r, "value") /\ run[r].at = Len(Script) + 1
      <4>1. Before(run[r].at, "verify")
        BY <3>3, OrderAssumption, LenNat DEF Before
      <4>2. run[r].handler \in {"failRead", "failMark"}
        BY <2>5, <3>3, <4>1 DEF Left, Tended
      <4> QED BY <2>5, <3>3, <4>2 DEF Left, Cares, Tended
    <3>4. CASE Ended(r)
      <4>1. run[r].handler = "await" /\ run[r].outcome # "value"
        BY <1>3, <2>5, <3>4 DEF Ended, Waits, Tended
      <4> QED BY <2>5, <3>4, <4>1 DEF Ended, Cares, Tended
    <3>5. CASE \E from \in {"failRead", "failMark", "failCache", "resolve", "rethrow"},
                  h \in {"failMark", "failCache", "rethrow", "settled"} : Handled(r, from, h)
      <4>1. run[r].handler \in {"failRead", "failMark"}
        BY <1>3, <2>5, <3>5 DEF Handled, Waits, Tended
      <4>2. FailRead(r) \/ FailMark(r)
        BY <1>2, <1>3, <4>1
           DEF ExecutionAction, OperationStep, Gate, Mark, Poll, Work, AtWork, Interrupt,
               Report, CacheProgress, Tick, Complete, Verify, Return, Unwind,
               WorkFails, HandlerStep, FailCache, Resolve, Rethrow, AtStep, Waits
      <4>3. CASE FailRead(r)
        <5>1. SetHandler(r, "failMark")
          BY <2>1, <2>5, <4>3 DEF FailRead, Active, Terminal
        <5>2. Handled(r, "failRead", "failMark")
          BY <1>1, <4>3, <5>1, HandlerMoves DEF FailRead
        <5> QED BY <2>5, <5>2 DEF Handled, Cares, Tended
      <4>4. CASE FailMark(r)
        BY <1>1, <2>5, <4>4 DEF FailMark, Verdict, TypeOK, Active
      <4> QED BY <4>2, <4>3, <4>4
    <3> QED BY <1>1, <1>2, <2>5, <3>1, <3>2, <3>3, <3>4, <3>5, ExecutionMoves
  <2> QED BY <2>1, <2>2, <2>3, <2>4, <2>5 DEF Cares
<1> QED BY <1>5, <1>6

\* The queue hands a job on, and gives up on none while the budget lasts.
LEMMA QueueCares ==
  ASSUME Custody, QueueAction, Spared', Next, NEW s \in Scans, status[s] \in Active,
         Cares(s)
  PROVE  Cares(s)'
<1> USE DEF Custody, Exclusion, Birth
<1>1. Typed /\ TypeOK
  BY DEF Typed
<1>2. req' = req
  BY DEF QueueAction, PickUp, StallDead, StallSlow, Crash
<1>3. CASE \E r \in Runs, w \in Workers, y \in Scans : PickUp(r, w, y)
  <2>1. PICK r \in Runs, w \in Workers, y \in Scans : PickUp(r, w, y)
    BY <1>3
  <2>2. run' = [run EXCEPT ![r] = Begin(y, w)]
    BY <2>1 DEF PickUp, Update, Begin
  <2>3. /\ run'[r].scan = y /\ run'[r].op = "running" /\ run'[r].at = 1
        /\ \A x \in Runs \ {r} : run'[x] = run[x]
    BY <1>1, <2>2 DEF Begin, TypeOK
  <2>4. CASE y = s
    BY <2>3, <2>4, NothingBefore DEF Cares, Tended
  <2>5. CASE y # s
    <3>1. job'[s] = job[s]
      BY <1>1, <2>1, <2>5 DEF PickUp, TypeOK
    <3>2. run[r].scan # s
      BY <2>1, IdentifierAssumption DEF PickUp, Free
    <3> QED BY <1>2, <2>3, <3>1, <3>2 DEF Cares, Tended
  <2> QED BY <2>4, <2>5
<1>4. CASE \E y \in Scans : StallDead(y) \/ StallSlow(y)
  <2>1. PICK y \in Scans : StallDead(y) \/ StallSlow(y)
    BY <1>4
  <2>2. run' = run
    BY <2>1 DEF StallDead, StallSlow
  <2>3. CASE y # s
    <3>1. job'[s] = job[s]
      BY <1>1, <2>1, <2>3 DEF StallDead, StallSlow, Expire, TypeOK
    <3> QED BY <1>2, <2>2, <3>1 DEF Cares, Tended
  <2>4. CASE y = s
    <3>1. /\ job[s].stalls \in Nat /\ MaxStalls \in Nat
          /\ used["crash"] \in Nat /\ used["slow"] \in Nat
      BY <1>1, BoundAssumption DEF TypeOK, Jobs, Disturbances
    <3>2. CASE StallDead(s)
      <4>1. job[s].stalls < MaxStalls
        BY <3>1, <3>2 DEF StallDead, Budget, Spared
      <4> QED BY <1>1, <3>2, <4>1 DEF StallDead, Expire, Cares, TypeOK, Jobs
    <3>3. CASE StallSlow(s)
      <4>1. job[s].stalls < MaxStalls
        BY <1>1, <3>1, <3>3, SlowCounts DEF Budget, Spared
      <4> QED BY <1>1, <3>3, <4>1 DEF StallSlow, Expire, Cares, TypeOK, Jobs
    <3> QED BY <2>1, <2>4, <3>2, <3>3
  <2> QED BY <2>3, <2>4
<1>5. CASE \E w \in Workers : Crash(w)
  <2>1. PICK w \in Workers : Crash(w)
    BY <1>5
  <2>2. used'["crash"] > 0
    BY <1>1, <2>1, SpendCounts DEF Crash, Disturbances, TypeOK
  <2>3. Never({"timeout", "slow"})'
    BY <2>2 DEF Spared, Never
  <2>4. Never({"timeout", "slow"})
    BY <1>1, <2>3, NeverBefore DEF Disturbances
  <2>5. /\ job'[s].state = job[s].state
        /\ job[s].owner = NoRun => job'[s].owner = NoRun
    BY <1>1, <2>1 DEF Crash, TypeOK, Jobs
  <2>6. CASE \E r \in Runs : run[r].scan = s /\ Tended(r)
    <3>1. PICK r \in Runs : run[r].scan = s /\ Tended(r)
      BY <2>6
    <3>2. Holds(r, s)
      BY <2>4, <3>1
    <3>3. CASE run[r].worker = w
      <4>1. job'[s].owner = NoRun
        BY <1>1, <2>1, <3>2, <3>3 DEF Crash, Holds, TypeOK, Jobs
      <4> QED BY <2>5, <3>2, <4>1 DEF Cares, Holds
    <3>4. CASE run[r].worker # w
      <4>1. run'[r] = run[r]
        BY <2>1, <3>4 DEF Crash
      <4> QED BY <3>1, <4>1 DEF Cares, Tended
    <3> QED BY <3>3, <3>4
  <2> QED BY <1>2, <2>5, <2>6 DEF Cares
<1> QED BY <1>3, <1>4, <1>5 DEF QueueAction

\* Custody is inductive.
LEMMA NextCustody == Custody /\ [Next]_vars => Custody'
<1> SUFFICES ASSUME Custody, [Next]_vars PROVE Custody'
  OBVIOUS
<1>1. Exclusion'
  BY NextExclusion DEF Custody
<1>2. CASE UNCHANGED vars
  BY <1>1, <1>2 DEF vars, Custody, Budget, Spared, Never, Cares, Tended
<1>3. CASE Next
  <2>1. Budget'
    BY <1>3, NextBudget DEF Custody
  <2>2. ASSUME Spared', NEW s \in Scans, status'[s] \in Active
        PROVE  Cares(s)'
    <3>1. Spared
      <4>1. Typed
        BY DEF Custody, Exclusion, Birth
      <4>2. /\ Never({"fault", "drop", "timeout"})
            /\ Never({"crash"}) \/ Never({"slow"})
        BY <1>3, <2>2, <4>1, NeverBefore DEF Spared, Disturbances
      <4>3. used["crash"] + used["slow"] <= MaxStalls
        BY <1>3, <2>2, <4>1, Counting, BoundAssumption DEF Spared, Disturbances
      <4> QED BY <4>2, <4>3 DEF Spared
    <3>2. status[s] \in Active => Cares(s)
      BY <3>1 DEF Custody
    <3>3. QueueAction => status' = status
      BY DEF QueueAction, PickUp, StallDead, StallSlow, Crash, rowVars
    <3> QED BY <1>3, <2>2, <3>2, <3>3, NextActions, RequestCares, ExecutionCares,
               QueueCares
  <2> QED BY <1>1, <2>1, <2>2 DEF Custody
<1> QED BY <1>2, <1>3

\* A QUEUED or RUNNING row always has somebody who will settle it: a request,
\* a job, or an execution on its way to failRepositoryScan, for any number of
\* crashes or of lost locks that maxStalledCount allows.
THEOREM NoneOrphaned == Spec => []NoOrphanedScan
<1>1. Spec => []Custody
  BY InitCustody, NextCustody, PTL DEF Spec
<1>2. Custody => NoOrphanedScan
  <2> SUFFICES ASSUME Custody, Spared, NEW s \in Scans, status[s] \in Active
               PROVE  Attended(s)
    BY DEF NoOrphanedScan
  <2>1. Cares(s)
    BY DEF Custody
  <2> QED BY <2>1 DEF Cares, Attended
<1> QED BY <1>1, <1>2, PTL

-----------------------------------------------------------------------------
(* Progress                                                                *)

\* Only the call of its kind takes the operation past a step.
LEMMA AdvancedBy ==
  ASSUME TypeOK, NEW r \in Runs, ExecutionAction(r), Advanced(r)
  PROVE  /\ Script[run[r].at].kind = "gate" => Gate(r)
         /\ Script[run[r].at].kind = "mark" => Mark(r)
         /\ Script[run[r].at].kind = "report" => Report(r)
         /\ Script[run[r].at].kind = "cache" => CacheProgress(r)
         /\ Script[run[r].at].kind = "complete" => Complete(r)
         /\ Script[run[r].at].kind = "verify" => Verify(r)
<1>1. run[r].at \in Nat /\ run'[r].at # run[r].at
  BY LenNat DEF Advanced
<1>2. ~(\E o : Throw(r, o)) /\ ~Return(r)
  BY LeaveMoves DEF Throw, Return, Left, Advanced
<1>3. \A h : ~SetHandler(r, h)
  BY <1>1, HandlerMoves DEF Handled, Advanced, Free
<1>4. ~Timeout(r)
  BY <1>1, TimeoutMoves
<1>5. ~Unwind(r)
  BY DEF Unwind, Advanced
<1> QED BY <1>2, <1>3, <1>4, <1>5
        DEF ExecutionAction, OperationStep, Gate, Mark, Poll, Work, AtWork, Interrupt,
            Report, CacheProgress, Tick, Complete, Verify, WorkFails, OperationFault,
            HandlerStep, HandlerFault, FailRead, FailMark, FailCache, Resolve, Rethrow,
            AtStep

\* What a request does to a row.
LEMMA RequestRow ==
  ASSUME Birth, NEW q \in Requests, RequestAction(q), NEW s \in Scans
  PROVE  \/ status'[s] = status[s] /\ progress'[s] = progress[s]
         \/ /\ status[s] = "ABSENT" /\ status'[s] = "QUEUED" /\ progress'[s] = 0
            /\ StartCreate(q) /\ req[q].scan = s
         \/ /\ status'[s] \in {"FAILED", "CANCELLED"} /\ progress'[s] = progress[s]
            /\ req[q].scan = s /\ req[q].pc \in {"reject", "cancel"}
<1> USE DEF Birth, Typed, TypeOK, rowVars
<1>1. CASE StartCreate(q)
  BY <1>1 DEF StartCreate, CreatesUnborn
<1>2. CASE StartReject(q) \/ CancelMark(q)
  BY <1>2 DEF StartReject, CancelMark
<1> QED BY <1>1, <1>2
        DEF RequestAction, RequestStep, RequestFault, DropRequest, StartFind, CancelRead,
            StartAnnounce, StartEnqueue, StartAnnotate, CancelRemove, CancelNotify

\* What an execution does to a row.
LEMMA ExecutionRow ==
  ASSUME TypeOK, NEW r \in Runs, ExecutionAction(r), NEW s \in Scans
  PROVE  \/ status'[s] = status[s] /\ progress'[s] = progress[s]
         \/ /\ run[r].scan = s /\ FailMark(r) /\ Handled(r, "failMark", "failCache")
            /\ status'[s] = Verdict(r) /\ progress'[s] = progress[s]
         \/ /\ run[r].scan = s /\ Mark(r) /\ Advanced(r)
            /\ status'[s] = "RUNNING" /\ progress'[s] = progress[s]
         \/ /\ run[r].scan = s /\ Report(r) /\ Advanced(r)
            /\ status'[s] = status[s] /\ progress'[s] = Script[run[r].at].pct
         \/ /\ run[r].scan = s /\ Complete(r) /\ Advanced(r) /\ status[s] = "RUNNING"
            /\ status'[s] = "COMPLETED" /\ progress'[s] = 100
<1> USE DEF TypeOK, rowVars
<1>1. CASE FailMark(r)
  BY <1>1, HandlerMoves DEF FailMark
<1>2. CASE Mark(r)
  BY <1>2, ProceedMoves DEF Mark, AtStep
<1>3. CASE Report(r)
  BY <1>3, ProceedMoves DEF Report, AtStep
<1>4. CASE Complete(r)
  BY <1>4, ProceedMoves DEF Complete, AtStep
<1> QED BY <1>1, <1>2, <1>3, <1>4
        DEF ExecutionAction, OperationStep, Gate, Poll, Work, Interrupt, CacheProgress,
            Tick, Verify, Return, Unwind, WorkFails, OperationFault, HandlerStep,
            HandlerFault, FailRead, FailCache, Resolve, Rethrow, Timeout

\* The queue touches neither the rows nor the snapshots.
LEMMA QueueRow == QueueAction => UNCHANGED <<rowVars, cache, req>>
  BY DEF QueueAction, PickUp, StallDead, StallSlow, Crash

\* Between markRunning and the completion.
Midway(r) ==
  run[r].op = "running" /\ Before(run[r].at, "mark") /\ ~Before(run[r].at, "complete")

\* What the operation has reported, it does not take back.
Rising(r, s) ==
  run[r].op = "running" /\ Before(run[r].at, "report") =>
    \A i \in run[r].at..Len(Script) :
      Script[i].kind = "report" => progress[s] <= Script[i].pct

Calm == Never({"timeout", "slow"})

Percent ==
  /\ Exclusion
  /\ \A s \in Scans : status[s] = "ABSENT" => progress[s] = 0
  /\ Calm => \A s \in Scans :
       /\ status[s] = "COMPLETED" => progress[s] = 100
       /\ \A r \in Runs : run[r].scan = s =>
            /\ Midway(r) => status[s] # "COMPLETED"
            /\ Rising(r, s)

\* Percent holds at the start.
LEMMA InitPercent == Init => Percent
<1> SUFFICES ASSUME Init PROVE Percent
  OBVIOUS
<1>1. Exclusion
  BY InitExclusion
<1>2. \A r \in Runs : run[r].scan \notin Scans
  BY IdentifierAssumption DEF Init, Free
<1> QED BY <1>1, <1>2 DEF Init, Percent

\* Without overlap, a row whose scan is being executed changes only by the
\* hand of that execution, or of a request that fails or cancels it.
LEMMA SoleStep ==
  ASSUME Exclusion, Next, Calm', NEW x \in Runs, NEW s \in Scans, run'[x].scan = s
  PROVE  \/ /\ run'[x] = run[x]
            /\ status'[s] = status[s] /\ progress'[s] = progress[s]
         \/ /\ run'[x] = run[x]
            /\ status'[s] \in {"FAILED", "CANCELLED"} /\ progress'[s] = progress[s]
            /\ \E q \in Requests : req[q].scan = s /\ req[q].pc \in {"reject", "cancel"}
         \/ run[x].scan = s /\ ExecutionAction(x)
         \/ /\ \E w \in Workers : run'[x] = Begin(s, w)
            /\ status'[s] = status[s] /\ progress'[s] = progress[s]
<1>1. Typed /\ TypeOK /\ Birth
  BY DEF Exclusion, Birth, Typed
<1>2. Calm
  BY <1>1, NeverBefore DEF Calm, Disturbances
<1>3. CASE \E q \in Requests : RequestAction(q)
  <2>1. PICK q \in Requests : RequestAction(q)
    BY <1>3
  <2>2. run' = run
    BY <2>1, RequestMoves DEF Exclusion
  <2>3. status[s] # "ABSENT"
    BY <1>1, <2>2 DEF Birth, Unborn
  <2> QED BY <1>1, <2>1, <2>2, <2>3, RequestRow
<1>4. CASE \E r \in Runs : ExecutionAction(r)
  <2>1. PICK r \in Runs : ExecutionAction(r)
    BY <1>4
  <2>2. run[x].scan = s
    BY <1>1, <2>1, ExecutionStep, IdentifierAssumption DEF ExecutionAction
  <2>3. CASE x # r
    <3>1. run[r].scan # s
      BY <1>2, <2>2, <2>3, Sole DEF Calm
    <3>2. run'[x] = run[x]
      BY <1>1, <2>1, <2>3, ExecutionStep DEF ExecutionAction
    <3> QED BY <1>1, <2>1, <3>1, <3>2, ExecutionRow
  <2> QED BY <2>1, <2>2, <2>3
<1>5. CASE QueueAction
  <2>1. status' = status /\ progress' = progress
    BY <1>5, QueueRow DEF rowVars
  <2>2. CASE \E r \in Runs, w \in Workers, y \in Scans : PickUp(r, w, y)
    <3>1. PICK r \in Runs, w \in Workers, y \in Scans : run' = [run EXCEPT ![r] = Begin(y, w)]
      BY <2>2 DEF PickUp, Update, Begin
    <3>2. x = r => y = s
      BY <1>1, <3>1 DEF Begin, TypeOK
    <3> QED BY <1>1, <2>1, <3>1, <3>2 DEF TypeOK
  <2>3. CASE \E y \in Scans : StallDead(y) \/ StallSlow(y)
    BY <2>1, <2>3 DEF StallDead, StallSlow
  <2>4. CASE \E w \in Workers : Crash(w)
    BY <2>1, <2>4, IdentifierAssumption DEF Crash, Free
  <2> QED BY <1>5, <2>2, <2>3, <2>4 DEF QueueAction
<1> QED BY <1>3, <1>4, <1>5, NextActions

\* Where an execution's own step leaves its operation.
LEMMA OwnMotion ==
  ASSUME TypeOK, NEW r \in Runs, ExecutionAction(r), run'[r].op = "running"
  PROVE  \/ run[r].op = "running" /\ run'[r].at = run[r].at /\ ~Advanced(r)
         \/ Advanced(r)
<1>1. run[r].at \in 0..(Len(Script) + 1)
  BY DEF TypeOK, Executions
<1>2. CASE Timeout(r)
  BY <1>1, <1>2, TimeoutMoves, LenNat DEF Advanced
<1>3. CASE ~Timeout(r)
  BY <1>1, <1>3, ExecutionMoves, LenNat DEF Advanced, Left, Ended, Handled, Free
<1> QED BY <1>2, <1>3

\* What a step of an execution does to the percentage of its own scan.
LEMMA OwnPercent ==
  ASSUME Percent, Calm, NEW r \in Runs, ExecutionAction(r), NEW s \in Scans,
         run[r].scan = s
  PROVE  /\ status'[s] = "COMPLETED" => progress'[s] = 100
         /\ Midway(r)' => status'[s] # "COMPLETED"
         /\ Rising(r, s)'
<1> DEFINE i == run[r].at
<1>1. Typed /\ TypeOK
  BY DEF Percent, Exclusion, Birth, Typed
<1>2. /\ status[s] = "COMPLETED" => progress[s] = 100
      /\ Midway(r) => status[s] # "COMPLETED"
      /\ Rising(r, s)
  BY DEF Percent
<1>3. status'[s] = "COMPLETED" => progress'[s] = 100
  <2>1. CASE Report(r) /\ Advanced(r) /\ status'[s] = status[s] /\ progress'[s] = Script[i].pct
    <3>1. /\ i \in 1..Len(Script) /\ Script[i].kind = "report" /\ run[r].op = "running"
      BY <2>1 DEF Report, AtStep
    <3>2. Before(i, "mark")
      BY <3>1, OrderAssumption
    <3>3. CASE Before(i, "complete")
      BY <2>1, <3>1, <3>3, OrderAssumption
    <3>4. CASE ~Before(i, "complete")
      BY <1>2, <2>1, <3>1, <3>2, <3>4 DEF Midway
    <3> QED BY <3>3, <3>4
  <2> QED BY <1>1, <1>2, <2>1, ExecutionRow DEF Verdict
<1>4. ASSUME Midway(r)' PROVE status'[s] # "COMPLETED"
  <2>1. CASE run[r].op = "running" /\ run'[r].at = i /\ ~Advanced(r)
    <3>1. Midway(r)
      BY <1>4, <2>1 DEF Midway
    <3> QED BY <1>1, <1>2, <2>1, <3>1, ExecutionRow DEF Verdict
  <2>2. CASE Advanced(r)
    <3>1. i \in 1..Len(Script) /\ run'[r].at = i + 1 /\ run[r].op = "running"
      BY <2>2 DEF Advanced
    <3>2. Script[i].kind # "complete" /\ ~Before(i, "complete")
      BY <1>4, <3>1, BeforeNext DEF Midway
    <3>3. ~Complete(r)
      BY <3>2 DEF Complete, AtStep
    <3>4. CASE Script[i].kind = "mark"
      <4>1. Mark(r)
        BY <1>1, <2>2, <3>4, AdvancedBy
      <4>2. status'[s] = "RUNNING"
        <5>1. ~Throw(r, "failed")
          BY <1>1, <2>2, LeaveMoves DEF Throw, Left, Advanced
        <5> QED BY <1>1, <4>1, <5>1 DEF Mark, TypeOK
      <4> QED BY <4>2
    <3>5. CASE Script[i].kind # "mark"
      <4>1. Midway(r)
        BY <1>4, <3>1, <3>2, <3>5, BeforeNext DEF Midway
      <4> QED BY <1>1, <1>2, <3>3, <4>1, ExecutionRow DEF Verdict
    <3> QED BY <3>4, <3>5
  <2> QED BY <1>1, <1>4, <2>1, <2>2, OwnMotion DEF Midway
<1>5. ASSUME run'[r].op = "running", Before(run'[r].at, "report"),
             NEW k, k \in run'[r].at..Len(Script), Script[k].kind = "report"
      PROVE  progress'[s] <= Script[k].pct
  <2>1. k \in 1..Len(Script) /\ Script[k].pct \in 0..100 /\ i \in Nat
    <3>1. i \in Nat
      BY <1>1, LenNat DEF TypeOK, Executions
    <3>2. run'[r].at \in Nat
      BY <1>1, <1>5, <3>1, OwnMotion DEF Advanced
    <3>3. run'[r].at >= 1
      BY <1>5, <3>2 DEF Before
    <3>4. k \in 1..Len(Script)
      BY <1>5, <3>2, <3>3, LenNat
    <3> QED BY <3>1, <3>4, ScriptEntry
  <2>2. CASE run[r].op = "running" /\ run'[r].at = i /\ ~Advanced(r)
    <3>1. progress'[s] = progress[s]
      BY <1>1, <2>2, ExecutionRow
    <3> QED BY <1>2, <1>5, <2>2, <3>1 DEF Rising
  <2>3. CASE Advanced(r)
    <3>1. i \in 1..Len(Script) /\ run'[r].at = i + 1 /\ run[r].op = "running"
      BY <2>3 DEF Advanced
    <3>2. i \in 1..(k - 1) /\ k \in i..Len(Script)
      BY <1>5, <2>1, <3>1, LenNat
    <3>3. CASE Script[i].kind = "report"
      <4>1. Report(r)
        BY <1>1, <2>3, <3>3, AdvancedBy
      <4>2. progress'[s] = Script[i].pct
        BY <1>1, <4>1 DEF Report, TypeOK
      <4> QED BY <1>5, <2>1, <3>2, <3>3, <4>2, OrderAssumption
    <3>4. CASE Script[i].kind = "complete"
      <4>1. Before(k, "complete")
        BY <3>2, <3>4 DEF Before
      <4>2. Script[k].pct = 100
        BY <1>5, <2>1, <4>1, OrderAssumption
      <4>3. progress'[s] \in 0..100
        <5>1. Next
          BY DEF Next, ExecutionAction
        <5>2. Typed'
          BY <1>1, <5>1, NextTyped
        <5>3. progress' \in [Scans -> 0..100]
          BY <5>2 DEF Typed, TypeOK
        <5> QED BY <5>3
      <4> QED BY <4>2, <4>3
    <3>5. CASE Script[i].kind \notin {"report", "complete"}
      <4>1. progress'[s] = progress[s]
        BY <1>1, <3>5, ExecutionRow DEF Report, Complete, AtStep
      <4>2. Before(i, "report")
        BY <1>5, <3>1, <3>5, BeforeNext
      <4> QED BY <1>2, <1>5, <3>1, <3>2, <4>1, <4>2 DEF Rising
    <3> QED BY <3>3, <3>4, <3>5
  <2> QED BY <1>1, <1>5, <2>2, <2>3, OwnMotion
<1> QED BY <1>3, <1>4, <1>5 DEF Rising

\* Percent is inductive.
LEMMA NextPercent == Percent /\ [Next]_vars => Percent'
<1> SUFFICES ASSUME Percent, [Next]_vars PROVE Percent'
  OBVIOUS
<1>1. Typed /\ TypeOK /\ Birth /\ Typed' /\ Birth' /\ Exclusion /\ Exclusion'
  BY NextExclusion DEF Percent, Exclusion, Birth, Typed
<1>2. CASE UNCHANGED vars
  BY <1>1, <1>2 DEF vars, Percent, Calm, Never, Midway, Rising
<1>3. CASE Next
  <2>1. ASSUME NEW s \in Scans, status'[s] = "ABSENT"
        PROVE  progress'[s] = 0
    <3>1. CASE \E q \in Requests : RequestAction(q)
      BY <1>1, <2>1, <3>1, RequestRow DEF Percent
    <3>2. CASE \E r \in Runs : ExecutionAction(r)
      <4>1. PICK r \in Runs : ExecutionAction(r)
        BY <3>2
      <4>2. status[s] = "ABSENT"
        BY <1>1, <2>1, <4>1, ExecutionStep DEF ExecutionAction
      <4>3. run[r].scan # s
        BY <1>1, <4>2 DEF Birth, Unborn
      <4> QED BY <1>1, <2>1, <4>1, <4>2, <4>3, ExecutionRow DEF Percent
    <3>3. CASE QueueAction
      BY <2>1, <3>3, QueueRow DEF Percent, rowVars
    <3> QED BY <1>3, <3>1, <3>2, <3>3, NextActions
  <2>2. ASSUME Calm', NEW s \in Scans
        PROVE  /\ status'[s] = "COMPLETED" => progress'[s] = 100
               /\ \A x \in Runs : run'[x].scan = s =>
                    /\ Midway(x)' => status'[s] # "COMPLETED"
                    /\ Rising(x, s)'
    <3>1. Calm
      BY <1>1, <1>3, <2>2, NeverBefore DEF Calm, Disturbances
    <3>2. ASSUME NEW x \in Runs, run'[x].scan = s
          PROVE  /\ Midway(x)' => status'[s] # "COMPLETED"
                 /\ Rising(x, s)'
      <4>1. CASE run'[x] = run[x] /\ progress'[s] = progress[s]
                   /\ (status'[s] = status[s] \/ status'[s] \in {"FAILED", "CANCELLED"})
        BY <3>1, <3>2, <4>1 DEF Percent, Midway, Rising
      <4>2. CASE run[x].scan = s /\ ExecutionAction(x)
        BY <3>1, <4>2, OwnPercent
      <4>3. CASE \E w \in Workers : run'[x] = Begin(s, w)
        <5>1. run'[x].at = 1
          BY <4>3 DEF Begin
        <5> QED BY <5>1, NothingBefore DEF Midway, Rising
      <4> QED BY <1>1, <1>3, <2>2, <3>2, <4>1, <4>2, <4>3, SoleStep
    <3>3. ASSUME status'[s] = "COMPLETED" PROVE progress'[s] = 100
      <4>1. CASE \E q \in Requests : RequestAction(q)
        BY <1>1, <3>1, <3>3, <4>1, RequestRow DEF Percent
      <4>2. CASE \E r \in Runs : ExecutionAction(r)
        <5>1. PICK r \in Runs : ExecutionAction(r)
          BY <4>2
        <5>2. CASE run[r].scan = s
          BY <3>1, <3>3, <5>1, <5>2, OwnPercent
        <5>3. CASE run[r].scan # s
          BY <1>1, <3>1, <3>3, <5>1, <5>3, ExecutionRow DEF Percent
        <5> QED BY <5>2, <5>3
      <4>3. CASE QueueAction
        BY <3>1, <3>3, <4>3, QueueRow DEF Percent, rowVars
      <4> QED BY <1>3, <4>1, <4>2, <4>3, NextActions
    <3> QED BY <3>2, <3>3
  <2> QED BY <1>1, <2>1, <2>2 DEF Percent
<1> QED BY <1>2, <1>3

LEMMA PercentHolds == Spec => []Percent
  BY InitPercent, NextPercent, PTL DEF Spec

\* While no executions overlap, a COMPLETED row shows 100 percent, whatever
\* updateProgress wrote before markCompletedIfRunning.
THEOREM Completed == Spec => []CompletedAtHundred
<1>1. Percent => CompletedAtHundred
  BY DEF Percent, CompletedAtHundred, Calm
<1> QED BY <1>1, PercentHolds, PTL

\* FirstReport is the percentage of the first report of the script.
LEMMA FirstReportIs ==
  ASSUME NEW i \in 1..Len(Script), Script[i].kind = "report", ~Before(i, "report")
  PROVE  FirstReport = Script[i].pct
<1> DEFINE First(k) == Script[k].kind = "report" /\ ~Before(k, "report")
<1>1. ASSUME NEW j \in 1..Len(Script), First(j) PROVE j = i
  <2>1. CASE j < i
    BY <1>1, <2>1, LenNat DEF Before
  <2>2. CASE i < j
    BY <1>1, <2>2, LenNat DEF Before
  <2> QED BY <2>1, <2>2, LenNat
<1>2. (CHOOSE k \in 1..Len(Script) : First(k)) = i
  BY <1>1
<1> QED BY <1>2 DEF FirstReport

\* While no executions overlap, updateProgress lowers the percentage of a row
\* only when a new attempt of its job starts over.
THEOREM NoRegress == Spec => ProgressNeverRegresses
<1>1. ASSUME Percent, Next, Calm, NEW s \in Scans
      PROVE  progress'[s] >= progress[s] \/ progress'[s] = FirstReport
  <2>1. Typed /\ TypeOK /\ Birth
    BY <1>1 DEF Percent, Exclusion, Birth, Typed
  <2>2. progress[s] \in 0..100
    BY <2>1 DEF TypeOK
  <2>3. CASE \E q \in Requests : RequestAction(q)
    BY <1>1, <2>1, <2>2, <2>3, RequestRow DEF Percent
  <2>4. CASE \E r \in Runs : ExecutionAction(r)
    <3>1. PICK r \in Runs : ExecutionAction(r)
      BY <2>4
    <3>2. CASE /\ run[r].scan = s /\ Report(r) /\ progress'[s] = Script[run[r].at].pct
      <4>1. /\ run[r].at \in 1..Len(Script) /\ Script[run[r].at].kind = "report"
            /\ run[r].op = "running"
        BY <3>2 DEF Report, AtStep
      <4>2. CASE Before(run[r].at, "report")
        <5>1. run[r].at \in run[r].at..Len(Script)
          BY <4>1, LenNat
        <5>2. progress[s] <= Script[run[r].at].pct
          BY <1>1, <3>2, <4>1, <4>2, <5>1 DEF Percent, Rising
        <5>3. Script[run[r].at].pct \in 0..100
          BY <4>1, ScriptEntry
        <5> QED BY <2>2, <3>2, <5>2, <5>3
      <4>3. CASE ~Before(run[r].at, "report")
        BY <3>2, <4>1, <4>3, FirstReportIs
      <4> QED BY <4>2, <4>3
    <3> QED BY <2>1, <2>2, <3>1, <3>2, ExecutionRow
  <2>5. CASE QueueAction
    BY <2>2, <2>5, QueueRow DEF rowVars
  <2> QED BY <1>1, <2>3, <2>4, <2>5, NextActions
<1>2. Percent /\ [Next]_vars =>
        [Never({"timeout", "slow"}) => \A s \in Scans :
           progress'[s] >= progress[s] \/ progress'[s] = FirstReport]_vars
  BY <1>1 DEF Calm
<1> QED BY <1>2, PercentHolds, PTL DEF Spec, ProgressNeverRegresses

-----------------------------------------------------------------------------
(* The snapshot next to the row                                            *)

Quiet == Never({"fault", "drop", "timeout", "slow", "crash", "cancel"})

\* The operation has completed the row, and only tells of it.
Past(r) == run[r].op = "running" /\ Before(run[r].at, "complete")

\* The requests that start scans are the only ones.
Courteous ==
  \A q \in Requests :
    /\ req[q].pc \in {"idle", "create", "announce", "enqueue", "annotate"}
    /\ req[q].pc = "announce" => status[req[q].scan] = "QUEUED"

\* The execution was not disturbed, and its place tells the status of its row.
Sound(r) ==
  /\ run[r] = Free \/ run[r].scan \in Scans
  /\ ~run[r].aborted /\ run[r].outcome # "cancelled" /\ run[r].cause # "cancelled"
  /\ Midway(r) => status[run[r].scan] = "RUNNING"
  /\ Past(r) => status[run[r].scan] = "COMPLETED"
  /\ run[r].handler = "failCache" => status[run[r].scan] = "FAILED"

\* The execution is about to tell Redis how the scan ended.
Owes(r, s) ==
  /\ run[r].scan = s
  /\ \/ run[r].handler = "failCache"
     \/ Past(r) /\ \E i \in run[r].at..Len(Script) : Script[i].kind = "cache"

Told(s) ==
  status[s] \in Terminal =>
    \/ cache[s] = IF status[s] = "COMPLETED" THEN "Completed" ELSE "FAILED"
    \/ \E r \in Runs : Owes(r, s)

Peace ==
  /\ Exclusion
  /\ Quiet =>
       /\ Courteous
       /\ \A s \in Scans : job[s].state # "removed" /\ status[s] # "CANCELLED"
       /\ \A r \in Runs : Sound(r)
       /\ \A s \in Scans : Told(s)

\* Peace holds at the start.
LEMMA InitPeace == Init => Peace
<1> SUFFICES ASSUME Init PROVE Peace
  OBVIOUS
<1>1. Exclusion
  BY InitExclusion
<1>2. \A r \in Runs : Sound(r)
  BY DEF Init, Free, Sound, Midway, Past
<1>3. Courteous /\ \A s \in Scans : Told(s)
  BY DEF Init, Idle, Courteous, Told, Terminal
<1>4. \A s \in Scans : job[s].state # "removed" /\ status[s] # "CANCELLED"
  BY DEF Init, NoJob
<1> QED BY <1>1, <1>2, <1>3, <1>4 DEF Peace

\* A quiet system is a calm one.
LEMMA QuietCalm ==
  ASSUME Quiet PROVE Calm /\ Never({"timeout"})
  BY DEF Quiet, Calm, Never

\* An operation is stopped with the error of its cancellation by a row that
\* says so, and by nothing once it has completed the row.
LEMMA Stopped ==
  ASSUME Typed, NEW r \in Runs, ExecutionAction(r), Quiet', ~run[r].aborted,
         NEW o \in {"cancelled", "failed"}, Left(r, o)
  PROVE  /\ o = "cancelled" => status[run[r].scan] = "CANCELLED"
         /\ Past(r) => \/ status[run[r].scan] # "COMPLETED"
                       \/ job[run[r].scan].state = "removed"
<1>1. TypeOK
  BY DEF Typed
<1>2. ~OperationFault(r)
  BY <1>1, SpendCounts DEF OperationFault, Quiet, Never, Disturbances, TypeOK
<1>3. ~Proceed(r) \/ ~(run[r].at \in 1..Len(Script))
  BY <1>1, ProceedMoves DEF Left, Advanced
<1>4. \A e \in {"cancelled", "failed", "value"} :
        Update(r, [run[r] EXCEPT !.op = "unwinding", !.outcome = e]) => e = o
  BY <1>1, LeaveMoves DEF Left
<1>5. /\ Throw(r, "failed") => o = "failed"
      /\ Throw(r, "cancelled") => o = "cancelled"
      /\ ~Return(r)
  BY <1>4 DEF Throw, Return
<1>6. \A h : ~SetHandler(r, h)
  BY <1>1, HandlerMoves DEF Handled, Left, Free
<1>7. ~Timeout(r) /\ ~Unwind(r)
  BY <1>1, TimeoutMoves DEF Unwind, Left
<1>8. \/ Gate(r) \/ Poll(r) \/ Mark(r) \/ Work(r) \/ WorkFails(r) \/ Tick(r) \/ Verify(r)
  BY <1>2, <1>3, <1>5, <1>6, <1>7
     DEF ExecutionAction, OperationStep, Interrupt, Report, CacheProgress, Complete,
         AtStep, HandlerStep, HandlerFault, FailRead, FailMark, FailCache, Resolve,
         Rethrow
<1>9. ASSUME o = "cancelled" PROVE status[run[r].scan] = "CANCELLED"
  BY <1>3, <1>5, <1>8, <1>9
     DEF Gate, Poll, Mark, Work, AtWork, WorkFails, Tick, Verify, AtStep
<1>10. ASSUME Past(r) PROVE \/ status[run[r].scan] # "COMPLETED"
                            \/ job[run[r].scan].state = "removed"
  <2>1. run[r].at \in 1..Len(Script)
    BY <1>8 DEF Gate, Poll, Mark, Work, AtWork, WorkFails, Tick, Verify, AtStep
  <2>2. Script[run[r].at].kind \in {"verify", "report", "cache", "tick"}
    BY <1>10, <2>1, OrderAssumption DEF Past
  <2>3. Tick(r) \/ Verify(r)
    BY <1>8, <2>2 DEF Gate, Poll, Mark, Work, AtWork, WorkFails, AtStep
  <2> QED BY <1>3, <2>1, <2>3 DEF Tick, Verify
<1> QED BY <1>9, <1>10

\* What an execution does to the snapshot.
LEMMA ExecutionSnapshot ==
  ASSUME TypeOK, NEW r \in Runs, ExecutionAction(r), NEW s \in Scans
  PROVE  \/ cache'[s] = cache[s]
         \/ /\ run[r].scan = s /\ CacheProgress(r) /\ Advanced(r)
            /\ cache'[s] = IF Script[run[r].at].pct = 100 THEN "Completed" ELSE "Working"
         \/ /\ run[r].scan = s /\ FailCache(r) /\ Handled(r, "failCache", "rethrow")
            /\ cache'[s] = Verdict(r)
<1> USE DEF TypeOK
<1>1. CASE CacheProgress(r)
  BY <1>1, ProceedMoves DEF CacheProgress, AtStep
<1>2. CASE FailCache(r)
  BY <1>2, HandlerMoves DEF FailCache
<1> QED BY <1>1, <1>2
        DEF ExecutionAction, OperationStep, Gate, Poll, Mark, Work, Interrupt, Report,
            Tick, Complete, Verify, Return, Unwind, WorkFails, OperationFault,
            HandlerStep, HandlerFault, FailRead, FailMark, Resolve, Rethrow, Timeout

\* An operation that passes an await keeps its place and the snapshot in step
\* with its row.
LEMMA OwnAdvance ==
  ASSUME Typed, NEW r \in Runs, NEW s \in Scans, run[r].scan = s, Sound(r), Told(s),
         ExecutionAction(r), Advanced(r), run[r].handler = "await",
         \A x \in Runs : run[x].scan = s => x = r
  PROVE  Sound(r)' /\ Told(s)'
<1> DEFINE i == run[r].at
<1>1. TypeOK
  BY DEF Typed
<1>2. /\ i \in 1..Len(Script) /\ run[r].op = "running" /\ run'[r].op = "running"
      /\ run'[r].at = i + 1 /\ run'[r].scan = s /\ run'[r].handler = "await"
      /\ run'[r].aborted = run[r].aborted /\ run'[r].outcome = run[r].outcome
      /\ run'[r].cause = run[r].cause
  BY DEF Advanced
<1>3. Midway(r) => status[s] = "RUNNING"
  BY DEF Sound
<1>4. Past(r) => status[s] = "COMPLETED"
  BY DEF Sound
<1>5. CASE Script[i].kind = "mark"
  <2>1. Mark(r) /\ ~Throw(r, "failed")
    BY <1>1, <1>5, AdvancedBy, LeaveMoves DEF Throw, Left, Advanced
  <2>2. status'[s] = "RUNNING"
    BY <1>1, <2>1 DEF Mark, TypeOK
  <2>3. ~Past(r)'
    BY <1>2, <1>5, BeforeNext, Order DEF Past
  <2> QED BY <1>2, <2>2, <2>3 DEF Sound, Told, Terminal
<1>6. CASE Script[i].kind = "complete"
  <2>1. Midway(r)
    BY <1>2, <1>6, Order, OrderAssumption DEF Midway
  <2>2. Complete(r)
    BY <1>1, <1>6, AdvancedBy
  <2>3. status'[s] = "COMPLETED"
    BY <1>1, <1>3, <2>1, <2>2 DEF Complete, TypeOK
  <2>4. \E j \in (i + 1)..Len(Script) : Script[j].kind = "cache"
    BY <1>2, <1>6, OrderAssumption
  <2>5. Past(r)' /\ Owes(r, s)'
    BY <1>2, <1>6, <2>4, BeforeNext DEF Past, Owes
  <2>6. ~Midway(r)'
    BY <2>5 DEF Past, Midway
  <2> QED BY <1>2, <2>3, <2>5, <2>6 DEF Sound, Told
<1>7. CASE Script[i].kind \notin {"mark", "complete"}
  <2>1. status'[s] = status[s]
    BY <1>1, <1>7, ExecutionRow DEF FailMark, Mark, Complete, AtStep, Handled, Advanced
  <2>2. Midway(r)' => Midway(r)
    BY <1>2, <1>7, BeforeNext DEF Midway
  <2>3. Past(r)' => Past(r)
    BY <1>2, <1>7, BeforeNext DEF Past
  <2>4. Sound(r)'
    BY <1>2, <2>1, <2>2, <2>3 DEF Sound
  <2>5. CASE Script[i].kind = "cache"
    <3>1. Before(i, "mark")
      BY <1>2, <2>5, OrderAssumption
    <3>2. CASE Before(i, "complete")
      <4>1. Script[i].pct = 100 /\ status'[s] = "COMPLETED"
        BY <1>2, <1>4, <2>1, <2>5, <3>2, OrderAssumption DEF Past
      <4>2. CacheProgress(r)
        BY <1>1, <2>5, AdvancedBy
      <4>3. cache'[s] = "Completed"
        BY <1>1, <4>1, <4>2 DEF CacheProgress, TypeOK
      <4> QED BY <2>4, <4>1, <4>3 DEF Told
    <3>3. CASE ~Before(i, "complete")
      <4>1. status'[s] = "RUNNING"
        BY <1>2, <1>3, <2>1, <3>1, <3>3 DEF Midway
      <4> QED BY <2>4, <4>1 DEF Told, Terminal
    <3> QED BY <3>2, <3>3
  <2>6. CASE Script[i].kind # "cache"
    <3>1. cache'[s] = cache[s]
      BY <1>1, <1>2, <2>6, ExecutionSnapshot DEF CacheProgress, AtStep, FailCache
    <3>2. Owes(r, s) => Owes(r, s)'
      <4>1. ASSUME NEW j, j \in i..Len(Script), Script[j].kind = "cache"
            PROVE  j \in (i + 1)..Len(Script)
        BY <1>2, <2>6, <4>1, LenNat
      <4>2. Past(r) => Past(r)'
        BY <1>2, BeforeNext DEF Past
      <4> QED BY <1>2, <4>1, <4>2 DEF Owes
    <3>3. Told(s)'
      BY <2>1, <3>1, <3>2 DEF Told, Owes
    <3> QED BY <2>1, <2>4, <3>3
  <2> QED BY <2>5, <2>6
<1> QED BY <1>5, <1>6, <1>7

\* So does every other step of an execution.
LEMMA OwnPeace ==
  ASSUME Peace, Quiet, Next, Quiet', NEW r \in Runs, NEW s \in Scans, run[r].scan = s,
         ExecutionAction(r)
  PROVE  Sound(r)' /\ Told(s)' /\ status'[s] # "CANCELLED"
<1>1. Typed /\ TypeOK
  BY DEF Peace, Exclusion, Birth, Typed
<1>2. /\ Sound(r) /\ Told(s) /\ Waits(r)
      /\ job[s].state # "removed" /\ status[s] # "CANCELLED"
  BY QuietCalm DEF Peace, Exclusion
<1>3. \A x \in Runs : run[x].scan = s => x = r
  BY QuietCalm, Sole DEF Peace, Calm
<1>4. ~Timeout(r) /\ ~HandlerFault(r)
  BY <1>1, SpendCounts DEF Timeout, HandlerFault, Quiet, Never, Disturbances, TypeOK
<1>5. status'[s] # "CANCELLED"
  <2>1. Verdict(r) # "CANCELLED"
    BY <1>2 DEF Verdict, Sound
  <2> QED BY <1>1, <1>2, <2>1, ExecutionRow
<1>6. CASE Advanced(r)
  <2>1. run[r].handler = "await"
    BY <1>2, <1>6 DEF Waits, Advanced
  <2> QED BY <1>1, <1>2, <1>3, <1>5, <1>6, <2>1, OwnAdvance
<1>7. CASE \E o \in {"value", "cancelled", "failed"} : Left(r, o)
  <2>1. PICK o \in {"value", "cancelled", "failed"} : Left(r, o)
    BY <1>7
  <2>2. run[r].handler = "await" /\ run'[r].handler = "await"
    BY <1>2, <2>1 DEF Waits, Left
  <2>3. UNCHANGED <<status, cache>> /\ (o = "value" => run[r].at = Len(Script) + 1)
    BY <1>1, <1>4, <2>1, ExecutionMoves DEF Left, Advanced, Ended, Handled, Free, rowVars
  <2>4. o # "cancelled"
    BY <1>1, <1>2, <2>1, Stopped DEF Sound
  <2>5. run'[r].op = "unwinding"
    BY <2>1 DEF Left
  <2>6. Sound(r)'
    BY <1>2, <2>1, <2>2, <2>4, <2>5 DEF Sound, Left, Midway, Past
  <2>7. ~Owes(r, s)
    <3>1. CASE o = "value"
      <4>1. \A j \in run[r].at..Len(Script) : FALSE
        BY <2>3, <3>1, LenNat
      <4> QED BY <2>2, <4>1 DEF Owes
    <3>2. CASE o = "failed"
      <4>1. ~Past(r)
        BY <1>1, <1>2, <2>1, <3>2, Stopped DEF Sound
      <4> QED BY <2>2, <4>1 DEF Owes
    <3> QED BY <2>4, <3>1, <3>2
  <2>8. Told(s)'
    BY <1>2, <1>3, <2>3, <2>7 DEF Told, Owes
  <2> QED BY <1>5, <2>6, <2>8
<1>8. CASE Ended(r)
  <2>1. /\ run[r].handler = "await" /\ run[r].op = "unwinding"
        /\ run'[r].op = "ended" /\ run'[r].handler \in {"resolve", "failRead"}
        /\ run'[r].scan = s /\ ~run'[r].aborted /\ run'[r].outcome # "cancelled"
        /\ run'[r].cause # "cancelled"
    BY <1>2, <1>8 DEF Waits, Ended, Sound
  <2>2. Sound(r)'
    BY <2>1 DEF Sound, Midway, Past
  <2>3. UNCHANGED <<status, cache>>
    <3>1. Unwind(r)
      BY <1>1, <2>1, <1>4
         DEF ExecutionAction, OperationStep, Gate, Poll, Mark, Work, AtWork, Interrupt,
             Report, CacheProgress, Tick, Complete, Verify, Return, WorkFails,
             OperationFault, AtStep, HandlerStep, FailRead, FailMark, FailCache,
             Resolve, Rethrow
    <3> QED BY <3>1 DEF Unwind, rowVars
  <2>4. ~Owes(r, s)
    BY <2>1 DEF Owes, Past
  <2>5. Told(s)'
    BY <1>2, <1>3, <2>3, <2>4 DEF Told, Owes
  <2> QED BY <1>5, <2>2, <2>5
<1>9. CASE HandlerStep(r)
  <2>1. run[r].handler \notin {"await", "idle"} /\ run[r].op \notin {"running", "unwinding"}
    BY <1>2, <1>9
       DEF HandlerStep, FailRead, FailMark, FailCache, Resolve, Rethrow, Waits
  <2>2. CASE FailMark(r)
    <3>1. Handled(r, "failMark", "failCache")
      BY <1>1, <2>2, HandlerMoves DEF FailMark
    <3>2. status'[s] = "FAILED"
      BY <1>1, <1>2, <2>2 DEF FailMark, Verdict, Sound, TypeOK
    <3>3. Sound(r)' /\ Owes(r, s)'
      BY <1>2, <2>1, <3>1, <3>2 DEF Sound, Handled, Midway, Past, Owes
    <3> QED BY <1>5, <3>3 DEF Told
  <2>3. CASE FailCache(r)
    <3>1. Handled(r, "failCache", "rethrow")
      BY <1>1, <2>3, HandlerMoves DEF FailCache
    <3>2. cache'[s] = "FAILED" /\ status' = status /\ status[s] = "FAILED"
      BY <1>1, <1>2, <2>3 DEF FailCache, Verdict, Sound, TypeOK, rowVars
    <3>3. Sound(r)'
      BY <1>2, <2>1, <3>1, <3>2 DEF Sound, Handled, Midway, Past
    <3> QED BY <1>5, <3>2, <3>3 DEF Told
  <2>4. CASE FailRead(r) \/ Resolve(r) \/ Rethrow(r)
    <3>1. /\ UNCHANGED <<status, cache>>
          /\ run[r].handler # "failCache"
          /\ \E h \in {"failMark", "rethrow", "settled"} : SetHandler(r, h)
      BY <2>4 DEF FailRead, Resolve, Rethrow, rowVars
    <3>2. PICK h \in {"failMark", "rethrow", "settled"} : Handled(r, run[r].handler, h)
      BY <1>1, <3>1, HandlerMoves
    <3>3. Sound(r)'
      <4>1. CASE run'[r] = Free
        BY <4>1 DEF Sound, Midway, Past, Free
      <4>2. CASE run'[r] # Free
        BY <1>2, <2>1, <3>1, <3>2, <4>2 DEF Sound, Handled, Midway, Past
      <4> QED BY <4>1, <4>2
    <3>4. ~Owes(r, s)
      BY <2>1, <3>1 DEF Owes, Past
    <3>5. Told(s)'
      BY <1>2, <1>3, <3>1, <3>4 DEF Told, Owes
    <3> QED BY <1>5, <3>3, <3>5
  <2> QED BY <1>9, <2>2, <2>3, <2>4 DEF HandlerStep
<1>10. \/ Advanced(r) \/ Ended(r) \/ HandlerStep(r)
       \/ \E o \in {"value", "cancelled", "failed"} : Left(r, o)
  <2>1. CASE OperationStep(r) \/ WorkFails(r) \/ OperationFault(r)
    <3>1. CASE Unwind(r)
      BY <1>1, <3>1, UnwindMoves
    <3>2. CASE ~Unwind(r)
      <4>1. run[r].op = "running"
        BY <2>1, <3>2
           DEF OperationStep, Gate, Poll, Mark, Work, AtWork, Interrupt, Report,
               CacheProgress, Tick, Complete, Verify, Return, WorkFails,
               OperationFault, AtStep
      <4>2. run[r].handler = "await"
        BY <1>2, <4>1 DEF Waits
      <4> QED BY <1>1, <1>4, <4>1, <4>2, ExecutionMoves DEF Handled, Ended
    <3> QED BY <3>1, <3>2
  <2> QED BY <1>4, <2>1 DEF ExecutionAction
<1> QED BY <1>6, <1>7, <1>8, <1>9, <1>10

\* A request that starts a scan touches no scan that has begun.
LEMMA RequestPeace ==
  ASSUME Peace, Quiet, Next, Quiet', NEW q \in Requests, RequestAction(q)
  PROVE  /\ Courteous'
         /\ \A s \in Scans : job'[s].state # "removed" /\ status'[s] # "CANCELLED"
         /\ \A r \in Runs : Sound(r)'
         /\ \A s \in Scans : Told(s)'
<1>1. Typed /\ TypeOK /\ Birth /\ Announced
  BY DEF Peace, Exclusion, Birth, Typed
<1>2. /\ Courteous
      /\ \A s \in Scans : job[s].state # "removed" /\ status[s] # "CANCELLED"
      /\ \A r \in Runs : Sound(r)
      /\ \A s \in Scans : Told(s)
  BY DEF Peace
<1>3. /\ ~RequestFault(q) /\ ~DropRequest(q)
      /\ \A s \in Scans : ~CancelRead(q, s)
  BY <1>1, SpendCounts DEF RequestFault, DropRequest, CancelRead, Quiet, Never,
                           Disturbances, TypeOK
<1>4. run' = run
  BY <1>1, RequestMoves
<1>5. ASSUME NEW s \in Scans
      PROVE  \/ status'[s] = status[s]
             \/ /\ status[s] = "ABSENT" /\ status'[s] = "QUEUED"
                /\ StartCreate(q) /\ req[q].scan = s
  BY <1>1, <1>2, RequestRow DEF Courteous
<1>6. \/ \E s \in Scans : StartFind(q, s)
      \/ StartCreate(q) \/ StartAnnounce(q) \/ StartEnqueue(q) \/ StartAnnotate(q)
  BY <1>2, <1>3
     DEF RequestAction, RequestStep, Courteous, StartReject, CancelRemove, CancelMark,
         CancelNotify
<1>7. \A p \in Requests \ {q} : req'[p] = req[p]
  BY <1>1, RequestMoves
<1>8. req'[q].pc \in {"idle", "create", "announce", "enqueue", "annotate"}
  BY <1>1, <1>6
     DEF StartFind, StartCreate, StartAnnounce, StartEnqueue, StartAnnotate,
         SetRequest, EndRequest, Idle, TypeOK
<1>9. ASSUME NEW p \in Requests, req'[p].pc = "announce"
      PROVE  status'[req'[p].scan] = "QUEUED"
  <2>1. CASE p = q
    <3>1. StartCreate(q) /\ SetRequest(q, "announce", req[q].scan)
      BY <1>1, <1>6, <1>9, <2>1
         DEF StartFind, StartCreate, StartAnnounce, StartEnqueue, StartAnnotate,
             SetRequest, EndRequest, Idle, TypeOK
    <3>2. req[q].scan \in Scans /\ req'[q].scan = req[q].scan
      BY <1>1, <3>1 DEF StartCreate, SetRequest, Birth, CreatesUnborn, TypeOK
    <3>3. ~EndRequest(q)
      BY <1>1, <1>9, <2>1 DEF EndRequest, Idle, TypeOK
    <3> QED BY <1>1, <2>1, <3>1, <3>2, <3>3 DEF StartCreate, TypeOK
  <2>2. CASE p # q
    <3>1. req'[p] = req[p] /\ req[p].pc = "announce" /\ req[p].scan \in Scans
      BY <1>1, <1>7, <1>9, <2>2 DEF Announced
    <3>2. status[req[p].scan] = "QUEUED"
      BY <1>2, <3>1 DEF Courteous
    <3> QED BY <1>5, <3>1, <3>2
  <2> QED BY <2>1, <2>2
<1>10. Courteous'
  BY <1>2, <1>7, <1>8, <1>9 DEF Courteous
<1>11. ASSUME NEW s \in Scans
       PROVE  job'[s].state # "removed" /\ status'[s] # "CANCELLED"
  <2>1. req[q].pc # "remove"
    BY <1>2 DEF Courteous
  <2>2. req[q] # [pc |-> "remove", scan |-> s]
    BY <2>1
  <2>3. job'[s] = job[s] \/ job'[s].state = "waiting"
    BY <1>1, <2>2, RequestMoves, ZenonT(30)
  <2>4. status'[s] # "CANCELLED"
    BY <1>2, <1>5
  <2> QED BY <1>2, <2>3, <2>4
<1>12. ASSUME NEW r \in Runs
       PROVE  Sound(r)'
  <2>1. CASE run[r] = Free
    BY <1>4, <2>1 DEF Sound, Midway, Past, Free
  <2>2. CASE run[r].scan \in Scans
    <3>1. status[run[r].scan] # "ABSENT"
      BY <1>1, <2>2 DEF Birth, Unborn
    <3>2. status'[run[r].scan] = status[run[r].scan]
      BY <1>5, <2>2, <3>1
    <3> QED BY <1>2, <1>4, <3>2 DEF Sound, Midway, Past
  <2> QED BY <1>2, <2>1, <2>2 DEF Sound
<1>13. ASSUME NEW s \in Scans
       PROVE  Told(s)'
  <2>1. cache'[s] = cache[s] \/ status[s] = "QUEUED"
    BY <1>1, <1>2, <1>6
       DEF StartFind, StartCreate, StartAnnounce, StartEnqueue, StartAnnotate, Courteous,
           TypeOK
  <2> QED BY <1>2, <1>4, <1>5, <2>1 DEF Told, Owes, Past, Terminal
<1> QED BY <1>10, <1>11, <1>12, <1>13

\* An execution disturbs no scan but its own.
LEMMA ExecutionPeace ==
  ASSUME Peace, Quiet, Next, Quiet', NEW r \in Runs, ExecutionAction(r)
  PROVE  /\ Courteous'
         /\ \A s \in Scans : job'[s].state # "removed" /\ status'[s] # "CANCELLED"
         /\ \A x \in Runs : Sound(x)'
         /\ \A s \in Scans : Told(s)'
<1>1. Typed /\ TypeOK /\ Birth /\ Announced
  BY DEF Peace, Exclusion, Birth, Typed
<1>2. /\ Courteous
      /\ \A s \in Scans : job[s].state # "removed" /\ status[s] # "CANCELLED"
      /\ \A x \in Runs : Sound(x)
      /\ \A s \in Scans : Told(s)
  BY DEF Peace
<1>3. /\ req' = req
      /\ \A x \in Runs \ {r} : run'[x] = run[x]
      /\ \A s \in Scans : s # run[r].scan =>
           status'[s] = status[s] /\ job'[s] = job[s]
  BY <1>1, ExecutionStep DEF ExecutionAction
<1>4. \A s \in Scans : s # run[r].scan => cache'[s] = cache[s]
  BY <1>1, ExecutionSnapshot
<1>5. run[r].scan \in Scans
  <2>1. run[r].op # "idle" \/ run[r].handler # "idle"
    BY DEF ExecutionAction, OperationStep, Gate, Poll, Mark, Work, AtWork, Interrupt,
           Report, CacheProgress, Tick, Complete, Verify, Return, Unwind, WorkFails,
           OperationFault, AtStep, HandlerStep, FailRead, FailMark, FailCache, Resolve,
           Rethrow, HandlerFault, Timeout
  <2>2. run[r] # Free
    BY <2>1 DEF Free
  <2> QED BY <1>2, <2>2 DEF Sound
<1>6. \A x \in Runs : run[x].scan = run[r].scan => x = r
  BY <1>5, QuietCalm, Sole DEF Peace, Calm
<1>7. Courteous'
  <2>1. ASSUME NEW q \in Requests, req[q].pc = "announce"
        PROVE  req[q].scan \in Scans /\ req[q].scan # run[r].scan
    BY <1>1, <2>1 DEF Announced
  <2> QED BY <1>2, <1>3, <2>1 DEF Courteous
<1>8. ASSUME NEW s \in Scans, run[r].scan = s
      PROVE  Sound(r)' /\ Told(s)' /\ status'[s] # "CANCELLED"
  BY <1>8, OwnPeace
<1>9. ASSUME NEW s \in Scans
      PROVE  job'[s].state # "removed"
  <2>1. CASE UNCHANGED job
    BY <1>2, <2>1
  <2>2. CASE Resolve(r) \/ Rethrow(r)
    BY <1>1, <1>2, <2>2, Released
  <2>3. CASE Timeout(r)
    BY <1>2, <2>3 DEF Timeout
  <2> QED BY <1>1, <2>1, <2>2, <2>3, ExecutionMoves
<1>10. ASSUME NEW x \in Runs, x # r
       PROVE  Sound(x)'
  <2>1. run'[x] = run[x]
    BY <1>3, <1>10
  <2>2. CASE run[x] = Free
    BY <2>1, <2>2 DEF Sound, Midway, Past, Free
  <2>3. CASE run[x].scan \in Scans
    <3>1. status'[run[x].scan] = status[run[x].scan]
      BY <1>3, <1>6, <1>10, <2>3
    <3> QED BY <1>2, <2>1, <3>1 DEF Sound, Midway, Past
  <2> QED BY <1>2, <2>2, <2>3 DEF Sound
<1>11. ASSUME NEW s \in Scans, s # run[r].scan
       PROVE  Told(s)'
  <2>1. status'[s] = status[s] /\ cache'[s] = cache[s]
    BY <1>3, <1>4, <1>11
  <2>2. ASSUME NEW x \in Runs, Owes(x, s) PROVE Owes(x, s)'
    <3>1. run'[x] = run[x]
      BY <1>3, <1>11, <2>2 DEF Owes
    <3> QED BY <2>2, <3>1 DEF Owes, Past
  <2> QED BY <1>2, <2>1, <2>2 DEF Told
<1>12. \A s \in Scans : status'[s] # "CANCELLED" /\ Told(s)'
  BY <1>2, <1>3, <1>8, <1>11
<1>13. \A x \in Runs : Sound(x)'
  BY <1>5, <1>8, <1>10
<1> QED BY <1>7, <1>9, <1>12, <1>13

\* The queue hands out fresh executions.
LEMMA QueuePeace ==
  ASSUME Peace, Quiet, Next, Quiet', QueueAction
  PROVE  /\ Courteous'
         /\ \A s \in Scans : job'[s].state # "removed" /\ status'[s] # "CANCELLED"
         /\ \A r \in Runs : Sound(r)'
         /\ \A s \in Scans : Told(s)'
<1>1. Typed /\ TypeOK
  BY DEF Peace, Exclusion, Birth, Typed
<1>2. /\ Courteous
      /\ \A s \in Scans : job[s].state # "removed" /\ status[s] # "CANCELLED"
      /\ \A x \in Runs : Sound(x)
      /\ \A s \in Scans : Told(s)
  BY DEF Peace
<1>3. UNCHANGED <<status, cache, req>>
  BY QueueRow DEF rowVars
<1>4. Courteous'
  BY <1>2, <1>3 DEF Courteous
<1>5. ASSUME NEW x \in Runs, run'[x] = run[x]
      PROVE  Sound(x)' /\ \A s \in Scans : Owes(x, s) => Owes(x, s)'
  BY <1>2, <1>3, <1>5 DEF Sound, Midway, Past, Owes
<1>6. CASE \E r \in Runs, w \in Workers, y \in Scans : PickUp(r, w, y)
  <2>1. PICK r \in Runs, w \in Workers, y \in Scans : PickUp(r, w, y)
    BY <1>6
  <2>2. run' = [run EXCEPT ![r] = Begin(y, w)] /\ run[r] = Free
    BY <2>1 DEF PickUp, Update, Begin
  <2>3. /\ run'[r] = Begin(y, w)
        /\ \A x \in Runs \ {r} : run'[x] = run[x]
    BY <1>1, <2>2 DEF TypeOK
  <2>4. Sound(r)'
    BY <2>3, NothingBefore DEF Begin, Sound, Midway, Past
  <2>5. \A s \in Scans : ~Owes(r, s)
    BY <2>2, IdentifierAssumption DEF Owes, Free
  <2>6. \A s \in Scans : Told(s)'
    BY <1>2, <1>3, <1>5, <2>3, <2>5 DEF Told
  <2>7. \A s \in Scans : job'[s].state # "removed"
    BY <1>1, <1>2, <2>1 DEF PickUp, TypeOK, Jobs
  <2> QED BY <1>2, <1>3, <1>4, <1>5, <2>3, <2>4, <2>6, <2>7
<1>7. CASE \E y \in Scans : StallDead(y)
  <2>1. run' = run
    BY <1>7 DEF StallDead
  <2>2. \A s \in Scans : job'[s].state # "removed"
    BY <1>1, <1>2, <1>7 DEF StallDead, Expire, TypeOK, Jobs
  <2>3. \A s \in Scans : Told(s)'
    BY <1>2, <1>3, <1>5, <2>1 DEF Told
  <2> QED BY <1>2, <1>3, <1>4, <1>5, <2>1, <2>2, <2>3
<1>8. /\ \A y \in Scans : ~StallSlow(y)
      /\ \A w \in Workers : ~Crash(w)
  BY <1>1, SpendCounts DEF StallSlow, Crash, Quiet, Never, Disturbances, TypeOK
<1> QED BY <1>6, <1>7, <1>8 DEF QueueAction

\* Peace is inductive.
LEMMA NextPeace == Peace /\ [Next]_vars => Peace'
<1> SUFFICES ASSUME Peace, [Next]_vars PROVE Peace'
  OBVIOUS
<1>1. Exclusion'
  BY NextExclusion DEF Peace
<1>2. CASE UNCHANGED vars
  BY <1>1, <1>2
     DEF vars, Peace, Quiet, Never, Courteous, Sound, Midway, Past, Told, Owes
<1>3. CASE Next
  <2>1. Quiet' => Quiet
    <3>1. Typed
      BY DEF Peace, Exclusion, Birth
    <3> QED BY <1>3, <3>1, NeverBefore DEF Quiet, Disturbances
  <2> QED BY <1>1, <1>3, <2>1, NextActions, RequestPeace, ExecutionPeace, QueuePeace
          DEF Peace
<1> QED BY <1>2, <1>3

\* While no call rejects and nothing is cancelled, times out or dies, the Redis
\* snapshot of a scan that has ended tells of the same end as its row, however
\* often the steps of runRepositoryScan fail and its job is retried.
THEOREM SnapshotTrue == Spec => []SnapshotAgrees
<1>1. Spec => []Peace
  BY InitPeace, NextPeace, PTL DEF Spec
<1>2. Peace => SnapshotAgrees
  BY DEF Peace, Quiet, Told, Owes, SnapshotAgrees
<1> QED BY <1>1, <1>2, PTL
=============================================================================
