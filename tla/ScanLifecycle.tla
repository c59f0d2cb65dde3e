--------------------------- MODULE ScanLifecycle ---------------------------
(***************************************************************************)
(* The life of repository scans: the HTTP requests that start and cancel   *)
(* them, the BullMQ job of each scan, the worker processes that run the    *)
(* job, and the two records a client reads, the ScanJob row in PostgreSQL  *)
(* and the progress snapshot in Redis.                                     *)
(*                                                                         *)
(* Every awaited database, Redis or queue call is one action, so any two   *)
(* of them interleave.  A worker's run is in two halves: the scan          *)
(* operation (runRepositoryScan), which walks through Script, and the      *)
(* processor's handler, which awaits it.  A timeout detaches the handler;  *)
(* the operation goes on until it notices the abort signal.                *)
(***************************************************************************)
EXTENDS Integers, Sequences, FiniteSets

CONSTANTS
  Scans, Repos, RepoOf,   \* scan identifiers and the repository of each
  Workers, Runs,          \* worker processes; executions of the processor
  Requests,               \* HTTP requests in flight at once
  Script,                 \* the steps of one scan operation
  MaxAttempts,            \* SCAN_JOB_ATTEMPTS of the queue
  MaxStalls,              \* BullMQ's maxStalledCount
  Limit,                  \* how often each disturbance may happen
  NoScan, NoRun, NoWorker

StepKinds == {"gate", "mark", "poll", "work", "watch", "report", "cache",
              "tick", "complete", "verify"}
Disturbances == {"failure", "fault", "timeout", "slow", "crash", "drop",
                 "cancel"}

ASSUME IdentifierAssumption ==
  /\ NoScan \notin Scans
  /\ NoRun \notin Runs
  /\ NoWorker \notin Workers
  /\ RepoOf \in [Scans -> Repos]
ASSUME ScriptAssumption ==
  /\ Script \in Seq([kind : StepKinds, pct : 0..100])
  /\ \A i \in 1..Len(Script) : Script[i].kind = "mark" =>
       i > 1 /\ Script[i - 1].kind = "gate"

\* A step of this kind comes before step i.
Before(i, kind) == \E j \in 1..(i - 1) : Script[j].kind = kind

\* Nothing is reported before markRunning; what follows the completion only
\* tells of it; the percentages rise.
ASSUME OrderAssumption ==
  /\ \A i \in 1..Len(Script) :
       /\ Script[i].kind \in {"report", "cache", "complete"} => Before(i, "mark")
       /\ Before(i, "complete") =>
            /\ Script[i].kind \in {"verify", "report", "cache", "tick"}
            /\ Script[i].kind \in {"report", "cache"} => Script[i].pct = 100
       /\ Script[i].kind = "verify" => Before(i, "complete")
       /\ Script[i].kind = "complete" =>
            \E j \in (i + 1)..Len(Script) : Script[j].kind = "cache"
       /\ \A j \in 1..(i - 1) :
            Script[i].kind = "report" /\ Script[j].kind = "report" =>
              Script[j].pct <= Script[i].pct
  /\ \E i \in 1..Len(Script) : Script[i].kind = "verify"

ASSUME BoundAssumption ==
  /\ MaxAttempts \in Nat \ {0}
  /\ MaxStalls \in Nat
  /\ Limit \in [Disturbances -> Nat]

VARIABLES
  status,     \* ScanJob.status
  progress,   \* ScanJob.progress
  cache,      \* the stage of the Redis progress snapshot
  job,        \* the BullMQ job whose id is the scan's
  run,        \* executions of RepositoryScanProcessor.process
  req,        \* requests inside ScannerService
  used        \* disturbances that have happened

rowVars == <<status, progress>>
vars == <<status, progress, cache, job, run, req, used>>

-----------------------------------------------------------------------------
(* The script of runRepositoryScan                                         *)

Do(kind) == <<[kind |-> kind, pct |-> 0]>>

\* updateProgress: the row, then Redis, then the job.
Progress(p) == <<[kind |-> "report", pct |-> p],
                 [kind |-> "cache", pct |-> p],
                 [kind |-> "tick", pct |-> p]>>

\* handleEngineProgress: a poll for cancellation, then updateProgress.
EngineProgress(p) == Do("poll") \o Progress(p)

\* analyzeRepository: discovery, the extraction of (two) files, the store.
AnalyzeRepository == Do("watch") \o EngineProgress(30)
                       \o Do("work") \o EngineProgress(40)
                       \o Do("work") \o EngineProgress(50) \o Do("work")

\* discoverApis: sources, routes, metadata, the stored APIs, their versions.
DiscoverApis == Do("work") \o Do("work") \o EngineProgress(75)
                  \o Do("work") \o Do("work") \o EngineProgress(90)
                  \o Do("work") \o EngineProgress(95)

CompleteScan == Do("complete") \o Do("verify") \o Progress(100)

RunRepositoryScan ==
  Do("gate") \o Do("mark") \o Progress(10) \o Do("gate")
    \o Progress(15) \o Do("watch") \o Do("gate")
    \o Do("watch") \o Progress(20) \o Do("gate")
    \o AnalyzeRepository \o Do("gate")
    \o DiscoverApis \o Do("gate")
    \o CompleteScan

-----------------------------------------------------------------------------
(* States                                                                  *)

Active == {"QUEUED", "RUNNING"}
Terminal == {"COMPLETED", "FAILED", "CANCELLED"}
Statuses == {"ABSENT"} \cup Active \cup Terminal
Stages == {"none", "Queued", "Working", "Completed", "FAILED", "CANCELLED"}

Jobs == [state : {"absent", "waiting", "active", "completed", "failed",
                  "removed"},
         attempts : 0..MaxAttempts,
         stalls : 0..MaxStalls,
         owner : Runs \cup {NoRun}]

Executions ==
  [scan : Scans \cup {NoScan},
   worker : Workers \cup {NoWorker},
   op : {"idle", "running", "unwinding", "ended"},
   at : 0..(Len(Script) + 1),
   aborted : BOOLEAN,
   outcome : {"none", "value", "cancelled", "failed"},
   handler : {"idle", "await", "resolve", "failRead", "failMark",
              "failCache", "rethrow", "settled"},
   cause : {"none", "cancelled", "failed"}]

Calls == [pc : {"idle", "create", "announce", "enqueue", "annotate", "reject",
                "remove", "cancel", "notify"},
          scan : Scans \cup {NoScan}]

NoJob == [state |-> "absent", attempts |-> 0, stalls |-> 0, owner |-> NoRun]

Free == [scan |-> NoScan, worker |-> NoWorker, op |-> "idle", at |-> 0,
         aborted |-> FALSE, outcome |-> "none", handler |-> "idle",
         cause |-> "none"]

Begin(s, w) == [scan |-> s, worker |-> w, op |-> "running", at |-> 1,
                aborted |-> FALSE, outcome |-> "none", handler |-> "await",
                cause |-> "none"]

Idle == [pc |-> "idle", scan |-> NoScan]

Init ==
  /\ status = [s \in Scans |-> "ABSENT"]
  /\ progress = [s \in Scans |-> 0]
  /\ cache = [s \in Scans |-> "none"]
  /\ job = [s \in Scans |-> NoJob]
  /\ run = [r \in Runs |-> Free]
  /\ req = [q \in Requests |-> Idle]
  /\ used = [d \in Disturbances |-> 0]

Spend(d) ==
  /\ used[d] < Limit[d]
  /\ used' = [used EXCEPT ![d] = @ + 1]

\* Slip: the index is not there.
NoIndex(s) == TRUE

\* The partial unique index on (repositoryId) WHERE status is active.
IndexAdmits(s) ==
  \A t \in Scans \ {s} : RepoOf[t] = RepoOf[s] => status[t] \notin Active

-----------------------------------------------------------------------------
(* POST /repositories/:id/scans: startRepositoryScan                       *)

SetRequest(q, pc, s) == req' = [req EXCEPT ![q] = [pc |-> pc, scan |-> s]]
EndRequest(q) == req' = [req EXCEPT ![q] = Idle]

\* No active scan was found; s is the identifier the new row will get.
StartFind(q, s) ==
  /\ req[q].pc = "idle"
  /\ status[s] = "ABSENT"
  /\ \A p \in Requests : req[p].scan # s
  /\ \A t \in Scans : RepoOf[t] = RepoOf[s] => status[t] \notin Active
  /\ SetRequest(q, "create", s)
  /\ UNCHANGED <<rowVars, cache, job, run, used>>

\* A row created meanwhile by another request is the answer of this one.
StartCreate(q) ==
  LET s == req[q].scan IN
  /\ req[q].pc = "create"
  /\ \/ /\ IndexAdmits(s)
        /\ status' = [status EXCEPT ![s] = "QUEUED"]
        /\ progress' = [progress EXCEPT ![s] = 0]
        /\ SetRequest(q, "announce", s)
     \/ /\ ~IndexAdmits(s)
        /\ EndRequest(q)
        /\ UNCHANGED rowVars
  /\ UNCHANGED <<cache, job, run, used>>

StartAnnounce(q) ==
  /\ req[q].pc = "announce"
  /\ cache' = [cache EXCEPT ![req[q].scan] = "Queued"]
  /\ SetRequest(q, "enqueue", req[q].scan)
  /\ UNCHANGED <<rowVars, job, run, used>>

StartEnqueue(q) ==
  /\ req[q].pc = "enqueue"
  /\ job' = [job EXCEPT ![req[q].scan] = [NoJob EXCEPT !.state = "waiting"]]
  /\ SetRequest(q, "annotate", req[q].scan)
  /\ UNCHANGED <<rowVars, cache, run, used>>

StartAnnotate(q) ==
  /\ req[q].pc = "annotate"
  /\ EndRequest(q)
  /\ UNCHANGED <<rowVars, cache, job, run, used>>

\* The catch block: markFailed, whatever the row says by now.
StartReject(q) ==
  /\ req[q].pc = "reject"
  /\ status' = [status EXCEPT ![req[q].scan] = "FAILED"]
  /\ EndRequest(q)
  /\ UNCHANGED <<progress, cache, job, run, used>>

-----------------------------------------------------------------------------
(* POST /scans/:id/cancel: cancelScan                                      *)

\* A terminal scan is answered as it is.
CancelRead(q, s) ==
  /\ req[q].pc = "idle"
  /\ status[s] \in Active
  /\ Spend("cancel")
  /\ SetRequest(q, "remove", s)
  /\ UNCHANGED <<rowVars, cache, job, run>>

\* BullMQ refuses to remove a job a worker holds; the refusal is swallowed.
CancelRemove(q) ==
  LET s == req[q].scan IN
  /\ req[q].pc = "remove"
  /\ job' = IF job[s].state \in {"waiting", "completed", "failed"}
            THEN [job EXCEPT ![s].state = "removed"] ELSE job
  /\ SetRequest(q, "cancel", s)
  /\ UNCHANGED <<rowVars, cache, run, used>>

CancelMark(q) ==
  /\ req[q].pc = "cancel"
  /\ status' = [status EXCEPT ![req[q].scan] = "CANCELLED"]
  /\ SetRequest(q, "notify", req[q].scan)
  /\ UNCHANGED <<progress, cache, job, run, used>>

CancelNotify(q) ==
  /\ req[q].pc = "notify"
  /\ cache' = [cache EXCEPT ![req[q].scan] = "CANCELLED"]
  /\ EndRequest(q)
  /\ UNCHANGED <<rowVars, job, run, used>>

\* A database, Redis or queue call of the request rejects.
RequestFault(q) ==
  /\ req[q].pc # "idle"
  /\ Spend("fault")
  /\ CASE req[q].pc \in {"enqueue", "annotate"} ->
            SetRequest(q, "reject", req[q].scan)
       [] req[q].pc = "remove" -> SetRequest(q, "cancel", req[q].scan)
       [] OTHER -> EndRequest(q)
  /\ UNCHANGED <<rowVars, cache, job, run>>

\* The API process dies under the request.
DropRequest(q) ==
  /\ req[q].pc # "idle"
  /\ Spend("drop")
  /\ EndRequest(q)
  /\ UNCHANGED <<rowVars, cache, job, run>>

-----------------------------------------------------------------------------
(* The scan operation: runRepositoryScan in the worker                     *)

\* An execution is over when its operation and its handler both are.
Update(r, e) ==
  run' = [run EXCEPT ![r] =
            IF e.op = "ended" /\ e.handler = "settled" THEN Free ELSE e]

\* The next await of the operation is one of this kind.
AtStep(r, kind) ==
  /\ run[r].op = "running"
  /\ run[r].at \in 1..Len(Script)
  /\ Script[run[r].at].kind = kind

Proceed(r) == Update(r, [run[r] EXCEPT !.at = @ + 1])

\* Slip: the handler does not wait for the finally block.
ThrowUnawaited(r, error) ==
  Update(r, [run[r] EXCEPT !.op = "unwinding", !.outcome = error,
                           !.handler = "failRead", !.cause = error])

Throw(r, error) ==
  Update(r, [run[r] EXCEPT !.op = "unwinding", !.outcome = error])

\* Its lock token goes to the execution that takes the job.  A worker has
\* one job at a time, but an operation a timeout detached may still be there.
PickUp(r, w, s) ==
  /\ job[s].state = "waiting"
  /\ run[r] = Free
  /\ \A x \in Runs : run[x].worker = w => run[x].handler = "settled"
  /\ job' = [job EXCEPT ![s].state = "active", ![s].owner = r]
  /\ Update(r, Begin(s, w))
  /\ UNCHANGED <<rowVars, cache, req, used>>

\* assertScannerNotAborted, then assertNotCancelled.
Gate(r) ==
  /\ AtStep(r, "gate")
  /\ IF run[r].aborted THEN Throw(r, "failed")
     ELSE IF status[run[r].scan] = "CANCELLED" THEN Throw(r, "cancelled")
     ELSE Proceed(r)
  /\ UNCHANGED <<rowVars, cache, job, req, used>>

\* assertNotCancelled alone.
Poll(r) ==
  /\ AtStep(r, "poll")
  /\ IF status[run[r].scan] = "CANCELLED" THEN Throw(r, "cancelled")
     ELSE Proceed(r)
  /\ UNCHANGED <<rowVars, cache, job, req, used>>

\* markRunning overwrites any status; the index can refuse it.
Mark(r) ==
  LET s == run[r].scan IN
  /\ AtStep(r, "mark")
  /\ \/ /\ IndexAdmits(s)
        /\ status' = [status EXCEPT ![s] = "RUNNING"]
        /\ Proceed(r)
     \/ /\ ~IndexAdmits(s)
        /\ Throw(r, "failed")
        /\ UNCHANGED status
  /\ UNCHANGED <<progress, cache, job, req, used>>

AtWork(r) == AtStep(r, "work") \/ AtStep(r, "watch")

\* Materialising, parsing and storing begin with assertScannerNotAborted ...
Work(r) ==
  /\ AtWork(r)
  /\ IF run[r].aborted THEN Throw(r, "failed") ELSE Proceed(r)
  /\ UNCHANGED <<rowVars, cache, job, req, used>>

\* ... and what watches the signal (cloning, copying, file discovery) stops
\* when it fires on the way.
Interrupt(r) ==
  /\ run[r].op = "running"
  /\ run[r].aborted
  /\ run[r].at \in 2..(Len(Script) + 1)
  /\ Script[run[r].at - 1].kind = "watch"
  /\ Throw(r, "failed")
  /\ UNCHANGED <<rowVars, cache, job, req, used>>

WorkFails(r) ==
  /\ AtWork(r)
  /\ Spend("failure")
  /\ Throw(r, "failed")
  /\ UNCHANGED <<rowVars, cache, job, req>>

Report(r) ==
  /\ AtStep(r, "report")
  /\ progress' = [progress EXCEPT ![run[r].scan] = Script[run[r].at].pct]
  /\ Proceed(r)
  /\ UNCHANGED <<status, cache, job, req, used>>

CacheProgress(r) ==
  /\ AtStep(r, "cache")
  /\ cache' = [cache EXCEPT ![run[r].scan] =
                 IF Script[run[r].at].pct = 100 THEN "Completed" ELSE "Working"]
  /\ Proceed(r)
  /\ UNCHANGED <<rowVars, job, req, used>>

\* job.updateProgress rejects when the job is gone.
Tick(r) ==
  /\ AtStep(r, "tick")
  /\ IF job[run[r].scan].state = "removed" THEN Throw(r, "failed")
     ELSE Proceed(r)
  /\ UNCHANGED <<rowVars, cache, job, req, used>>

\* Slip: the update forgets the progress column.
CompleteStatusOnly(r) ==
  /\ AtStep(r, "complete")
  /\ status' = IF status[run[r].scan] = "RUNNING"
               THEN [status EXCEPT ![run[r].scan] = "COMPLETED"] ELSE status
  /\ Proceed(r)
  /\ UNCHANGED <<progress, cache, job, req, used>>

\* Slip: markCompleted, the update without the condition on the status.
CompleteAlways(r) ==
  /\ AtStep(r, "complete")
  /\ status' = [status EXCEPT ![run[r].scan] = "COMPLETED"]
  /\ progress' = [progress EXCEPT ![run[r].scan] = 100]
  /\ Proceed(r)
  /\ UNCHANGED <<cache, job, req, used>>

\* markCompletedIfRunning: the conditional update ...
Complete(r) ==
  LET s == run[r].scan IN
  /\ AtStep(r, "complete")
  /\ IF status[s] = "RUNNING"
     THEN /\ status' = [status EXCEPT ![s] = "COMPLETED"]
          /\ progress' = [progress EXCEPT ![s] = 100]
     ELSE UNCHANGED rowVars
  /\ Proceed(r)
  /\ UNCHANGED <<cache, job, req, used>>

\* ... and the separate read that decides whether it took effect.
Verify(r) ==
  /\ AtStep(r, "verify")
  /\ IF status[run[r].scan] = "COMPLETED" THEN Proceed(r)
     ELSE Throw(r, "failed")
  /\ UNCHANGED <<rowVars, cache, job, req, used>>

\* A database, Redis or queue call of the operation rejects.
OperationFault(r) ==
  /\ run[r].op = "running"
  /\ run[r].at \in 1..Len(Script)
  /\ Spend("fault")
  /\ Throw(r, "failed")
  /\ UNCHANGED <<rowVars, cache, job, req>>

Return(r) ==
  /\ run[r].op = "running"
  /\ run[r].at = Len(Script) + 1
  /\ Update(r, [run[r] EXCEPT !.op = "unwinding", !.outcome = "value"])
  /\ UNCHANGED <<rowVars, cache, job, req, used>>

\* The finally block is done and the promise settles; a handler that still
\* awaits it takes the outcome.
Unwind(r) ==
  LET e == [run[r] EXCEPT !.op = "ended"] IN
  /\ run[r].op = "unwinding"
  /\ Update(r, IF e.handler # "await" THEN e
               ELSE IF e.outcome = "value" THEN [e EXCEPT !.handler = "resolve"]
               ELSE [e EXCEPT !.handler = "failRead", !.cause = e.outcome])
  /\ UNCHANGED <<rowVars, cache, job, req, used>>

-----------------------------------------------------------------------------
(* The handler: process and failRepositoryScan                             *)

SetHandler(r, h) == Update(r, [run[r] EXCEPT !.handler = h])

\* withTimeout: abort the operation and stop waiting for it.
Timeout(r) ==
  /\ run[r].handler = "await"
  /\ Spend("timeout")
  /\ Update(r, [run[r] EXCEPT !.aborted = TRUE, !.handler = "failRead",
                              !.cause = "failed"])
  /\ UNCHANGED <<rowVars, cache, job, req>>

\* Slip: failRepositoryScan without its early return.
FailReadBlind(r) ==
  /\ run[r].handler = "failRead"
  /\ SetHandler(r, "failMark")
  /\ UNCHANGED <<rowVars, cache, job, req, used>>

\* Slip: failRepositoryScan knows cancellations only.
FailReadCancelled(r) ==
  /\ run[r].handler = "failRead"
  /\ SetHandler(r, IF \/ status[run[r].scan] \in Terminal
                      \/ run[r].cause # "cancelled"
                   THEN "rethrow" ELSE "failMark")
  /\ UNCHANGED <<rowVars, cache, job, req, used>>

FailRead(r) ==
  /\ run[r].handler = "failRead"
  /\ SetHandler(r, IF status[run[r].scan] \in Terminal THEN "rethrow"
                   ELSE "failMark")
  /\ UNCHANGED <<rowVars, cache, job, req, used>>

Verdict(r) == IF run[r].cause = "cancelled" THEN "CANCELLED" ELSE "FAILED"

\* Slip: markFailed resets the progress.
FailMarkResets(r) ==
  /\ run[r].handler = "failMark"
  /\ status' = [status EXCEPT ![run[r].scan] = Verdict(r)]
  /\ progress' = [progress EXCEPT ![run[r].scan] = 0]
  /\ SetHandler(r, "failCache")
  /\ UNCHANGED <<cache, job, req, used>>

FailMark(r) ==
  /\ run[r].handler = "failMark"
  /\ status' = [status EXCEPT ![run[r].scan] = Verdict(r)]
  /\ SetHandler(r, "failCache")
  /\ UNCHANGED <<progress, cache, job, req, used>>

\* Slip: the failure never reaches Redis.
FailCacheSkipped(r) ==
  /\ run[r].handler = "failCache"
  /\ SetHandler(r, "rethrow")
  /\ UNCHANGED <<rowVars, cache, job, req, used>>

FailCache(r) ==
  /\ run[r].handler = "failCache"
  /\ cache' = [cache EXCEPT ![run[r].scan] = Verdict(r)]
  /\ SetHandler(r, "rethrow")
  /\ UNCHANGED <<rowVars, job, req, used>>

HandlerFault(r) ==
  /\ run[r].handler \in {"failRead", "failMark", "failCache"}
  /\ Spend("fault")
  /\ SetHandler(r, "rethrow")
  /\ UNCHANGED <<rowVars, cache, job, req>>

-----------------------------------------------------------------------------
(* The queue: what BullMQ does with the job                                *)

Holds(r, s) == job[s].state = "active" /\ job[s].owner = r

\* The processor returned: the job completes if its lock is still held.
Resolve(r) ==
  LET s == run[r].scan IN
  /\ run[r].handler = "resolve"
  /\ job' = IF Holds(r, s)
            THEN [job EXCEPT ![s].state = "completed", ![s].owner = NoRun]
            ELSE job
  /\ SetHandler(r, "settled")
  /\ UNCHANGED <<rowVars, cache, req, used>>

\* Slip: one attempt too many.
RethrowPastLimit(r) ==
  LET s == run[r].scan
      n == job[s].attempts + 1 IN
  /\ run[r].handler = "rethrow"
  /\ job' = IF Holds(r, s)
            THEN [job EXCEPT ![s].attempts = n, ![s].owner = NoRun,
                    ![s].state = IF n <= MaxAttempts THEN "waiting" ELSE "failed"]
            ELSE job
  /\ SetHandler(r, "settled")
  /\ UNCHANGED <<rowVars, cache, req, used>>

\* Slip: the attempts are not counted.
RethrowForever(r) ==
  LET s == run[r].scan IN
  /\ run[r].handler = "rethrow"
  /\ job' = IF Holds(r, s)
            THEN [job EXCEPT ![s].state = "waiting", ![s].owner = NoRun]
            ELSE job
  /\ SetHandler(r, "settled")
  /\ UNCHANGED <<rowVars, cache, req, used>>

\* The processor threw: the job waits for its next attempt or has failed.
Rethrow(r) ==
  LET s == run[r].scan
      n == job[s].attempts + 1 IN
  /\ run[r].handler = "rethrow"
  /\ job' = IF Holds(r, s)
            THEN [job EXCEPT ![s].attempts = n, ![s].owner = NoRun,
                    ![s].state = IF n < MaxAttempts THEN "waiting" ELSE "failed"]
            ELSE job
  /\ SetHandler(r, "settled")
  /\ UNCHANGED <<rowVars, cache, req, used>>

\* An expired lock returns the job to the queue, MaxStalls times; after that
\* the job fails without the processor being told.
Expire(s) ==
  job' = [job EXCEPT ![s].owner = NoRun,
            ![s].stalls = IF @ < MaxStalls THEN @ + 1 ELSE @,
            ![s].state = IF job[s].stalls < MaxStalls THEN "waiting" ELSE "failed"]

StallDead(s) ==
  /\ job[s].state = "active"
  /\ job[s].owner = NoRun
  /\ Expire(s)
  /\ UNCHANGED <<rowVars, cache, run, req, used>>

\* The lock of a live but slow worker expires: it knows nothing of it.
StallSlow(s) ==
  /\ job[s].state = "active"
  /\ job[s].owner # NoRun
  /\ Spend("slow")
  /\ Expire(s)
  /\ UNCHANGED <<rowVars, cache, run, req>>

\* A worker process dies with everything that runs in it, and is restarted.
Crash(w) ==
  /\ \E r \in Runs : run[r].worker = w
  /\ Spend("crash")
  /\ run' = [r \in Runs |-> IF run[r].worker = w THEN Free ELSE run[r]]
  /\ job' = [s \in Scans |->
               IF job[s].owner \in Runs /\ run[job[s].owner].worker = w
               THEN [job[s] EXCEPT !.owner = NoRun] ELSE job[s]]
  /\ UNCHANGED <<rowVars, cache, req>>

-----------------------------------------------------------------------------
(* The specification                                                       *)

RequestStep(q) ==
  \/ StartCreate(q) \/ StartAnnounce(q) \/ StartEnqueue(q)
  \/ StartAnnotate(q) \/ StartReject(q)
  \/ CancelRemove(q) \/ CancelMark(q) \/ CancelNotify(q)

OperationStep(r) ==
  \/ Gate(r) \/ Mark(r) \/ Poll(r) \/ Work(r) \/ Interrupt(r) \/ Report(r)
  \/ CacheProgress(r) \/ Tick(r) \/ Complete(r) \/ Verify(r) \/ Return(r) \/ Unwind(r)

HandlerStep(r) ==
  \/ FailRead(r) \/ FailMark(r) \/ FailCache(r) \/ Resolve(r) \/ Rethrow(r)

Next ==
  \/ \E q \in Requests : RequestStep(q) \/ RequestFault(q) \/ DropRequest(q)
  \/ \E q \in Requests, s \in Scans : StartFind(q, s) \/ CancelRead(q, s)
  \/ \E r \in Runs : \/ OperationStep(r) \/ HandlerStep(r)
                     \/ WorkFails(r) \/ OperationFault(r) \/ HandlerFault(r)
                     \/ Timeout(r)
  \/ \E r \in Runs, w \in Workers, s \in Scans : PickUp(r, w, s)
  \/ \E s \in Scans : StallDead(s) \/ StallSlow(s)
  \/ \E w \in Workers : Crash(w)

Spec == Init /\ [][Next]_vars

\* Promises that were awaited settle, and idle workers and the stalled-job
\* checker keep polling the queue.  Requests and disturbances are not forced.
Fairness ==
  /\ \A q \in Requests : WF_vars(RequestStep(q))
  /\ \A r \in Runs : WF_vars(OperationStep(r)) /\ WF_vars(HandlerStep(r))
  /\ \A s \in Scans :
       /\ SF_vars(\E r \in Runs, w \in Workers : PickUp(r, w, s))
       /\ WF_vars(StallDead(s))

FairSpec == Spec /\ Fairness

-----------------------------------------------------------------------------
(* Properties                                                              *)

\* Every variable keeps its type.
TypeOK ==
  /\ status \in [Scans -> Statuses]
  /\ progress \in [Scans -> 0..100]
  /\ cache \in [Scans -> Stages]
  /\ job \in [Scans -> Jobs]
  /\ run \in [Runs -> Executions]
  /\ req \in [Requests -> Calls]
  /\ used \in [Disturbances -> Nat]

\* A repository never has two queued or running scans, however requests,
\* retries and redeliveries of its scans overlap
\* (createQueuedScanOrGetActive, markRunning and the partial unique index).
OneActivePerRepository ==
  \A s, t \in Scans :
    s # t /\ RepoOf[s] = RepoOf[t] =>
      status[s] \notin Active \/ status[t] \notin Active

\* Whoever may still write the row of s on the strength of an old read: a
\* request that has created, queued or looked up the scan, an execution
\* between its gate and markRunning, a handler past its terminal check.
Writer(s) ==
  \/ \E q \in Requests :
       /\ req[q].scan = s
       /\ req[q].pc \in {"announce", "enqueue", "annotate", "reject",
                         "remove", "cancel"}
  \/ \E r \in Runs :
       /\ run[r].scan = s
       /\ AtStep(r, "mark") \/ run[r].handler = "failMark"

\* An attempt of the scan is due, or has not reached markRunning yet.
Attempt(s) ==
  \/ job[s].state \in {"waiting", "active"}
  \/ \E r \in Runs :
       /\ run[r].scan = s
       /\ run[r].op = "running"
       /\ \E i \in run[r].at..Len(Script) : Script[i].kind = "mark"

Settled(s) ==
  /\ status[s] \in Terminal
  /\ ~Writer(s)
  /\ status[s] = "CANCELLED" \/ ~Attempt(s)

\* A terminal status is final once nobody acts on an older read of the row:
\* a cancelled scan stays cancelled although its job may still be delivered
\* and retried, a completed or failed one once its job is dead.  Overlapping
\* executions, timeouts and crashes do not bring it back.
SettledIsFinal ==
  [][\A s \in Scans : Settled(s) => Settled(s)' /\ status'[s] = status[s]]_vars

Never(D) == \A d \in D : used[d] = 0

\* Somebody is still responsible for the scan.
Attended(s) ==
  \/ job[s].state \in {"waiting", "active"}
  \/ \E q \in Requests : req[q].scan = s /\ req[q].pc # "notify"
  \/ \E r \in Runs : run[r].scan = s

\* No infrastructure call rejects, no API process dies, no scan times out, and
\* lost locks stay within BullMQ's allowance; nor does a worker first lose its
\* lock, outlive the end of the job and only then die.
Spared ==
  /\ Never({"fault", "drop", "timeout"})
  /\ used["crash"] + used["slow"] <= MaxStalls
  /\ Never({"crash"}) \/ Never({"slow"})

\* A queued or running row, which blocks every later scan of its repository,
\* always has a request, a job or an execution that will settle it.
NoOrphanedScan ==
  Spared => \A s \in Scans : status[s] \in Active => Attended(s)

\* Two executions of one scan need a timeout or a lock lost by a live worker;
\* crashes, retries and cancellations alone never make them overlap.
ExclusiveExecution ==
  Never({"timeout", "slow"}) =>
    \A r, x \in Runs : run[r].scan = run[x].scan /\ run[r].scan # NoScan => r = x

\* A completed scan shows 100 percent: without overlap, no late progress
\* report falls on a row that markCompletedIfRunning has finished.
CompletedAtHundred ==
  Never({"timeout", "slow"}) =>
    \A s \in Scans : status[s] = "COMPLETED" => progress[s] = 100

FirstReport ==
  Script[CHOOSE i \in 1..Len(Script) :
           Script[i].kind = "report" /\ ~Before(i, "report")].pct

\* Progress falls only when a new attempt makes its first report.
ProgressNeverRegresses ==
  [][Never({"timeout", "slow"}) => \A s \in Scans :
       progress'[s] >= progress[s] \/ progress'[s] = FirstReport]_vars

\* When all is quiet, the Redis snapshot that getScanStatus returns tells of
\* the same end as the row next to it.
SnapshotAgrees ==
  Never({"fault", "drop", "timeout", "slow", "crash", "cancel"}) =>
    \A s \in Scans :
      /\ status[s] \in Terminal
      /\ ~Attempt(s)
      /\ \A r \in Runs : run[r].scan # s
      => cache[s] = IF status[s] = "COMPLETED" THEN "Completed" ELSE "FAILED"

\* What ENVIRONMENT_SETUP.md:477 says of a cancelled scan: it stops, so its row
\* is never taken up again.
CancelledScanStops ==
  [][\A s \in Scans : status[s] = "CANCELLED" => status'[s] = "CANCELLED"]_vars

\* Every scan comes to an end for good: a started scan is terminal from some
\* moment on, whatever the crashes, failures and cancellations on the way.
EveryScanSettles ==
  \A s \in Scans : status[s] \in Active ~> [](status[s] \in Terminal)

\* Every job leaves the queue: none is redelivered for ever.
QueueDrains ==
  \A s \in Scans : job[s].state = "waiting"
                    ~> [](job[s].state \notin {"waiting", "active"})

\* The lifecycle implements the contract of the status column: transitions are
\* legal, and a row that nobody has a hand on no longer moves.
hands ==
  [s \in Scans |-> {h \in {"attempt", "write"} :
                      IF h = "attempt" THEN Attempt(s) ELSE Writer(s)}]

C == INSTANCE ScanContract
       WITH Scans <- Scans, RepoOf <- RepoOf, status <- status, hands <- hands

KeepsContract == C!Spec
=============================================================================
