--------------------------- MODULE ScanWorkspace ---------------------------
(***************************************************************************)
(* The directories of one scan.  Every execution of the scan clones the    *)
(* repository into the materialization directory, copies it into the       *)
(* workspace, reads the workspace, and removes both.  Both directories are *)
(* named by the scan, so all its executions, and the git processes they    *)
(* left behind, share them.                                                *)
(*                                                                         *)
(* Each awaited file system call is one action; removing a directory and   *)
(* listing one are atomic (Node lists up to 32 entries at once).           *)
(***************************************************************************)
EXTENDS Naturals, FiniteSets, FiniteSetsExt

CONSTANTS
  Runs,          \* executions of the scan
  Files,         \* supported source files that any commit may have
  CommitOf,      \* the files of the branch's head when an execution clones it
  Limit,         \* how often each disturbance may happen
  Budget,        \* how many disturbances may happen in all
  Missing,       \* no such file
  Unreadable     \* a file that was listed and then could not be read

Disturbances == {"failure", "abort", "crash", "overlap", "deaf", "cleanup"}

ASSUME ContentAssumption == Missing \notin Runs /\ Unreadable \notin Runs
                              /\ Missing # Unreadable
ASSUME CommitAssumption == CommitOf \in [Runs -> SUBSET Files]
ASSUME LimitAssumption == Limit \in [Disturbances -> Nat] /\ Budget \in Nat

VARIABLES
  clone,   \* the materialization directory and the clone in it
  work,    \* the workspace: a copy of the clone
  run,     \* executions of runRepositoryScan
  git,     \* the git clone process of each execution
  used     \* disturbances that have happened

vars == <<clone, work, run, git, used>>

\* A file's content is known by the execution whose clone it came from.
Nothing == [f \in Files |-> Missing]
Present(files) == {f \in Files : files[f] # Missing}

NoClone == [root |-> FALSE, source |-> FALSE, files |-> Nothing]
NoWork == [made |-> FALSE, files |-> Nothing]

Steps == {"clear", "make", "askpass", "credentials", "cloning", "sha",
          "prepare", "wipe", "makeWork", "open", "copy", "discover", "walk",
          "extract", "reread"}

Fresh == [pc |-> "idle", aborted |-> FALSE, todo |-> {}, found |-> {},
          owned |-> {}, parsed |-> Nothing, apis |-> Nothing,
          outcome |-> "none"]

Init ==
  /\ clone = NoClone
  /\ work = NoWork
  /\ run = [r \in Runs |-> Fresh]
  /\ git = [r \in Runs |-> [st |-> "none", left |-> {}]]
  /\ used = [d \in Disturbances |-> 0]

Total == FoldSet(LAMBDA d, n : used[d] + n, 0, Disturbances)

SpendAll(D) ==
  /\ \A d \in D : used[d] < Limit[d]
  /\ Total + Cardinality(D) <= Budget
  /\ used' = [d \in Disturbances |-> IF d \in D THEN used[d] + 1 ELSE used[d]]

Spend(d) == SpendAll({d})

InProgress(r) == run[r].pc \notin {"idle", "ended", "dead"}

Go(r, pc) == run' = [run EXCEPT ![r].pc = pc]

\* Slip: the clone forgotten once the workspace is there.
OwnedLast(pc) ==
  IF pc \in {"clear", "make", "askpass"} THEN {}
  ELSE IF pc \in {"discover", "walk", "extract", "reread"}
       THEN {"work"}
       ELSE {"clone"}

\* Where a step throws: before the try block of materialize nothing is
\* removed, in it and in prepareWorkspace the clone, afterwards both.
Owned(pc) ==
  IF pc \in {"clear", "make", "askpass"} THEN {}
  ELSE IF pc \in {"discover", "walk", "extract", "reread"}
       THEN {"clone", "work"}
       ELSE {"clone"}

CleanUp(r, outcome) ==
  LET owned == Owned(run[r].pc) IN
  run' = [run EXCEPT
    ![r].pc = IF owned = {} THEN "ended" ELSE "cleanup",
    ![r].owned = owned, ![r].todo = {}, ![r].outcome = outcome]

Throw(r) == CleanUp(r, "error")

-----------------------------------------------------------------------------
(* Materialization                                                         *)

\* A second execution begins beside a live one when a timed-out operation
\* goes on in the background or a slow worker lost its lock.
Start(r) ==
  /\ run[r].pc = "idle"
  /\ IF \E o \in Runs : InProgress(o) THEN Spend("overlap")
                                     ELSE UNCHANGED used
  /\ Go(r, "clear")
  /\ UNCHANGED <<clone, work, git>>

Clear(r) ==
  /\ run[r].pc = "clear"
  /\ clone' = NoClone
  /\ Go(r, "make")
  /\ UNCHANGED <<work, git, used>>

Make(r) ==
  /\ run[r].pc = "make"
  /\ clone' = [clone EXCEPT !.root = TRUE]
  /\ Go(r, "askpass")
  /\ UNCHANGED <<work, git, used>>

WriteAskPass(r) ==
  /\ run[r].pc = "askpass"
  /\ IF clone.root THEN Go(r, "credentials") ELSE Throw(r)
  /\ UNCHANGED <<clone, work, git, used>>

\* Slip: the process is left alone.
TerminateNothing(r, D) == UNCHANGED git /\ SpendAll(D)

\* A process that is sent SIGTERM dies of it, or ignores it for good.
Terminate(r, D) ==
  IF git[r].st = "writing"
  THEN \/ git' = [git EXCEPT ![r].st = "asked"] /\ SpendAll(D)
       \/ git' = [git EXCEPT ![r].st = "deaf"] /\ SpendAll(D \cup {"deaf"})
  ELSE UNCHANGED git /\ SpendAll(D)

\* run spawns git, and if the signal is already aborted ends it at once.  Git
\* refuses a destination that exists.
Spawn(r) ==
  /\ run[r].pc = "credentials"
  /\ UNCHANGED work
  /\ \/ /\ run[r].aborted
        /\ \/ git' = [git EXCEPT ![r].st = "asked"] /\ UNCHANGED used
           \/ git' = [git EXCEPT ![r].st = "deaf"] /\ Spend("deaf")
        /\ Throw(r)
        /\ UNCHANGED clone
     \/ /\ ~run[r].aborted
        /\ git' = [git EXCEPT ![r] =
                     [st |-> IF clone.source THEN "died" ELSE "writing",
                      left |-> CommitOf[r]]]
        /\ clone' = [clone EXCEPT !.root = TRUE, !.source = TRUE]
        /\ Go(r, "cloning")
        /\ UNCHANGED used

GitWrite(r, f) ==
  /\ git[r].st \in {"writing", "deaf"}
  /\ f \in git[r].left
  /\ IF clone.source
     THEN /\ git' = [git EXCEPT ![r].left = @ \ {f}]
          /\ clone' = [clone EXCEPT !.files[f] = r]
     ELSE /\ git' = [git EXCEPT ![r].st = "died"]
          /\ UNCHANGED clone
  /\ UNCHANGED <<work, run, used>>

GitDone(r) ==
  /\ git[r].st \in {"writing", "deaf"}
  /\ git[r].left = {}
  /\ git' = [git EXCEPT ![r].st = "done"]
  /\ UNCHANGED <<clone, work, run, used>>

GitFails(r) ==
  /\ git[r].st \in {"writing", "deaf"}
  /\ Spend("failure")
  /\ git' = [git EXCEPT ![r].st = "died"]
  /\ UNCHANGED <<clone, work, run>>

GitDies(r) ==
  /\ git[r].st = "asked"
  /\ git' = [git EXCEPT ![r].st = "died"]
  /\ UNCHANGED <<clone, work, run, used>>

\* The close event; after the promise has settled it is ignored.
Close(r) ==
  /\ run[r].pc = "cloning"
  /\ git[r].st \in {"done", "died"}
  /\ IF git[r].st = "done" THEN Go(r, "sha") ELSE Throw(r)
  /\ UNCHANGED <<clone, work, git, used>>

\* Slip: there is no timer.
CloneNoTimeout(r) == FALSE /\ UNCHANGED vars

CloneTimeout(r) ==
  /\ run[r].pc = "cloning"
  /\ Terminate(r, {})
  /\ Throw(r)
  /\ UNCHANGED <<clone, work>>

\* The abort event.  While git runs its listener ends the process, arms the
\* timer that would send SIGKILL, and rejects, which clears that timer.
Abort(r) ==
  /\ InProgress(r)
  /\ ~run[r].aborted
  /\ IF run[r].pc = "cloning"
     THEN /\ Terminate(r, {"abort"})
          /\ run' = [run EXCEPT ![r].aborted = TRUE, ![r].pc = "cleanup",
                                ![r].owned = {"clone"}, ![r].outcome = "error"]
     ELSE /\ Spend("abort")
          /\ run' = [run EXCEPT ![r].aborted = TRUE]
          /\ UNCHANGED git
  /\ UNCHANGED <<clone, work>>

\* rev-parse only reads, and every error of it is swallowed.
ResolveCommitSha(r) ==
  /\ run[r].pc = "sha"
  /\ Go(r, "prepare")
  /\ UNCHANGED <<clone, work, git, used>>

-----------------------------------------------------------------------------
(* The workspace                                                           *)

\* assertScannerNotAborted throws where it stands.
Unless(r, step) == IF run[r].aborted THEN Throw(r) ELSE step

\* The source must be a directory.
Prepare(r) ==
  /\ run[r].pc = "prepare"
  /\ Unless(r, IF clone.source THEN Go(r, "wipe") ELSE Throw(r))
  /\ UNCHANGED <<clone, work, git, used>>

\* Slip: the workspace of an earlier execution is kept.
WipeNothing(r) ==
  /\ run[r].pc = "wipe"
  /\ Go(r, "makeWork")
  /\ UNCHANGED <<clone, work, git, used>>

Wipe(r) ==
  /\ run[r].pc = "wipe"
  /\ work' = NoWork
  /\ Go(r, "makeWork")
  /\ UNCHANGED <<clone, git, used>>

MakeWork(r) ==
  /\ run[r].pc = "makeWork"
  /\ work' = [work EXCEPT !.made = TRUE]
  /\ Go(r, "open")
  /\ UNCHANGED <<clone, git, used>>

\* A loop over the entries of a directory listed now.
List(r, pc, files) ==
  run' = [run EXCEPT ![r].pc = pc, ![r].todo = Present(files)]

\* copyDirectory: makes the target (again) and lists the source.
OpenSource(r) ==
  /\ run[r].pc = "open"
  /\ IF run[r].aborted
     THEN Throw(r) /\ UNCHANGED work
     ELSE /\ work' = [work EXCEPT !.made = TRUE]
          /\ IF clone.source THEN List(r, "copy", clone.files) ELSE Throw(r)
  /\ UNCHANGED <<clone, git, used>>

\* lstat, then copyFile, which replaces the target.
Copy(r, f) ==
  /\ run[r].pc = "copy"
  /\ f \in run[r].todo
  /\ IF run[r].aborted \/ clone.files[f] = Missing \/ ~work.made
     THEN Throw(r) /\ UNCHANGED work
     ELSE /\ run' = [run EXCEPT ![r].todo = @ \ {f}]
          /\ work' = [work EXCEPT !.files[f] = clone.files[f]]
  /\ UNCHANGED <<clone, git, used>>

Copied(r) ==
  /\ run[r].pc = "copy"
  /\ run[r].todo = {}
  /\ Go(r, "discover")
  /\ UNCHANGED <<clone, work, git, used>>

-----------------------------------------------------------------------------
(* Reading the workspace                                                   *)

Discover(r) ==
  /\ run[r].pc = "discover"
  /\ Unless(r, IF work.made THEN List(r, "walk", work.files) ELSE Throw(r))
  /\ UNCHANGED <<clone, work, git, used>>

\* walkDirectory: stat of a file that has gone throws.
Walk(r, f) ==
  /\ run[r].pc = "walk"
  /\ f \in run[r].todo
  /\ Unless(r, IF work.files[f] = Missing
               THEN Throw(r)
               ELSE run' = [run EXCEPT ![r].todo = @ \ {f},
                                       ![r].found = @ \cup {f}])
  /\ UNCHANGED <<clone, work, git, used>>

\* After the frameworks were detected the signal is checked again.
Walked(r) ==
  /\ run[r].pc = "walk"
  /\ run[r].todo = {}
  /\ Unless(r, run' = [run EXCEPT ![r].pc = "extract",
                                  ![r].todo = run[r].found])
  /\ UNCHANGED <<clone, work, git, used>>

\* extractFile: a file that cannot be read is recorded as failed.
Extract(r, f) ==
  /\ run[r].pc = "extract"
  /\ f \in run[r].todo
  /\ \/ /\ Unless(r, run' = [run EXCEPT
             ![r].todo = @ \ {f},
             ![r].parsed[f] = IF work.files[f] = Missing THEN Unreadable
                              ELSE work.files[f]])
        /\ UNCHANGED used
     \/ /\ ~run[r].aborted
        /\ Spend("failure")
        /\ run' = [run EXCEPT ![r].todo = @ \ {f},
                              ![r].parsed[f] = Unreadable]
  /\ UNCHANGED <<clone, work, git>>

\* Slip: files that failed to parse, or were never found, are opened too.
StoreAll(r) ==
  /\ run[r].pc = "extract"
  /\ run[r].todo = {}
  /\ Unless(r, run' = [run EXCEPT ![r].pc = "reread", ![r].todo = Files])
  /\ UNCHANGED <<clone, work, git, used>>

\* The result is stored; discoverApis then opens the parsed files again.
Store(r) ==
  /\ run[r].pc = "extract"
  /\ run[r].todo = {}
  /\ Unless(r, run' = [run EXCEPT ![r].pc = "reread",
       ![r].todo = {f \in Files : run[r].parsed[f] \in Runs}])
  /\ UNCHANGED <<clone, work, git, used>>

\* createSourceProject, which has no abort check of its own.
Reread(r, f) ==
  /\ run[r].pc = "reread"
  /\ f \in run[r].todo
  /\ IF work.files[f] = Missing
     THEN Throw(r)
     ELSE run' = [run EXCEPT ![r].todo = @ \ {f},
                             ![r].apis[f] = work.files[f]]
  /\ UNCHANGED <<clone, work, git, used>>

Complete(r) ==
  /\ run[r].pc = "reread"
  /\ run[r].todo = {}
  /\ Unless(r, CleanUp(r, "value"))
  /\ UNCHANGED <<clone, work, git, used>>

-----------------------------------------------------------------------------
(* Ends and disturbances                                                   *)

\* The two removals run side by side; a rejected one is only logged.
Remove(r, d) ==
  /\ run[r].pc = "cleanup"
  /\ d \in run[r].owned
  /\ run' = [run EXCEPT ![r].owned = @ \ {d},
                        ![r].pc = IF run[r].owned = {d} THEN "ended" ELSE @]
  /\ \/ /\ clone' = IF d = "clone" THEN NoClone ELSE clone
        /\ work' = IF d = "work" THEN NoWork ELSE work
        /\ UNCHANGED used
     \/ Spend("cleanup") /\ UNCHANGED <<clone, work>>
  /\ UNCHANGED git

\* The awaited call of any step may reject; that of rev-parse is swallowed.
Fails(r) ==
  /\ run[r].pc \in Steps \ {"cloning", "sha"}
  /\ Spend("failure")
  /\ Throw(r)
  /\ UNCHANGED <<clone, work, git>>

\* The worker dies, and with it its git process, unless that one survives.
Crash(r) ==
  /\ InProgress(r)
  /\ Go(r, "dead")
  /\ Terminate(r, {"crash"})
  /\ UNCHANGED <<clone, work>>

GitStep(r) ==
  \/ GitDone(r) \/ GitFails(r) \/ GitDies(r)
  \/ \E f \in Files : GitWrite(r, f)

\* What the execution does by itself.
Proceed(r) ==
  \/ Clear(r) \/ Make(r) \/ WriteAskPass(r) \/ Spawn(r) \/ Close(r)
  \/ ResolveCommitSha(r) \/ Prepare(r) \/ Wipe(r) \/ MakeWork(r)
  \/ OpenSource(r) \/ Copied(r) \/ Discover(r) \/ Walked(r)
  \/ Store(r) \/ Complete(r)
  \/ \E f \in Files : Copy(r, f) \/ Walk(r, f) \/ Extract(r, f) \/ Reread(r, f)
  \/ \E d \in {"clone", "work"} : Remove(r, d)

Next == \E r \in Runs :
  \/ Start(r) \/ Proceed(r) \/ CloneTimeout(r) \/ GitStep(r)
  \/ Abort(r) \/ Fails(r) \/ Crash(r)

Spec == Init /\ [][Next]_vars

\* Promises settle, the clone timer fires, and a process that does not ignore
\* SIGTERM dies of it.  A git process need not make progress.
Fairness == \A r \in Runs :
  WF_vars(Proceed(r)) /\ WF_vars(CloneTimeout(r)) /\ WF_vars(GitDies(r))

FairSpec == Spec /\ Fairness

-----------------------------------------------------------------------------
(* Properties                                                              *)

Content == Runs \cup {Missing, Unreadable}
Clones == [root : BOOLEAN, source : BOOLEAN,
           files : [Files -> Runs \cup {Missing}]]
Workspaces == [made : BOOLEAN, files : [Files -> Runs \cup {Missing}]]
Executions == [pc : Steps \cup {"idle", "cleanup", "ended", "dead"},
               aborted : BOOLEAN,
               todo : SUBSET Files, found : SUBSET Files,
               owned : SUBSET {"clone", "work"},
               parsed : [Files -> Content], apis : [Files -> Content],
               outcome : {"none", "error", "value"}]
Processes == [st : {"none", "writing", "asked", "deaf", "done", "died"},
              left : SUBSET Files]

\* Every variable stays in its range; what is left to read is among what the
\* discovery found (extractFiles and createSourceProject loop over its result).
TypeOK ==
  /\ clone \in Clones
  /\ work \in Workspaces
  /\ run \in [Runs -> Executions]
  /\ git \in [Runs -> Processes]
  /\ used \in [Disturbances -> Nat]
  /\ \A d \in Disturbances : used[d] <= Limit[d]
  /\ \A r \in Runs : run[r].pc \in {"extract", "reread"} =>
       run[r].todo \subseteq run[r].found

Never(D) == \A d \in D : used[d] = 0

Own(r) == [f \in Files |-> IF f \in CommitOf[r] THEN r ELSE Missing]

\* An execution that reports success read, both times, the commit that it
\* cloned and nothing else (runRepositoryScan, lines 77-146).
Whole(r) ==
  run[r].outcome = "value" => run[r].parsed = Own(r) /\ run[r].apis = Own(r)

\* Whatever a crash, an abort or a failed clean-up left in the directories,
\* the next execution alone decides its result, as long as executions do not
\* overlap, no git process survives its execution and no read is refused.
WholeResult ==
  Never({"overlap", "deaf", "failure"}) => \A r \in Runs : Whole(r)

\* Scans are kept apart: a successful execution saw no other execution's
\* files and lost none of its own (CONTEXT.md, "Keep workspaces isolated").
IsolatedWorkspace == Never({"failure", "deaf"}) => \A r \in Runs : Whole(r)

\* An execution that reached the try block of materialize takes the clone away
\* with it, a successful one the workspace too, whatever was there before
\* (cleanupScanResources and the catch block of materialize).
LeavesNothing == [][\A r \in Runs :
  /\ run[r].pc = "cleanup"
  /\ run'[r].pc = "ended"
  /\ Never({"overlap", "deaf", "cleanup"})'
  => /\ clone' = NoClone
     /\ run'[r].outcome = "value" => work' = NoWork]_vars

\* Every execution ends, also when git hangs (CloneTimeout, the abort checks).
EveryExecutionEnds == \A r \in Runs :
  InProgress(r) ~> run[r].pc \in {"ended", "dead"}

GitOver(r) == git[r].st \in {"done", "died"}

\* No git process goes on for ever (GitCommandRunnerService.run, timeoutMs).
CloneIsBounded == \A r \in Runs :
  git[r].st \in {"writing", "deaf"} ~> GitOver(r)

\* A git process that obeys SIGTERM does not outlive its execution for ever,
\* however that one ends, and even if git makes no progress (timeoutMs, and the
\* listener of the abort signal).
ObedientGitEnds == \A r \in Runs :
  git[r].st = "writing" ~> GitOver(r) \/ git[r].st = "deaf"

=============================================================================
