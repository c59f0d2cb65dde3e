------------------------ MODULE ScanWorkspaceProofs ------------------------
(***************************************************************************)
(* What ScanWorkspace promises for any number of executions and files, for *)
(* any commits and any number of disturbances.                             *)
(***************************************************************************)
EXTENDS ScanWorkspace, TLAPS

-----------------------------------------------------------------------------
(* Types                                                                   *)

\* Only what the discovery found is ever read.
Sound(e) ==
  /\ e.pc \in {"extract", "reread"} => e.todo \subseteq e.found
  /\ \A f \in Files : e.parsed[f] # Missing => f \in e.found

Typed == TypeOK /\ \A r \in Runs : Sound(run[r])

LEMMA NothingType == Nothing \in [Files -> Runs \cup {Missing}]
  BY DEF Nothing

LEMMA PresentType == \A files : Present(files) \subseteq Files
  BY DEF Present

LEMMA SpendType ==
  ASSUME used \in [Disturbances -> Nat],
         \A d \in Disturbances : used[d] <= Limit[d],
         NEW D \in SUBSET Disturbances, SpendAll(D)
  PROVE  /\ used' \in [Disturbances -> Nat]
         /\ \A d \in Disturbances : used'[d] <= Limit[d]
  BY LimitAssumption DEF SpendAll

\* One execution moves to a record of the right type.
LEMMA MoveType ==
  ASSUME run \in [Runs -> Executions], NEW r \in Runs, NEW e \in Executions,
         run' = [run EXCEPT ![r] = e]
  PROVE  run' \in [Runs -> Executions]
  OBVIOUS

LEMMA CleanUpType ==
  ASSUME Typed, NEW r \in Runs, NEW o \in {"error", "value"}, CleanUp(r, o)
  PROVE  /\ run' \in [Runs -> Executions]
         /\ run'[r].todo = {}
         /\ run'[r].found = run[r].found
         /\ run'[r].parsed = run[r].parsed /\ run'[r].apis = run[r].apis
         /\ run'[r].pc \in {"ended", "cleanup"} /\ run'[r].outcome = o
         /\ \A q \in Runs \ {r} : run'[q] = run[q]
<1> DEFINE owned == Owned(run[r].pc)
           e == [run[r] EXCEPT !.pc = IF owned = {} THEN "ended" ELSE "cleanup",
                               !.owned = owned, !.todo = {}, !.outcome = o]
<1>1. owned \in SUBSET {"clone", "work"}
  BY DEF Owned
<1>2. run[r] \in Executions
  BY DEF Typed, TypeOK
<1>3. /\ e \in Executions /\ e.todo = {}
      /\ e.found = run[r].found /\ e.parsed = run[r].parsed
      /\ e.apis = run[r].apis /\ e.outcome = o
      /\ e.pc \in {"ended", "cleanup"}
  <2> HIDE DEF owned
  <2> QED BY <1>1, <1>2 DEF Executions
<1>4. run' = [run EXCEPT ![r] = e]
  BY DEF CleanUp, Typed, TypeOK, Executions
<1> QED
  <2> HIDE DEF e
  <2> QED BY <1>3, <1>4, MoveType DEF Typed, TypeOK

LEMMA GoType ==
  ASSUME Typed, NEW r \in Runs, NEW pc \in Steps \cup {"dead"}, Go(r, pc)
  PROVE  /\ run' \in [Runs -> Executions]
         /\ run'[r].todo = run[r].todo /\ run'[r].found = run[r].found
         /\ run'[r].pc = pc /\ run'[r].parsed = run[r].parsed
         /\ run'[r].apis = run[r].apis /\ run'[r].outcome = run[r].outcome
         /\ \A q \in Runs \ {r} : run'[q] = run[q]
<1> DEFINE e == [run[r] EXCEPT !.pc = pc]
<1>1. e \in Executions /\ e.todo = run[r].todo /\ e.found = run[r].found
        /\ e.pc = pc /\ e.parsed = run[r].parsed
        /\ e.apis = run[r].apis /\ e.outcome = run[r].outcome
  BY DEF Typed, TypeOK, Executions
<1>2. run' = [run EXCEPT ![r] = e]
  BY DEF Go
<1> QED
  <2> HIDE DEF e
  <2> QED BY <1>1, <1>2 DEF Typed, TypeOK

\* What a step of r leaves of the other executions.
Others(r) == \A q \in Runs \ {r} : run'[q] = run[q]

Moves(r) ==
  /\ run' \in [Runs -> Executions]
  /\ Others(r)
  /\ Sound(run'[r])

LEMMA MovesTo ==
  ASSUME run \in [Runs -> Executions], NEW r \in Runs, NEW e \in Executions,
         Sound(e), run' = [run EXCEPT ![r] = e]
  PROVE  Moves(r)
  BY DEF Moves, Others

LEMMA CleanUpMoves ==
  ASSUME Typed, NEW r \in Runs, NEW o \in {"error", "value"}, CleanUp(r, o)
  PROVE  Moves(r)
  BY CleanUpType DEF Moves, Others, Sound, Typed

LEMMA GoMoves ==
  ASSUME Typed, NEW r \in Runs, NEW pc \in Steps \cup {"dead"},
         pc \notin {"extract", "reread"},
         Go(r, pc)
  PROVE  Moves(r)
  BY GoType DEF Moves, Others, Sound, Typed

LEMMA ListMoves ==
  ASSUME Typed, NEW r \in Runs, NEW pc \in {"copy", "walk"}, NEW files,
         List(r, pc, files)
  PROVE  Moves(r)
<1> DEFINE e == [run[r] EXCEPT !.pc = pc, !.todo = Present(files)]
<1>1. e \in Executions /\ Sound(e)
  <2>1. run[r] \in Executions /\ Sound(run[r])
    BY DEF Typed, TypeOK
  <2>2. e \in Executions
    BY <2>1, PresentType DEF Executions, Steps
  <2>3. Sound(e)
    BY <2>1, PresentType DEF Sound, Executions
  <2> QED BY <2>2, <2>3
<1>2. run' = [run EXCEPT ![r] = e]
  BY DEF List
<1> QED
  <2> HIDE DEF e
  <2> QED BY <1>1, <1>2, MovesTo DEF Typed, TypeOK

LEMMA CopyMoves ==
  ASSUME Typed, NEW r \in Runs, NEW f \in Files, Copy(r, f)
  PROVE  Moves(r)
<1>1. CASE Throw(r)
  BY <1>1, CleanUpMoves DEF Throw
<1>2. CASE run' = [run EXCEPT ![r].todo = @ \ {f}]
  <2> DEFINE e == [run[r] EXCEPT !.todo = @ \ {f}]
  <2>1. e \in Executions /\ Sound(e)
    <3>1. run[r] \in Executions /\ Sound(run[r])
      BY DEF Typed, TypeOK
    <3>2. e \in Executions
      BY <3>1 DEF Executions, Steps
    <3>3. Sound(e)
      BY <3>1 DEF Sound, Executions
    <3> QED BY <3>2, <3>3
  <2>2. run' = [run EXCEPT ![r] = e]
    BY <1>2
  <2> QED
    <3> HIDE DEF e
    <3> QED BY <2>1, <2>2, MovesTo DEF Typed, TypeOK
<1> QED BY <1>1, <1>2 DEF Copy

LEMMA WalkMoves ==
  ASSUME Typed, NEW r \in Runs, NEW f \in Files, Walk(r, f)
  PROVE  Moves(r)
<1>1. CASE Throw(r)
  BY <1>1, CleanUpMoves DEF Throw
<1>2. CASE run' = [run EXCEPT ![r].todo = @ \ {f}, ![r].found = @ \cup {f}]
  <2> DEFINE e == [run[r] EXCEPT !.todo = @ \ {f}, !.found = @ \cup {f}]
  <2>1. e \in Executions /\ Sound(e)
    <3>1. run[r] \in Executions /\ Sound(run[r])
      BY DEF Typed, TypeOK
    <3>2. e \in Executions
      BY <3>1 DEF Executions, Steps
    <3>3. Sound(e)
      BY <3>1 DEF Sound, Executions
    <3> QED BY <3>2, <3>3
  <2>2. run' = [run EXCEPT ![r] = e]
    BY <1>2
  <2> QED
    <3> HIDE DEF e
    <3> QED BY <2>1, <2>2, MovesTo DEF Typed, TypeOK
<1> QED BY <1>1, <1>2 DEF Walk, Unless

LEMMA WalkedMoves ==
  ASSUME Typed, NEW r \in Runs, Walked(r)
  PROVE  Moves(r)
<1>1. CASE Throw(r)
  BY <1>1, CleanUpMoves DEF Throw
<1>2. CASE run' = [run EXCEPT ![r].pc = "extract", ![r].todo = run[r].found]
  <2> DEFINE e == [run[r] EXCEPT !.pc = "extract", !.todo = run[r].found]
  <2>1. e \in Executions /\ Sound(e)
    <3>1. run[r] \in Executions /\ Sound(run[r])
      BY DEF Typed, TypeOK
    <3>2. e \in Executions
      BY <3>1 DEF Executions, Steps
    <3>3. Sound(e)
      BY <3>1 DEF Sound, Executions
    <3> QED BY <3>2, <3>3
  <2>2. run' = [run EXCEPT ![r] = e]
    BY <1>2
  <2> QED
    <3> HIDE DEF e
    <3> QED BY <2>1, <2>2, MovesTo DEF Typed, TypeOK
<1> QED BY <1>1, <1>2 DEF Walked, Unless

\* A file read into the result, whatever was read.
LEMMA ExtractMoves ==
  ASSUME Typed, NEW r \in Runs, NEW f \in Files, Extract(r, f)
  PROVE  Moves(r)
<1>1. CASE Throw(r)
  BY <1>1, CleanUpMoves DEF Throw
<1>2. ASSUME NEW c \in Content, run[r].pc = "extract", f \in run[r].todo,
             run' = [run EXCEPT ![r].todo = @ \ {f}, ![r].parsed[f] = c]
      PROVE  Moves(r)
  <2> DEFINE e == [run[r] EXCEPT !.todo = @ \ {f}, !.parsed[f] = c]
  <2>1. e \in Executions /\ Sound(e)
    <3>1. run[r] \in Executions /\ Sound(run[r])
      BY DEF Typed, TypeOK
    <3>2. e \in Executions
      BY <3>1 DEF Executions, Steps
    <3>3. Sound(e)
      BY <3>1, <1>2 DEF Sound, Executions
    <3> QED BY <3>2, <3>3
  <2>2. run' = [run EXCEPT ![r] = e]
    BY <1>2
  <2> QED
    <3> HIDE DEF e
    <3> QED BY <2>1, <2>2, MovesTo DEF Typed, TypeOK
<1>3. work.files[f] \in Content /\ Unreadable \in Content
  BY DEF Typed, TypeOK, Workspaces, Content
<1> QED BY <1>1, <1>2, <1>3 DEF Extract, Unless

LEMMA StoreMoves ==
  ASSUME Typed, NEW r \in Runs, Store(r)
  PROVE  Moves(r)
<1> DEFINE read == {f \in Files : run[r].parsed[f] \in Runs}
<1>1. CASE Throw(r)
  BY <1>1, CleanUpMoves DEF Throw
<1>2. CASE run' = [run EXCEPT ![r].pc = "reread", ![r].todo = read]
  <2> DEFINE e == [run[r] EXCEPT !.pc = "reread", !.todo = read]
  <2>0. run[r] \in Executions /\ Sound(run[r])
    BY DEF Typed, TypeOK
  <2>1. e \in Executions
    BY <2>0 DEF Executions, Steps
  <2>3. Sound(e)
    <3>1. /\ e.pc = "reread" /\ e.todo = read
          /\ e.found = run[r].found /\ e.parsed = run[r].parsed
      BY <2>0 DEF Executions
    <3>2. \A f \in read : f \in run[r].found
      BY <2>0, ContentAssumption DEF Sound
    <3> QED
      <4> HIDE DEF e
      <4> QED BY <2>0, <3>1, <3>2 DEF Sound
  <2>2. run' = [run EXCEPT ![r] = e]
    BY <1>2
  <2> QED
    <3> HIDE DEF e
    <3> QED BY <2>1, <2>2, <2>3, MovesTo DEF Typed, TypeOK
<1> QED BY <1>1, <1>2 DEF Store, Unless

LEMMA RereadMoves ==
  ASSUME Typed, NEW r \in Runs, NEW f \in Files, Reread(r, f)
  PROVE  Moves(r)
<1> DEFINE c == work.files[f]
<1>1. CASE Throw(r)
  BY <1>1, CleanUpMoves DEF Throw
<1>2. CASE run' = [run EXCEPT ![r].todo = @ \ {f}, ![r].apis[f] = c]
  <2> DEFINE e == [run[r] EXCEPT !.todo = @ \ {f}, !.apis[f] = c]
  <2>1. e \in Executions /\ Sound(e)
    <3>1. run[r] \in Executions /\ Sound(run[r])
      BY DEF Typed, TypeOK
    <3>2. e \in Executions
      <4>1. c \in Content
        BY DEF Typed, TypeOK, Workspaces, Content
      <4> QED
        <5> HIDE DEF c
        <5> QED BY <3>1, <4>1 DEF Executions
    <3>3. Sound(e)
      BY <3>1 DEF Sound, Executions
    <3> QED BY <3>2, <3>3
  <2>2. run' = [run EXCEPT ![r] = e]
    BY <1>2
  <2> QED
    <3> HIDE DEF e
    <3> QED BY <2>1, <2>2, MovesTo DEF Typed, TypeOK
<1> QED BY <1>1, <1>2 DEF Reread

LEMMA RemoveMoves ==
  ASSUME Typed, NEW r \in Runs, NEW d \in {"clone", "work"}, Remove(r, d)
  PROVE  Moves(r)
<1> DEFINE pc == IF run[r].owned = {d} THEN "ended" ELSE run[r].pc
           e == [run[r] EXCEPT !.owned = @ \ {d}, !.pc = pc]
<1>1. run[r] \in Executions /\ Sound(run[r])
  BY DEF Typed, TypeOK
<1>2. run' = [run EXCEPT ![r] = e]
  BY DEF Remove
<1>3. e \in Executions
  BY <1>1 DEF Executions
<1>4. Sound(e)
  BY <1>1 DEF Sound, Executions
<1> QED
  <2> HIDE DEF e
  <2> QED BY <1>2, <1>3, <1>4, MovesTo DEF Typed, TypeOK

LEMMA AbortMoves ==
  ASSUME Typed, NEW r \in Runs, Abort(r)
  PROVE  Moves(r)
<1>0. run[r] \in Executions /\ Sound(run[r])
  BY DEF Typed, TypeOK
<1>1. CASE run' = [run EXCEPT ![r].aborted = TRUE]
  <2> DEFINE e == [run[r] EXCEPT !.aborted = TRUE]
  <2>1. e \in Executions
    BY <1>0 DEF Executions
  <2>2. Sound(e)
    BY <1>0 DEF Sound, Executions
  <2>3. run' = [run EXCEPT ![r] = e]
    BY <1>1
  <2> QED
    <3> HIDE DEF e
    <3> QED BY <2>1, <2>2, <2>3, MovesTo DEF Typed, TypeOK
<1>2. CASE run' = [run EXCEPT ![r].aborted = TRUE, ![r].pc = "cleanup",
                              ![r].owned = {"clone"}, ![r].outcome = "error"]
  <2> DEFINE e == [run[r] EXCEPT !.aborted = TRUE, !.pc = "cleanup",
                                 !.owned = {"clone"}, !.outcome = "error"]
  <2>1. e \in Executions
    BY <1>0 DEF Executions
  <2>2. Sound(e)
    BY <1>0 DEF Sound, Executions
  <2>3. run' = [run EXCEPT ![r] = e]
    BY <1>2
  <2> QED
    <3> HIDE DEF e
    <3> QED BY <2>1, <2>2, <2>3, MovesTo DEF Typed, TypeOK
<1> QED BY <1>1, <1>2 DEF Abort

-----------------------------------------------------------------------------
(* Every step keeps the types                                              *)

\* A step of an execution.
RunStep(r) ==
  Start(r) \/ Proceed(r) \/ CloneTimeout(r) \/ Abort(r) \/ Fails(r) \/ Crash(r)

LEMMA RunStepMoves ==
  ASSUME Typed, NEW r \in Runs, RunStep(r)
  PROVE  Moves(r)
<1>1. CASE \E pc \in Steps \cup {"dead"} : pc \notin {"extract", "reread"} /\ Go(r, pc)
  BY <1>1, GoMoves
<1>2. CASE \E o \in {"error", "value"} : CleanUp(r, o)
  BY <1>2, CleanUpMoves
<1>3. CASE \E pc \in {"copy", "walk"}, files \in {clone.files, work.files} :
             List(r, pc, files)
  BY <1>3, ListMoves
<1>4. CASE Proceed(r)
  <2>1. \/ \E pc \in Steps \cup {"dead"} : pc \notin {"extract", "reread"} /\ Go(r, pc)
        \/ \E o \in {"error", "value"} : CleanUp(r, o)
        \/ \E pc \in {"copy", "walk"}, files \in {clone.files, work.files} :
             List(r, pc, files)
        \/ Walked(r) \/ Store(r)
        \/ \E f \in Files : Copy(r, f) \/ Walk(r, f) \/ Extract(r, f) \/ Reread(r, f)
        \/ \E d \in {"clone", "work"} : Remove(r, d)
    BY <1>4 DEF Proceed, Steps, Throw, Unless, Clear, Make, WriteAskPass, Spawn,
         Close, ResolveCommitSha, Prepare, Wipe, MakeWork, OpenSource, Copied,
         Discover, Complete
  <2> QED BY <2>1, <1>1, <1>2, <1>3, CopyMoves, WalkMoves, WalkedMoves,
             ExtractMoves, StoreMoves, RereadMoves, RemoveMoves
<1>5. CASE Start(r) \/ Crash(r)
  BY <1>5, GoMoves DEF Start, Crash, Steps
<1>6. CASE CloneTimeout(r) \/ Fails(r)
  BY <1>6, CleanUpMoves DEF CloneTimeout, Fails, Throw
<1> QED BY <1>4, <1>5, <1>6, AbortMoves DEF RunStep

LEMMA TerminateType ==
  ASSUME Typed, NEW r \in Runs, NEW D \in SUBSET Disturbances, Terminate(r, D)
  PROVE  /\ git' \in [Runs -> Processes]
         /\ \E E \in SUBSET Disturbances : SpendAll(E)
<1>1. /\ git \in [Runs -> Processes]
      /\ git[r].left \in SUBSET Files
  BY DEF Typed, TypeOK, Processes
<1>2. D \cup {"deaf"} \in SUBSET Disturbances
  BY DEF Disturbances
<1> QED BY <1>1, <1>2 DEF Terminate, Processes

\* The directories, processes and counters after a step of an execution.
LEMMA RunStepRest ==
  ASSUME Typed, NEW r \in Runs, RunStep(r)
  PROVE  /\ clone' \in Clones
         /\ work' \in Workspaces
         /\ git' \in [Runs -> Processes]
         /\ UNCHANGED used \/ \E E \in SUBSET Disturbances : SpendAll(E)
<1>0. /\ clone \in Clones /\ work \in Workspaces /\ git \in [Runs -> Processes]
      /\ NoClone \in Clones /\ NoWork \in Workspaces
      /\ \A d \in Disturbances : {d} \in SUBSET Disturbances
  BY NothingType DEF Typed, TypeOK, NoClone, NoWork, Clones, Workspaces
<1>1. CASE UNCHANGED <<clone, work, git>> /\
           (UNCHANGED used \/ \E d \in Disturbances : Spend(d))
  BY <1>0, <1>1 DEF Spend
<1>2. CASE UNCHANGED <<clone, work>> /\
           \E D \in SUBSET Disturbances : Terminate(r, D)
  BY <1>0, <1>2, TerminateType
<1>3. CASE Start(r) \/ Fails(r)
  BY <1>1, <1>3 DEF Start, Fails, Disturbances
<1>4. CASE CloneTimeout(r) \/ Crash(r)
  BY <1>2, <1>4 DEF CloneTimeout, Crash, Disturbances
<1>5. CASE Abort(r)
  BY <1>1, <1>2, <1>5 DEF Abort, Disturbances
<1>6. CASE Spawn(r)
  <2>1. /\ CommitOf[r] \in SUBSET Files
        /\ git[r].left \in SUBSET Files
    BY <1>0, CommitAssumption DEF Processes
  <2>2. git' \in [Runs -> Processes]
    BY <1>0, <1>6, <2>1 DEF Spawn, Processes
  <2>3. clone' \in Clones
    BY <1>0, <1>6 DEF Spawn, Clones
  <2> QED BY <1>0, <1>6, <2>2, <2>3 DEF Spawn, Spend, Disturbances
<1>7. CASE Proceed(r) /\ ~Spawn(r)
  <2>1. CASE UNCHANGED <<work, git, used>> /\
             (clone' = NoClone \/ clone' = [clone EXCEPT !.root = TRUE])
    BY <1>0, <2>1 DEF Clones
  <2>2. CASE UNCHANGED <<clone, git, used>> /\
             (work' = NoWork \/ work' = [work EXCEPT !.made = TRUE])
    BY <1>0, <2>2 DEF Workspaces
  <2>3. CASE \E f \in Files : Copy(r, f)
    BY <1>0, <2>3 DEF Copy, Workspaces, Clones
  <2>4. CASE \E d \in {"clone", "work"} : Remove(r, d)
    BY <1>0, <2>4 DEF Remove, Spend, Disturbances
  <2>5. CASE \E f \in Files : Extract(r, f)
    BY <1>1, <2>5 DEF Extract, Disturbances
  <2>6. CASE OpenSource(r)
    BY <1>1, <2>2, <2>6 DEF OpenSource
  <2>7. CASE Clear(r) \/ Make(r)
    BY <2>1, <2>7 DEF Clear, Make
  <2>8. CASE Wipe(r) \/ MakeWork(r)
    BY <2>2, <2>8 DEF Wipe, MakeWork
  <2>9. CASE \/ WriteAskPass(r) \/ Close(r) \/ ResolveCommitSha(r)
             \/ Prepare(r) \/ Copied(r) \/ Discover(r) \/ Walked(r)
             \/ Store(r) \/ Complete(r)
             \/ \E f \in Files : Walk(r, f) \/ Reread(r, f)
    BY <1>1, <2>9 DEF WriteAskPass, Close, ResolveCommitSha, Prepare, Copied,
         Discover, Walked, Store, Complete, Walk, Reread
  <2> QED BY <1>7, <2>3, <2>4, <2>5, <2>6, <2>7, <2>8, <2>9 DEF Proceed
<1> QED BY <1>3, <1>4, <1>5, <1>6, <1>7 DEF RunStep

LEMMA GitStepRest ==
  ASSUME Typed, NEW r \in Runs, GitStep(r)
  PROVE  /\ clone' \in Clones
         /\ UNCHANGED <<work, run>>
         /\ git' \in [Runs -> Processes]
         /\ UNCHANGED used \/ \E E \in SUBSET Disturbances : SpendAll(E)
<1>0. /\ clone \in Clones /\ git \in [Runs -> Processes]
      /\ git[r].left \in SUBSET Files
  BY DEF Typed, TypeOK, Processes
<1>1. CASE \E f \in Files : GitWrite(r, f)
  <2>1. PICK f \in Files : GitWrite(r, f)
    BY <1>1
  <2>2. \A p \in Processes, x \in SUBSET Files :
          /\ [p EXCEPT !.left = x] \in Processes
          /\ [p EXCEPT !.st = "died"] \in Processes
    BY DEF Processes
  <2>3. [clone EXCEPT !.files[f] = r] \in Clones
    BY <1>0 DEF Clones
  <2>4. clone' \in Clones /\ UNCHANGED <<work, run, used>>
    BY <1>0, <2>1, <2>3 DEF GitWrite
  <2>5. \/ git' = [git EXCEPT ![r] = [git[r] EXCEPT !.left = @ \ {f}]]
        \/ git' = [git EXCEPT ![r] = [git[r] EXCEPT !.st = "died"]]
    BY <1>0, <2>1 DEF GitWrite
  <2>6. \E p \in Processes : git' = [git EXCEPT ![r] = p]
    <3>1. git[r] \in Processes /\ git[r].left \ {f} \in SUBSET Files
      BY <1>0
    <3> QED BY <2>2, <2>5, <3>1
  <2>7. git' \in [Runs -> Processes]
    BY <1>0, <2>6
  <2> QED BY <2>4, <2>7
<1>2. CASE GitDone(r) \/ GitFails(r) \/ GitDies(r)
  BY <1>0, <1>2 DEF GitDone, GitFails, GitDies, Spend, Processes, Disturbances
<1> QED BY <1>1, <1>2 DEF GitStep

LEMMA InitTyped == Init => Typed
<1> SUFFICES ASSUME Init PROVE Typed
  OBVIOUS
<1>1. Fresh \in Executions /\ Sound(Fresh)
  BY NothingType DEF Fresh, Executions, Content, Sound, Nothing
<1>2. NoClone \in Clones /\ NoWork \in Workspaces
  BY NothingType DEF NoClone, NoWork, Clones, Workspaces
<1>3. [st |-> "none", left |-> {}] \in Processes
  BY DEF Processes
<1>4. Fresh.pc \notin {"extract", "reread"}
  BY DEF Fresh
<1> QED BY <1>1, <1>2, <1>3, <1>4, LimitAssumption DEF Init, Typed, TypeOK

LEMMA StepTyped == Typed /\ [Next]_vars => Typed'
<1> SUFFICES ASSUME Typed, [Next]_vars PROVE Typed'
  OBVIOUS
<1> DEFINE Counted == /\ used' \in [Disturbances -> Nat]
                      /\ \A d \in Disturbances : used'[d] <= Limit[d]
<1>1. CASE UNCHANGED vars
  BY <1>1 DEF Typed, TypeOK, Sound, vars
<1>2. ASSUME UNCHANGED used \/ \E E \in SUBSET Disturbances : SpendAll(E)
      PROVE  Counted
  BY <1>2, SpendType DEF Typed, TypeOK
<1>3. ASSUME NEW r \in Runs, RunStep(r) PROVE Typed'
  <2>1. Moves(r)
    BY <1>3, RunStepMoves
  <2>2. \A q \in Runs : Sound(run'[q])
    BY <2>1 DEF Moves, Others, Typed
  <2>3. Counted
    BY <1>2, <1>3, RunStepRest
  <2> QED BY <1>3, <2>1, <2>2, <2>3, RunStepRest DEF Typed, TypeOK, Moves, Sound
<1>4. ASSUME NEW r \in Runs, GitStep(r) PROVE Typed'
  <2>1. Counted
    BY <1>2, <1>4, GitStepRest
  <2> QED BY <1>4, <2>1, GitStepRest DEF Typed, TypeOK, Sound
<1> QED BY <1>1, <1>3, <1>4 DEF Next, RunStep

\* Every variable of the model stays in its range, and what an execution has
\* yet to read is among what its discovery found: extractFiles and
\* createSourceProject loop over the result of discover.
THEOREM TypeCorrect == Spec => []TypeOK
<1>1. Spec => []Typed
  BY InitTyped, StepTyped, PTL DEF Spec
<1>2. Typed => TypeOK
  BY DEF Typed
<1> QED BY <1>1, <1>2, PTL

-----------------------------------------------------------------------------
(* Whole results                                                           *)

Quiet == Never({"overlap", "deaf", "failure"})

\* The commit of r, but for the files that are still to come.
Upto(r, todo) ==
  [f \in Files |-> IF f \in CommitOf[r] \ todo THEN r ELSE Missing]

Alone == \A q, r \in Runs : InProgress(q) /\ InProgress(r) => q = r

Reading == {"discover", "walk", "extract", "reread"}
Cloned == {"sha", "prepare", "wipe", "makeWork", "open", "copy"} \cup Reading

\* What the clone c and the workspace w hold at each step of the execution r,
\* whose record is e and whose git process is g.
Directories(r, e, g, c, w) ==
  /\ e.pc \in {"make", "askpass", "credentials"} => c = Nothing
  /\ e.pc = "cloning" /\ g.st = "writing" =>
       g.left \subseteq CommitOf[r] /\ c = Upto(r, g.left)
  /\ e.pc = "cloning" /\ g.st = "done" => c = Own(r)
  /\ e.pc \in Cloned => c = Own(r)
  /\ e.pc \in {"makeWork", "open"} => w = Nothing
  /\ e.pc = "copy" => e.todo \subseteq CommitOf[r] /\ w = Upto(r, e.todo)
  /\ e.pc \in Reading => w = Own(r)

\* What it has read at each of its steps.
Knows(r, e) ==
  /\ e.pc \in Steps \cup {"idle"} => e.outcome = "none"
  /\ e.pc \in (Steps \cup {"idle"}) \ {"walk", "extract", "reread"} => e.found = {}
  /\ e.pc \in (Steps \cup {"idle"}) \ {"extract", "reread"} => e.parsed = Nothing
  /\ e.pc \in (Steps \cup {"idle"}) \ {"reread"} => e.apis = Nothing
  /\ e.pc = "walk" => e.todo \cup e.found = CommitOf[r]
  /\ e.pc = "extract" =>
       /\ e.found = CommitOf[r] /\ e.todo \subseteq CommitOf[r]
       /\ e.parsed = Upto(r, e.todo)
  /\ e.pc = "reread" =>
       /\ e.todo \subseteq CommitOf[r]
       /\ e.parsed = Own(r) /\ e.apis = Upto(r, e.todo)
  /\ e.outcome = "value" => e.parsed = Own(r) /\ e.apis = Own(r)

Consistent(r, e, g, c, w) ==
  /\ g.st # "deaf"
  /\ g.st = "writing" => e.pc = "cloning"
  /\ Directories(r, e, g, c, w)
  /\ Knows(r, e)

Undisturbed ==
  /\ Alone
  /\ \A r \in Runs : Consistent(r, run[r], git[r], clone.files, work.files)

Inductive == Typed /\ (Quiet => Undisturbed)

\* The commit with nothing to come, with everything, and one file nearer.
LEMMA Arrivals ==
  ASSUME NEW r \in Runs
  PROVE  /\ Upto(r, {}) = Own(r)
         /\ Upto(r, CommitOf[r]) = Nothing
         /\ Present(Own(r)) = CommitOf[r]
         /\ \A todo \in SUBSET CommitOf[r] : \A f \in todo :
              Upto(r, todo \ {f}) = [Upto(r, todo) EXCEPT ![f] = r]
         /\ \A f \in CommitOf[r] : Own(r)[f] = r
         /\ r # Missing
<1>1. CommitOf[r] \in SUBSET Files /\ r # Missing
  BY CommitAssumption, ContentAssumption
<1> QED BY <1>1 DEF Upto, Own, Nothing, Present

LEMMA OneNearer ==
  ASSUME NEW r \in Runs, NEW todo \in SUBSET CommitOf[r], NEW f \in todo
  PROVE  [Upto(r, todo) EXCEPT ![f] = r] = Upto(r, todo \ {f})
  BY Arrivals

\* The counters only grow.
LEMMA QuietBefore ==
  ASSUME Typed, UNCHANGED used \/ \E E \in SUBSET Disturbances : SpendAll(E),
         Quiet'
  PROVE  Quiet
  BY DEF Typed, TypeOK, SpendAll, Quiet, Never, Disturbances

\* Nothing is spent on what has not happened.
LEMMA NoneSpent ==
  ASSUME Typed, NEW d \in Disturbances, used'[d] = 0,
         NEW E \in SUBSET Disturbances, d \in E, SpendAll(E)
  PROVE  FALSE
<1>1. used'[d] = used[d] + 1 /\ used[d] \in Nat
  BY DEF Typed, TypeOK, SpendAll
<1> QED BY <1>1

LEMMA QuietTerminate ==
  ASSUME Typed, Quiet', NEW r \in Runs, NEW D \in SUBSET Disturbances,
         Terminate(r, D)
  PROVE  git' = [git EXCEPT ![r].st = IF @ = "writing" THEN "asked" ELSE @]
<1>1. ~SpendAll(D \cup {"deaf"})
  <2>1. D \cup {"deaf"} \in SUBSET Disturbances
    BY DEF Disturbances
  <2> QED BY <2>1, NoneSpent DEF Quiet, Never, Disturbances
<1>2. git \in [Runs -> Processes]
  BY DEF Typed, TypeOK
<1> QED BY <1>1, <1>2 DEF Terminate, Processes

\* Throwing and finishing: nothing is claimed of the directories any more.
LEMMA CleanUpConsistent ==
  ASSUME Typed, NEW r \in Runs, NEW o \in {"error", "value"}, CleanUp(r, o),
         o = "value" => run[r].parsed = Own(r) /\ run[r].apis = Own(r),
         NEW g, g.st \notin {"deaf", "writing"}, NEW c, NEW w
  PROVE  Consistent(r, run'[r], g, c, w)
<1> DEFINE e == run'[r]
<1>1. /\ e.pc \in {"ended", "cleanup"} /\ e.outcome = o
      /\ e.parsed = run[r].parsed /\ e.apis = run[r].apis
  BY CleanUpType
<1> HIDE DEF e
<1>2. Directories(r, e, g, c, w)
  BY <1>1 DEF Directories, Cloned, Reading
<1>3. Knows(r, e)
  BY <1>1 DEF Knows, Steps
<1> QED BY <1>2, <1>3 DEF Consistent, e

\* A step that only moves on: what is known stays, if it is as before reading.
LEMMA GoKnows ==
  ASSUME Typed, NEW r \in Runs, NEW pc \in Steps \cup {"dead"},
         pc \notin {"walk", "extract", "reread"}, Go(r, pc),
         run[r].pc \notin {"walk", "extract", "reread", "cleanup", "ended",
                          "dead"} \/ pc = "dead",
         Knows(r, run[r])
  PROVE  Knows(r, run'[r])
<1> DEFINE e == run[r]  d == run'[r]
<1>1. /\ d.pc = pc /\ d.todo = e.todo /\ d.found = e.found
      /\ d.parsed = e.parsed /\ d.apis = e.apis /\ d.outcome = e.outcome
  BY GoType
<1>2. e.pc \in Steps \cup {"idle", "cleanup", "ended", "dead"}
  BY DEF Typed, TypeOK, Executions
<1> HIDE DEF d
<1>3. ASSUME pc = "dead" PROVE Knows(r, d)
  BY <1>1, <1>3 DEF Knows, Steps
<1>4. ASSUME pc # "dead" PROVE Knows(r, d)
  BY <1>1, <1>2, <1>4 DEF Knows, Steps
<1> QED BY <1>3, <1>4 DEF d

LEMMA GoConsistent ==
  ASSUME Typed, NEW r \in Runs, NEW pc \in Steps \cup {"dead"},
         pc \notin {"walk", "extract", "reread", "copy"}, Go(r, pc),
         run[r].pc \notin {"walk", "extract", "reread", "cleanup", "ended",
                          "dead"} \/ pc = "dead",
         Knows(r, run[r]),
         NEW g, g.st # "deaf", g.st = "writing" => pc = "cloning",
         NEW c, NEW w,
         pc \in {"make", "askpass", "credentials"} => c = Nothing,
         pc = "cloning" /\ g.st = "writing" =>
            g.left \subseteq CommitOf[r] /\ c = Upto(r, g.left),
         pc = "cloning" /\ g.st = "done" => c = Own(r),
         pc \in Cloned => c = Own(r),
         pc \in {"makeWork", "open"} => w = Nothing,
         pc \in Reading => w = Own(r)
  PROVE  Consistent(r, run'[r], g, c, w)
<1>1. run'[r].pc = pc
  BY GoType
<1>2. Directories(r, run'[r], g, c, w)
  BY <1>1 DEF Directories
<1> QED BY <1>1, <1>2, GoKnows DEF Consistent

\* Where r and its process stand, before and after a step.
Now(r) == Consistent(r, run[r], git[r], clone.files, work.files)

LEMMA ThrowConsistent ==
  ASSUME Typed, NEW r \in Runs, Throw(r), UNCHANGED git, Now(r),
         run[r].pc # "cloning"
  PROVE  Now(r)'
<1>1. git[r].st \notin {"deaf", "writing"}
  BY DEF Now, Consistent
<1> QED BY <1>1, CleanUpConsistent DEF Throw, Now

\* The steps up to the spawned process.
LEMMA MaterializeConsistent ==
  ASSUME Typed, Quiet', NEW r \in Runs, Now(r),
         \/ Start(r) \/ Clear(r) \/ Make(r) \/ WriteAskPass(r) \/ Spawn(r)
  PROVE  Now(r)'
<1>0. /\ git[r].st # "deaf"
      /\ git[r].st = "writing" => run[r].pc = "cloning"
      /\ Directories(r, run[r], git[r], clone.files, work.files)
      /\ Knows(r, run[r])
  BY DEF Now, Consistent
<1>1. CASE Start(r)
  BY <1>0, <1>1, GoConsistent DEF Start, Now, Cloned, Reading, Steps
<1>2. CASE Clear(r)
  <2>1. clone'.files = Nothing
    BY <1>2 DEF Clear, NoClone
  <2> QED BY <1>0, <1>2, <2>1, GoConsistent DEF Clear, Now, Cloned, Reading, Steps
<1>3. CASE Make(r)
  <2>1. clone'.files = clone.files /\ clone.files = Nothing
    BY <1>0, <1>3 DEF Make, Directories, Typed, TypeOK, Clones
  <2> QED BY <1>0, <1>3, <2>1, GoConsistent DEF Make, Now, Cloned, Reading, Steps
<1>4. CASE WriteAskPass(r)
  <2>1. clone.files = Nothing
    BY <1>0, <1>4 DEF WriteAskPass, Directories
  <2>2. CASE Throw(r)
    BY <1>4, <2>2, ThrowConsistent DEF WriteAskPass
  <2>3. CASE Go(r, "credentials")
    BY <1>0, <1>4, <2>1, <2>3, GoConsistent
       DEF WriteAskPass, Now, Cloned, Reading, Steps
  <2> QED BY <1>4, <2>2, <2>3 DEF WriteAskPass
<1>5. CASE Spawn(r)
  <2>0. clone.files = Nothing /\ git \in [Runs -> Processes] /\ clone \in Clones
    BY <1>0, <1>5 DEF Spawn, Directories, Typed, TypeOK
  <2>1. CASE run[r].aborted
    <3>1. git' = [git EXCEPT ![r].st = "asked"] /\ Throw(r)
      <4>1. ~Spend("deaf")
        BY NoneSpent DEF Spend, Quiet, Never, Disturbances
      <4> QED BY <1>5, <2>1, <4>1 DEF Spawn
    <3>2. git'[r].st = "asked"
      BY <2>0, <3>1 DEF Processes
    <3> QED BY <3>1, <3>2, CleanUpConsistent DEF Throw, Now
  <2>2. CASE ~run[r].aborted
    <3> DEFINE g == [st |-> IF clone.source THEN "died" ELSE "writing",
                     left |-> CommitOf[r]]
    <3>0. g.st \in {"died", "writing"} /\ g.left = CommitOf[r]
      OBVIOUS
    <3>1. /\ git'[r].st \in {"died", "writing"}
          /\ git'[r].left = CommitOf[r]
          /\ clone'.files = clone.files
          /\ Go(r, "cloning")
      <4>1. git'[r] = g
        BY <1>5, <2>0, <2>2 DEF Spawn
      <4>2. clone'.files = clone.files /\ Go(r, "cloning")
        BY <1>5, <2>0, <2>2 DEF Spawn, Clones
      <4> HIDE DEF g
      <4> QED BY <3>0, <4>1, <4>2
    <3>2. clone'.files = Upto(r, CommitOf[r])
      BY <2>0, <3>1, Arrivals
    <3> QED BY <1>0, <3>1, <3>2, <1>5, GoConsistent
            DEF Spawn, Now, Cloned, Reading, Steps
  <2> QED BY <1>5, <2>1, <2>2 DEF Spawn
<1> QED BY <1>1, <1>2, <1>3, <1>4, <1>5

\* From the close event to the listing of the clone.
LEMMA PrepareConsistent ==
  ASSUME Typed, Quiet', NEW r \in Runs, Now(r),
         \/ Close(r) \/ ResolveCommitSha(r) \/ Prepare(r) \/ Wipe(r)
         \/ MakeWork(r) \/ OpenSource(r) \/ Copied(r)
  PROVE  Now(r)'
<1>0. /\ git[r].st # "deaf"
      /\ git[r].st = "writing" => run[r].pc = "cloning"
      /\ Directories(r, run[r], git[r], clone.files, work.files)
      /\ Knows(r, run[r])
  BY DEF Now, Consistent
<1>1. CASE Close(r)
  <2>1. CASE git[r].st = "done"
    BY <1>0, <1>1, <2>1, GoConsistent
       DEF Close, Directories, Now, Cloned, Reading, Steps
  <2>2. CASE git[r].st = "died"
    BY <1>1, <2>2, CleanUpConsistent DEF Close, Throw, Now
  <2> QED BY <1>1, <2>1, <2>2 DEF Close
<1>2. CASE ResolveCommitSha(r)
  BY <1>0, <1>2, GoConsistent
     DEF ResolveCommitSha, Directories, Now, Cloned, Reading, Steps
<1>3. CASE Prepare(r)
  <2>1. CASE Throw(r)
    BY <1>3, <2>1, ThrowConsistent DEF Prepare
  <2>2. CASE Go(r, "wipe")
    BY <1>0, <1>3, <2>2, GoConsistent
       DEF Prepare, Directories, Now, Cloned, Reading, Steps
  <2> QED BY <1>3, <2>1, <2>2 DEF Prepare, Unless
<1>4. CASE Wipe(r)
  <2>1. work'.files = Nothing
    BY <1>4 DEF Wipe, NoWork
  <2> QED BY <1>0, <1>4, <2>1, GoConsistent
          DEF Wipe, Directories, Now, Cloned, Reading, Steps
<1>5. CASE MakeWork(r)
  <2>1. work'.files = work.files
    BY <1>5 DEF MakeWork, Typed, TypeOK, Workspaces
  <2> QED BY <1>0, <1>5, <2>1, GoConsistent
          DEF MakeWork, Directories, Now, Cloned, Reading, Steps
<1>6. CASE OpenSource(r)
  <2>1. CASE Throw(r)
    BY <1>6, <2>1, ThrowConsistent DEF OpenSource
  <2>2. CASE List(r, "copy", clone.files) /\ ~run[r].aborted
    <3> DEFINE e == run[r]  d == run'[r]
    <3>1. /\ d.pc = "copy" /\ d.todo = Present(clone.files)
          /\ d.found = e.found /\ d.parsed = e.parsed /\ d.apis = e.apis
          /\ d.outcome = e.outcome
      BY <2>2 DEF List, Typed, TypeOK, Executions
    <3>2. e.pc = "open" /\ work'.files = work.files /\ UNCHANGED <<clone, git>>
      BY <1>6, <2>2 DEF OpenSource, Typed, TypeOK, Workspaces
    <3>3. d.todo = CommitOf[r] /\ work.files = Upto(r, CommitOf[r])
            /\ clone.files = Own(r)
      BY <1>0, <3>1, <3>2, Arrivals DEF Directories, Cloned
    <3> HIDE DEF d
    <3>4. Knows(r, d)
      BY <1>0, <3>1, <3>2 DEF Knows, Steps
    <3>5. Directories(r, d, git[r], clone.files, work.files)
      BY <3>1, <3>3 DEF Directories, Cloned, Reading
    <3>6. git[r].st # "writing"
      BY <1>0, <3>2
    <3> QED BY <1>0, <3>2, <3>4, <3>5, <3>6 DEF Now, Consistent, d
  <2> QED BY <1>6, <2>1, <2>2 DEF OpenSource
<1>7. CASE Copied(r)
  BY <1>0, <1>7, GoConsistent, Arrivals
     DEF Copied, Directories, Now, Cloned, Reading, Steps
<1> QED BY <1>1, <1>2, <1>3, <1>4, <1>5, <1>6, <1>7

\* An execution that reads on, the directories being as they were.
LEMMA ReadOn ==
  ASSUME NEW r \in Runs, Now(r), UNCHANGED <<clone, git>>,
         run[r].pc \in {"copy"} \cup Reading, run'[r].pc \in {"copy"} \cup Reading,
         Knows(r, run'[r]),
         run'[r].pc = "copy" => /\ run'[r].todo \subseteq CommitOf[r]
                                /\ work'.files = Upto(r, run'[r].todo),
         run'[r].pc \in Reading => work'.files = Own(r)
  PROVE  Now(r)'
<1> DEFINE e == run[r]  d == run'[r]
<1>1. git[r].st \notin {"deaf", "writing"}
  BY DEF Now, Consistent, Reading
<1>2. clone.files = Own(r)
  BY DEF Now, Consistent, Directories, Cloned
<1>3. Directories(r, d, git[r], clone.files, work'.files)
  <2> HIDE DEF d
  <2> QED BY <1>1, <1>2 DEF Directories, Cloned, Reading, d
<1> QED BY <1>1, <1>3 DEF Now, Consistent

LEMMA CopyConsistent ==
  ASSUME Typed, NEW r \in Runs, Now(r), NEW f \in Files, Copy(r, f)
  PROVE  Now(r)'
<1>0. /\ git[r].st # "deaf"
      /\ git[r].st = "writing" => run[r].pc = "cloning"
      /\ Directories(r, run[r], git[r], clone.files, work.files)
      /\ Knows(r, run[r])
      /\ run[r] \in Executions
  BY DEF Now, Consistent, Typed, TypeOK
<1>1. CASE Throw(r)
  BY <1>1, ThrowConsistent DEF Copy
<1>2. CASE ~run[r].aborted /\ clone.files[f] # Missing /\ work.made
  <2> DEFINE e == run[r]  d == run'[r]
  <2>1. /\ e.pc = "copy" /\ f \in e.todo /\ UNCHANGED <<clone, git>>
        /\ run' = [run EXCEPT ![r].todo = @ \ {f}]
        /\ work' = [work EXCEPT !.files[f] = clone.files[f]]
    BY <1>2 DEF Copy
  <2>2. /\ d.pc = "copy" /\ d.todo = e.todo \ {f} /\ d.found = e.found
        /\ d.parsed = e.parsed /\ d.apis = e.apis /\ d.outcome = e.outcome
    BY <1>0, <2>1 DEF Executions, Typed, TypeOK
  <2>3. /\ e.todo \in SUBSET CommitOf[r] /\ work.files = Upto(r, e.todo)
        /\ clone.files = Own(r)
    BY <1>0, <2>1 DEF Directories, Cloned
  <2>4. work'.files = [work.files EXCEPT ![f] = clone.files[f]]
    BY <2>1 DEF Typed, TypeOK, Workspaces
  <2>5. work'.files = Upto(r, d.todo)
    <3>1. clone.files[f] = r
      BY <2>1, <2>3, Arrivals
    <3>2. [Upto(r, e.todo) EXCEPT ![f] = r] = Upto(r, e.todo \ {f})
      BY <2>1, <2>3, OneNearer
    <3> HIDE DEF d, e
    <3> QED BY <2>2, <2>3, <2>4, <3>1, <3>2
  <2>6. Knows(r, d)
    <3> HIDE DEF d
    <3> QED BY <1>0, <2>1, <2>2 DEF Knows, Steps
  <2> QED BY <2>1, <2>2, <2>3, <2>5, <2>6, ReadOn DEF Reading
<1> QED BY <1>1, <1>2 DEF Copy

LEMMA DiscoverConsistent ==
  ASSUME Typed, NEW r \in Runs, Now(r), Discover(r)
  PROVE  Now(r)'
<1>0. /\ git[r].st # "deaf"
      /\ git[r].st = "writing" => run[r].pc = "cloning"
      /\ Directories(r, run[r], git[r], clone.files, work.files)
      /\ Knows(r, run[r])
      /\ run[r] \in Executions
  BY DEF Now, Consistent, Typed, TypeOK
<1>1. CASE Throw(r)
  BY <1>1, ThrowConsistent DEF Discover
<1>2. CASE List(r, "walk", work.files)
  <2> DEFINE e == run[r]  d == run'[r]
  <2>1. e.pc = "discover" /\ UNCHANGED <<clone, work, git>>
    BY <1>2 DEF Discover
  <2>2. /\ d.pc = "walk" /\ d.todo = Present(work.files) /\ d.found = e.found
        /\ d.parsed = e.parsed /\ d.apis = e.apis /\ d.outcome = e.outcome
    BY <1>0, <1>2 DEF List, Executions, Typed, TypeOK
  <2>3. work.files = Own(r)
    BY <1>0, <2>1 DEF Directories, Reading
  <2>4. d.todo = CommitOf[r]
    BY <2>2, <2>3, Arrivals
  <2>5. Knows(r, d)
    <3> HIDE DEF d
    <3> QED BY <1>0, <2>1, <2>2, <2>4 DEF Knows, Steps
  <2> QED BY <2>1, <2>2, <2>3, <2>5, ReadOn DEF Reading
<1> QED BY <1>1, <1>2 DEF Discover, Unless

LEMMA WalkConsistent ==
  ASSUME Typed, NEW r \in Runs, Now(r),
         Walked(r) \/ \E f \in Files : Walk(r, f)
  PROVE  Now(r)'
<1>0. /\ git[r].st # "deaf"
      /\ git[r].st = "writing" => run[r].pc = "cloning"
      /\ Directories(r, run[r], git[r], clone.files, work.files)
      /\ Knows(r, run[r])
      /\ run[r] \in Executions
  BY DEF Now, Consistent, Typed, TypeOK
<1>1. CASE Throw(r)
  BY <1>1, ThrowConsistent DEF Walk, Walked
<1> DEFINE e == run[r]  d == run'[r]
<1>2. e.pc = "walk" /\ UNCHANGED <<clone, work, git>>
  BY DEF Walk, Walked
<1>3. work.files = Own(r)
  BY <1>0, <1>2 DEF Directories, Reading
<1>4. ASSUME NEW f \in Files, Walk(r, f), ~Throw(r)
      PROVE  Now(r)'
  <2>1. /\ f \in e.todo
        /\ run' = [run EXCEPT ![r].todo = @ \ {f}, ![r].found = @ \cup {f}]
    BY <1>4 DEF Walk, Unless
  <2>2. /\ d.pc = "walk" /\ d.todo = e.todo \ {f} /\ d.found = e.found \cup {f}
        /\ d.parsed = e.parsed /\ d.apis = e.apis /\ d.outcome = e.outcome
    BY <1>0, <1>2, <2>1 DEF Executions, Typed, TypeOK
  <2>3. d.todo \cup d.found = CommitOf[r]
    BY <1>0, <1>2, <2>1, <2>2 DEF Knows
  <2>4. Knows(r, d)
    <3> HIDE DEF d
    <3> QED BY <1>0, <1>2, <2>2, <2>3 DEF Knows, Steps
  <2> QED BY <1>2, <1>3, <2>2, <2>4, ReadOn DEF Reading
<1>5. ASSUME Walked(r), ~Throw(r)
      PROVE  Now(r)'
  <2>1. /\ e.todo = {}
        /\ run' = [run EXCEPT ![r].pc = "extract", ![r].todo = e.found]
    BY <1>5 DEF Walked, Unless
  <2>2. /\ d.pc = "extract" /\ d.todo = e.found /\ d.found = e.found
        /\ d.parsed = e.parsed /\ d.apis = e.apis /\ d.outcome = e.outcome
    BY <1>0, <2>1 DEF Executions, Typed, TypeOK
  <2>3. d.found = CommitOf[r] /\ d.parsed = Upto(r, d.todo)
    BY <1>0, <1>2, <2>1, <2>2, Arrivals DEF Knows, Steps
  <2>4. Knows(r, d)
    <3> HIDE DEF d
    <3> QED BY <1>0, <1>2, <2>2, <2>3 DEF Knows, Steps
  <2> QED BY <1>2, <1>3, <2>2, <2>4, ReadOn DEF Reading
<1> QED BY <1>1, <1>4, <1>5

LEMMA ExtractConsistent ==
  ASSUME Typed, Quiet', NEW r \in Runs, Now(r), NEW f \in Files, Extract(r, f)
  PROVE  Now(r)'
<1>0. /\ git[r].st # "deaf"
      /\ git[r].st = "writing" => run[r].pc = "cloning"
      /\ Directories(r, run[r], git[r], clone.files, work.files)
      /\ Knows(r, run[r])
      /\ run[r] \in Executions
  BY DEF Now, Consistent, Typed, TypeOK
<1>1. CASE Throw(r)
  BY <1>1, ThrowConsistent DEF Extract
<1>2. CASE ~Throw(r)
  <2> DEFINE e == run[r]  d == run'[r]
             c == IF work.files[f] = Missing THEN Unreadable ELSE work.files[f]
  <2>0. ~Spend("failure")
    BY NoneSpent DEF Spend, Quiet, Never, Disturbances
  <2>1. /\ e.pc = "extract" /\ f \in e.todo /\ UNCHANGED <<clone, work, git>>
        /\ run' = [run EXCEPT ![r].todo = @ \ {f}, ![r].parsed[f] = c]
    BY <1>2, <2>0 DEF Extract, Unless
  <2>2. /\ work.files = Own(r) /\ e.todo \in SUBSET CommitOf[r]
        /\ e.found = CommitOf[r] /\ e.parsed = Upto(r, e.todo)
    BY <1>0, <2>1 DEF Directories, Knows, Reading
  <2>3. c = r
    BY <2>1, <2>2, Arrivals
  <2> HIDE DEF c
  <2>4. /\ d.pc = "extract" /\ d.todo = e.todo \ {f} /\ d.found = e.found
        /\ d.parsed = [e.parsed EXCEPT ![f] = c] /\ d.apis = e.apis
        /\ d.outcome = e.outcome
    BY <1>0, <2>1 DEF Executions, Typed, TypeOK
  <2>5. d.parsed = Upto(r, d.todo)
    <3>1. [Upto(r, e.todo) EXCEPT ![f] = r] = Upto(r, e.todo \ {f})
      BY <2>1, <2>2, OneNearer
    <3> HIDE DEF d, e
    <3> QED BY <2>2, <2>3, <2>4, <3>1
  <2>6. Knows(r, d)
    <3> HIDE DEF d
    <3> QED BY <1>0, <2>1, <2>2, <2>4, <2>5 DEF Knows, Steps
  <2> QED BY <2>1, <2>2, <2>4, <2>6, ReadOn DEF Reading
<1> QED BY <1>1, <1>2

LEMMA StoreConsistent ==
  ASSUME Typed, NEW r \in Runs, Now(r), Store(r)
  PROVE  Now(r)'
<1>0. /\ git[r].st # "deaf"
      /\ git[r].st = "writing" => run[r].pc = "cloning"
      /\ Directories(r, run[r], git[r], clone.files, work.files)
      /\ Knows(r, run[r])
      /\ run[r] \in Executions
  BY DEF Now, Consistent, Typed, TypeOK
<1>1. CASE Throw(r)
  BY <1>1, ThrowConsistent DEF Store
<1>2. CASE ~Throw(r)
  <2> DEFINE e == run[r]  d == run'[r]
             read == {f \in Files : e.parsed[f] \in Runs}
  <2>1. /\ e.pc = "extract" /\ e.todo = {} /\ UNCHANGED <<clone, work, git>>
        /\ run' = [run EXCEPT ![r].pc = "reread", ![r].todo = read]
    BY <1>2 DEF Store, Unless
  <2>2. work.files = Own(r) /\ e.found = CommitOf[r] /\ e.parsed = Own(r)
    BY <1>0, <2>1, Arrivals DEF Directories, Knows, Reading
  <2>3. read = CommitOf[r]
    BY <2>2, CommitAssumption, ContentAssumption DEF Own
  <2> HIDE DEF read
  <2>4. /\ d.pc = "reread" /\ d.todo = read /\ d.found = e.found
        /\ d.parsed = e.parsed /\ d.apis = e.apis /\ d.outcome = e.outcome
    BY <1>0, <2>1 DEF Executions, Typed, TypeOK
  <2>5. d.apis = Upto(r, d.todo)
    BY <1>0, <2>1, <2>3, <2>4, Arrivals DEF Knows, Steps
  <2>6. Knows(r, d)
    <3> HIDE DEF d
    <3> QED BY <1>0, <2>1, <2>2, <2>3, <2>4, <2>5 DEF Knows, Steps
  <2> QED BY <2>1, <2>2, <2>4, <2>6, ReadOn DEF Reading
<1> QED BY <1>1, <1>2

LEMMA RereadConsistent ==
  ASSUME Typed, NEW r \in Runs, Now(r), NEW f \in Files, Reread(r, f)
  PROVE  Now(r)'
<1>0. /\ git[r].st # "deaf"
      /\ git[r].st = "writing" => run[r].pc = "cloning"
      /\ Directories(r, run[r], git[r], clone.files, work.files)
      /\ Knows(r, run[r])
      /\ run[r] \in Executions
  BY DEF Now, Consistent, Typed, TypeOK
<1>1. CASE Throw(r)
  BY <1>1, ThrowConsistent DEF Reread
<1>2. CASE ~Throw(r)
  <2> DEFINE e == run[r]  d == run'[r]
             c == work.files[f]
  <2>1. /\ e.pc = "reread" /\ f \in e.todo /\ UNCHANGED <<clone, work, git>>
        /\ run' = [run EXCEPT ![r].todo = @ \ {f}, ![r].apis[f] = c]
    BY <1>2 DEF Reread
  <2>2. /\ work.files = Own(r) /\ e.todo \in SUBSET CommitOf[r]
        /\ e.parsed = Own(r) /\ e.apis = Upto(r, e.todo)
    BY <1>0, <2>1 DEF Directories, Knows, Reading
  <2>3. c = r
    BY <2>1, <2>2, Arrivals
  <2> HIDE DEF c
  <2>4. /\ d.pc = "reread" /\ d.todo = e.todo \ {f} /\ d.found = e.found
        /\ d.apis = [e.apis EXCEPT ![f] = c] /\ d.parsed = e.parsed
        /\ d.outcome = e.outcome
    BY <1>0, <2>1 DEF Executions, Typed, TypeOK
  <2>5. d.apis = Upto(r, d.todo)
    <3>1. [Upto(r, e.todo) EXCEPT ![f] = r] = Upto(r, e.todo \ {f})
      BY <2>1, <2>2, OneNearer
    <3> HIDE DEF d, e
    <3> QED BY <2>2, <2>3, <2>4, <3>1
  <2>6. Knows(r, d)
    <3> HIDE DEF d
    <3> QED BY <1>0, <2>1, <2>2, <2>4, <2>5 DEF Knows, Steps
  <2> QED BY <2>1, <2>2, <2>4, <2>6, ReadOn DEF Reading
<1> QED BY <1>1, <1>2

LEMMA CompleteConsistent ==
  ASSUME Typed, NEW r \in Runs, Now(r), Complete(r)
  PROVE  Now(r)'
<1>0. /\ git[r].st # "deaf"
      /\ git[r].st = "writing" => run[r].pc = "cloning"
      /\ Directories(r, run[r], git[r], clone.files, work.files)
      /\ Knows(r, run[r])
      /\ run[r] \in Executions
  BY DEF Now, Consistent, Typed, TypeOK
<1>1. CASE Throw(r)
  BY <1>1, ThrowConsistent DEF Complete
<1>2. CASE CleanUp(r, "value")
  <2>1. run[r].parsed = Own(r) /\ run[r].apis = Own(r)
    BY <1>0, <1>2, Arrivals DEF Complete, Knows
  <2>2. git'[r].st \notin {"deaf", "writing"}
    BY <1>0 DEF Complete
  <2> QED BY <1>2, <2>1, <2>2, CleanUpConsistent DEF Now
<1> QED BY <1>1, <1>2 DEF Complete, Unless

\* An execution that is over, or on its way there.
LEMMA OverConsistent ==
  ASSUME NEW r \in Runs, Now(r), git'[r].st \notin {"deaf", "writing"},
         run'[r].pc \in {"cleanup", "ended", "dead"},
         run'[r].outcome \in {"error", run[r].outcome},
         run'[r].parsed = run[r].parsed, run'[r].apis = run[r].apis
  PROVE  Now(r)'
<1> DEFINE d == run'[r]
<1>1. Knows(r, d)
  <2>1. Knows(r, run[r])
    BY DEF Now, Consistent
  <2> QED BY <2>1 DEF Knows, Steps
<1>2. Directories(r, d, git'[r], clone'.files, work'.files)
  BY DEF Directories, Cloned, Reading
<1> QED BY <1>1, <1>2 DEF Now, Consistent

LEMMA TerminateConsistent ==
  ASSUME Typed, Quiet', NEW r \in Runs, Now(r),
         \/ CloneTimeout(r) \/ Crash(r)
         \/ (Abort(r) /\ run[r].pc = "cloning")
  PROVE  Now(r)'
<1>0. /\ git[r].st # "deaf"
      /\ git[r].st = "writing" => run[r].pc = "cloning"
      /\ Directories(r, run[r], git[r], clone.files, work.files)
      /\ Knows(r, run[r])
      /\ run[r] \in Executions /\ git \in [Runs -> Processes]
  BY DEF Now, Consistent, Typed, TypeOK
<1> DEFINE e == run[r]  d == run'[r]
<1>1. \E D \in SUBSET Disturbances : Terminate(r, D)
  BY DEF CloneTimeout, Crash, Abort, Disturbances
<1>2. git' = [git EXCEPT ![r].st = IF @ = "writing" THEN "asked" ELSE @]
  BY <1>1, QuietTerminate
<1>3. git'[r].st \notin {"deaf", "writing"}
  BY <1>0, <1>2 DEF Processes
<1>4. CASE CloneTimeout(r)
  BY <1>3, <1>4, CleanUpConsistent DEF CloneTimeout, Throw, Now
<1>5. CASE Crash(r)
  <2>1. /\ d.pc = "dead" /\ d.outcome = e.outcome
        /\ d.parsed = e.parsed /\ d.apis = e.apis
    BY <1>5, GoType DEF Crash
  <2> QED BY <1>3, <2>1, OverConsistent
<1>6. CASE Abort(r) /\ e.pc = "cloning"
  <2>1. run' = [run EXCEPT ![r].aborted = TRUE, ![r].pc = "cleanup",
                           ![r].owned = {"clone"}, ![r].outcome = "error"]
    BY <1>6 DEF Abort
  <2>2. /\ d.pc = "cleanup" /\ d.outcome = "error"
        /\ d.parsed = e.parsed /\ d.apis = e.apis
    BY <1>0, <2>1 DEF Executions, Typed, TypeOK
  <2> QED BY <1>3, <2>2, OverConsistent
<1> QED BY <1>4, <1>5, <1>6

LEMMA AbortConsistent ==
  ASSUME Typed, NEW r \in Runs, Now(r), Abort(r), run[r].pc # "cloning"
  PROVE  Now(r)'
<1>0. /\ git[r].st # "deaf"
      /\ git[r].st = "writing" => run[r].pc = "cloning"
      /\ Directories(r, run[r], git[r], clone.files, work.files)
      /\ Knows(r, run[r])
      /\ run[r] \in Executions /\ git \in [Runs -> Processes]
  BY DEF Now, Consistent, Typed, TypeOK
<1> DEFINE e == run[r]  d == run'[r]
<1>1. UNCHANGED <<clone, work, git>> /\ run' = [run EXCEPT ![r].aborted = TRUE]
  BY DEF Abort
<1>2. /\ d.pc = e.pc /\ d.todo = e.todo /\ d.found = e.found
      /\ d.parsed = e.parsed /\ d.apis = e.apis /\ d.outcome = e.outcome
  BY <1>0, <1>1 DEF Executions, Typed, TypeOK
<1> HIDE DEF d
<1>3. Knows(r, d)
  BY <1>0, <1>2 DEF Knows
<1>4. Directories(r, d, git[r], clone.files, work.files)
  BY <1>0, <1>2 DEF Directories
<1> QED BY <1>0, <1>1, <1>2, <1>3, <1>4 DEF Now, Consistent, d

LEMMA RemoveConsistent ==
  ASSUME Typed, NEW r \in Runs, Now(r), NEW x \in {"clone", "work"}, Remove(r, x)
  PROVE  Now(r)'
<1>0. /\ git[r].st # "deaf"
      /\ git[r].st = "writing" => run[r].pc = "cloning"
      /\ Directories(r, run[r], git[r], clone.files, work.files)
      /\ Knows(r, run[r])
      /\ run[r] \in Executions /\ git \in [Runs -> Processes]
  BY DEF Now, Consistent, Typed, TypeOK
<1> DEFINE e == run[r]  d == run'[r]
           pc == IF e.owned = {x} THEN "ended" ELSE e.pc
<1>1. /\ e.pc = "cleanup" /\ UNCHANGED git
      /\ run' = [run EXCEPT ![r].owned = @ \ {x}, ![r].pc = pc]
  BY DEF Remove
<1>2. pc \in {"ended", "cleanup"}
  BY <1>1
<1> HIDE DEF pc
<1>3. /\ d.pc = pc /\ d.outcome = e.outcome
      /\ d.parsed = e.parsed /\ d.apis = e.apis
  BY <1>0, <1>1 DEF Executions, Typed, TypeOK
<1> QED BY <1>0, <1>1, <1>2, <1>3, OverConsistent

LEMMA FailsConsistent ==
  ASSUME Typed, Quiet', NEW r \in Runs, Fails(r)
  PROVE  Now(r)'
  BY NoneSpent DEF Fails, Spend, Quiet, Never, Disturbances

\* Whatever an execution does, it stays consistent with the directories.
LEMMA RunStepConsistent ==
  ASSUME Typed, Quiet', NEW r \in Runs, Now(r), RunStep(r)
  PROVE  Now(r)'
<1>1. CASE \/ Start(r) \/ Clear(r) \/ Make(r) \/ WriteAskPass(r) \/ Spawn(r)
  BY <1>1, MaterializeConsistent
<1>2. CASE \/ Close(r) \/ ResolveCommitSha(r) \/ Prepare(r) \/ Wipe(r)
           \/ MakeWork(r) \/ OpenSource(r) \/ Copied(r)
  BY <1>2, PrepareConsistent
<1>3. CASE \/ Discover(r) \/ Walked(r) \/ Store(r) \/ Complete(r)
  BY <1>3, DiscoverConsistent, WalkConsistent, StoreConsistent,
     CompleteConsistent
<1>4. ASSUME NEW f \in Files,
             Copy(r, f) \/ Walk(r, f) \/ Extract(r, f) \/ Reread(r, f)
      PROVE  Now(r)'
  <2>1. CASE Copy(r, f)
    BY <2>1, CopyConsistent
  <2>2. CASE Walk(r, f)
    BY <2>2, WalkConsistent
  <2>3. CASE Extract(r, f)
    BY <2>3, ExtractConsistent
  <2>4. CASE Reread(r, f)
    BY <2>4, RereadConsistent
  <2> QED BY <1>4, <2>1, <2>2, <2>3, <2>4
<1>5. ASSUME NEW x \in {"clone", "work"}, Remove(r, x)
      PROVE  Now(r)'
  BY <1>5, RemoveConsistent
<1>6. CASE CloneTimeout(r) \/ Abort(r) \/ Fails(r) \/ Crash(r)
  <2>1. CASE \/ CloneTimeout(r) \/ Crash(r)
             \/ (Abort(r) /\ run[r].pc = "cloning")
    BY <2>1, TerminateConsistent
  <2>2. CASE Abort(r) /\ run[r].pc # "cloning"
    BY <2>2, AbortConsistent
  <2>3. CASE Fails(r)
    BY <2>3, FailsConsistent
  <2> QED BY <1>6, <2>1, <2>2, <2>3
<1>7. CASE Proceed(r)
  BY <1>1, <1>2, <1>3, <1>4, <1>5, <1>7 DEF Proceed
<1> QED BY <1>1, <1>6, <1>7 DEF RunStep

LEMMA GitStepConsistent ==
  ASSUME Typed, Quiet', NEW r \in Runs, Now(r), GitStep(r)
  PROVE  Now(r)'
<1>0. /\ git[r].st # "deaf"
      /\ git[r].st = "writing" => run[r].pc = "cloning"
      /\ Directories(r, run[r], git[r], clone.files, work.files)
      /\ Knows(r, run[r])
      /\ run[r] \in Executions /\ git \in [Runs -> Processes]
  BY DEF Now, Consistent, Typed, TypeOK
<1>1. UNCHANGED <<work, run>>
  BY GitStepRest
<1>2. CASE \E f \in Files : GitWrite(r, f)
  <2>1. PICK f \in Files : GitWrite(r, f)
    BY <1>2
  <2>2. /\ git[r].st = "writing" /\ run[r].pc = "cloning" /\ f \in git[r].left
        /\ git[r].left \in SUBSET CommitOf[r]
        /\ clone.files = Upto(r, git[r].left)
    BY <1>0, <2>1 DEF GitWrite, Directories
  <2>3. CASE clone.source
    <3>1. /\ git'[r].st = "writing" /\ git'[r].left = git[r].left \ {f}
      BY <1>0, <2>1, <2>2, <2>3 DEF GitWrite, Processes
    <3>2. clone'.files = [clone.files EXCEPT ![f] = r]
      BY <2>1, <2>3 DEF GitWrite, Typed, TypeOK, Clones
    <3>3. clone'.files = Upto(r, git'[r].left)
      BY <2>2, <3>1, <3>2, OneNearer
    <3>4. Directories(r, run[r], git'[r], clone'.files, work.files)
      BY <2>2, <3>1, <3>3 DEF Directories, Cloned, Reading
    <3> QED BY <1>0, <1>1, <2>2, <3>1, <3>4 DEF Now, Consistent
  <2>4. CASE ~clone.source
    <3>1. git'[r].st = "died" /\ UNCHANGED clone
      BY <1>0, <2>1, <2>4 DEF GitWrite, Processes
    <3>2. Directories(r, run[r], git'[r], clone.files, work.files)
      BY <2>2, <3>1 DEF Directories, Cloned, Reading
    <3> QED BY <1>0, <1>1, <3>1, <3>2 DEF Now, Consistent
  <2> QED BY <2>3, <2>4
<1>3. CASE GitDone(r)
  <2>1. /\ git[r].st = "writing" /\ run[r].pc = "cloning" /\ git[r].left = {}
        /\ git'[r].st = "done" /\ UNCHANGED clone
    BY <1>0, <1>3 DEF GitDone, Processes
  <2>2. clone.files = Own(r)
    BY <1>0, <2>1, Arrivals DEF Directories
  <2>3. Directories(r, run[r], git'[r], clone.files, work.files)
    BY <2>1, <2>2 DEF Directories, Cloned, Reading
  <2> QED BY <1>0, <1>1, <2>1, <2>3 DEF Now, Consistent
<1>4. CASE GitFails(r)
  <2>1. SpendAll({"failure"})
    BY <1>4 DEF GitFails, Spend
  <2>2. {"failure"} \in SUBSET Disturbances
    BY DEF Disturbances
  <2> QED BY <2>1, <2>2, NoneSpent DEF Quiet, Never, Disturbances
<1>5. CASE GitDies(r)
  <2>1. git[r].st = "asked" /\ git'[r].st = "died" /\ UNCHANGED clone
    BY <1>0, <1>5 DEF GitDies, Processes
  <2>2. Directories(r, run[r], git'[r], clone.files, work.files)
    BY <1>0, <2>1 DEF Directories
  <2> QED BY <1>0, <1>1, <2>1, <2>2 DEF Now, Consistent
<1> QED BY <1>2, <1>3, <1>4, <1>5 DEF GitStep

-----------------------------------------------------------------------------
(* The theorem                                                             *)

\* What a step of r leaves of the other processes.
LEMMA OtherProcesses ==
  ASSUME Typed, NEW r \in Runs, RunStep(r) \/ GitStep(r), NEW q \in Runs \ {r}
  PROVE  git'[q] = git[q]
<1>0. git \in [Runs -> Processes]
  BY DEF Typed, TypeOK
<1>1. UNCHANGED git \/ \E g : git' = [git EXCEPT ![r] = g]
  <2>1. CASE \E D : Terminate(r, D)
    BY <2>1 DEF Terminate
  <2>2. CASE GitStep(r)
    BY <2>2 DEF GitStep, GitWrite, GitDone, GitFails, GitDies
  <2>3. CASE Proceed(r)
    BY <2>3 DEF Proceed, Clear, Make, WriteAskPass, Spawn, Close,
       ResolveCommitSha, Prepare, Wipe, MakeWork, OpenSource, Copied, Discover,
       Walked, Store, Complete, Copy, Walk, Extract, Reread, Remove
  <2>4. CASE Start(r) \/ Fails(r)
    BY <2>4 DEF Start, Fails
  <2>5. CASE CloneTimeout(r) \/ Abort(r) \/ Crash(r)
    BY <2>1, <2>5 DEF CloneTimeout, Abort, Crash
  <2> QED BY <2>2, <2>3, <2>4, <2>5 DEF RunStep
<1> QED BY <1>0, <1>1

\* An execution that is not in progress asks nothing of the directories.
LEMMA OutsideNow ==
  ASSUME Typed, NEW q \in Runs, Now(q), ~InProgress(q),
         run'[q] = run[q], git'[q] = git[q]
  PROVE  Now(q)'
<1>1. run[q].pc \in {"idle", "ended", "dead"}
  BY DEF InProgress
<1>2. Directories(q, run[q], git[q], clone'.files, work'.files)
  BY <1>1 DEF Directories, Cloned, Reading
<1> QED BY <1>2 DEF Now, Consistent

\* Only the execution in progress takes a step, or one that begins alone.
LEMMA SoleStep ==
  ASSUME Typed, used'["overlap"] = 0, NEW r \in Runs, RunStep(r), Alone
  PROVE  /\ Alone'
         /\ \A q \in Runs \ {r} : run'[q] = run[q] /\ ~InProgress(q)
<1>1. \A q \in Runs \ {r} : run'[q] = run[q]
  BY RunStepMoves DEF Moves, Others
<1>2. CASE InProgress(r)
  BY <1>1, <1>2 DEF Alone, InProgress
<1>3. CASE Start(r)
  <2>1. ~Spend("overlap")
    BY NoneSpent DEF Spend, Disturbances
  <2>2. \A o \in Runs : ~InProgress(o)
    BY <1>3, <2>1 DEF Start
  <2> QED BY <1>1, <2>2 DEF Alone, InProgress
<1>4. CASE ~Start(r)
  <2>1. ASSUME Proceed(r) PROVE InProgress(r)
    <3>1. run[r].pc \in Steps \cup {"cleanup"}
      BY <2>1 DEF Proceed, Clear, Make, WriteAskPass, Spawn, Close,
         ResolveCommitSha, Prepare, Wipe, MakeWork, OpenSource, Copied,
         Discover, Walked, Store, Complete, Copy, Walk, Extract, Reread,
         Remove, Steps
    <3> QED BY <3>1 DEF InProgress, Steps
  <2>2. ASSUME CloneTimeout(r) \/ Fails(r) PROVE InProgress(r)
    BY <2>2 DEF CloneTimeout, Fails, InProgress, Steps
  <2>3. ASSUME Abort(r) \/ Crash(r) PROVE InProgress(r)
    BY <2>3 DEF Abort, Crash
  <2> QED BY <1>2, <1>4, <2>1, <2>2, <2>3 DEF RunStep
<1> QED BY <1>2, <1>3, <1>4

LEMMA RunStepUndisturbed ==
  ASSUME Typed, Quiet', Undisturbed, NEW r \in Runs, RunStep(r)
  PROVE  Undisturbed'
<1>0. used'["overlap"] = 0
  BY DEF Quiet, Never
<1>1. Alone /\ \A q \in Runs : Now(q)
  BY DEF Undisturbed, Now
<1>2. Now(r)'
  BY <1>1, RunStepConsistent
<1>3. ASSUME NEW q \in Runs \ {r} PROVE Now(q)'
  BY <1>0, <1>1, SoleStep, OtherProcesses, OutsideNow
<1>4. \A q \in Runs : Now(q)'
  BY <1>2, <1>3
<1> QED BY <1>0, <1>1, <1>4, SoleStep DEF Undisturbed, Now

LEMMA GitStepUndisturbed ==
  ASSUME Typed, Quiet', Undisturbed, NEW r \in Runs, GitStep(r)
  PROVE  Undisturbed'
<1>1. Alone /\ \A q \in Runs : Now(q)
  BY DEF Undisturbed, Now
<1>2. Now(r)' /\ UNCHANGED <<run, work>>
  BY <1>1, GitStepConsistent, GitStepRest
<1>3. ASSUME NEW q \in Runs \ {r} PROVE Now(q)'
  <2>1. git'[q] = git[q]
    BY OtherProcesses
  <2>2. CASE InProgress(r)
    BY <1>1, <1>2, <2>1, <2>2, OutsideNow DEF Alone
  <2>3. CASE ~InProgress(r)
    <3>1. git[r].st \notin {"deaf", "writing"}
      BY <1>1, <2>3 DEF Now, Consistent, InProgress
    <3>2. UNCHANGED clone
      BY <3>1 DEF GitStep, GitWrite, GitDone, GitFails, GitDies
    <3> QED BY <1>1, <1>2, <2>1, <3>2 DEF Now
  <2> QED BY <2>2, <2>3
<1>4. \A q \in Runs : Now(q)'
  BY <1>2, <1>3
<1>5. Alone'
  BY <1>1, <1>2 DEF Alone, InProgress
<1> QED BY <1>4, <1>5 DEF Undisturbed, Now

LEMMA InitUndisturbed == Init => Undisturbed
<1> SUFFICES ASSUME Init PROVE Undisturbed
  OBVIOUS
<1>1. ASSUME NEW r \in Runs
      PROVE  Consistent(r, run[r], git[r], clone.files, work.files)
  <2>1. run[r] = Fresh /\ git[r].st = "none"
    BY DEF Init
  <2>2. Directories(r, run[r], git[r], clone.files, work.files)
    BY <2>1 DEF Directories, Fresh, Cloned, Reading
  <2>3. Knows(r, run[r])
    BY <2>1 DEF Knows, Fresh, Steps
  <2> QED BY <2>1, <2>2, <2>3 DEF Consistent
<1>2. Alone
  BY DEF Init, Alone, InProgress, Fresh
<1> QED BY <1>1, <1>2 DEF Undisturbed

LEMMA StepInductive == Inductive /\ [Next]_vars => Inductive'
<1> SUFFICES ASSUME Inductive, [Next]_vars PROVE Inductive'
  OBVIOUS
<1>1. Typed /\ Typed'
  BY StepTyped DEF Inductive
<1>2. CASE UNCHANGED vars
  BY <1>1, <1>2 DEF Inductive, Undisturbed, Alone, InProgress, Quiet, Never, vars
<1>3. ASSUME NEW r \in Runs, RunStep(r) \/ GitStep(r), Quiet'
      PROVE  Undisturbed'
  <2>1. Quiet
    BY <1>1, <1>3, RunStepRest, GitStepRest, QuietBefore
  <2>2. Undisturbed
    BY <2>1 DEF Inductive
  <2> QED BY <1>1, <1>3, <2>2, RunStepUndisturbed, GitStepUndisturbed
<1>4. CASE Next
  BY <1>1, <1>3, <1>4 DEF Next, RunStep, Inductive
<1> QED BY <1>2, <1>4

\* An execution that reports success read, when it stored the files and again
\* when it looked for APIs, exactly the commit it cloned: for any leftovers of
\* crashes, aborts and failed clean-ups, as long as executions do not overlap,
\* git obeys SIGTERM and no call fails (runRepositoryScan).
THEOREM Wholeness == Spec => []WholeResult
<1>1. Init => Inductive
  BY InitTyped, InitUndisturbed DEF Inductive
<1>2. Inductive => WholeResult
  <2> SUFFICES ASSUME Inductive, Quiet, NEW r \in Runs PROVE Whole(r)
    BY DEF WholeResult, Quiet
  <2>1. Knows(r, run[r])
    BY DEF Inductive, Undisturbed, Consistent
  <2> QED BY <2>1 DEF Knows, Whole
<1> QED BY <1>1, <1>2, StepInductive, PTL DEF Spec

-----------------------------------------------------------------------------
(* What an execution leaves                                                *)

Tended == Never({"overlap", "deaf", "cleanup"})

\* Only the execution that waits for it has a git process that writes.
Tame ==
  \A r \in Runs :
    /\ git[r].st # "deaf"
    /\ git[r].st = "writing" => run[r].pc = "cloning"

\* What the clean-up does not have to remove any more is gone.
Removes(r) ==
  run[r].pc = "cleanup" =>
    /\ "clone" \notin run[r].owned => clone = NoClone
    /\ run[r].outcome = "value" /\ "work" \notin run[r].owned => work = NoWork

Swept == Alone /\ Tame /\ \A r \in Runs : Removes(r)

\* Before the clean-up begins everything is there to remove.
LEMMA CleanUpRemoves ==
  ASSUME Typed, NEW r \in Runs, NEW o \in {"error", "value"}, CleanUp(r, o),
         o = "value" => run[r].pc = "reread"
  PROVE  Removes(r)'
<1> DEFINE owned == Owned(run[r].pc)
           e == [run[r] EXCEPT !.pc = IF owned = {} THEN "ended" ELSE "cleanup",
                               !.owned = owned, !.todo = {}, !.outcome = o]
<1>1. run'[r] = e
  BY DEF CleanUp, Typed, TypeOK, Executions
<1>2. /\ e.pc = IF owned = {} THEN "ended" ELSE "cleanup"
      /\ e.owned = owned /\ e.outcome = o
  BY DEF Typed, TypeOK, Executions
<1>3. /\ owned # {} => "clone" \in owned
      /\ o = "value" => "work" \in owned
  BY DEF Owned
<1> HIDE DEF e, owned
<1> QED BY <1>1, <1>2, <1>3 DEF Removes

\* A removal that is not rejected.
LEMMA RemoveRemoves ==
  ASSUME Typed, Tended', NEW r \in Runs, Removes(r), NEW d \in {"clone", "work"},
         Remove(r, d)
  PROVE  /\ clone' = IF d = "clone" THEN NoClone ELSE clone
         /\ work' = IF d = "work" THEN NoWork ELSE work
         /\ run'[r].owned = run[r].owned \ {d}
         /\ run'[r].outcome = run[r].outcome
         /\ run[r].pc = "cleanup" /\ (run'[r].pc = "ended" => run[r].owned = {d})
         /\ Removes(r)'
<1>1. ~Spend("cleanup")
  BY NoneSpent DEF Spend, Tended, Never, Disturbances
<1>2. /\ clone' = IF d = "clone" THEN NoClone ELSE clone
      /\ work' = IF d = "work" THEN NoWork ELSE work
  BY <1>1 DEF Remove
<1>3. /\ run'[r].owned = run[r].owned \ {d} /\ run'[r].outcome = run[r].outcome
      /\ run[r].pc = "cleanup" /\ (run'[r].pc = "ended" => run[r].owned = {d})
  BY DEF Remove, Typed, TypeOK, Executions
<1>4. Removes(r)'
  BY <1>2, <1>3 DEF Removes
<1> QED BY <1>2, <1>3, <1>4

\* A process that is asked to end does not write any more.
LEMMA TerminateTame ==
  ASSUME Typed, Tended', NEW r \in Runs, git[r].st # "deaf",
         NEW D \in SUBSET Disturbances, Terminate(r, D)
  PROVE  git'[r].st \notin {"deaf", "writing"}
<1>1. ~SpendAll(D \cup {"deaf"})
  <2>1. D \cup {"deaf"} \in SUBSET Disturbances
    BY DEF Disturbances
  <2> QED BY <2>1, NoneSpent DEF Tended, Never, Disturbances
<1>2. git \in [Runs -> Processes]
  BY DEF Typed, TypeOK
<1> QED BY <1>1, <1>2 DEF Terminate, Processes

\* The process of an execution that moves.
LEMMA RunStepTame ==
  ASSUME Typed, Tended', NEW r \in Runs, RunStep(r), git[r].st # "deaf",
         git[r].st = "writing" => run[r].pc = "cloning"
  PROVE  /\ git'[r].st # "deaf"
         /\ git'[r].st = "writing" => run'[r].pc = "cloning"
<1>0. git \in [Runs -> Processes]
  BY DEF Typed, TypeOK
<1>1. CASE CloneTimeout(r) \/ Crash(r)
  BY <1>1, TerminateTame DEF CloneTimeout, Crash, Disturbances
<1>2. CASE Abort(r)
  <2>1. CASE run[r].pc = "cloning"
    BY <1>2, <2>1, TerminateTame DEF Abort, Disturbances
  <2>2. CASE run[r].pc # "cloning"
    BY <1>2, <2>2 DEF Abort
  <2> QED BY <2>1, <2>2
<1>3. CASE Spawn(r)
  <2>1. ~Spend("deaf")
    BY NoneSpent DEF Spend, Tended, Never, Disturbances
  <2>2. CASE git' = [git EXCEPT ![r].st = "asked"]
    BY <1>0, <2>2 DEF Processes
  <2>3. CASE Go(r, "cloning")
    <3>1. run'[r].pc = "cloning"
      BY <2>3, GoType DEF Steps
    <3>2. git'[r].st # "deaf"
      BY <1>0, <1>3, <2>1 DEF Spawn, Processes
    <3> QED BY <3>1, <3>2
  <2> QED BY <1>3, <2>1, <2>2, <2>3 DEF Spawn
<1>4. CASE Start(r) \/ Fails(r) \/ (Proceed(r) /\ ~Spawn(r))
  <2>1. git' = git /\ git[r].st # "writing"
    <3>1. CASE Start(r) \/ Fails(r)
      BY <3>1 DEF Start, Fails
    <3>2. CASE Proceed(r) /\ ~Spawn(r)
      BY <3>2 DEF Proceed, Clear, Make, WriteAskPass, Close, ResolveCommitSha,
         Prepare, Wipe, MakeWork, OpenSource, Copied, Discover, Walked, Store,
         Complete, Copy, Walk, Extract, Reread, Remove
    <3> QED BY <1>4, <3>1, <3>2
  <2> QED BY <2>1
<1> QED BY <1>1, <1>2, <1>3, <1>4 DEF RunStep

\* The clean-up of an execution that moves.
LEMMA RunStepRemoves ==
  ASSUME Typed, Tended', NEW r \in Runs, RunStep(r), Removes(r)
  PROVE  Removes(r)'
<1>0. run[r] \in Executions /\ run \in [Runs -> Executions]
  BY DEF Typed, TypeOK
<1>1. CASE \E d \in {"clone", "work"} : Remove(r, d)
  BY <1>1, RemoveRemoves
<1>2. CASE Throw(r) \/ Complete(r)
  BY <1>2, CleanUpRemoves DEF Throw, Complete, Unless
<1>3. CASE Abort(r)
  <2>1. CASE run[r].pc = "cloning"
    BY <1>0, <1>3, <2>1 DEF Abort, Executions, Removes
  <2>2. CASE run[r].pc # "cloning"
    <3>1. /\ run'[r].pc = run[r].pc /\ run'[r].owned = run[r].owned
          /\ run'[r].outcome = run[r].outcome /\ UNCHANGED <<clone, work>>
      BY <1>0, <1>3, <2>2 DEF Abort, Executions
    <3> QED BY <3>1 DEF Removes
  <2> QED BY <2>1, <2>2
<1>4. CASE run'[r].pc # "cleanup"
  BY <1>4 DEF Removes
<1>5. ASSUME ~Throw(r), ~Complete(r), ~Abort(r),
             ~ \E d \in {"clone", "work"} : Remove(r, d)
      PROVE  run'[r].pc # "cleanup"
  <2>1. CASE \E pc \in Steps \cup {"dead"} : Go(r, pc)
    BY <2>1, GoType DEF Steps
  <2>2. CASE \E pc \in {"copy", "walk"}, files \in {clone.files, work.files} :
               List(r, pc, files)
    BY <1>0, <2>2 DEF List, Executions
  <2>3. CASE Walked(r) \/ Store(r)
    BY <1>0, <1>5, <2>3 DEF Walked, Store, Unless, Executions
  <2>4. CASE \E f \in Files : Copy(r, f) \/ Walk(r, f) \/ Extract(r, f) \/ Reread(r, f)
    BY <1>0, <1>5, <2>4 DEF Copy, Walk, Extract, Reread, Unless, Executions
  <2>5. CASE Proceed(r)
    BY <1>5, <2>5, <2>1, <2>2, <2>3, <2>4
       DEF Proceed, Steps, Unless, Clear, Make, WriteAskPass, Spawn, Close,
           ResolveCommitSha, Prepare, Wipe, MakeWork, OpenSource, Copied, Discover
  <2>6. CASE Start(r) \/ Crash(r) \/ CloneTimeout(r) \/ Fails(r)
    BY <1>5, <2>1, <2>6 DEF Start, Crash, CloneTimeout, Fails, Steps
  <2> QED BY <1>5, <2>5, <2>6 DEF RunStep
<1> QED BY <1>1, <1>2, <1>3, <1>4, <1>5

\* Nobody else is cleaning up when an execution moves ...
LEMMA RunStepSwept ==
  ASSUME Typed, Tended', Swept, NEW r \in Runs, RunStep(r)
  PROVE  Swept'
<1>0. used'["overlap"] = 0
  BY DEF Tended, Never
<1>1. Alone' /\ \A q \in Runs \ {r} : run'[q] = run[q] /\ ~InProgress(q)
  BY <1>0, SoleStep DEF Swept
<1>2. \A q \in Runs \ {r} : git'[q] = git[q]
  BY OtherProcesses
<1>3. Tame'
  <2>1. git'[r].st # "deaf" /\ (git'[r].st = "writing" => run'[r].pc = "cloning")
    BY RunStepTame DEF Swept, Tame
  <2>2. ASSUME NEW q \in Runs \ {r}
        PROVE  git'[q].st # "deaf" /\ (git'[q].st = "writing" => run'[q].pc = "cloning")
    BY <1>1, <1>2 DEF Swept, Tame
  <2> QED BY <2>1, <2>2 DEF Tame
<1>4. Removes(r)' /\ \A q \in Runs \ {r} : Removes(q)'
  BY <1>1, RunStepRemoves DEF Swept, Removes, InProgress
<1> QED BY <1>1, <1>3, <1>4 DEF Swept

\* ... or when a git process writes.
LEMMA GitStepSwept ==
  ASSUME Typed, Tended', Swept, NEW r \in Runs, GitStep(r)
  PROVE  Swept'
<1>0. git \in [Runs -> Processes]
  BY DEF Typed, TypeOK
<1>1. UNCHANGED <<work, run>>
  BY GitStepRest
<1>2. \A q \in Runs \ {r} : git'[q] = git[q]
  BY OtherProcesses
<1>3. git'[r].st = git[r].st \/ git'[r].st \in {"done", "died"}
  BY <1>0 DEF GitStep, GitWrite, GitDone, GitFails, GitDies, Processes
<1>4. Alone' /\ Tame'
  BY <1>1, <1>2, <1>3 DEF Swept, Alone, InProgress, Tame
<1>5. CASE UNCHANGED clone
  BY <1>1, <1>4, <1>5 DEF Swept, Removes
<1>6. CASE ~UNCHANGED clone
  <2>1. git[r].st = "writing"
    <3>1. git[r].st \in {"writing", "deaf"}
      BY <1>6 DEF GitStep, GitWrite, GitDone, GitFails, GitDies
    <3> QED BY <3>1 DEF Swept, Tame
  <2>2. run[r].pc = "cloning"
    BY <2>1 DEF Swept, Tame
  <2>3. \A q \in Runs : run[q].pc # "cleanup"
    BY <2>2 DEF Swept, Alone, InProgress
  <2> QED BY <1>1, <1>4, <2>3 DEF Swept, Removes
<1> QED BY <1>5, <1>6

Tidied == Typed /\ (Tended => Swept)

\* What is tidied stays so.
LEMMA StepTidied == Tidied /\ [Next]_vars => Tidied'
<1> SUFFICES ASSUME Tidied, [Next]_vars PROVE Tidied'
  OBVIOUS
<1>1. Typed /\ Typed'
  BY StepTyped DEF Tidied
<1>2. CASE UNCHANGED vars
  BY <1>1, <1>2 DEF Tidied, Swept, Alone, InProgress, Tame, Removes, Tended, Never, vars
<1>3. ASSUME NEW r \in Runs, RunStep(r) \/ GitStep(r), Tended'
      PROVE  Swept'
  <2>1. UNCHANGED used \/ \E E \in SUBSET Disturbances : SpendAll(E)
    BY <1>1, <1>3, RunStepRest, GitStepRest
  <2>2. Tended
    BY <1>1, <1>3, <2>1 DEF Typed, TypeOK, SpendAll, Tended, Never, Disturbances
  <2> QED BY <1>1, <1>3, <2>2, RunStepSwept, GitStepSwept DEF Tidied
<1>4. CASE Next
  BY <1>1, <1>3, <1>4 DEF Next, RunStep, Tidied
<1> QED BY <1>2, <1>4

\* The last removal of an execution.
LEMMA LastRemoval ==
  ASSUME Typed, Tended', Swept, NEW r \in Runs, [Next]_vars,
         run[r].pc = "cleanup", run'[r].pc = "ended"
  PROVE  \E d \in {"clone", "work"} : Remove(r, d)
<1>0. run \in [Runs -> Executions]
  BY DEF Typed, TypeOK
<1>1. PICK q \in Runs : RunStep(q) \/ GitStep(q)
  BY DEF Next, RunStep, vars
<1>2. RunStep(r)
  BY <1>1, GitStepRest, RunStepMoves DEF Moves, Others
<1>3. ~Start(r) /\ ~CloneTimeout(r) /\ ~Fails(r)
  BY DEF Start, CloneTimeout, Fails, Steps
<1>4. ~Abort(r) /\ ~Crash(r)
  <2>1. ASSUME run' = [run EXCEPT ![r].pc = "dead"] PROVE FALSE
    BY <1>0, <2>1 DEF Executions
  <2>2. ASSUME run' = [run EXCEPT ![r].aborted = TRUE] PROVE FALSE
    BY <1>0, <2>2 DEF Executions
  <2> QED BY <2>1, <2>2 DEF Abort, Crash, Go
<1>5. Proceed(r)
  BY <1>2, <1>3, <1>4 DEF RunStep
<1> QED BY <1>5 DEF Proceed, Clear, Make, WriteAskPass, Spawn, Close, ResolveCommitSha,
           Prepare, Wipe, MakeWork, OpenSource, Copied, Discover, Walked, Store,
           Complete, Copy, Walk, Extract, Reread

\* An execution whose clean-up ends leaves no clone, and a successful one no
\* workspace, whatever crashes and failed calls left to it, as long as no
\* removal is rejected (cleanupScanResources, the catch block of materialize).
THEOREM NothingLeft == Spec => LeavesNothing
<1> DEFINE A == \A r \in Runs :
                  /\ run[r].pc = "cleanup"
                  /\ run'[r].pc = "ended"
                  /\ Never({"overlap", "deaf", "cleanup"})'
                  => /\ clone' = NoClone
                     /\ run'[r].outcome = "value" => work' = NoWork
<1>1. Init => Tidied
  <2> SUFFICES ASSUME Init PROVE Swept
    BY InitTyped DEF Tidied
  <2> QED BY DEF Init, Fresh, Swept, Alone, InProgress, Tame, Removes
<1>2. Tidied /\ [Next]_vars => [A]_vars
  <2> SUFFICES ASSUME Tidied, [Next]_vars, NEW r \in Runs,
                      run[r].pc = "cleanup", run'[r].pc = "ended", Tended'
               PROVE  /\ clone' = NoClone
                      /\ run'[r].outcome = "value" => work' = NoWork
    BY DEF Tended
  <2>1. Typed /\ ~UNCHANGED vars
    BY DEF Tidied, vars
  <2>2. UNCHANGED used \/ \E E \in SUBSET Disturbances : SpendAll(E)
    BY <2>1, RunStepRest, GitStepRest DEF Next, RunStep
  <2>3. Tended
    BY <2>1, <2>2 DEF Typed, TypeOK, SpendAll, Tended, Never, Disturbances
  <2>4. Swept
    BY <2>3 DEF Tidied
  <2>5. PICK d \in {"clone", "work"} : Remove(r, d)
    BY <2>1, <2>4, LastRemoval
  <2>6. Removes(r)
    BY <2>4 DEF Swept
  <2>7. /\ clone' = IF d = "clone" THEN NoClone ELSE clone
        /\ work' = IF d = "work" THEN NoWork ELSE work
        /\ run'[r].outcome = run[r].outcome
        /\ run[r].pc = "cleanup" /\ run[r].owned = {d}
    BY <2>1, <2>5, <2>6, RemoveRemoves
  <2> QED BY <2>6, <2>7 DEF Removes
<1> QED BY <1>1, <1>2, StepTidied, PTL DEF Spec, LeavesNothing

=============================================================================
