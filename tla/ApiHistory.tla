----------------------------- MODULE ApiHistory -----------------------------
(***************************************************************************)
(* The code and the APIs that the scans of one repository found, their     *)
(* snapshots and the change records between scans.                         *)
(*                                                                         *)
(* Scans are numbered in the order of their creation.  An attempt at a     *)
(* scan is one execution; two attempts at a scan overlap when a timed-out  *)
(* one goes on.  The rows of an attempt are named <<scan, attempt, n>>; a  *)
(* snapshot has the name of its API.  ScanLifecycle says how attempts come *)
(* about; here only the steps that write results are told apart.           *)
(*                                                                         *)
(* The two transactions that replace a scan's results are not atomic: the  *)
(* rows they delete are those that their statements see, and an open       *)
(* transaction makes others wait for the rows it has deleted.              *)
(***************************************************************************)
EXTENDS ApiContracts, CodeGraph, FiniteSetsExt

CONSTANTS
  LastScan,   \* scans are 1..LastScan
  Attempts,   \* attempts are 1..Attempts
  Code,       \* the code that each attempt finds
  Commits,    \* the routes that each attempt can find: sequences of contracts
  Limit,      \* how often each disturbance may happen
  Budget      \* how many disturbances may happen in all

\* failure: a step throws; rerun: a completed scan is retried, because a call
\* after its completion failed; detach: an attempt times out and goes on.
Disturbances == {"failure", "rerun", "detach"}

Scans == 1..LastScan
Runs == Scans \X (1..Attempts)
Contracts == UNION {UNION {Range(commit) : commit \in Commits[r]} : r \in Runs}

ASSUME BoundsAssumption == LastScan \in Nat /\ Attempts \in Nat
ASSUME CommitsAssumption ==
  /\ DOMAIN Commits = Runs /\ DOMAIN Code = Runs
  /\ \A r \in Runs : Commits[r] \subseteq Seq(Contracts)
  /\ \A c \in Contracts : IsSchema(c.request) /\ IsSchema(c.response)
\* A file has a path, and an import goes up and then down along segments.
ASSUME CodeAssumption ==
  \A r \in Runs : \A p \in DOMAIN Code[r] :
    /\ IsPath(p) /\ p # <<>>
    /\ \A ref \in Code[r][p] : ref.up \in Nat /\ IsPath(ref.down)
ASSUME LimitAssumption == Limit \in [Disturbances -> Nat] /\ Budget \in Nat

VARIABLES
  status,    \* status of the scan rows
  run,       \* attempts
  files,     \* CodeFile rows, each with its symbols
  deps,      \* CodeDependency rows
  apis,      \* DetectedApi rows, each with its documentation
  snaps,     \* ApiSnapshot rows
  changes,   \* ApiChange rows
  used       \* disturbances that have happened

codeVars == <<files, deps>>
apiVars == <<apis, snaps, changes>>
vars == <<status, run, codeVars, apiVars, used>>

Fresh == [pc |-> "idle", aborted |-> FALSE, gone |-> {}, found |-> <<>>,
          base |-> 0, prev |-> <<>>]

Init ==
  /\ status = [s \in Scans |-> "ABSENT"]
  /\ run = [r \in Runs |-> Fresh]
  /\ files = {} /\ deps = {}
  /\ apis = {}
  /\ snaps = {}
  /\ changes = {}
  /\ used = [d \in Disturbances |-> 0]

Spend(d) ==
  /\ used[d] < Limit[d]
  /\ FoldSet(LAMBDA x, n : used[x] + n, 0, Disturbances) < Budget
  /\ used' = [used EXCEPT ![d] = @ + 1]

Go(r, pc) == run' = [run EXCEPT ![r].pc = pc]
InProgress(r) == run[r].pc \in {"code", "storing", "replace", "replacing",
                                "base", "read", "write", "complete"}

Active(s) == status[s] \in {"QUEUED", "RUNNING"}

\* The partial unique index.
Free(s) == \A t \in Scans \ {s} : ~Active(t)

Request(s) ==
  /\ status[s] = "ABSENT"
  /\ \A t \in 1..(s - 1) : status[t] # "ABSENT"
  /\ Free(s)
  /\ status' = [status EXCEPT ![s] = "QUEUED"]
  /\ UNCHANGED <<run, codeVars, apiVars, used>>

\* An attempt: marked running, cloned, analysed up to the extracted code.
Start(s, k) ==
  /\ run[<<s, k>>].pc = "idle"
  /\ Free(s)
  /\ IF k = 1 THEN status[s] = "QUEUED"
              ELSE run[<<s, k - 1>>].aborted \/ run[<<s, k - 1>>].pc = "failed"
  /\ status' = [status EXCEPT ![s] = "RUNNING"]
  /\ Go(<<s, k>>, "code")
  /\ UNCHANGED <<codeVars, apiVars, used>>

\* An attempt that throws marks its scan FAILED unless the row is terminal or
\* the handler has given it up already.
Throw(s, k) ==
  /\ run' = [run EXCEPT ![<<s, k>>] = [Fresh EXCEPT !.pc = "failed",
                                     !.aborted = run[<<s, k>>].aborted]]
  /\ status' = IF status[s] = "RUNNING" /\ ~run[<<s, k>>].aborted
               THEN [status EXCEPT ![s] = "FAILED"] ELSE status

-----------------------------------------------------------------------------
(* Code                                                                    *)

FilesOf(s) == {f \in files : f[1][1] = s}
DepsOf(s) == {d \in deps : d.from[1][1] = s}

\* replaceScanIntelligence deletes the dependencies of the scan, for which it
\* may have to wait, then its symbols and the files that it sees by then.
OpenStore(s, k) ==
  /\ run[<<s, k>>].pc = "code"
  /\ \A j \in 1..Attempts : run[<<s, j>>].pc = "storing" =>
       \A d \in deps : d.from \notin run[<<s, j>>].gone
  /\ run' = [run EXCEPT ![<<s, k>>].pc = "storing", ![<<s, k>>].gone = FilesOf(s)]
  /\ UNCHANGED <<status, codeVars, apiVars, used>>

\* It inserts its own rows and commits, unless another attempt has meanwhile
\* stored one of its paths; then the abort check.
Store(s, k) ==
  LET gone == run[<<s, k>>].gone
      made == FileRows(<<s, k>>, Code[<<s, k>>])
  IN
  /\ run[<<s, k>>].pc = "storing"
  /\ IF SharePath(made, FilesOf(s) \ gone)
     THEN Throw(s, k) /\ UNCHANGED codeVars
     ELSE /\ files' = (files \ gone) \cup made
          /\ deps' = {[d EXCEPT !.to = IF @ \in gone THEN <<>> ELSE @] :
                        d \in {x \in deps : x.from \notin gone}}
                      \cup DependencyRows(<<s, k>>, Code[<<s, k>>])
          /\ IF run[<<s, k>>].aborted THEN Throw(s, k)
             ELSE /\ run' = [run EXCEPT ![<<s, k>>].pc = "replace", ![<<s, k>>].gone = {}]
                  /\ UNCHANGED status
  /\ UNCHANGED <<apiVars, used>>

-----------------------------------------------------------------------------
(* APIs                                                                    *)

Row(s, k, n) == [id |-> <<s, k, n>>, contract |-> run[<<s, k>>].found[n]]
Rows(s, k) == [n \in DOMAIN run[<<s, k>>].found |-> Row(s, k, n)]

Old(s) == {a.id : a \in {x \in apis : x.id[1] = s}}

\* Slip: the references stay.
DeleteOnly(gone) ==
  /\ snaps' = {x \in snaps : x.id \notin gone}
  /\ changes' = {x \in changes : x.api \notin gone}

\* Deleting APIs deletes their snapshots and the changes that name them; the
\* changes that only refer to one of the snapshots lose the reference.
Cascade(gone) ==
  /\ snaps' = {x \in snaps : x.id \notin gone}
  /\ changes' = {[c EXCEPT !.old = IF @ \in gone THEN <<>> ELSE @,
                           !.new = IF @ \in gone THEN <<>> ELSE @] :
                   c \in {x \in changes : x.api \notin gone}}

\* Slip: scans that did not complete count.
EarlierAny(s) == {t \in 1..(s - 1) : status[t] # "ABSENT"}

\* The routes are extracted; replaceScanApis deletes the documentation of the
\* scan, for which it may have to wait, and the APIs that it sees by then.
OpenReplace(s, k, commit) ==
  /\ run[<<s, k>>].pc = "replace"
  /\ \A j \in 1..Attempts : run[<<s, j>>].pc = "replacing" =>
       run[<<s, j>>].gone \cap Old(s) = {}
  /\ run' = [run EXCEPT ![<<s, k>>].pc = "replacing", ![<<s, k>>].gone = Old(s),
                        ![<<s, k>>].found = commit]
  /\ UNCHANGED <<status, codeVars, apiVars, used>>

\* It inserts its own APIs and commits; then the abort check.
Replace(s, k) ==
  LET gone == run[<<s, k>>].gone IN
  /\ run[<<s, k>>].pc = "replacing"
  /\ Cascade(gone)
  /\ apis' = {x \in apis : x.id \notin gone} \cup Range(Rows(s, k))
  /\ IF run[<<s, k>>].aborted THEN Throw(s, k)
     ELSE /\ run' = [run EXCEPT ![<<s, k>>].pc = "base", ![<<s, k>>].gone = {}]
          /\ UNCHANGED status
  /\ UNCHANGED <<codeVars, used>>

Earlier(s) == {t \in 1..(s - 1) : status[t] = "COMPLETED"}

\* findLatestPreviousSnapshots: the scan ...
FindPrevious(s, k) ==
  /\ run[<<s, k>>].pc = "base"
  /\ run' = [run EXCEPT ![<<s, k>>].pc = IF Earlier(s) = {} THEN "write" ELSE "read",
       ![<<s, k>>].base = IF Earlier(s) = {} THEN 0 ELSE LastOf(Earlier(s))]
  /\ UNCHANGED <<status, codeVars, apiVars, used>>

\* ... and its snapshots, in the order the database likes.
ReadSnapshots(s, k) ==
  /\ run[<<s, k>>].pc = "read"
  /\ \E rows \in SetToSeqs({x \in snaps : x.id[1] = run[<<s, k>>].base}) :
       run' = [run EXCEPT ![<<s, k>>].pc = "write", ![<<s, k>>].prev = rows]
  /\ UNCHANGED <<status, codeVars, apiVars, used>>

\* Slip: a route that did not change gets no snapshot.
ChangedSnapshots(s, k) ==
  {[id |-> row.id, contract |-> row.contract,
    version |-> Version(row.contract, run[<<s, k>>].prev)] :
     row \in {x \in Range(Rows(s, k)) :
                \A p \in Range(run[<<s, k>>].prev) : p.contract # x.contract}}

\* createSnapshotInputs.
NewSnapshots(s, k) ==
  {[id |-> row.id, contract |-> row.contract,
    version |-> Version(row.contract, run[<<s, k>>].prev)] :
     row \in Range(Rows(s, k))}

NewChanges(s, k) ==
  {[scan |-> s, api |-> c.api, type |-> c.type, old |-> c.old, new |-> c.new,
    severity |-> c.severity] : c \in Changes(run[<<s, k>>].prev, Rows(s, k))}

Ids(rows) == {x.id : x \in rows}

\* createSnapshotsAndChanges, one transaction: every API and every snapshot
\* that a new row names must exist.
Write(s, k) ==
  LET made == NewSnapshots(s, k)
      report == NewChanges(s, k)
      named == Ids(made) \cup {c.api : c \in report}
      linked == {c.old : c \in report} \cup {c.new : c \in report}
  IN
  /\ run[<<s, k>>].pc = "write"
  /\ IF /\ named \subseteq Ids(apis)
        /\ linked \subseteq Ids(snaps \cup made) \cup {<<>>}
     THEN /\ snaps' = snaps \cup made
          /\ changes' = {c \in changes : c.scan # s} \cup report
          /\ IF run[<<s, k>>].aborted THEN Throw(s, k)
             ELSE Go(<<s, k>>, "complete") /\ UNCHANGED status
     ELSE Throw(s, k) /\ UNCHANGED <<snaps, changes>>
  /\ UNCHANGED <<codeVars, apis, used>>

\* markCompletedIfRunning; whoever finds the row settled gives up.
Complete(s, k) ==
  /\ run[<<s, k>>].pc = "complete"
  /\ IF status[s] = "RUNNING" /\ ~run[<<s, k>>].aborted
     THEN /\ status' = [status EXCEPT ![s] = "COMPLETED"]
          /\ run' = [run EXCEPT ![<<s, k>>] =
               [Fresh EXCEPT !.pc = "done", !.base = run[<<s, k>>].base]]
     ELSE Throw(s, k)
  /\ UNCHANGED <<codeVars, apiVars, used>>

Fail(s, k) ==
  /\ InProgress(<<s, k>>)
  /\ Spend("failure")
  /\ Throw(s, k)
  /\ UNCHANGED <<codeVars, apiVars>>

\* The last progress call fails: the job is retried, the row stays COMPLETED.
FailLate(s, k) ==
  /\ run[<<s, k>>].pc = "done"
  /\ Spend("rerun")
  /\ Go(<<s, k>>, "failed")
  /\ UNCHANGED <<status, codeVars, apiVars>>

\* The attempt times out.  Its current call goes on, and so does everything up
\* to the next abort check.
Detach(s, k) ==
  /\ InProgress(<<s, k>>)
  /\ ~run[<<s, k>>].aborted
  /\ Spend("detach")
  /\ run' = [run EXCEPT ![<<s, k>>].aborted = TRUE]
  /\ status' = [status EXCEPT ![s] = "FAILED"]
  /\ UNCHANGED <<codeVars, apiVars>>

Next ==
  \/ \E s \in Scans : Request(s)
  \/ \E s \in Scans, k \in 1..Attempts :
       \/ Start(s, k) \/ OpenStore(s, k) \/ Store(s, k)
       \/ \E commit \in Commits[<<s, k>>] : OpenReplace(s, k, commit)
       \/ Replace(s, k) \/ FindPrevious(s, k) \/ ReadSnapshots(s, k)
       \/ Write(s, k) \/ Complete(s, k)
       \/ Fail(s, k) \/ FailLate(s, k) \/ Detach(s, k)

Spec == Init /\ [][Next]_vars

-----------------------------------------------------------------------------
(* Properties                                                              *)

Never(D) == \A d \in D : used[d] = 0

SnapsOf(s) == {x \in snaps : x.id[1] = s}
ChangesOf(s) == {c \in changes : c.scan = s}
Find(id) == CHOOSE x \in snaps : x.id = id

\* The scan that the completed scan s was compared with, 0 if none.
Base(s) ==
  LET done == {k \in 1..Attempts : run[<<s, k>>].pc = "done"} IN
  IF done = {} THEN 0 ELSE run[<<s, LastOf(done)>>].base
Compared(s) ==
  status[s] = "COMPLETED" /\ Never({"rerun", "detach"})

\* References hold through all deletions: a dependency has its files, a snapshot
\* has its API, a change its API and every snapshot that it still names (the
\* relations of the schema and the three transactions that write them).
TypeOK ==
  /\ status \in [Scans -> {"ABSENT", "QUEUED", "RUNNING", "COMPLETED", "FAILED"}]
  /\ \A r \in Runs :
       InProgress(r) \/ run[r].pc \in {"idle", "done", "failed"}
  /\ \A d \in deps : d.from \in files /\ d.to \in files \cup {<<>>}
  /\ Ids(snaps) \subseteq Ids(apis)
  /\ \A c \in changes :
       /\ c.api \in Ids(apis)
       /\ {c.old, c.new} \subseteq Ids(snaps) \cup {<<>>}
  /\ \A d \in Disturbances : used[d] \in 0..Limit[d]

\* CONTEXT.md:194, "Snapshots are immutable": what a completed scan has stored
\* is not touched by failing, retried and later scans, in particular not by
\* the cascade of replaceScanApis.
HistoryIsImmutable == [][\A s \in Scans :
  Compared(s) /\ Compared(s)' =>
    /\ SnapsOf(s)' = SnapsOf(s) /\ ChangesOf(s)' = ChangesOf(s)
    /\ FilesOf(s)' = FilesOf(s) /\ DepsOf(s)' = DepsOf(s)]_vars

\* Of the files, those that a reader of an import without an extension means.
Meant(f, ref, rows) ==
  LET dir == Front(f[2])
      base == SubSeq(dir, 1, Len(dir) - ref.up) \o ref.down
      Source(path) == Last(path).ext \in Range(Extensions)
  IN  {g \in rows : /\ ref.local /\ ref.up <= Len(dir) /\ base # <<>>
                    /\ Last(base).ext = "" /\ Source(g[2])
                    /\ \/ /\ Front(g[2]) = Front(base)
                          /\ Last(g[2]).stem = Last(base).stem
                       \/ Front(g[2]) = base /\ Last(g[2]).stem = "index"}

\* The graph of scan s is that of one attempt's code, and an import of a file
\* that the scan has leads to one such file, not out of the code.
GraphIsWhole(s) ==
  \E k \in 1..Attempts :
    /\ FilesOf(s) = FileRows(<<s, k>>, Code[<<s, k>>])
    /\ \A f \in FilesOf(s) : \A ref \in Code[<<s, k>>][f[2]] :
         LET meant == Meant(f, ref, FilesOf(s)) IN
         meant # {} => \E g \in meant : <<f, g>> \in Edges(DepsOf(s))

\* A completed scan has the whole graph of its code and a snapshot of each of
\* its APIs, so that the next scan is compared with all of them, however many
\* attempts stored results of their own before (replaceScanIntelligence,
\* replaceScanApis, createSnapshotsAndChanges).
CompletedIsDescribed ==
  Never({"detach"}) => \A s \in Scans : status[s] = "COMPLETED" =>
    Ids(SnapsOf(s)) = Old(s) /\ GraphIsWhole(s)

\* Whatever routes share a path or even an identity: a route that vanished is
\* reported exactly once and a new one is reported (detectChanges).
EveryRouteAccounted ==
  \A s \in Scans : Compared(s) =>
    LET before == IF Base(s) = 0 THEN {} ELSE SnapsOf(Base(s)) IN
    /\ \A p \in before :
         (\A q \in SnapsOf(s) : Identity(q.contract) # Identity(p.contract)) =>
           Cardinality({c \in ChangesOf(s) : c.old = p.id}) = 1
    /\ \A q \in SnapsOf(s) :
         (\A p \in before : Identity(q.contract) # Identity(p.contract)) =>
           \E c \in ChangesOf(s) : c.new = q.id

OnePerPath(rows) ==
  \A p, q \in rows : p.contract.path = q.contract.path => p = q

\* The fields that a reader notices: an empty object is as good as no body, and
\* an array of empty objects as good as one of anything.
Told(schema) ==
  {p \in Fields(schema) : IsWhole(p) /\ schema[p].type = "object" =>
                            \E f \in Fields(schema) : p \in Above(f)}
Lost(schema, other) == Told(schema) \ Fields(other)
Retyped(old, new) == {p \in Fields(old) \cap Fields(new) : old[p].type # new[p].type}

LooksDifferent(old, new) ==
  Lost(old, new) \cup Lost(new, old) \cup Retyped(old, new) # {}

DifferInCompared(c, d) ==
  \/ c.method # d.method \/ c.auth # d.auth
  \/ LooksDifferent(c.request, d.request) \/ LooksDifferent(c.response, d.response)

\* When no scan has two routes with one path, the report is exactly the paths
\* that came or went and those whose method, auth or bodies look different to a
\* reader.  In particular an unchanged or merely moved route is not reported,
\* and no more is one whose query parameters or guards alone have changed
\* (detectChanges, diffContracts).
ReportsWhatIsCompared ==
  \A s \in Scans : Compared(s) =>
    LET before == IF Base(s) = 0 THEN {} ELSE SnapsOf(Base(s))
        now == SnapsOf(s)
        Path(row) == row.contract.path
    IN  OnePerPath(before) /\ OnePerPath(now) =>
          {<<c.old, c.new>> : c \in ChangesOf(s)} =
            {<<p.id, <<>> >> : p \in {x \in before :
                \A q \in now : Path(q) # Path(x)}}
            \cup {<<<<>>, q.id>> : q \in {x \in now :
                \A p \in before : Path(p) # Path(x)}}
            \cup {<<x[1].id, x[2].id>> : x \in {y \in before \X now :
                Path(y[1]) = Path(y[2]) /\ DifferInCompared(y[1].contract, y[2].contract)}}

\* A modified route has a higher version than before, if its path was served by
\* one route only: createSnapshotInputs and detectChanges choose their
\* previous snapshots independently, and must choose the same.
ModifiedRaisesVersion ==
  \A s \in Scans : Compared(s) /\ Base(s) # 0 /\ OnePerPath(SnapsOf(Base(s))) =>
    \A c \in ChangesOf(s) : c.type = "MODIFIED" =>
      Find(c.new).version > Find(c.old).version

Required(schema) == {p \in Fields(schema) : schema[p].required}
Common(old, new) == Fields(old) \cap Fields(new)
Reformatted(old, new) == {p \in Common(old, new) : old[p].format # new[p].format}
Tightened(old, new) ==
  {p \in Common(old, new) : ~old[p].required /\ new[p].required}

\* Query parameters that a client must send now, or send otherwise.
NewlyDemanded(old, new) ==
  {x \in DOMAIN new :
     IF x \in DOMAIN old
     THEN new[x].type # old[x].type \/ (new[x].required /\ ~old[x].required)
     ELSE new[x].required}

\* What can break a client and is not compared: query parameters, formats, and
\* whether a field that stays is required.
BreaksUnseen(old, new) ==
  \/ NewlyDemanded(old.params, new.params) # {}
  \/ Reformatted(old.request, new.request) # {}
  \/ Reformatted(old.response, new.response) # {}
  \/ Tightened(old.request, new.request) # {}
  \/ Tightened(new.response, old.response) # {}

\* A client written for the old contract can break: it sends what is no longer
\* accepted, leaves out what is now required, or misses what it reads.
Breaks(old, new) ==
  \/ old.method # new.method \/ old.auth # new.auth
  \/ Lost(old.response, new.response) # {} \/ Retyped(old.response, new.response) # {}
  \/ Retyped(old.request, new.request) # {}
  \/ \E p \in Required(new.request) \ Fields(old.request) :
       Parent(p) \in Fields(old.request)
  \/ BreaksUnseen(old, new)

\* No body comes, no items of an array that had none come, guards stay, and
\* nothing that the code does not compare breaks a client.
SameOtherwise(old, new) ==
  /\ \A p \in Fields(new.request) \ Fields(old.request) :
       IsWhole(p) => p # <<>> /\ Parent(p) \notin Fields(old.request)
  /\ old.guards = new.guards
  /\ ~BreaksUnseen(old, new)

\* As far as the code compares, a modification is of high severity exactly when
\* it can break a client (scoreModifiedContract over the differences that
\* compareSchema finds).  Where a query parameter, a format, a guard or whether
\* a common field is required changes, severity says nothing of it.
SeverityTellsBreakage ==
  \A c \in changes : c.type = "MODIFIED" /\ c.old # <<>> /\ c.new # <<>> =>
    LET old == Find(c.old).contract
        new == Find(c.new).contract
    IN  SameOtherwise(old, new) => (c.severity = "HIGH") = Breaks(old, new)

=============================================================================
