# CodeAtlas backend: TLA+ models and proofs

CodeAtlas is a NestJS service that imports source repositories, scans them in
background jobs and serves the results. Its core is the *repository scan*: an
HTTP request creates a `ScanJob` row in PostgreSQL and a BullMQ job in Redis; a
worker process takes the job, runs a long sequence of awaited steps, and writes
its progress into the row, into a Redis snapshot and into the job. Requests,
workers, retries, timeouts, redeliveries and cancellations all write the same
row, and there is no lock around it, only one conditional update and one
partial unique index. That is where the models begin. Around it are what scans
leave behind (detected APIs, their snapshots and change records), the sessions
of the users, their connections to Git providers, their repositories, and an
assistant that answers questions about them.

Paths below are relative to the repository; `lifecycle` is
`src/modules/scanner/lifecycle/repository-scan-lifecycle.service.ts`.

## 1. Inventory

| Component | State | Operations | Interacts with | What is hard |
|---|---|---|---|---|
| scan requests (`scanner.service.ts`) | none of its own | start, cancel, list, status | scan rows, queue, snapshot | several awaited calls per request, each may fail; reads used after other writers moved |
| scan lifecycle (`lifecycle`, `scans.repository.ts`) | `ScanJob.status`, `.progress` | `runRepositoryScan`, `failRepositoryScan`, mark* | engines, materializers, snapshot | unconditional writes, cancellation polled between steps |
| queue and processor (`jobs/`) | BullMQ jobs, locks, attempts | add, remove, process, `withTimeout` | lifecycle | at-least-once delivery, stalled jobs, timeouts that leave the operation running |
| progress snapshot (`scan-progress.consumer.ts`) | one Redis key per scan | set, get | requests and workers | two stores that must agree |
| materializers and workspace (`scanner/source`, `scanner/workspace`) | directories named by the scan | clone, copy, clean up | git processes, integrations | directories shared by overlapping executions; abort against close of a child process |
| code intelligence (`scanner/core`, `extractors`, `analyzers`, `parsers`) | code files, symbols, dependencies of a scan | analyse, replace | lifecycle (progress, abort) | replacement on a retry, by two attempts at once |
| API intelligence (`scanner/api-intelligence`) | detected APIs, documents | extract, replace | versioning | cascading deletes on a retry |
| API versioning and diff | snapshots, change records | match, diff, score | previous completed scan | duplicate routes, versions across scans |
| API catalog, dependency graph, dashboard | none | read | stored rows | pages by keys that are not unique |
| authentication (`auth/`) | refresh tokens, families, OAuth states | register, login, Google callback, refresh, logout | users, Redis, the browser's cookie | concurrent refreshes of one token, reuse, lost answers |
| users | users, accounts, roles | register, Google upsert | authentication | unique constraints under races |
| integrations | provider connections and tokens | connect, list, refresh, disconnect | providers, materializers | concurrent token refreshes, revocation in between, two providers with different rules |
| repositories and ZIP upload | repository rows, stored files | import, upload | integrations, file system | a crash between files and row; reader callbacks |
| AI chat | conversations, messages, rate windows | chat, list, delete | provider, Redis | partial failure, interleaved chats, INCR then EXPIRE |
| health, configuration, helpers | none | – | – | – |

What makes each correct, in one line: *scans* – at most one active scan per
repository; an active row always has somebody who will settle it; a settled row
stays; progress and snapshot agree with the row. *Workspaces* – nobody deletes a
directory another execution reads. *Versioning* – every previous and every
current route is accounted for once. *Tokens* – at most one live token per
family; an identity always enters as the same user. *Connections* – the stored
refresh token is one the provider accepts; a disconnect reaches the provider.
*Uploads* – row and files appear and disappear together. *Chat* – every answer
follows its question.

`PROJECT.json` lists the hazards behind these, each at its line.

## 2. What is modelled now

| Module | Content |
|---|---|
| `ScanLifecycle` | scan requests, worker executions, queue, rows, snapshot |
| `ScanContract` | abstract specification of the status column |
| `MCScanLifecycle` | constants for TLC |
| `ScanLifecycleProofs` | type correctness, one active scan, finality; `ScanLifecycle` implements `ScanContract` |
| `ScanEndingsProofs` | exclusive executions, no orphaned scan, percentages, the snapshot beside the row |
| `ScanWorkspace` | the directories of one scan, its executions and their git processes |
| `MCScanWorkspace` | constants for TLC |
| `ScanWorkspaceProofs` | type correctness, whole results, nothing left |
| `ApiContracts` | operators: schema and contract differences, severity, versions, matching of routes |
| `CodeGraph` | operators: resolution of imports, rows of files and dependencies, edges of the graph |
| `ApiHistory` | extends both: code, APIs, snapshots and change records over the scans of a repository |
| `MCApiHistory` | constants for TLC: bodies, routes, branches, files and imports |
| `ApiHistoryProofs` | references, whole graphs, immutable history, and what reports, versions and severities say |
| `TokenFamilies` | abstract specification of refresh tokens |
| `Sessions` | accounts, logins, Google states, refresh tokens, cookies |
| `MCSessions` | constants for TLC |
| `TokenFamiliesProofs` | one live token per family |
| `SessionsProofs` | type correctness, `Sessions` implements `TokenFamilies`, reuse closes a family, a browser keeps its cookie, an identity its user |
| `Connections` | provider connections, their tokens and the requests that use them |
| `Repositories` | extends it: imports, clones, ZIP uploads |
| `MCRepositories` | constants for TLC |
| `RepositoriesProofs` | type correctness, connections stay refreshable, disconnects, listings and uploads |
| `AiContext` | operators: retrieval with fallback, ranking, character budget |
| `AiChat` | extends it: chats, conversations, rate limit, beside scans that go on |
| `MCAiChat` | constants for TLC |
| `AiChatProofs` | the rate limit, questions and answers, prompts, contexts; what ranking and budget make of any list |

A name that ends in what a definition does wrong (`RowFailsUntidy`) and whose
comment begins with "Slip" is a plausible bug of the definition after it; a
property is worth its run only if the slip violates it.

`ScanLifecycle` treats cloning, copying and reading as steps that may fail;
`ScanWorkspace` opens exactly those steps and leaves the rows and the queue
out. The two meet in the executions: what `ScanLifecycle` shows of them
(`ExclusiveExecution` holds without timeouts and slow workers, and only then) is
the disturbance `overlap` of `ScanWorkspace`. `ApiHistory` takes from
`ScanLifecycle` how attempts at a scan come about (a failure is retried, a
completed scan can be run again, a timed-out attempt goes on) and follows only
what they write. `Repositories` begins the clones that `ScanWorkspace` follows,
and `AiChat` reads what `ApiHistory` writes, also while it is written again.

### State of ScanLifecycle

| Variable | In the program |
|---|---|
| `status[s]`, `progress[s]` | the columns of the `ScanJob` row; `"ABSENT"` before it is created |
| `cache[s]` | the stage of the Redis progress snapshot (`Working` for every stage between `Queued` and `Completed`) |
| `job[s]` | the BullMQ job, whose id is the scan's: state, attempts made, stalls, the execution that holds its lock |
| `run[r]` | one execution of `RepositoryScanProcessor.process`: the operation (`runRepositoryScan`, at step `at` of `Script`) and the handler that awaits it |
| `req[q]` | an HTTP request inside `ScannerService`, at its next awaited call |
| `used` | how often each disturbance has happened (a bound, not program state) |

### Actions of ScanLifecycle

Every awaited database, Redis or queue call is one action, because any other
process may act between two of them; what runs synchronously between two awaits
belongs to the action before it. The other modules do the same, except where
their sections say otherwise (a provider's listing, an upload's entry).

* **Requests.** `StartFind`, `StartCreate`, `StartAnnounce`, `StartEnqueue`,
  `StartAnnotate` are the awaits of `startRepositoryScan` in order;
  `StartReject` is its catch block, which guards only the last two.
  `CancelRead`, `CancelRemove`, `CancelMark`, `CancelNotify` are `cancelScan`;
  a refused removal is swallowed. `RequestFault` rejects the next call,
  `DropRequest` is the death of the API process.
* **Operation.** `Script` is the sequence of steps of one scan.
  `RunRepositoryScan` spells the program's out (56 steps for two files):
  `gate` (abort check and `assertNotCancelled`), `mark` (`markRunning`), `poll`
  (`assertNotCancelled` inside `handleEngineProgress`), `work` (a stretch of
  scanning that begins with an abort check), `watch` (one that also follows the
  signal while it goes on: cloning, copying, file discovery), `report`, `cache`
  and `tick` (the three calls of `updateProgress`), `complete` and `verify` (the
  conditional update of `markCompletedIfRunning` and the read that follows it).
* **Handler.** `Timeout` is the timer of `withTimeout`: it aborts and detaches
  the operation, which goes on until it notices. `FailRead`, `FailMark` and
  `FailCache` are `failRepositoryScan`.
* **Queue (external).** `PickUp`, `Resolve`, `Rethrow`, `StallDead`, `StallSlow`
  and `Crash` are BullMQ as the code relies on it: a job is held by the
  execution that took it; only the holder can finish or retry it; `attempts` and
  `maxStalledCount` bound the retries; a worker runs one job at a time.

`ScanContract` forgets all this and keeps the status column and who has a
*hand* on each scan: a pending or unfinished attempt, or somebody about to write
on an earlier read. It says which transitions are legal, that a new hand only
comes from an existing one, and that a row nobody has a hand on does not move
(except that a running scan may complete).

### ScanWorkspace

| Variable | In the program |
|---|---|
| `clone` | the materialization directory (`root`), the clone in it (`source`) and its files |
| `work` | the workspace directory and its files |
| `run[r]` | an execution: its step, abort signal, the loop it is in (`todo`), what discovery `found`, the contents it stored (`parsed`) and read again for the APIs (`apis`), the directories its clean-up still has to remove (`owned`) |
| `git[r]` | its `git clone` process: writing, asked to end, `deaf` (ignores SIGTERM), done, died |

A file's content is the execution whose clone brought it, so a stale or foreign
file is visible as such. Supported files are what is modelled; ignored
directories, sizes and languages are data the properties do not tell apart.

* **Materialization.** `Start` to `WriteAskPass` are the awaits before the try
  block, where a rejection removes nothing; `Spawn` is `getCredentials` and the
  spawn, which an aborted signal ends at once. `Close`, `CloneTimeout` and
  `Abort` are the three ways `GitCommandRunnerService.run` settles: each needs
  the execution to be still waiting, later events are ignored.
  `ResolveCommitSha` swallows every error.
* **Workspace.** `Prepare`, `Wipe`, `MakeWork`, `OpenSource`, `Copy`, `Copied`.
* **Reading.** `Discover`, `Walk`, `Walked`; `Extract`, which records an
  unreadable file as failed; `Store`; `Reread`, which throws on one; `Complete`.
* **End.** `Owned` says what the catch block or the finally block removes,
  depending on where the step threw; `Remove` removes one of the directories,
  in either order, or fails and is logged.
* **External.** `GitWrite`, `GitDone`, `GitFails`, `GitDies`, `Crash`.

### ApiContracts, CodeGraph and ApiHistory

A contract is a record; a body's schema is a function from field paths to type
and required flag, with `<<>>` for the body itself and `Item` for the items of
an array. `SchemaDiff` is `compareSchema` in closed form: a field is compared
if the types agree on the way to it. A schema is a tree in which only
properties are required (`IsSchema`): that is what the extractor and the
generator produce, and the proofs about differences assume it. `Matching` is `detectChanges`: by identity
(the last of equals, because it is a map), then by path among the rest;
`Version` is `createSnapshotInputs`, which looks for its previous snapshot on
its own and takes the *first*.

In `CodeGraph` a path is a sequence of segments, each with the extension that
`path.posix.extname` sees, and a reference says how far up and then down it
goes. `ResolveRelativeSpecifier` takes the first of the `Candidates` that the
scan has; `Edge` leads to that file, or to an external node.

| Variable | In the program |
|---|---|
| `status[s]` | the `ScanJob` row |
| `run[s, k]` | the k-th attempt at a scan: its step, the rows its open transaction deletes (`gone`), the routes it `found`, the scan and the snapshots it compares with |
| `files`, `deps` | `CodeFile` and `CodeDependency` rows |
| `apis`, `snaps`, `changes` | `DetectedApi`, `ApiSnapshot`, `ApiChange` rows |

The contract of a route (`ApiContracts`) has what the code stores and hashes:
method, path, authentication, guards, query parameters and both bodies, and what
a client does not see. `ContractDiff` compares of it what `diffContracts` does:
method, authentication and bodies.

`OpenStore` and `Store` are the transaction `replaceScanIntelligence`,
`OpenReplace` and `Replace` the transaction `replaceScanApis` with what the
schema deletes or sets to null along with an API (`Cascade`). Each is split at
its deletions: they see what other attempts have committed by then, wait for
rows that another open transaction has deleted, and miss what it inserts later.
Two attempts that both find nothing to delete both insert; for files the unique
index on scan and path then refuses the second, for APIs nothing does.
`FindPrevious` and `ReadSnapshots` are the queries of
`findLatestPreviousSnapshots`, whose rows come in any order;
`Write` is `createSnapshotsAndChanges`, a transaction that fails if it refers to
a row that has gone; `Complete` is the conditional update. `Fail`, `FailLate`
and `Detach` are the ways an attempt can end badly.

### Sessions

| Variable | In the program |
|---|---|
| `account[e]` | the user with an address: status, whether it has a password, its Google account |
| `token[t]` | a `RefreshToken` row: fresh (not issued), live or revoked; its family, user, expiry |
| `oauth[s]` | the Redis key of a Google OAuth state |
| `jar[b]` | the refresh cookie of a browser |
| `req[q]` | a request, at its next awaited call |

`RegisterFind`, `RegisterCreate`, `LoginFind`, `Issue`, `Answer` are the
password routes. `GoogleCallback`, `ConsumeState` (GETDEL), `FindAccount`,
`FindUser`, `LinkAccount`, `CreateGoogleUser` are the callback; the transaction
of `upsertGoogleUser` is taken apart into its statements, because under read
committed other transactions commit between them, and its writes meet the
unique indexes. `Present`, `Validate`, `CheckOwner`, `Claim`, `Commit` are
`refresh`: the conditional update of `rotate` locks the row (`Locked`) until the
transaction commits. `SeeFamily` and `RevokeFamily` are the start and the end of
the statement of `revokeFamily`, which waits for locked rows but does not see
rows that were created after it started.

`TokenFamilies` says what a caller relies on: a token is opened, handed over
once to a fresh one, or closed, and nothing returns. `Sessions` implements it:
`Issue` opens, `Commit` hands over, `Logout` closes, `RevokeFamily` closes
(there is at most one live token to close, by the invariant), the rest stutters.

### Connections and Repositories

| Variable | In the program |
|---|---|
| `provider` | GitHub or Bitbucket; both are explored |
| `conn[a]`, `later` | `RepositoryConnection` rows by provider account, and the pairs of rows of which the first has the later `updatedAt` |
| `grant[t]` | what the provider knows of a token: its account, whether it accepts the access and the refresh part, whether it is due (external) |
| `req[q]` | a request, at its next database or provider call |
| `repo`, `zipConn` | the imported repository's connection; the ZIP connection |
| `upload`, `disk`, `row` | an upload, its directory, its `Repository` row |

`Connect` and `Store` are the OAuth callback; `Begin`, `RefreshToken`,
`RefreshRefused` and `UpdateTokens` are `getCredentialsForConnection` on behalf
of a listing, import, clone or disconnect; `List`, `GetRepository`, `Clone` and
`Revoke` are the calls the credentials are for; `MarkValidated`, `Save` and
`Close` the writes after them. The difference between the providers is in three
places: GitHub replaces a refresh token when it is used and Bitbucket keeps it
(`Rotates`), GitHub's listing ends with a short page and Bitbucket's with the
last link, GitHub revokes the access token and Bitbucket both. The loops of the
two listings are in closed form: what the pages hold up to the first one that
ends the loop, or an error if none of the allowed ones does (`Read`). All pages
are read in one step, from an account that does not change meanwhile.
`BeginUpload`, `Prepare`, `Entry`, `EndOfArchive`, `CreateRow` are an upload;
`EntryFails`, `RowFails`, `Tidy` its failures. The reader hands out one entry at
a time and the next only after the last was written, so that an entry is a step.

### AiContext and AiChat

| Variable | In the program |
|---|---|
| `minute`, `key[w]` | the clock in windows of the rate limit, and their Redis keys |
| `conv[c]` | an `AiConversation` with its messages by `createdAt` |
| `chat[k]` | a call of the chat endpoint, at its next awaited call |
| `scan[s]` | scans of one of the repositories: what has become of them, the `DetectedApi` rows they have, how often they have written, and how many timed-out executions still may |

`Incr` and `Expire` are `assertAllowed`; `FindCompleted`, `FindLast`,
`FindRelevant` and `FindOthers` are the queries of `findRepositoryContext` and
of its list of detected APIs (`listRelevantApis`); a chat that finds no scan
queries all rows of the repository (`RowsOf`). An answer of the database is any
list of rows in the order of the query that is no longer than its limit allows
(`Listed`). `BeginScan`, `StoreRows`, `CompleteScan`, `FailScan`, `DetachScan`,
`RetryScan` and `StoreLate` are what scans do meanwhile: each write of
`replaceScanApis`, by any attempt, replaces the scan's rows by rows with new
ids. `OpenConversation`, `ReadHistory`, `StoreQuestion`,
`BeginAnswer`, `ReadBody`, `StoreAnswer`, `LoadAnswer` follow
`AiChatService.chat` in order. `Timeout` is the provider's timer, which covers
the time until the headers arrive. `AiContext` has what happens to the rows:
the stable ranking, the section limit, the character budget of
`joinSectionsWithinBudget` with its separators and its ellipsis. Filtering,
ranking and summing (`Among`, `Rank`, `SumOf`) are written as recursive
functions, whose equations the proofs use; `Joined` names the point at which
the loop of `joinSectionsWithinBudget` breaks, the greatest number of sections
that fit.

## 3. Runs

The instances of `ScanLifecycle` have two workers, two concurrent executions, two concurrent
requests, two attempts per job and one tolerated stall. These are the smallest
numbers at which two executions of one scan can overlap, a retry can meet a
request, and both retries and stalls can run out.

| Run | Instance | Checks |
|---|---|---|
| `scan_overlap` | one scan, short script; one timeout, one slow worker, one cancellation | `SettledIsFinal`, `KeepsContract` |
| `scan_rivals` | two scans of one repository, short script; one rejected call anywhere, one dying API process, one cancellation | `TypeOK`, `OneActivePerRepository` |
| `scan_recovery` | one scan, the whole script, fairness; two failing steps (as many as there are attempts), one crash, one cancellation | `NoOrphanedScan`, `ExclusiveExecution`, `CompletedAtHundred`, `SnapshotAgrees`, `ProgressNeverRegresses`, `EveryScanSettles`, `QueueDrains` |
| `scan_cancel_lost` | one scan, one cancellation | violates `CancelledScanStops` |

The short script has the kinds of step that write or read the row once each, in
the program's order, and lets the overlap runs afford more disturbances; `scan_recovery` uses the program's own
sequence, because progress values matter there. Cancellation is budgeted too:
each further one repeats the same four calls.

`CHECK_DEADLOCK FALSE`: identifiers are finite, so the instance stops when all
its scans are over.

The properties of `scan_recovery` say in their premises which disturbances they
tolerate (`Never(...)`), and the premises are the boundary of what the code
achieves. `NoOrphanedScan` fails, for instance, when `setProgress` rejects
between the creation of the row and its job (`scanner.service.ts:78`, outside
the try block), and when a timed-out operation passes its gate before the abort
and marks the row `RUNNING` after the handler marked it `FAILED`.

The instances of `ScanWorkspace` have two executions of one scan and two files.
The branch loses one file between the two clones and keeps the other, so that a
stale file and a replaced one can both be told from the right ones.
At most two disturbances come together (`Budget`): what one leaves and what
happens to the next execution, or a cancelled clone whose git does not obey.
`WholeResult` and `LeavesNothing` are proved for any number.

| Run | Disturbances | Checks |
|---|---|---|
| `workspace` | any two of: failing call, abort, crash, failed removal, overlap, process that ignores SIGTERM; fairness | `TypeOK`, `WholeResult`, `LeavesNothing`, `EveryExecutionEnds`, `ObedientGitEnds` |
| `workspace_shared` | one overlap, one abort | violates `IsolatedWorkspace` |
| `workspace_deaf_git` | one abort, one process that ignores SIGTERM; fairness | violates `CloneIsBounded` |

`WholeResult` and `LeavesNothing` name the disturbances they exclude. They were
chosen by asking which ones break them: an overlap breaks both, a refused read
is recorded as a failed file, a surviving git process writes into the next
clone. A crash, an abort and leftovers of any kind do not.

The instances of `Sessions`, `ApiHistory` and `Repositories` allow every
disturbance once and one of them per behaviour (`EachOnce`, `Budget = 1`), on top
of all interleavings without any; two disturbances at once are left out to keep
them small. Of the two instances of `AiChat`, which need not meet - what a chat
has retrieved is a text before it enters its conversation -, one allows each
disturbance of chats once and all of them together, the other those of scans,
two in all.
A disturbance is a fault of the environment
or an overlap that a premise excludes; the others need none and always happen.

| Run | Instance | Checks |
|---|---|---|
| `sessions` | two addresses, one Google account, two browsers, two concurrent requests, three tokens, two OAuth states | `TypeOK`, `CookieIsValid`, `KeepsFamilies`, `ReuseClosesFamily`, `IdentityKeepsUser` |
| `api_history` | three scans, two attempts at each; the last two find any of 26 route lists (bodies flat, nested and empty, arrays without items and of empty objects, a format, query parameters, guards, shared paths, shared identities); the two attempts at the first scan find different code | `TypeOK`, `CompletedIsDescribed`, `EveryRouteAccounted`, `ReportsWhatIsCompared`, `ModifiedRaisesVersion`, `SeverityTellsBreakage`, `HistoryIsImmutable` |
| `repositories` | two accounts, three tokens, two requests, listings below, at and above the page limit, archives at and beyond each limit | `TypeOK`, `StaysRefreshable`, `DisconnectReachesProvider`, `ListingIsWhole`, `UploadIsWhole`, `NothingLeftBehind`, `OnlyCallbacksActivate` |
| `ai_chat` | an earlier and two new chats, two minutes with two chats each, two conversations, two repositories without scans | `TypeOK`, `AnswersFollowQuestions`, `PromptIsRecent`, `ChatEnds` |
| `ai_context` | one chat; two scans with five routes of which four are fetched and three fit; two disturbances of scans (failure, retry of a completed scan, timeout) | `ContextIsBest` |

Why these bounds are enough: two requests are what a race needs, and a third
token is what a race of two rotations creates, or what is left of a family after
one; a second account tells the latest connection from the named one. Three
scans are the first history in which the scan before the last can be taken for
the last. Two scans are compared over all pairs of route lists, because a
difference concerns one pair. Two scans are also what lets a chat find the last
completed one, or the last one that did not complete, while another begins; five
routes are more than a query takes, with relevant ones behind others. The earlier chat fills the window to one below
the limit and gives the history its limit.

Their premises, again, are the boundary of what the code achieves. Each was
found by leaving it out:

* **Sessions.** A rotation that commits while `revokeFamily` is running leaves a
  live token in a family closed for reuse (`race`; `CONTEXT.md:107` promises the
  family). A browser with two refreshes under way, one whose answer is lost, or
  one that presents an old copy is logged out: there is no grace period.
* **ApiHistory.** A completed scan that is run again, or a detached attempt that
  goes on, deletes its APIs and with them snapshots that a later scan's change
  records name; the records lose their references (`CONTEXT.md:194`: "Snapshots
  are immutable"). With several methods on one path the version can fall,
  because version and change record choose different previous snapshots. With
  two rows of one identity one of them is reported as `REMOVED` though the route
  is still served. `diffContracts` looks at method, authentication and the fields
  and types of the bodies. Query parameters, guards, formats and whether a field
  is required are in the contract and its hash, so that a route which differs in
  them alone has a new version and no change record.
  `ReportsWhatIsCompared` says that the report is exact as far as the code
  compares, and no more; `SeverityTellsBreakage` leaves out modifications with
  which something breaks a client that is not compared (`BreaksUnseen`). What
  that costs: a query parameter that becomes required is extracted
  (`nest-js.extractor.ts` 173-183) and hashed, a client that leaves it out breaks,
  and no change is recorded, though CONTEXT.md:255 calls `ApiChange` a record of
  "breaking-change". Both properties speak of schemas as
  `compareSchema` can tell them apart, and say how far that goes: an empty object
  is as good as no body and an array of empty objects as good as one of anything
  (`LooksDifferent`); a body or the items of an array that come into being are
  demands that the code does not see (`SameOtherwise`).
  Two overlapping attempts can leave the APIs, or files of different paths, of both.
  An import whose last segment has a dot (`./auth.service`, as NestJS code is
  written) is taken for a complete file name, never resolved, and shown as an
  external node: `GraphIsWhole` speaks of imports without one.
* **Repositories.** A refresh under way when the account is connected anew
  overwrites the new tokens with its own, which with Bitbucket carry the
  refresh token of the old grant. A crash between GitHub's answer and
  `updateTokens` locks the connection out. A disconnect that has to refresh
  first and is refused throws, so that an expired or withdrawn grant cannot be
  disconnected; of several connections to a provider all become `REVOKED` and
  only the latest is revoked at the provider. GitHub's listing refuses an
  account with exactly as many repositories as its pages hold, and a Bitbucket
  import is impossible beyond its listing. A process that dies between the files
  and the row of an upload leaves the files for good.
* **AiChat.** A provider that fails leaves a question without an answer. Two
  chats at once in a conversation can be given each other's answer. A process
  that dies between `INCR` and `EXPIRE` leaves a key for ever. The window is
  fixed, so that twice the limit passes around its end. Every write of
  `replaceScanApis` gives new ids, so one that falls between the two queries of a
  list doubles routes. Of a completed scan that takes its being run again or a
  timed-out execution that goes on; of a scan that has not completed an ordinary
  retry will do; and a chat that found no scan reads the rows of all that have
  begun since, with every route as often as there are scans. The context of a
  scan that is running may lack relevant routes. `ContextIsBest` says which of
  its promises hold when. A question without search terms uses one query without
  a filter, which is the second one alone.

### Findings

`scan_cancel_lost`: `runRepositoryScan` checks for a cancellation and then
calls `markRunning`, which writes unconditionally (`lifecycle` 54-55). A
`cancelScan` whose `markCancelled` falls between the two answers `CANCELLED` to
its client, and the scan runs and completes. ENVIRONMENT_SETUP.md:477: "A
timed-out or cancelled scan should stop cooperative scanner work." The code's
other terminal write, `markCompletedIfRunning`, is conditional and does not have
this window.

`workspace_shared`: both directories are named by the scan alone. When two of
its executions overlap (a timed-out operation that goes on beside the retry, a
redelivery from a slow worker), the later one wipes what the earlier one reads,
and the earlier one's clean-up deletes the later one's directories. A missing
file does not stop a scan: it is recorded as unreadable, or is not listed at
all, and the execution reports success with another commit's files, some of its
own, or none. CONTEXT.md:172: "Keep workspaces isolated."

`workspace_deaf_git`: the clone timeout sends SIGTERM only, and the SIGKILL timer
that the abort listener arms is cleared by the `fail` it calls next
(`git-command-runner.service.ts` 45-62). A git process that does not end on
SIGTERM is left running, writing into a directory that a retry may have made
anew. CONTEXT.md:296: "Git clone runs with bounded timeout, ...".

### Fairness

`FairSpec` of `ScanLifecycle` assumes what the runtime gives: an awaited promise settles, so a
request, an operation and a handler that can take their next step eventually do
(weak fairness of each); the stalled-job checker runs periodically (weak
fairness of `StallDead`); and idle workers block on a first-in-first-out queue,
so a waiting job for which a worker is free again and again is eventually taken
(strong fairness of `PickUp`: between two chances the worker may be busy with
another job). Nothing forces a request to arrive, a call to fail, a timer to
fire or a process to die.

`FairSpec` of `ScanWorkspace` assumes that file system calls settle (`Proceed`),
that the clone timer fires (`CloneTimeout`) and that a process which obeys
SIGTERM dies of it (`GitDies`). It does not assume that git makes progress.

`Spec` of `AiChat` assumes weak fairness of each chat's own steps (`Step`):
Redis and the database answer, the provider's timer fires if the headers have
not come, and a body that has begun ends. The last is an assumption: the code
clears its timer before it reads the body. Nothing makes a provider begin, a
user ask or a scan proceed. `Sessions`, `ApiHistory` and `Repositories` make no
liveness claims: each of their requests is a finite sequence of calls with
nothing to wait for.

## 4. Proofs

The theorems hold for every value of the constants: any sets of scans,
repositories, workers, executions, requests, browsers, tokens, accounts, chats and
files, any code, routes, archives and limits, and any number of disturbances of
each kind. What they assume of the constants is named next to their
declarations and evaluated by TLC on every run:

| Assumption | Says | Because |
|---|---|---|
| `ScriptAssumption` (`ScanLifecycle`) | `markRunning` directly follows a gate | `lifecycle` 53-55 is the only place |
| `OrderAssumption` (`ScanLifecycle`) | nothing is reported before `markRunning`; the reported percentages do not fall; the completion is followed by a snapshot of it and by nothing but reports of 100 percent | the order of `runRepositoryScan`; needed by `ScanEndingsProofs` only |
| `CommitsAssumption` (`ApiHistory`) | every attempt finds sequences of contracts whose bodies are schemas (`IsSchema`) | the shape that schema extraction produces |
| `CodeAssumption` (`ApiHistory`) | files have paths, and references go up and then down along segments | POSIX paths as `CodeGraph` reads them |
| `PagesAssumption` (`Connections`) | pages are not empty and there is one at least | constants of both providers |
| `ArchivesAssumption` (`Repositories`) | archives are sequences of entries; the invalid ones are among them | the reader's interface |
| `ConversationsAssumption` (`AiChat`) | there are finitely many conversations | a bound of the instance: chats reserve the ones they will create |
| `RoutesAssumption` (`AiChat`) | what a scan finds is a sequence of items with a score up to `MaxScore` and a length | `scoreApi` adds two bonuses and one per term, and terms are finitely many |
| `BoundsAssumption` (`AiChat`) | the limit per minute is positive | `src/config/env.schema.ts` demands it |

The other assumptions say that `None` is nobody's name and that bounds are
numbers. Premises about disturbances (`Never`, `Spared`, `Quiet`) are part of the
properties themselves and are discussed with the runs above.

### Scans

* `TypeCorrect` – `TypeOK` is almost inductive; it needs `AttemptsLeft` (a
  job that can still be tried has used fewer attempts than it is allowed),
  without which a retry could count past `MaxAttempts`.
* `OneActive` – inductive by itself once every writer of `status` is classified
  (`RowStep`): a step that makes a row active satisfied the index.
* `SettledForGood` – the finality of terminal statuses. `Settled(s)` says that
  the row is terminal, no *writer* holds an old read of it, and either it is
  cancelled or no attempt will reach `markRunning` again. The proof shows the
  conjunction stable under every action. It needs the invariant `Birth`:
  types, plus that a scan without a row has no job, no execution and at most
  the request that is about to create it. Two facts of the code carry it: a gate
  stops a cancelled scan before `markRunning`, and `failRepositoryScan` leaves
  terminal rows alone.
* `ImplementsContract` – from `Birth`: the initial state maps to the abstract
  one, and each action to an abstract step or to a stutter of `status` whose
  hands are handed on.
* `Exclusive` – from `Exclusion`: a scan that is announced has no job yet and
  one request that will add it (`Announced`); without timeouts a handler waits
  as long as its operation lasts (`Waits`); and without slow workers an execution
  holds the lock of its job (`Holds`). Two executions of a scan would hold one
  lock.
* `NoneOrphaned` – from `Custody`: every active scan has somebody who *cares*
  for it, which is narrower than being attended: a waiting job, an active one
  that has lost its execution and is within its allowance of stalls, a request
  that is yet to add or cancel it, or an execution that will reach a write.
  Counting lost locks (`Budget`) is what makes the premise on `MaxStalls` enough.
* `Completed`, `NoRegress` – from `Percent`: an execution between `markRunning`
  and the completion does not find its scan completed (`Midway`), and what it
  is yet to report is not below what the row shows (`Rising`). Both rest on
  `Exclusion`, because a second execution would break either.
* `SnapshotTrue` – from `Peace`: the place of an execution tells the status of
  its row (`Sound`), only the requests of `startRepositoryScan` are about
  (`Courteous`), and a settled scan whose snapshot is old has an execution that
  owes it the new one (`Told`).

### Workspaces

* `TypeCorrect` of `ScanWorkspaceProofs` – needs that nothing was read which
  discovery did not find (`Sound`), or `Store` could reread a file outside
  `found`.
* `Wholeness` – for any executions, files, commits and disturbances. The
  inductive invariant `Inductive` says, as long as nothing overlaps, fails or
  ignores SIGTERM: at most one execution is in progress (`Alone`), only it has a
  git process that writes, and at each of its steps the clone, the workspace
  and what it has read are the commit less the files still to come (`Upto`).
  The other executions are over and ask nothing of the directories. No
  conjunct mentions what was in the directories before: that is why leftovers
  do not matter.
* `NothingLeft` – the same theorem about what stays behind. Its invariant
  `Swept` holds as long as nothing overlaps, no git ignores SIGTERM and no
  removal is rejected; calls may fail. Again one execution is in progress at
  most, and a git process that writes belongs to it and is waited for (`Tame`).
  While a clean-up runs, what it no longer has to remove is gone: the clone
  whatever the outcome, the workspace after a success (`Removes`).

### Results of scans

All seven properties of the run `api_history` are theorems of
`ApiHistoryProofs`. Its inductive invariant `Inv` has three layers.

* Always: types (`Shape`), references that exist (`References`), transactions
  that delete rows of their own scan only (`Kept`), snapshots that are named
  after an attempt which has come that far (`Written`). `References` must hold
  while two attempts have deleted and not yet inserted, and through `Cascade`:
  that is `Typed`.
* While no attempt is detached: attempts of a scan take turns (`Turns`), and at
  each of its steps an attempt has stored what it has come to (`Described`).
  From it, `CompletedDescribed`.
* While no completed scan is run again either: a completed scan has an attempt
  that is done (`Settled`), and what it has written is the comparison of what it
  found with the snapshots of its base, which are still there (`Faithful`,
  `Linked`). From it, `Immutable`, and with lemmas about the operators
  `Accounted` (what `Matching` makes of any two lists of rows, with shared paths
  and identities), `ReportOfCompared` and `VersionsRise`.

`SeverityTrue` has no premise about disturbances and needs two invariants of
its own: a snapshot that an attempt has read is never replaced by another of its
name (`Recalled`), and each modification that still names two snapshots has the
severity of their difference (`Rated`).

That `SchemaDiff` is empty exactly when a reader sees no difference in fields
and types, and contains a breaking difference exactly when one of these can break
a client, is proved for schemas of any depth. The argument looks at a shortest
path at which two schemas differ: the comparison reaches it, since they agree
above. What the code does not compare stays a variable of the theorems: contracts
have any parameters, guards and formats, `ReportOfCompared` says that they make
no difference to the report, and `SeverityTrue` has them in its premise
(`SameOtherwise`).

### Sessions

* `FamiliesStaySingle` – from the abstract specification alone: a handover makes
  one token live in the moment its predecessor stops being so.
* `SessionsTyped`, `SessionsKeepFamilies` – for any sets of browsers, requests,
  tokens, addresses and any disturbances. The inductive invariant `IInv` adds to
  the types: what a request at each step has read and still holds (`ReqInv`:
  above all, the token of an open rotation is live), at most one open rotation
  per token (`OneLocker`), at most one live token per family, whose opener
  exists (`FamiliesInv`), and no family for tokens not issued (`Bare`). `ReqInv`
  and `OneLocker` are what the row lock gives; without them two rotations of
  one token could both commit. `FamiliesInv` is what makes `RevokeFamily`, which
  may name several tokens, one abstract step.
* `ReuseIsFinal` – needs one conjunct more: a request that is revoking a family
  has all its live tokens on its list, as long as no rotation committed under it
  (`Seen`).
* `CookieStaysValid` – `CookieInv`, as long as browsers wait for their answers,
  receive them and present what they have: a browser has one request, which
  presents its cookie; a cookie is in one browser and live until an answer is on
  its way; and the token of that answer is live and nobody else's. The last
  part is what other browsers' logouts and revoked families cannot reach.
* `OneUserPerIdentity` – `Identified`: an identity is bound to one address at
  most, and a request bears one exactly while it is between Google's answer and
  its entry. An action property then follows for each write of
  `upsertGoogleUser`; the unique index on the Google account is what carries
  the two that create a binding.

### Connections and uploads

All seven properties of the run `repositories` are theorems of
`RepositoriesProofs`, from one inductive invariant `IInv`.

* `Wired`: types; the rows are ranked by their last writes and any of them have
  a latest one (`Ranking`), or `findFirst` would have nothing to find; every
  token is held in the name of the account it was issued for; and each step of a
  request says what it is there for (`Stage`). From it, `RepositoriesTyped`. A
  step only ever adds rows and takes acceptance away (`Onward`).
* `InTurn`, while no two requests overlap: a request that refreshes or calls has
  the access token of its row, and one that closes has revoked it. From it,
  `DisconnectRevokes`.
* `Refreshable`, while no answer is lost, no grant is withdrawn or comes without
  a refresh token, and no refresh is overtaken by a new callback. With GitHub
  the first of several refreshes takes the token of the row; what it brings is
  held by nobody else (`Private`), and a row whose token is used up has exactly
  one request that will update it (`Rotating`). With Bitbucket tokens stay until
  a disconnect revokes them, which is about to close the row (`Keeping`). From
  it, `KeepsRefreshable`.
* `ListingIsWhole`, because pages up to one that ends the loop are everything
  there is, for any page size, limit and number of repositories: a least page is
  found by well-founded induction. From it, `ListingsWhole`.
* `Extraction`: there is one upload; what is in its directory is what has been
  read, and the sizes so far add up to its byte count and no more than the
  limit. From it and `Together`, `UploadsWhole` and `UploadsTidy`.
* `CallbacksActivate` is an action property: among the steps that write a row
  only `Store` makes it active (`Activations`).

### Chats

All four safety properties of the runs `ai_chat` and `ai_context` are theorems of
`AiChatProofs`.
The inductive invariant `IInv` has the conversations and the rate limit,
`Retrieved` has what a chat knows of the repository. Any number of chats append
to a conversation, and any of them may be refused, die or find it deleted
between two steps.

* `Limited`: the chats that a window has let pass (`Let`) are no more than its
  key has counted, and no more than the limit. A chat with the count 1 has not
  passed yet when it waits for `EXPIRE`, but is counted among them. From it,
  `ChatsTyped`. `Room` says that a chat that will create a conversation finds one
  that does not exist yet; it only concerns the bound of the instance.
* `Turns`: as long as no chat begins in a conversation where another is, no two
  are ever in one.
* `Voice` says what stands of a chat in the conversations at each of its steps:
  nothing before the question, only its question and only in its conversation
  while it waits for the provider, and, without overlaps, at the end of the
  conversation. `Told` adds what an answer stands next to. From them,
  `AnswersFollow`; with `Turns`, the last message that `LoadAnswer` reads is the
  chat's own.
* `Recalls`: what a chat has read is the end of a prefix of its conversation.
  Messages that others append leave that prefix as it is (`Appended`), and its
  own question comes later. From it, `PromptsRecent`. A deletion ends that, which
  is why the property excludes it.
* `Retrieved`: whatever scans do, their rows are finitely many rows of their
  writes; as long as no completed scan is run again and nothing is written late,
  they are the rows of one write, and as long as nothing fails either, a running
  scan has none yet (`Scanning`). As long as the rows of a chat's scan stay
  (`Still`: the scan has completed, or nothing fails), the chat has between its
  two queries an answer to the first one for the rows as they are now, unless it
  had found nothing in a scan that was still running: then the rows may have
  come since (`Searches`). So the second query adds no route that the first has
  returned, and rows that are not relevant only to all relevant ones. Without
  that premise the answers are still lists of rows with scores and sizes, which
  is all that the choice of the best and the character limit need. From it,
  `ContextsBest`, together with what the operators yield for every list:
  `RankSorts` and `RankIsStable` (a sorted list of the same items, equal scores
  in the old order), `ChosenAreBest`, `JoinedFits` (the character limit for any
  sections).
* These are proved by induction over the length of a list or over scores. The
  library's induction theorems take an operator as a parameter, which no backend
  can instantiate. `Induction` says the same of a set that has 0 and with each
  number the next: the numbers outside it would have a least one (`WFMin` with
  `NatLessThanWellFounded`). A proof then defines the set of the numbers up to
  which the claim holds. That a recursive function satisfies its equation is
  proved in the same way (`KeptExists`, `RankedExists`, `SummedExists`): an
  initial piece of it can always be continued by one.

### How the proofs are laid out

`ScanEndingsProofs` extends `ScanLifecycleProofs` and reuses its lemmas on how
one action moves one request or one execution. `AiChatProofs` first reduces the
steps of a chat to eight moves (`StepMoves`: it begins, goes on, enters a
conversation, reads, stores, loads or quits) and states each invariant's step
for those. The two large ones, `ApiHistoryProofs` and `RepositoriesProofs`, first say once what a
step can do to the tables (`Writers`; `Onward`, `Orderly`, `Aside`) and then use
only that for the conjuncts that the step does not concern.

### What is only model-checked

* Liveness: `EveryScanSettles`, `QueueDrains`, `EveryExecutionEnds`,
  `ObedientGitEnds`, `ChatEnds`. Fairness and ENABLED are beyond the prover.
* That `Total` (`AiChat`) adds up the disturbances, and the like in the other
  modules: they are folds, which only bound the instances. No theorem needs
  their value.
* The recorded violations, which are the runs' business.

## 5. Abstractions

* A failing call has no effect. (A call that takes effect and then reports an
  error is covered only where the next call may fail, as with the job that was
  added before `updateQueuedMetadata` rejects.)
* Several API processes may run; `DropRequest` kills one request, `Crash` one
  worker. Retry delays, lock renewal and snapshot expiry are not timed: the
  disturbances may come at any moment.
* Finished jobs stay in the queue, so a late `job.updateProgress` succeeds; the
  program keeps a bounded number of them. Only an explicit removal makes it
  reject.
* In `ScanWorkspace`, removing a directory and listing one are atomic; Node
  lists up to 32 entries at once. The two `mkdir`s and the `opendir` of a
  directory are one step where nothing between them can be observed. Gates on
  the row (`assertNotCancelled`) are `ScanLifecycle`'s; here they are among the
  calls that may fail. An aborted or crashed execution's git process dies before
  it writes again unless it is `deaf`.
* What scanning computes, messages, timestamps and metadata are left out.
* In `Sessions` a JWT that verifies is its row; a token that is not stored is
  refused without touching anything and is not an action. Administrators are the
  environment (`Suspend`). Statements of a transaction run under read committed.
* In `ApiHistory` the code of an attempt is given (`Code`); symbols go with
  their file. There is one framework and one repository; a scan's routes
  are read in the order found. Contract hashes are the contracts. The status code
  follows from the method, the type of a parameter stands for its schema, and a
  format is that of a date or none.
* In `Connections` there is one user and one provider at a time; users and
  providers share no row. Encryption is inverse to decryption. The provider
  accepts or refuses a token; other errors of its calls change nothing here and
  are covered by `Lose`.
* In `Repositories` there is one upload at a time, in a directory of its own.
* In `AiChat` a relevance filter is a flag of a row, a score is a number, a
  rendering has a length. Of the five lists of a context the model has the
  detected APIs. Files, symbols and dependencies are queried and ranked in the
  same way, by functions of their own, and joined by one newline where APIs are
  joined by two; recent changes are the last of the repository, whatever the
  scan and the question, and are not ranked. These four are left out. Of two
  repositories one has scans.

## 6. Not modelled, and what is left

Not modelled: parsing, extraction, documentation and formatting (pure text
processing); the API catalog, the limit on shown edges and the dashboard, which read
stored rows and change nothing (the dashboard's eleven queries run in parallel
and are not one snapshot); health; configuration, which gives the constants
their values; passwords, signatures and encryption; roles.

Left: composition, the result tables of `ApiHistory` driven by the executions of
`ScanLifecycle` itself in place of its summary of attempts.
