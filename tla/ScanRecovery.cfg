SPECIFICATION FairSpec
CONSTANTS
  s1 = s1
  s2 = s2
  r1 = r1
  r2 = r2
  w1 = w1
  w2 = w2
  q1 = q1
  q2 = q2
  repo = repo
  Scans = {s1}
  Repos = {repo}
  RepoOf <- OneRepo
  Workers = {w1, w2}
  Runs = {r1, r2}
  Requests = {q1, q2}
  Script <- RunRepositoryScan
  MaxAttempts = 2
  MaxStalls = 1
  Limit <- RecoveryLimit
  NoScan = NoScan
  NoRun = NoRun
  NoWorker = NoWorker
CHECK_DEADLOCK FALSE
INVARIANTS NoOrphanedScan ExclusiveExecution CompletedAtHundred SnapshotAgrees
PROPERTIES ProgressNeverRegresses EveryScanSettles QueueDrains
