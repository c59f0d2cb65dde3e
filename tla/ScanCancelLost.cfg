SPECIFICATION Spec
CONSTANTS
  s1 = s1
  s2 = s2
  r1 = r1
  r2 = r2
  w1 = w1
  w2 = w2
  q1 = q1
  q2 = q2
  repo = repo
  Scans = {s1}
  Repos = {repo}
  RepoOf <- OneRepo
  Workers = {w1, w2}
  Runs = {r1, r2}
  Requests = {q1, q2}
  Script <- ShortScript
  MaxAttempts = 2
  MaxStalls = 1
  Limit <- CancelLimit
  NoScan = NoScan
  NoRun = NoRun
  NoWorker = NoWorker
SYMMETRY Symmetry
CHECK_DEADLOCK FALSE
PROPERTY CancelledScanStops
