SPECIFICATION Spec
CONSTANTS
  a = a
  b = b
  Get = Get
  Post = Post
  Put = Put
  LastScan = 3
  Attempts = 2
  Code <- AllCode
  Commits <- AllCommits
  Limit <- EachOnce
  Budget = 1
CHECK_DEADLOCK FALSE
INVARIANTS TypeOK CompletedIsDescribed EveryRouteAccounted ReportsWhatIsCompared ModifiedRaisesVersion SeverityTellsBreakage
PROPERTY HistoryIsImmutable
