SPECIFICATION Spec
CONSTANTS
  a1 = a1
  a2 = a2
  t1 = t1
  t2 = t2
  t3 = t3
  q1 = q1
  q2 = q2
  Accounts = {a1, a2}
  Tokens = {t1, t2, t3}
  Requests = {q1, q2}
  PageSize = 2
  MaxPages = 2
  Sizes <- AllSizes
  Paths <- AllPaths
  Archives <- AllArchives
  Invalid <- NoArchives
  MaxEntries = 2
  MaxBytes = 2
  Limit <- EachOnce
  Budget = 1
  None = None
SYMMETRY Symmetry
CHECK_DEADLOCK FALSE
INVARIANTS TypeOK StaysRefreshable DisconnectReachesProvider ListingIsWhole UploadIsWhole NothingLeftBehind
PROPERTY OnlyCallbacksActivate
