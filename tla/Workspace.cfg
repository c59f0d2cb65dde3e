SPECIFICATION FairSpec
CONSTANTS
  r1 = r1
  r2 = r2
  f1 = f1
  f2 = f2
  Runs = {r1, r2}
  Files = {f1, f2}
  CommitOf <- MovedHead
  Limit <- EachOnce
  Budget = 2
  Missing = Missing
  Unreadable = Unreadable
CHECK_DEADLOCK FALSE
INVARIANTS TypeOK WholeResult
PROPERTIES LeavesNothing EveryExecutionEnds ObedientGitEnds
