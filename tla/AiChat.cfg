SPECIFICATION Spec
CONSTANTS
  k0 = k0
  k1 = k1
  k2 = k2
  c1 = c1
  c2 = c2
  r1 = r1
  r2 = r2
  Chats = {k1, k2}
  Conversations = {c1, c2}
  Earlier = k0
  Opened = c1
  Repositories = {r1, r2}
  Scanned = r1
  LastScan = 0
  Routes <- FiveRoutes
  FetchLimit = 4
  SectionLimit = 3
  MaxScore = 2
  Heading = 16
  Overview = 150
  MaxCharacters = 450
  Worth = 200
  HistoryLimit = 3
  PerMinute = 2
  Windows = 2
  Limit <- EachOnce
  Budget = 4
  None = None
CHECK_DEADLOCK FALSE
INVARIANTS TypeOK AnswersFollowQuestions PromptIsRecent
PROPERTY ChatEnds
