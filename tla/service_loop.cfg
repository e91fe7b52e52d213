SPECIFICATION FairSpec
CONSTANTS
  one = one
  other = other
  t1 = t1
  t2 = t2
  m1 = m1
  Chains = {one, other}
  Missing = {1, 2}
  Errors = {}
  AllFailed = "All endpoints failed"
  UserRoom = 1
  OneTask = FALSE
  Transfers = {t1, t2}
  Mints <- OneMint
  ChainOf <- MCChainOf
  Deadlines = {0, 1}
  GatherInterval = 2
  ReportAlive = 1
  Pause = 1
  Scenarios <- MCScenarios
  Issues <- MCIssues
INVARIANTS TypeOK UserKnowsStatus IntervalIsKept 
PROPERTIES ExitsWhenDone IssuesStay EveryJobEnds Finishes AskIsAnswered
