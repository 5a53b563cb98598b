SPECIFICATION FairSpec
CHECK_DEADLOCK FALSE
CONSTANTS
  MaxGen = 2
  Callers = {c1}
  Owners = {0, 2}
  MaxCache = 1
  Plans = {{"dispose"}, {"scope"}, {"shutdown"}}
INVARIANTS NoGap NewWorkSeesNew
           CommittedTogether RollbackRestores CacheExact
PROPERTY ReloadsEnd
