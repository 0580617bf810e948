CONSTANTS
  FDs = {f1}
  Signals = {s1}
  MaxTimers = 2
  Wanted <- MCWanted
SPECIFICATION FairSpec
INVARIANTS SourcesMatchFilters
PROPERTIES KeepsTimerPromise EventReachesHandler
CHECK_DEADLOCK FALSE
