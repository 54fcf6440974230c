SPECIFICATION FairSpec
CONSTANTS
  Cores = {c1, c2}
  CounterMod = 4
  ResetEntry = reset_entry
  Binary = binary
  Events <- MCEvents
  MaxDispatch = 3
  MaxBoots = 2
  PollTimesOut = TRUE
CHECK_DEADLOCK FALSE
INVARIANTS
  StartClearsLast
  DispatchReachesAll
PROPERTIES
  CalledOnce
  DispatchReturns
