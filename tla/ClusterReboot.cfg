SPECIFICATION FairSpec
CONSTANTS
  Cores = {c1, c2}
  CounterMod = 4
  ResetEntry = reset_entry
  Binary = binary
  Events <- MCEvents
  MaxDispatch = 1
  MaxBoots = 2
  PollTimesOut = FALSE
CHECK_DEADLOCK FALSE
PROPERTIES
  BootReturns
