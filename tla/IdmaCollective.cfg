SPECIFICATION IdmaSpec
CONSTANTS
  Programs <- Collective
  FifoDepth = 1
  InFlight = 1
  FirstId = 2
  MaxCalls = 3
  MaxPolls = 2
INVARIANT JobMatchesCall
CHECK_DEADLOCK FALSE
