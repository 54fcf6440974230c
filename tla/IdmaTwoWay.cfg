SPECIFICATION IdmaSpec
CONSTANTS
  Programs <- TwoWay
  FifoDepth = 1
  InFlight = 1
  FirstId = 2
  MaxCalls = 3
  MaxPolls = 2
INVARIANT WaitSound
CHECK_DEADLOCK FALSE
