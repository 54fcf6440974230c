SPECIFICATION AcceleratorsSpec
CONSTANTS
  Programs <- DmaPrograms
  FifoDepth = 1
  InFlight = 1
  FirstId = 2
  MaxCalls = 3
  MaxPolls = 2
  Events <- MCEvents
  MaxDispatch = 3
  Overlap = FALSE
  MayTrap = TRUE
  MaxIssue = 6
  FIFO_DEPTH = 4
  Kinds = {{"lo"}, {"hi"}, {"lo", "hi"}}
  Slow = FALSE
INVARIANTS
  OnlyCollectivesStay StartAnswered
  TypeOK StartClearsLate ParamsOwn ExceptionReported
  SplitterTypeOK
PROPERTIES
  WaitReports CallReturns
  ImplementsForkJoin
  Paired
CHECK_DEADLOCK FALSE
