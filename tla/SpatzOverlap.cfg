SPECIFICATION Spec
CONSTANTS
  Events <- MCEvents
  MaxDispatch = 2
  Overlap = TRUE
  MayTrap = FALSE
CHECK_DEADLOCK FALSE
INVARIANT
  ParamsOwn
