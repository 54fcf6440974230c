SPECIFICATION Spec
CONSTANTS
  Cores = {c1, c2, c3}
  CounterMod = 8
  ResetEntry = reset_entry
  Binary = binary
  Events <- MCEvents
  MaxDispatch = 2
  MaxBoots = 2
  PollTimesOut = FALSE
CHECK_DEADLOCK FALSE
INVARIANTS
  TypeOK
  JoinSound
  NoStaleDone
  IrqFindsDispatcher
  ContextStable
  IInv
PROPERTY
  ForksAndJoins
