SPECIFICATION Spec
CONSTANTS
  Setups <- SoundTests
  Words = {0, 1, 2, 3, 4, 5, 6}
INVARIANTS TypeOK
PROPERTIES ImplementsBarrier NothingOverwritten EveryoneLeaves
CHECK_DEADLOCK FALSE
