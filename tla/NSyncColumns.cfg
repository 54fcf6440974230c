SPECIFICATION Spec
CONSTANTS
  Setups <- ColumnTree
  Words = {0, 1, 2, 3, 4, 5, 6}
PROPERTIES NothingOverwritten
CHECK_DEADLOCK FALSE
