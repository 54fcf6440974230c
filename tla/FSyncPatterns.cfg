SPECIFICATION Spec
CONSTANT Programs <- Waiting
INVARIANTS TypeOK
PROPERTIES ImplementsBarrier TriggerTaken EveryoneReturns
CHECK_DEADLOCK FALSE
