CONSTANTS
  Depth = 2
  Sentences = 2
  MaxChunks = 6
SPECIFICATION Spec
CHECK_DEADLOCK FALSE
INVARIANTS StreamTypeOK InOrder NoLostWakeup
PROPERTIES ImplementsPipe CancelFreesModel StreamCompletes
