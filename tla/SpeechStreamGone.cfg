CONSTANTS
  Depth = 2
  Sentences = 2
  MaxChunks = 6
SPECIFICATION Spec
CHECK_DEADLOCK FALSE
PROPERTY GoneFreesModel
