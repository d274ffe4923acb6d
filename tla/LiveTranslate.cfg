CONSTANTS
  MaxPieces = 4
  ParaLen = 2
  Backlog = 1
SPECIFICATION Spec
CHECK_DEADLOCK FALSE
INVARIANTS LiveTypeOK OldestPending FinalOnce NothingLost
PROPERTIES  ImplementsSubtitles FinishReturns
