CONSTANTS
  MaxSamples = 10
  MaxMessage = 4
  Cap = 3
  EvalStep = 2
  IdleKeep = 2
  SpeechKeep = 3
SPECIFICATION Spec
INVARIANTS TurnTypeOK AllSettled UnbrokenTurn NativeHearsTurn
PROPERTY OnceInOrder
