CONSTANTS
  t1 = t1
  t2 = t2
  a = a
  b = b
  Nobody = Nobody
  Threads <- TwoThreads
  Tokens <- TwoTokens
  MaxPrompt = 3
  MaxTokens = 2
  Batch = 2
SPECIFICATION RouteSpec
CHECK_DEADLOCK FALSE
INVARIANTS SamplesConversation HistoryIsCache NoneInsideFreed RouteConversation
PROPERTIES CloseReturns
