CONSTANTS
  t1 = t1
  t2 = t2
  t3 = t3
  Nobody = Nobody
  Threads <- TwoThreads
  Kinds = {"decode", "speak", "stream", "clone", "talk", "side", "load"}
  MaxLoads = 1
SPECIFICATION SafetySpec
INVARIANT OneAtATime
