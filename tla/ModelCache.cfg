CONSTANTS
  p1 = p1
  p2 = p2
  en = en
  de = de
  Absent = Absent
  ByHand = ByHand
  Cut = Cut
  Processes <- TwoProcesses
  Urls <- TwoUrls
  Dirs = 2
  Fetchers = 2
SPECIFICATION Spec
INVARIANTS NeverCut
PROPERTIES OwnBytes Answered
