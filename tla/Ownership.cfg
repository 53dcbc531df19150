SPECIFICATION FairSpec
CONSTANTS
  t1 = t1
  t2 = t2
  t3 = t3
  l1 = l1
  l2 = l2
  p1 = p1
  p2 = p2
  Tasks = {t1, t2, t3}
  Loops = {l1, l2}
  Processes = {p1, p2}
  LoopOf <- MCLoopOf
  ProcessOf <- MCProcessOf
  KeyCount = 3
  Contracts <- MCContracts
  MaxDepth = 2
  NoTask = NoTask
CHECK_DEADLOCK FALSE
INVARIANTS
  NothingLeaks
PROPERTIES
  ImplementsExclusiveWindows
  EveryRunEnds
