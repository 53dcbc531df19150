SPECIFICATION FairSpec
CONSTANTS
  MaxEvents = 2
  MaxFaults = 1
  SettleTimeout = 2
  QuietPeriod = 1
  MaxTime = 3
CHECK_DEADLOCK FALSE
INVARIANTS
  CollectionIsTrue
PROPERTIES
  EvidenceIsKept
  CollectionEnds
