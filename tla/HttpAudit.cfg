SPECIFICATION FairHttpSpec
CONSTANTS
  MaxEvents = 3
  MaxFaults = 1
  SettleTimeout = 3
  QuietPeriod = 2
  MaxTime = 4
CHECK_DEADLOCK FALSE
INVARIANTS
  HttpResultIsWhole
PROPERTIES
  HttpCollectionEnds
