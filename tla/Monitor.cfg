SPECIFICATION Spec
CONSTANTS
  m1 = m1
  m2 = m2
  Nobody = Nobody
  Monitors <- MCMonitors
  Settings <- MCSettings
  MaxFaults = 1
INVARIANTS
  SavedRunIsWhole
  AlertsAreTrue
PROPERTIES
  ProblemIsAlerted
