SPECIFICATION PublishSpec
CONSTANTS
  Gates = {g1, g2, g3}
  Results = {r1, r2}
  Files = {f1, f2}
  None = None
SYMMETRY Symmetry
CHECK_DEADLOCK FALSE
INVARIANTS
  PublishedIsWhole
  ReportedStays
