SPECIFICATION Spec
CONSTANTS
  Required <- MCRequired
  Reference <- MCReference
  FindingIds <- MCFindingIds
  Conditional <- MCConditional
  Attempt = "this"
  OtherAttempt = "other"
  Requests = {1, 2}
  MaxSteps = 3
CHECK_DEADLOCK FALSE
INVARIANTS
  BlockIsRight
  PassIsEarned
  DamageNeverHelps
