SPECIFICATION RunSpec
CONSTANTS
  Attempts = {a1}
  Requests = {q1, q2, q3}
  Records = {k1, k2}
  NoAttempt = NoAttempt
  NoRequest = NoRequest
  NoWriter = NoWriter
  Required <- MCRequired
  Reference <- MCReference
  Conditional = {}
SYMMETRY Symmetry
INVARIANTS
  VerdictIsTrue
PROPERTIES
  AcceptedIsOver
