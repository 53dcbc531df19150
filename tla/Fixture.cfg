SPECIFICATION Spec
CONSTANTS
  Attempts = {a1, a2}
  Requests = {q1, q2}
  Records = {k1, k2}
  NoAttempt = NoAttempt
  NoRequest = NoRequest
  NoWriter = NoWriter
  Unsealed = Unsealed
SYMMETRY Symmetry
INVARIANTS
  TypeOK
  AuditIsTrue
  RepliesHold
  EvidenceIsWhole
PROPERTIES
  ImplementsSealedLedger
