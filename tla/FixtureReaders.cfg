SPECIFICATION SpecReaders
CONSTANTS
  Attempts = {a1}
  Requests = {q1, q2, q3}
  Records = {k1}
  NoAttempt = NoAttempt
  NoRequest = NoRequest
  NoWriter = NoWriter
SYMMETRY Symmetry
INVARIANTS
  ReadsAreCoherent
