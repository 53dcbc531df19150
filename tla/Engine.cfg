SPECIFICATION RunSpec
CONSTANTS
  alice = alice
  bob = bob
  audit = audit
  log = log
  NoOne = NoOne
  EffectKinds = {"network_request", "database_write"}
  Contracts <- MCContracts
  MaxStray <- MCMaxStray
  Watched <- MCWatched
  Families <- MCFamilies
  Options <- MCOptions
  Sessions = 2
  Retests = 2
CHECK_DEADLOCK FALSE
INVARIANTS
  PassIsEvidenced
  DenialIsControlled
  TemporalIsTrue
PROPERTIES
  CallsAreSafe
  EffectsAreReported
  BlameIsRight
