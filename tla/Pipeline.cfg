\* From a bounded command to the intake of a pull request.
SPECIFICATION PipelineSpec
CONSTANTS
  Descendants = {"child"}
  Capture = 1
  Budget = 2
  Images <- MCImages
  Runs = {1, 2}
  MaxEdits = 2
  Pulls = {"p1", "p2", "p3"}
  Branches = {"b", "c"}
  Heads = {"h1", "h2"}
  Jobs = {1}
  Source <- MCSource
  FirstPulls <- MCFirstPulls
  FirstMain <- MCFirstMain
  MaxMoves = 3
INVARIANTS
  IntakeIsTrue
  CommandIsContained
  ProofIsTrue
  ConstructionIsOneRun
  AuthorityIsConstructed
PROPERTIES
  CommandEnds
  JobsEnd
CHECK_DEADLOCK FALSE
