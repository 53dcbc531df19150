SPECIFICATION Spec
CONSTANTS
  Earlier = {"absent"}
  Cases <- MCCases
  Outcomes = {"PASS", "BLOCK", "INVALID"}
CHECK_DEADLOCK FALSE
INVARIANTS
  NothingIsLost
  CampaignIsTrue
PROPERTIES
  CampaignEnds
