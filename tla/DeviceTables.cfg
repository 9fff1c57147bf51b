SPECIFICATION Spec
CONSTANTS
  WordBits = 6
  MaxCandidateNodes = 2
  Device = {0, 1}
  Calls <- ThreadCalls
  Templates <- SomeTemplates
  MaxCalls = 3
INVARIANTS
  BatchExact
  DistancesExact
CHECK_DEADLOCK FALSE
