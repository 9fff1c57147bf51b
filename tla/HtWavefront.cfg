SPECIFICATION Spec
CONSTANTS
  NodeCount = 7
  kMaxTestablePathCount = 7
  Queries <- ChosenQueries
  Options <- OptionSets
  GenerationLimit = 2
  HardLimit = 1000
INVARIANTS
  WaveDecides
  TasksFaithful
  CandidatesFresh
CHECK_DEADLOCK FALSE
