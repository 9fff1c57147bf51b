CONSTANTS
  NodeCount = 7
  kMaxTestablePathCount = 7
  Queries <- ChosenQueries
  Options <- OptionSets
  Changed <- OneChange
SPECIFICATION Spec
INVARIANTS
  ProvenEdgeInNoOptimalTour
CHECK_DEADLOCK FALSE
