CONSTANTS
  NodeCount = 7
  kMaxTestablePathCount = 7
  Queries <- ChosenQueries
  Options <- OptionSets
  Changed <- OneChange
SPECIFICATION Spec
INVARIANTS
  MoveExhaustive
  LeafRefutes
  AcceptedIsSound
  ProverVerifies
  SearchDecides
CHECK_DEADLOCK FALSE
