CONSTANTS
  NodeCount = 7
  kMaxTestablePathCount = 3
  kKOptCpuParallelMinCells = 20
  Calls <- AllCalls
  Files <- AllFiles
  Required <- Root
  Options <- SomeOptions
  Records <- AnyRecord
SPECIFICATION Spec
INVARIANTS
  LeafSound
  BatchIsSequential
  SearchesExact
CHECK_DEADLOCK FALSE
