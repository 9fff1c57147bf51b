SPECIFICATION CommitSpec
CONSTANTS
  Dimension = 5
  NumEdges = 9
  EndU <- WheelU
  EndV <- WheelV
  Batches <- WheelBatches
  InitialGraphs <- WheelGraphs
INVARIANTS
  CommitTypeOK
  CsrFresh
  GreedySoFar
PROPERTIES
  DegreeFloor
  ImplementsAtomicCommit
