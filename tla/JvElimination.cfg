SPECIFICATION JvSpec
CONSTANTS
  Dimension = 6
  NumEdges = 15
  EndU <- K6U
  EndV <- K6V
  MaxCandidateNodes = 3
  InitialGraphs <- NearlyComplete
  Metrics <- EuclideanMetrics
  JvBackends = {"cpu", "auto", "cuda"}
  MaxJvRounds = 4
  DeviceSlots <- AnySlot
INVARIANTS
  KernelAgrees
  OptimalToursSurvive
  JvLogReplays
CHECK_DEADLOCK FALSE
