SPECIFICATION LocalSpec
CONSTANTS
  Dimension = 6
  NumEdges = 15
  EndU <- K6U
  EndV <- K6V
  MaxCandidateNodes = 3
  InitialGraphs <- Complete
  Metrics <- EuclideanMetrics
  JvBackends = {"cpu"}
  MaxJvRounds = 2
  DeviceSlots = {}
  Obstacles <- Chains
  LocalOptions <- Budgets
INVARIANTS
  ConvergedIsFixedPoint
  RunReplays
PROPERTIES
  ScanProgress
