SPECIFICATION ScanSpec
CONSTANTS
  Dimension = 5
  NumEdges = 8
  EndU <- WheelU
  EndV <- WheelV
  InitialGraphs <- Graphs
  EdgeWeight <- Weights
  Verdicts <- VerdictTables
  ScanOptions <- Options
  VisibleDevices = 3
INVARIANTS
  NoWorkerOutlivesScan
PROPERTIES
  ImplementsScanContract
  ScanEnds
CHECK_DEADLOCK FALSE
