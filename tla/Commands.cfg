SPECIFICATION CommandsSpec
CONSTANTS
  Dimension = 6
  NumEdges = 15
  EndU <- K6U
  EndV <- K6V
  MaxCandidateNodes = 3
  InitialGraphs <- Graphs
  Scripts <- AllScripts
  HtHolds <- Provable
INVARIANTS
  ReplayDecides
  AcceptedIsSound
  EpochCertified
  OnlyWholeFilesRead
  ReturnedPairAgrees
  OutputKeepsTours
PROPERTIES
  AllOrNothing
CHECK_DEADLOCK FALSE
