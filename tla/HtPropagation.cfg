SPECIFICATION Spec
CONSTANTS
  Graphs <- Waves
  Requests = {0, 1, 2}
  Devices <- AllDevices
  ThreadsPerBlock = 2
  kNoHtChild <- None
INVARIANTS
  DeviceAgrees
  StatusJustified
PROPERTIES
  PropagationEnds
