CONSTANT NodeCount = 7
SPECIFICATION Spec
INVARIANTS
  AppendIsNormalize
  ChildIsExact
  DeviceAppendAgrees
CHECK_DEADLOCK FALSE
