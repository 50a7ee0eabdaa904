SPECIFICATION Spec
CONSTANTS
  QueueSize = 1
  FsyncEvery = 2
  None = None
  MaxBatch = 2
  MaxRows = 8
  MaxCancels = 1
INVARIANTS
  RowsInOrder
  CleanEndStoresAll
  SidecarExact
PROPERTIES
  StopEnds
CHECK_DEADLOCK FALSE
