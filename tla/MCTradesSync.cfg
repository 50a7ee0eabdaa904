SPECIFICATION Spec
CONSTANTS
  PageLimit = 2
  MaxOffset = 2
  ApiCap = 1
  Margin = 1
  Tolerance = 1
  MaxWindows = 2
  Delay = 1
  None = None
  Windows <- MCWindows
  MaxTime = 3
  MaxFills = 4
  MaxCuts = 1
CONSTRAINT OneTrouble
INVARIANTS
  DuplicatesOnlyAfterCut
  FullSyncCoversFeed
  IncrementalLeavesNoGap
  BackfillCoversRange
PROPERTIES
  SyncEnds
