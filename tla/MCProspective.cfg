SPECIFICATION CohortSpec
CONSTANTS
  Fills <- MCFills
  Of <- MCOf
  Gap = 1
  Horizon = 3
  Tolerance = 1
  NoEpisode = NoEpisode
  PageLimit = 1
  MaxOffset = 2
  ApiCap = 1
  MaxWindows = 5
  Late <- MCLate
  Ranges <- MCRanges
  MaxSyncs = 2
  MaxFaults = 1
  Baseline <- MCBaseline
  OpenMarkets = {"m"}
  CohortStart = 1
  Checkpoints = {1, 2}
  NoFile = NoFile
  MaxBuilds = 2
  MaxChecks = 2
CONSTRAINT OneAtATime
INVARIANTS
  SlicesWhole
  
  
PROPERTIES
  RowsCountOnce
CHECK_DEADLOCK FALSE
