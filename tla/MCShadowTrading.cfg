SPECIFICATION Spec
CONSTANTS
  None = None
  Orders <- MCOrders
  Keys = {"up"}
  Unit = 2
  Rounding <- NoRounding
  Ahead = {0, 1}
  Timelines <- MCTimelines
  Books <- MCBooks
  Cash = 26
  Shares <- MCShares
  MaxOrderNotional = 12
  MaxGrossExposure = 40
  MaxDailyLoss = 30
INVARIANTS
  RaceAgrees
  HoldsAccounted
  FillsFollowQueue

  
CHECK_DEADLOCK FALSE
