SPECIFICATION Spec
CONSTANTS
  a = a
  b = b
  Ids = {a, b}
  Orders <- MCOrders
  Portfolios <- MCPortfolios
  None = None
  FeeBps = 5000
  MaxOrderNotional = 4
  MaxMarketExposure = 6
  MaxGrossExposure = 10
  MaxDailyLoss = 1
  MaxDecisionAge = 1
  MaxMarketDataAge = 1
  MaxTime = 2
SYMMETRY Symmetry
INVARIANTS
  AtMostOnce
  FateKnown
  OpenOrdersReserved
  WorstCaseWithinLimits
  FreshDispatch
