SPECIFICATION ReplaySpec
CONSTANTS
  w1 = w1
  w2 = w2
  Workers = {w1, w2}
  Rows <- MCRows
  Callable = {"paid"}
  Roles <- MCRoles
  MaxCost <- MCMaxCost
  Charges = {1, 3}
  Limit = 5
  Headroom = 1
  MaxRows = 2
  MaxAttempts = 1
  MaxProcesses = 2
SYMMETRY Threads
INVARIANTS
  SpendBounded
  MappedFirst
CHECK_DEADLOCK FALSE
