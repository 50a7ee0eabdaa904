SPECIFICATION Spec
CONSTANTS
  None = None
  o1 = o1
  c1 = c1
  c2 = c2
  c3 = c3
  c4 = c4
  c5 = c5
  Orders = {o1}
  Qty <- MCQty
  Captures = {c1, c2, c3, c4, c5}
  MaxReceived = 5
  MaxMishaps = 2
SYMMETRY Symmetry
INVARIANTS
  RowsAreTrue
PROPERTIES
  JournalIsDurableLog
CHECK_DEADLOCK FALSE
