SPECIFICATION Spec
CONSTANTS
  Handles = {h1, h2}
  Ids = {a, b}
  Contents = {x, y}
  None = None
  MaxLines = 4
SYMMETRY Symmetry
INVARIANTS
  AckedRecoverable
  AnchoredHistory
PROPERTIES
  RefinesDurableLog
