SPECIFICATION Spec
CONSTANTS
  None = None
  c1 = c1
  c2 = c2
  c3 = c3
  Collectors = {c1, c2, c3}
  Interval = 1
  MaxBackoff = 4
  StormWindow = 9
  Grace = 2
  DurationWait = 1
  StopWait = 2
  TermWait = 1
  Durations = {None, 3}
  WriteEvery = 1
SYMMETRY Alike
INVARIANTS
  ReplacedInTime
  RestartsDamped
  ManifestMeansDone
CHECK_DEADLOCK FALSE
