SPECIFICATION CollectorSpec
CONSTANTS
  Unset = Unset
  Window = 9
  Prediscovery = 6
  Overlap = 2
  Grace = 1
  Poll = 1
  Patience = 1
  AskTime = 1
  ReportTime = 1
  Duration = 20
  Starts = {0, 7}
  MaxMishaps = 2

  
PROPERTIES
  CollectorEnds
CHECK_DEADLOCK FALSE
