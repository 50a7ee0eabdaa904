SPECIFICATION Spec
CONSTANTS
  None = None
  Batches <- MCBatches
  Candidates <- MCCandidates
  Inputs = {0, 1, 2}
  MaxRuns = 2
  MaxFaults = 2
INVARIANTS
  PassAnswersItsIntent
PROPERTIES
  
  SentAsAssessed
  CallsEnd
CHECK_DEADLOCK FALSE
