SPECIFICATION VenueSpec
CONSTANTS
  Absent = Absent
  t = t
  u = u
  i = i
  j = j
  Raws <- MCRaws
  Provs <- MCProvs
  Runs = {m1, m2}
  Collectors = {"c", "d"}
  k = k
  l = l
  Keys = {k, l}
  Policies <- MCPolicies
  Specs <- MCSpecs
  Samples <- MCSamples
  MinTrainPeriods = 1
  MinTestN = 1
  ResearchPolicies <- MCResearchPolicies
  Registered <- MCRegistered
  MaxRebuilds = 2
SYMMETRY MCSymmetry
CONSTRAINTS
  Promising
  OneSideVaries
INVARIANTS
  EligibleRestsOnOneChain
PROPERTY
  PassDecidesTheAttestedRun
CHECK_DEADLOCK FALSE
