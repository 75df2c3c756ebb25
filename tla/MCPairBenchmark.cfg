CONSTANTS
  NumPairs = 2
  NumAgents = 2
  MaxFaults = 2
SPECIFICATION PairSpec
INVARIANTS
  PairsInv
  AllMeansAll
PROPERTIES
  CoordinatorEnds
CHECK_DEADLOCK FALSE
