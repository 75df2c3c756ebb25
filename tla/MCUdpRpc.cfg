CONSTANTS
  n1 = n1
  n2 = n2
  n3 = n3
  Nodes = {n1, n2, n3}
  MaxCalls = 3
  MaxInvoked = 2
  MaxCopies = 2
  MaxRepeats = 1
  MaxCrashes = 1
  K = 1
  Tables <- MCTables
  Routes <- MCRoutes
SPECIFICATION Spec
INVARIANTS
  AnswersInv
  NoStaleStore
PROPERTIES
  NobodyWaitsForEver
CHECK_DEADLOCK FALSE
