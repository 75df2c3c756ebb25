CONSTANTS
  n1 = n1
  n2 = n2
  n3 = n3
  Nodes = {n1, n2, n3}
  MaxCalls = 4
  MaxInvoked = 2
  MaxBreaks = 1
  K = 1
  Tables <- MCTables
  Routes <- MCRoutes
SPECIFICATION Spec
INVARIANTS
  ChannelInv
  HandledInOrder
PROPERTIES
  RingsOpen
CHECK_DEADLOCK FALSE
