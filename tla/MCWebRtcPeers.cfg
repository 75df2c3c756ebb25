CONSTANTS
  n1 = n1
  n2 = n2
  Nodes = {n1, n2}
  MaxAttempts = 3
SPECIFICATION Spec
SYMMETRY Symmetric
INVARIANTS
  MapInv
  EndsMatch
  LeakNeedsOverlap
PROPERTIES
  OpenStaysOpen
CHECK_DEADLOCK FALSE
