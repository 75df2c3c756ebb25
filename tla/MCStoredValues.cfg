CONSTANTS
  N = 4
  StoreK = 2
  Alpha = 2
  MaxWrites = 2
  MaxBlobs = 1
  MaxFaults = 1
SPECIFICATION Spec
INVARIANTS
  StoredInv
  Findable
  StaleNeedsOtherReplicas
CHECK_DEADLOCK FALSE
