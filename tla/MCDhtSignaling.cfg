CONSTANTS
  c1 = c1
  c2 = c2
  r1 = r1
  r2 = r2
  Callers = {c1, c2}
  PairNodes = {r1, r2}
  BellNodes = {r1, r2}
  First = {c1}
  BellSets <- Bells
  MaxHandled = 3
  MaxEvents = 2
SPECIFICATION Spec
INVARIANTS
  DhtInv
  HandledTwicePerStore
PROPERTIES
  OffersSucceed
CHECK_DEADLOCK FALSE
