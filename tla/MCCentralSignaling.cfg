CONSTANTS
  n1 = n1
  n2 = n2
  Nodes = {n1, n2}
  MaxSessions = 3
  MaxOffers = 2
  MaxLosses = 1
SPECIFICATION Spec
INVARIANTS
  PlacesInv
  AnswersMatch
PROPERTIES
  OffersArrive
  EntryLostToSameNode
CHECK_DEADLOCK FALSE
