CONSTANTS
  B = 3
  K = 2
  g1 = g1
  g2 = g2
  Addr1 = Addr1
  Addr2 = Addr2
  Adders = {g1, g2}
  Self <- MCSelf
  Contacts <- MCContacts
SPECIFICATION Spec
SYMMETRY Symmetric
INVARIANTS
  AgreesWithIntegers
  WellFormed
  RacesNeedOverlap
  FindClosestIsNearest
PROPERTIES
  EvictedForFailedPing
