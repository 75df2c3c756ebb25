CONSTANTS
  B = 3
  K = 4
  Alpha = 3
  StoreK = 3
  Self <- MCSelf
  Target <- MCTarget
  Peers <- MCPeers
SPECIFICATION SearchSpec
INVARIANTS
  ShortlistInv
  SearchIsComplete
  ValueIsReturned
PROPERTIES
  OneRoundPerPeer
  Terminates
