CONSTANTS
  Fetches = {1, 2}
  MaxFrames = 3
  Threshold = 1
SPECIFICATION Spec
INVARIANTS
    WholeOrError
  BufferInv
  NoMissedSignal
PROPERTIES
  BlobArrives
CHECK_DEADLOCK FALSE
