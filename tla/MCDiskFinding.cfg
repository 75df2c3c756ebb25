CONSTANTS
  k1 = k1
  k2 = k2
  v1 = v1
  v2 = v2
  b1 = b1
  b2 = b2
  Keys = {k1, k2}
  Metas = {v1, v2}
  Blobs = {b1, b2}
  None = None
SPECIFICATION DiskSpec
INVARIANT
  FetchedIsStored
