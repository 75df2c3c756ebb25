--------------------------- MODULE MCDiskStorage ----------------------------
(* Two keys, two values and two blobs, with any number of crashes.          *)
EXTENDS DiskStorage

CONSTANTS k1, k2, v1, v2, b1, b2
=============================================================================
