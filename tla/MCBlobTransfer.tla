--------------------------- MODULE MCBlobTransfer ---------------------------
(* Two calls at a time, blobs of no frame up to one that fills the buffer   *)
(* above its threshold and has to wait.                                     *)
EXTENDS BlobTransfer
=============================================================================
