--------------------------- MODULE MCStoredValues ---------------------------
(* Four nodes, two of which are the nearest for a writer that is not one of  *)
(* them.                                                                     *)
EXTENDS StoredValues
=============================================================================
