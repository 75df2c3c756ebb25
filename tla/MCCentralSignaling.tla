------------------------- MODULE MCCentralSignaling -------------------------
(* Two nodes, one of which loses its connection and registers again, and two *)
(* offers.                                                                   *)
EXTENDS CentralSignaling

CONSTANTS n1, n2
=============================================================================
