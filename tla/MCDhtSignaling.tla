--------------------------- MODULE MCDhtSignaling ---------------------------
(* Two callers of one callee; the bell is stored at two other nodes, or at one
   and at the callee itself. *)
EXTENDS DhtSignaling

CONSTANTS c1, c2, r1, r2

Bells == {{r1, r2}, {r1, Own}}
=============================================================================
