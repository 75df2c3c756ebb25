-------------------------- MODULE MCIterativeSearch --------------------------
(* Five peers around the target, three requests at a time as in the code and *)
(* fewer places in the shortlist than peers, so that entries drop out of it. *)
EXTENDS IterativeSearch

Key(b2, b1, b0) == (2 :> b2) @@ (1 :> b1) @@ (0 :> b0)

MCSelf == Key(0, 0, 0)
MCTarget == Key(1, 1, 0)
MCPeers == {Key(1, 1, 1), Key(1, 0, 0), Key(0, 1, 0), Key(0, 0, 1), Key(0, 1, 1)}
=============================================================================
