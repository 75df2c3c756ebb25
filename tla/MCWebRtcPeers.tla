--------------------------- MODULE MCWebRtcPeers ---------------------------
(* Two nodes and three attempts, in either direction and at any time.       *)
EXTENDS WebRtcPeers, TLC

CONSTANTS n1, n2

Symmetric == Permutations({n1, n2})
=============================================================================
