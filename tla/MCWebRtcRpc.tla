---------------------------- MODULE MCWebRtcRpc -----------------------------
(* Three nodes whose buckets are full, each of the next node: the request of *)
(* a node that its callee does not know makes the callee ping the third one, *)
(* which does the same.  Two nodes call the second one, which calls back.    *)
EXTENDS WebRtcRpc

CONSTANTS n1, n2, n3

MCTables == {(n1 :> <<n2>>) @@ (n2 :> <<n3>>) @@ (n3 :> <<n1>>)}

MCRoutes == {<<n1, n2>>, <<n2, n1>>, <<n3, n2>>}
=============================================================================
