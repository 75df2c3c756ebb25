------------------------------ MODULE MCUdpRpc ------------------------------
(* Three nodes whose buckets are full, each of the next node: a request from  *)
(* a node that its callee does not know makes the callee ping the third one,  *)
(* which pings the first.  One node calls another one twice, or the second    *)
(* call is left to the pings.                                                 *)
EXTENDS UdpRpc

CONSTANTS n1, n2, n3

MCTables == {(n1 :> <<n2>>) @@ (n2 :> <<n3>>) @@ (n3 :> <<n1>>)}

MCRoutes == {<<n1, n2>>}
=============================================================================
