--------------------------- MODULE MCRoutingTable ---------------------------
(* Three peers compete for the two places of the farthest bucket, one of    *)
(* them known at two addresses; another peer has a bucket of its own, and   *)
(* the node's own contact is offered too.                                   *)
EXTENDS RoutingTable, Bitwise

CONSTANTS g1, g2, Addr1, Addr2

Key(b2, b1, b0) == (2 :> b2) @@ (1 :> b1) @@ (0 :> b0)

MCSelf == Key(0, 0, 0)

MCContacts ==
  {[id |-> k, addr |-> Addr1] :
     k \in {MCSelf, Key(0, 1, 0), Key(1, 0, 0), Key(1, 0, 1), Key(1, 1, 0)}}
    \cup {[id |-> Key(1, 0, 0), addr |-> Addr2]}

Symmetric == Permutations({g1, g2})

\* The integer whose binary digits are the bits of k.
AsInteger(k) == MapThenSumSet(LAMBDA i : k[i] * 2^i, BitNo)

\* GetKeyDistance as the code computes it.
XorDistance(k, l) == AsInteger(k) ^^ AsInteger(l)

\* The ids of the contacts in the table, and of the node itself.
Known == {Self} \cup {c.id : c \in UNION {Range(buckets[i]) : i \in BitNo}}

\* Comparing two keys bit by bit from the top gives the order of their XOR
\* distances to any target (key.go GetKeyDistance with big.Int.Cmp): without
\* it no sort of the lookup or of FindClosest means what the code means.
MetricAgrees ==
  \A x \in Known : \A y, target \in DHTKey :
    Closer(x, y, target) <=> XorDistance(x, target) < XorDistance(y, target)

\* The bucket of a key is the one whose distance range [2^i, 2^(i+1)) holds
\* its distance from the owner (routing_table.go bucketIndex), and exactly one
\* bucket of the array does.
BucketIsRange ==
  \A x \in Known : \A y \in DHTKey \ {x} : \A i \in BitNo :
    i = bucketIndex(x, y) <=> 2^i <= XorDistance(x, y) /\ XorDistance(x, y) < 2^(i + 1)

\* For the keys that the table comes to know, the order and the buckets are
\* those of the integer distance.
AgreesWithIntegers == MetricAgrees /\ BucketIsRange
=============================================================================
