------------------------------ MODULE KeySpace ------------------------------
(***************************************************************************)
(* dht/key.go: the 160-bit key space shared by node ids and value keys,    *)
(* and the XOR metric on it.  A key is the vector of its bits, bit B-1     *)
(* being the most significant one (big.Int.SetBytes reads big-endian).     *)
(* A distance is never used as a number, only compared and measured by its *)
(* bit length, so the metric is modelled by these two operations; the      *)
(* invariant AgreesWithIntegers of MCRoutingTable compares them with the   *)
(* integers they abstract.                                                 *)
(***************************************************************************)
EXTENDS Integers, Sequences, FiniteSets, TLC

CONSTANTS
  B,     \* number of bits of a key (160 in the code)
  Self,  \* the key of the node itself
  K      \* capacity of a bucket and length of a shortlist (20 in the code)

ASSUME KeyWidth == B \in Nat \ {0}
ASSUME BucketSize == K \in Nat \ {0}

BitNo == 0 .. B - 1

DHTKey == [BitNo -> {0, 1}]

ASSUME SelfIsKey == Self \in DHTKey

\* The distance from x to target is smaller than the one from y: at the
\* highest bit where x and y differ, x agrees with target.
Closer(x, y, target) ==
  \E i \in BitNo :
    /\ x[i] # y[i]
    /\ x[i] = target[i]
    /\ \A j \in i + 1 .. B - 1 : x[j] = y[j]

\* The bit positions that are set in x XOR y.
DistanceBits(x, y) == {i \in BitNo : x[i] # y[i]}

\* Mutant of bucketIndex: BitLen is used as it is.
bucketIndexOffByOne(nodeId, target) ==
  IF nodeId = target
  THEN 0
  ELSE CHOOSE i \in 1 .. B :
         /\ i - 1 \in DistanceBits(nodeId, target)
         /\ \A j \in DistanceBits(nodeId, target) : j < i

\* BitLen(nodeId XOR target) - 1, and 0 for the zero distance.
bucketIndex(nodeId, target) ==
  IF nodeId = target
  THEN 0
  ELSE CHOOSE i \in DistanceBits(nodeId, target) :
         \A j \in DistanceBits(nodeId, target) : j <= i

Lesser(m, n) == IF m < n THEN m ELSE n

\* The first n elements of s (all of it when it is shorter).
Take(s, n) == SubSeq(s, 1, Lesser(Len(s), n))

\* The entries of s that are in S, in the order they have in s.
Only(s, S) ==
  LET places == {i \in DOMAIN s : s[i] \in S}
  IN [n \in 1 .. Cardinality(places) |->
        s[CHOOSE i \in places : Cardinality({j \in places : j < i}) = n - 1]]

\* An entry is a key and a number, which tells entries of the same key apart.
\* d comes before e when it is nearer to target.
Precedes(d, e, target) ==
  Closer(d[1], e[1], target) \/ (d[1] = e[1] /\ d[2] < e[2])

\* sort.Slice by distance to target, and a cut to n: the keys of the n nearest
\* entries of the set E.  In the place m is the entry with m - 1 before it.
NearestFirst(E, target, n) ==
  [m \in 1 .. Lesser(n, Cardinality(E)) |->
     (CHOOSE e \in E : Cardinality({d \in E : Precedes(d, e, target)}) = m - 1)[1]]
=============================================================================
