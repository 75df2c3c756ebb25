--------------------------- MODULE RoutingProofs ---------------------------
(***************************************************************************)
(* The invariants of RoutingTable for every key width, bucket size, set of *)
(* contacts and number of goroutines, and those of IterativeSearch for     *)
(* every set of peers.  The inductive invariant of the table adds what an  *)
(* unlocked Add may rely on when it takes the lock again, the one of a     *)
(* search what is known in the middle of a round.  Both sort by distance:  *)
(* what a list sorted in a strict total order has is proved once, for both.*)
(***************************************************************************)
EXTENDS RoutingTable, IterativeSearch, TLAPS, NaturalsInduction, WellFoundedInduction,
        SequenceTheorems, FiniteSetTheorems, FunctionTheorems

-----------------------------------------------------------------------------

\* Facts about the key space of dht/key.go for keys of any width: every key has
\* a bucket, and nearness to a target is a strict total order, so that "the
\* nearest" of a set of distinct keys is well defined.

\* A nonempty set of bit positions has a greatest element.
LEMMA HighestBit ==
  ASSUME NEW S \in SUBSET BitNo, S # {}
  PROVE  \E i \in S : \A j \in S : j <= i
<1> DEFINE T == {B - 1 - i : i \in S}
<1>0. \A i \in S : i \in Int /\ B - 1 - i \in Nat
  BY KeyWidth DEF BitNo
<1>1. T \subseteq Nat /\ T # {}
  BY <1>0
<1>2. \A i \in S : B - 1 - i \in T
  OBVIOUS
<1>3. \A n \in T : \E i \in S : n = B - 1 - i
  OBVIOUS
<1> HIDE DEF T
<1>4. PICK m \in T : \A n \in T : ~ (<<n, m>> \in OpToRel(<, Nat))
  BY <1>1, NatLessThanWellFounded, WFMin
<1>5. \A n \in T : n \in Nat /\ m \in Nat /\ ~ (n < m)
  BY <1>1, <1>4 DEF OpToRel
<1>6. PICK i \in S : m = B - 1 - i
  BY <1>3
<1>7. \A j \in S : j <= i
  BY <1>0, <1>2, <1>5, <1>6, KeyWidth
<1> QED
  BY <1>7

\* Two different keys differ at a highest bit.
LEMMA HighestDifference ==
  ASSUME NEW x \in DHTKey, NEW y \in DHTKey, x # y
  PROVE  \E i \in DistanceBits(x, y) : \A j \in DistanceBits(x, y) : j <= i
<1>1. DistanceBits(x, y) # {}
  BY DEF DHTKey, DistanceBits
<1> QED
  BY <1>1, HighestBit DEF DistanceBits

\* The index that bucketIndex computes is one of the table's buckets, also
\* for the node's own id, whose distance is zero (routing_table.go line 28).
THEOREM BucketIndexInRange ==
  ASSUME NEW x \in DHTKey, NEW y \in DHTKey
  PROVE  bucketIndex(x, y) \in BitNo
<1>1. CASE x = y
  BY <1>1, KeyWidth DEF bucketIndex, BitNo
<1>2. CASE x # y
  BY <1>2, HighestDifference DEF bucketIndex, DistanceBits
<1> QED
  BY <1>1, <1>2

\* No key is closer than itself.
LEMMA CloserIrreflexive ==
  ASSUME NEW x \in DHTKey, NEW t \in DHTKey
  PROVE  ~ Closer(x, x, t)
BY DEF Closer

\* Nearness to a target is transitive.
THEOREM CloserTransitive ==
  ASSUME NEW x \in DHTKey, NEW y \in DHTKey, NEW z \in DHTKey,
         NEW t \in DHTKey, Closer(x, y, t), Closer(y, z, t)
  PROVE  Closer(x, z, t)
<1> USE KeyWidth DEF BitNo, DHTKey
<1>1. PICK i \in BitNo : /\ x[i] # y[i] /\ x[i] = t[i]
                         /\ \A k \in i + 1 .. B - 1 : x[k] = y[k]
  BY DEF Closer
<1>2. PICK j \in BitNo : /\ y[j] # z[j] /\ y[j] = t[j]
                         /\ \A k \in j + 1 .. B - 1 : y[k] = z[k]
  BY DEF Closer
<1>3. CASE i < j
  <2>1. x[j] = y[j]
    BY <1>1, <1>3
  <2>2. \A k \in j + 1 .. B - 1 : x[k] = z[k]
    BY <1>1, <1>2, <1>3
  <2> QED
    BY <1>2, <2>1, <2>2 DEF Closer
<1>4. CASE j < i
  <2>1. y[i] = z[i]
    BY <1>2, <1>4
  <2>2. \A k \in i + 1 .. B - 1 : x[k] = z[k]
    BY <1>1, <1>2, <1>4
  <2> QED
    BY <1>1, <2>1, <2>2 DEF Closer
<1>5. i # j
  \* at i = j, y[i] would both differ from t[i] and agree with it
  BY <1>1, <1>2
<1> QED
  BY <1>3, <1>4, <1>5

\* Of two different keys one is closer: distances to a target never tie.
THEOREM CloserTotal ==
  ASSUME NEW x \in DHTKey, NEW y \in DHTKey, NEW t \in DHTKey, x # y
  PROVE  Closer(x, y, t) \/ Closer(y, x, t)
<1>1. PICK i \in DistanceBits(x, y) : \A j \in DistanceBits(x, y) : j <= i
  BY HighestDifference
<1>2. i \in BitNo /\ x[i] # y[i]
  BY DEF DistanceBits
<1>3. \A j \in i + 1 .. B - 1 : x[j] = y[j]
  BY <1>1, KeyWidth DEF DistanceBits, BitNo
<1>4. x[i] = t[i] \/ y[i] = t[i]
  BY <1>2 DEF DHTKey
<1> QED
  BY <1>2, <1>3, <1>4 DEF Closer

\* Nearness is asymmetric, so a sorted shortlist has one order only.
LEMMA CloserAsymmetric ==
  ASSUME NEW x \in DHTKey, NEW y \in DHTKey, NEW t \in DHTKey, Closer(x, y, t)
  PROVE  ~ Closer(y, x, t)
BY CloserTransitive, CloserIrreflexive

-----------------------------------------------------------------------------

\* Sorted lists, by the number of elements that come before each.

\* R is a strict total order of the elements of S.
StrictOrder(S, R) ==
  /\ \A x \in S : <<x, x>> \notin R
  /\ \A x, y, z \in S : <<x, y>> \in R /\ <<y, z>> \in R => <<x, z>> \in R
  /\ \A x, y \in S : x # y => <<x, y>> \in R \/ <<y, x>> \in R

\* The elements of S before x, and the element of S in the place n.
Before(S, R, x) == {y \in S : <<y, x>> \in R}
Nth(S, R, n) == CHOOSE x \in S : Cardinality(Before(S, R, x)) = n - 1

\* at lists the elements of S in the order R, and is the list that Nth gives.
Lists(at, S, R) ==
  /\ at \in [1 .. Cardinality(S) -> S]
  /\ \A n \in 1 .. Cardinality(S) :
       at[n] = Nth(S, R, n) /\ Cardinality(Before(S, R, at[n])) = n - 1
  /\ \A i, j \in 1 .. Cardinality(S) : i < j <=> <<at[i], at[j]>> \in R
  /\ \A x \in S : \E n \in 1 .. Cardinality(S) : at[n] = x

\* A finite set in a strict total order R: the number of elements before an
\* element is another one for each, and takes every value below the size.
LEMMA Ranking ==
  ASSUME NEW S, IsFiniteSet(S), NEW R, StrictOrder(S, R)
  PROVE  /\ Cardinality(S) \in Nat
         /\ \A x \in S : Cardinality(Before(S, R, x)) \in 0 .. Cardinality(S) - 1
         /\ \A x, z \in S :
              <<x, z>> \in R <=> Cardinality(Before(S, R, x)) < Cardinality(Before(S, R, z))
         /\ \A n \in 1 .. Cardinality(S) : \E x \in S : Cardinality(Before(S, R, x)) = n - 1
<1> DEFINE Pre(x) == Before(S, R, x)
           N == Cardinality(S)
           rank == [x \in S |-> Cardinality(Pre(x))]
<1>0. /\ \A x \in S : <<x, x>> \notin R
      /\ \A x, y, z \in S : <<x, y>> \in R /\ <<y, z>> \in R => <<x, z>> \in R
      /\ \A x, y \in S : x # y => <<x, y>> \in R \/ <<y, x>> \in R
  BY DEF StrictOrder
<1>1. N \in Nat
  BY FS_CardinalityType
<1>B. \A x \in S : Pre(x) \subseteq S /\ \A y \in S : y \in Pre(x) <=> <<y, x>> \in R
  BY DEF Before
<1>R. /\ (\A x \in S : Cardinality(Pre(x)) \in 0 .. N - 1) => rank \in [S -> 0 .. N - 1]
      /\ \A x \in S : rank[x] = Cardinality(Pre(x))
  OBVIOUS
<1> HIDE DEF Pre, rank
<1>2. ASSUME NEW x \in S
      PROVE  IsFiniteSet(Pre(x)) /\ Cardinality(Pre(x)) \in 0 .. N - 1
  <2>1. Pre(x) \in SUBSET (S \ {x})
    BY <1>B, <1>0
  <2>2. IsFiniteSet(S \ {x}) /\ Cardinality(S \ {x}) = N - 1
    BY FS_RemoveElement
  <2>3. IsFiniteSet(Pre(x)) /\ Cardinality(Pre(x)) <= N - 1
    BY <2>1, <2>2, FS_Subset
  <2> QED
    BY <2>3, <1>1, FS_CardinalityType
<1>3. ASSUME NEW x \in S, NEW z \in S, <<x, z>> \in R
      PROVE  Cardinality(Pre(x)) < Cardinality(Pre(z))
  <2>1. Pre(x) \in SUBSET (Pre(z) \ {x}) /\ x \in Pre(z)
    BY <1>3, <1>B, <1>0
  <2>2. IsFiniteSet(Pre(z)) /\ IsFiniteSet(Pre(x))
    BY <1>2
  <2>3. IsFiniteSet(Pre(z) \ {x}) /\ Cardinality(Pre(z) \ {x}) = Cardinality(Pre(z)) - 1
    BY <2>1, <2>2, FS_RemoveElement
  <2>4. Cardinality(Pre(x)) <= Cardinality(Pre(z) \ {x})
    BY <2>1, <2>3, FS_Subset
  <2>5. Cardinality(Pre(x)) \in Nat /\ Cardinality(Pre(z)) \in Nat
    BY <2>2, FS_CardinalityType
  <2> QED
    BY <2>3, <2>4, <2>5
<1>N. \A x \in S : Cardinality(Pre(x)) \in Int
  BY <1>1, <1>2
<1>4. ASSUME NEW x \in S, NEW z \in S, Cardinality(Pre(x)) < Cardinality(Pre(z))
      PROVE  <<x, z>> \in R
  <2>1. Cardinality(Pre(x)) \in Int /\ Cardinality(Pre(z)) \in Int
    BY <1>N
  <2>2. x # z
    BY <1>4, <2>1
  <2>3. <<z, x>> \notin R
    BY <1>3, <1>4, <2>1
  <2> QED
    BY <2>2, <2>3, <1>0
<1>5. rank \in Injection(S, 0 .. N - 1)
  <2>1. rank \in [S -> 0 .. N - 1]
    BY <1>2, <1>R
  <2>2. \A x, z \in S : rank[x] = rank[z] => x = z
    <3>1. SUFFICES ASSUME NEW x \in S, NEW z \in S, x # z
                   PROVE  rank[x] # rank[z]
      OBVIOUS
    <3>2. PICK a, b \in Int : a = rank[x] /\ b = rank[z]
      BY <1>N, <1>R
    <3>3. a < b \/ b < a
      <4>1. <<x, z>> \in R \/ <<z, x>> \in R
        BY <3>1, <1>0
      <4> QED
        BY <3>2, <4>1, <1>3, <1>R
    <3>4. a # b
      BY <3>3
    <3> QED
      BY <3>2, <3>4
  <2> QED
    BY <2>1, <2>2, Fun_IsInj, Zenon
<1>6. IsFiniteSet(0 .. N - 1) /\ Cardinality(0 .. N - 1) = N
  <2>1. 0 \in Int /\ N - 1 \in Int
    BY <1>1
  <2>2. /\ IsFiniteSet(0 .. N - 1)
        /\ Cardinality(0 .. N - 1) = IF 0 > N - 1 THEN 0 ELSE N - 1 - 0 + 1
    BY <2>1, FS_Interval, Zenon
  <2> QED
    BY <1>1, <2>2
<1>7. rank \in Surjection(S, 0 .. N - 1)
  <2>1. IsFiniteSet(S) /\ Cardinality(S) = Cardinality(0 .. N - 1)
    BY <1>6
  <2> QED
    BY <2>1, <1>5, <1>6, FS_Injection, Zenon
<1>8. \A n \in 1 .. N : \E x \in S : rank[x] = n - 1
  <2>1. \A m \in 0 .. N - 1 : \E x \in S : rank[x] = m
    BY <1>7, Zenon DEF Surjection
  <2>2. \A n \in 1 .. N : n - 1 \in 0 .. N - 1
    BY <1>1
  <2> QED
    BY <2>1, <2>2
<1> QED
  BY <1>1, <1>2, <1>3, <1>4, <1>8, <1>R DEF Pre

\* What the list of the elements of S in the order R is: its n-th element has
\* n - 1 elements before it, it is ordered, and it has every element of S.
LEMMA Listing ==
  ASSUME NEW S, IsFiniteSet(S), NEW R, StrictOrder(S, R)
  PROVE  /\ Cardinality(S) \in Nat
         /\ \E at : Lists(at, S, R)
<1> DEFINE rank(x) == Cardinality(Before(S, R, x))
           N == Cardinality(S)
           at == [n \in 1 .. N |-> Nth(S, R, n)]
<1>0. \A x, y \in S : x # y => <<x, y>> \in R \/ <<y, x>> \in R
  BY DEF StrictOrder
<1>1. /\ N \in Nat
      /\ \A x \in S : rank(x) \in 0 .. N - 1
      /\ \A x, z \in S : <<x, z>> \in R <=> rank(x) < rank(z)
      /\ \A n \in 1 .. N : \E x \in S : rank(x) = n - 1
  BY Ranking, Zenon
<1>2. \A n \in 1 .. N : /\ at[n] = Nth(S, R, n)
                        /\ at[n] = CHOOSE x \in S : rank(x) = n - 1
  BY Zenon DEF Nth
<1> HIDE DEF rank, at, N
<1>3. \A n \in 1 .. N : at[n] \in S /\ rank(at[n]) = n - 1
  BY <1>1, <1>2
<1>4. at \in [1 .. N -> S]
  BY <1>3, Zenon DEF at
<1>5. \A i, j \in 1 .. N : i < j <=> <<at[i], at[j]>> \in R
  <2>1. SUFFICES ASSUME NEW i \in 1 .. N, NEW j \in 1 .. N
                 PROVE  i < j <=> <<at[i], at[j]>> \in R
    BY Zenon
  <2>2. i < j <=> i - 1 < j - 1
    BY <1>1
  <2> QED
    BY <2>2, <1>1, <1>3
<1>6. \A x \in S : \E n \in 1 .. N : at[n] = x
  <2>1. SUFFICES ASSUME NEW x \in S PROVE \E n \in 1 .. N : at[n] = x
    BY Zenon
  <2>2. PICK m \in 0 .. N - 1 : m = rank(x)
    BY <1>1, Zenon
  <2>3. m + 1 \in 1 .. N /\ m + 1 - 1 = m
    BY <1>1
  <2>4. rank(at[m + 1]) = rank(x) /\ at[m + 1] \in S
    BY <1>3, <2>2, <2>3
  <2>5. at[m + 1] = x
    <3>1. ~ (rank(x) < rank(x)) /\ rank(x) \in Int
      BY <1>1
    <3>2. <<at[m + 1], x>> \notin R /\ <<x, at[m + 1]>> \notin R
      BY <2>4, <3>1, <1>1
    <3> QED
      BY <2>4, <3>2, <1>0
  <2> QED
    BY <2>3, <2>5
<1>7. \A n \in 1 .. N : at[n] = Nth(S, R, n) /\ rank(at[n]) = n - 1
  BY <1>2, <1>3, Zenon
<1>8. Lists(at, S, R)
  BY <1>4, <1>5, <1>6, <1>7, Zenon DEF Lists, rank, N
<1> QED
  BY <1>1, <1>8, Zenon DEF N

\* Take returns the first n elements.
LEMMA TakeFacts ==
  ASSUME NEW T, NEW s \in Seq(T), NEW n \in Nat
  PROVE  /\ Take(s, n) \in Seq(T)
         /\ Len(Take(s, n)) = Lesser(Len(s), n)
         /\ Len(Take(s, n)) \in Nat /\ Len(Take(s, n)) <= n /\ Len(Take(s, n)) <= Len(s)
         /\ \A i \in 1 .. Len(Take(s, n)) : Take(s, n)[i] = s[i]
<1> DEFINE m == Lesser(Len(s), n)
<1>1. Len(s) \in Nat /\ s \in [1 .. Len(s) -> T] /\ m \in Nat /\ m <= n /\ m <= Len(s)
  BY LenProperties DEF Lesser
<1>2. \A i \in 1 .. m : s[i] \in T
  BY <1>1
<1>3. 1 \in Int /\ m \in Int
  BY <1>1
<1> HIDE DEF m
<1>4. /\ SubSeq(s, 1, m) \in Seq(T)
      /\ Len(SubSeq(s, 1, m)) = IF 1 <= m THEN m - 1 + 1 ELSE 0
      /\ \A i \in 1 .. m - 1 + 1 : SubSeq(s, 1, m)[i] = s[1 + i - 1]
  BY <1>2, <1>3, SubSeqProperties
<1>5. Take(s, n) = SubSeq(s, 1, m)
  BY DEF Take, m
<1>6. Len(Take(s, n)) = m
  BY <1>1, <1>4, <1>5
<1>7. \A i \in 1 .. m : Take(s, n)[i] = s[i]
  <2>1. \A i \in 1 .. m : i \in 1 .. m - 1 + 1 /\ 1 + i - 1 = i
    BY <1>1
  <2> QED
    BY <1>4, <1>5, <2>1
<1>8. Len(Take(s, n)) = Lesser(Len(s), n)
  BY <1>6 DEF m
<1>9. Take(s, n) \in Seq(T)
  BY <1>4, <1>5
<1>10. /\ Len(Take(s, n)) \in Nat /\ Len(Take(s, n)) <= n /\ Len(Take(s, n)) <= Len(s)
       /\ \A i \in 1 .. Len(Take(s, n)) : Take(s, n)[i] = s[i]
  BY <1>1, <1>6, <1>7
<1> QED
  BY <1>8, <1>9, <1>10

\* Where s has elements of S, and the order of these places.
Spots(s, S) == {i \in DOMAIN s : s[i] \in S}
LessIn(P) == {p \in P \X P : p[1] < p[2]}

\* The places of a sequence at which a set of elements is, in their order.
LEMMA SpotsListed ==
  ASSUME NEW T, NEW s \in Seq(T), NEW S
  PROVE  /\ Cardinality(Spots(s, S)) \in Nat /\ Cardinality(Spots(s, S)) <= Len(s)
         /\ \E at : Lists(at, Spots(s, S), LessIn(Spots(s, S)))
         /\ Only(s, S) = [n \in 1 .. Cardinality(Spots(s, S)) |->
                            s[Nth(Spots(s, S), LessIn(Spots(s, S)), n)]]
<1>1. Len(s) \in Nat /\ DOMAIN s = 1 .. Len(s)
  BY LenProperties
<1>2. Spots(s, S) \in SUBSET (1 .. Len(s)) /\ \A i \in Spots(s, S) : i \in Nat
  BY <1>1 DEF Spots
<1>3. IsFiniteSet(1 .. Len(s)) /\ Cardinality(1 .. Len(s)) = Len(s)
  <2>1. 1 \in Int /\ Len(s) \in Int
    BY <1>1
  <2>2. /\ IsFiniteSet(1 .. Len(s))
        /\ Cardinality(1 .. Len(s)) = IF 1 > Len(s) THEN 0 ELSE Len(s) - 1 + 1
    BY <2>1, FS_Interval, Zenon
  <2> QED
    BY <1>1, <2>2
<1>4. IsFiniteSet(Spots(s, S)) /\ Cardinality(Spots(s, S)) <= Len(s)
  BY <1>2, <1>3, FS_Subset
<1>5. \A i, j \in Spots(s, S) : <<i, j>> \in LessIn(Spots(s, S)) <=> i < j
  BY DEF LessIn
<1>6. StrictOrder(Spots(s, S), LessIn(Spots(s, S)))
  BY <1>2, <1>5 DEF StrictOrder
<1>7. Cardinality(Spots(s, S)) \in Nat /\ \E at : Lists(at, Spots(s, S), LessIn(Spots(s, S)))
  BY <1>4, <1>6, Listing
<1>8. \A x \in Spots(s, S) :
        Before(Spots(s, S), LessIn(Spots(s, S)), x) = {j \in Spots(s, S) : j < x}
  BY <1>5 DEF Before
<1>9. ASSUME NEW n
      PROVE  Nth(Spots(s, S), LessIn(Spots(s, S)), n)
             = CHOOSE i \in Spots(s, S) : Cardinality({j \in Spots(s, S) : j < i}) = n - 1
  <2>1. \A x : (x \in Spots(s, S) /\ Cardinality(Before(Spots(s, S), LessIn(Spots(s, S)), x)) = n - 1)
            <=> (x \in Spots(s, S) /\ Cardinality({j \in Spots(s, S) : j < x}) = n - 1)
    BY <1>8, Zenon
  <2> QED
    BY <2>1, Zenon DEF Nth
<1>10. Only(s, S) = [n \in 1 .. Cardinality(Spots(s, S)) |->
          s[CHOOSE i \in Spots(s, S) : Cardinality({j \in Spots(s, S) : j < i}) = n - 1]]
  BY Zenon DEF Only, Spots
<1>11. Only(s, S) = [n \in 1 .. Cardinality(Spots(s, S)) |->
                            s[Nth(Spots(s, S), LessIn(Spots(s, S)), n)]]
  BY <1>9, <1>10, Zenon
<1> QED
  BY <1>4, <1>7, <1>11

\* r has the entries of s that are in S, and no others.
Keeps(r, s, S) ==
  /\ Len(r) \in Nat /\ Len(r) <= Len(s)
  /\ \A n \in 1 .. Len(r) : r[n] \in S /\ \E i \in 1 .. Len(s) : r[n] = s[i]
  /\ \A i \in 1 .. Len(s) : s[i] \in S => \E n \in 1 .. Len(r) : r[n] = s[i]

LEMMA OnlyFacts ==
  ASSUME NEW T, NEW s \in Seq(T), NEW S
  PROVE  Only(s, S) \in Seq(T) /\ Keeps(Only(s, S), s, S)
<1> DEFINE P == Spots(s, S)
           N == Cardinality(P)
           pick(n) == Nth(P, LessIn(P), n)
<1>1. /\ N \in Nat /\ N <= Len(s)
      /\ \E at : Lists(at, P, LessIn(P))
      /\ Only(s, S) = [n \in 1 .. N |-> s[pick(n)]]
  BY SpotsListed
<1>3. DOMAIN s = 1 .. Len(s) /\ Len(s) \in Nat /\ \A i \in 1 .. Len(s) : s[i] \in T
  BY LenProperties
<1>4. \A i : i \in P <=> i \in 1 .. Len(s) /\ s[i] \in S
  BY <1>3 DEF Spots
<1>5. PICK at : Lists(at, P, LessIn(P))
  BY <1>1
<1>6. /\ \A n \in 1 .. N : pick(n) \in P
      /\ \A i \in P : \E n \in 1 .. N : pick(n) = i
  BY <1>5 DEF Lists
<1> HIDE DEF P, N, pick
<1>7. \A n \in 1 .. N : pick(n) \in 1 .. Len(s) /\ s[pick(n)] \in S /\ s[pick(n)] \in T
  BY <1>3, <1>4, <1>6
<1>8. Only(s, S) \in [1 .. N -> T] /\ \A n \in 1 .. N : Only(s, S)[n] = s[pick(n)]
  BY <1>1, <1>7
<1>9. Only(s, S) \in Seq(T) /\ Len(Only(s, S)) = N
  BY <1>1, <1>8
<1>10. \A n \in 1 .. N : Only(s, S)[n] \in S /\ \E i \in 1 .. Len(s) : Only(s, S)[n] = s[i]
  BY <1>7, <1>8
<1>11. \A i \in 1 .. Len(s) : s[i] \in S => \E n \in 1 .. N : Only(s, S)[n] = s[i]
  BY <1>4, <1>6, <1>8
<1> QED
  BY <1>1, <1>9, <1>10, <1>11 DEF Keeps

\* Only changes nothing when every entry is in S.
LEMMA OnlyAll ==
  ASSUME NEW T, NEW s \in Seq(T), NEW S, T \subseteq S
  PROVE  Only(s, S) = s
<1> DEFINE P == Spots(s, S)
           pick(n) == Nth(P, LessIn(P), n)
<1>1. DOMAIN s = 1 .. Len(s) /\ Len(s) \in Nat /\ s \in [1 .. Len(s) -> T]
  BY LenProperties
<1>2. P = 1 .. Len(s)
  BY <1>1 DEF Spots
<1>3. /\ \E at : Lists(at, P, LessIn(P))
      /\ Only(s, S) = [n \in 1 .. Cardinality(P) |-> s[pick(n)]]
  BY SpotsListed
<1>4. ASSUME NEW k \in Nat
      PROVE  Cardinality(1 .. k) = k
  <2>1. 1 \in Int /\ k \in Int
    OBVIOUS
  <2>2. Cardinality(1 .. k) = IF 1 > k THEN 0 ELSE k - 1 + 1
    BY <2>1, FS_Interval, Zenon
  <2> QED
    BY <2>2
<1>5. PICK at : Lists(at, P, LessIn(P))
  BY <1>3
<1>6. Cardinality(P) = Len(s)
  BY <1>1, <1>2, <1>4
<1>7. \A n \in 1 .. Len(s) : /\ pick(n) \in 1 .. Len(s)
                             /\ Cardinality(Before(P, LessIn(P), pick(n))) = n - 1
  BY <1>2, <1>5, <1>6 DEF Lists
<1> HIDE DEF pick, P
<1>8. ASSUME NEW n \in 1 .. Len(s)
      PROVE  pick(n) = n
  <2>1. PICK a \in 1 .. Len(s) : a = pick(n)
    BY <1>7
  <2>2. Before(P, LessIn(P), a) = 1 .. a - 1
    BY <1>1, <1>2 DEF Before, LessIn
  <2>3. Cardinality(1 .. a - 1) = a - 1
    BY <1>1, <1>4
  <2>4. n - 1 = a - 1
    BY <1>7, <2>1, <2>2, <2>3
  <2> QED
    BY <2>1, <2>4, <1>1
<1> QED
  BY <1>1, <1>3, <1>6, <1>8

\* The order of entries by distance to t.
ByDistance(E, t) == {p \in E \X E : Precedes(p[1], p[2], t)}

\* It is a strict total order, as keys are ordered and numbers are.
LEMMA PrecedesOrder ==
  ASSUME NEW t \in DHTKey, NEW E \in SUBSET (DHTKey \X Nat)
  PROVE  /\ StrictOrder(E, ByDistance(E, t))
         /\ \A d, e \in E : <<d, e>> \in ByDistance(E, t) <=> Precedes(d, e, t)
<1>1. \A d, e \in E : <<d, e>> \in ByDistance(E, t) <=> Precedes(d, e, t)
  BY DEF ByDistance
<1>2. \A e \in E : e[1] \in DHTKey /\ e[2] \in Nat /\ e = <<e[1], e[2]>>
  OBVIOUS
<1>3. \A e \in E : ~ Precedes(e, e, t)
  BY <1>2, CloserIrreflexive DEF Precedes
<1>4. ASSUME NEW d \in E, NEW e \in E, NEW f \in E, Precedes(d, e, t), Precedes(e, f, t)
      PROVE  Precedes(d, f, t)
  <2>1. d[1] \in DHTKey /\ e[1] \in DHTKey /\ f[1] \in DHTKey
    BY <1>2
  <2>2. CASE Closer(d[1], e[1], t) /\ Closer(e[1], f[1], t)
    BY <2>1, <2>2, CloserTransitive DEF Precedes
  <2>3. CASE Closer(d[1], e[1], t) /\ e[1] = f[1]
    BY <2>3 DEF Precedes
  <2>4. CASE d[1] = e[1] /\ Closer(e[1], f[1], t)
    BY <2>4 DEF Precedes
  <2>5. CASE (d[1] = e[1] /\ d[2] < e[2]) /\ (e[1] = f[1] /\ e[2] < f[2])
    <3>1. d[2] < f[2]
      BY <1>2, <2>5
    <3> QED
      BY <2>5, <3>1 DEF Precedes
  <2> QED
    BY <1>4, <2>2, <2>3, <2>4, <2>5 DEF Precedes
<1>5. ASSUME NEW d \in E, NEW e \in E, d # e
      PROVE  Precedes(d, e, t) \/ Precedes(e, d, t)
  <2>1. CASE d[1] # e[1]
    BY <1>2, <2>1, CloserTotal DEF Precedes
  <2>2. CASE d[1] = e[1]
    <3>1. d[2] # e[2]
      BY <1>2, <1>5, <2>2
    <3>2. d[2] < e[2] \/ e[2] < d[2]
      BY <1>2, <3>1
    <3> QED
      BY <2>2, <3>2 DEF Precedes
  <2> QED
    BY <2>1, <2>2
<1> QED
  BY <1>1, <1>3, <1>4, <1>5 DEF StrictOrder

\* NearestFirst takes its entries from the list of E by distance.
LEMMA NearestFirstListed ==
  ASSUME NEW t \in DHTKey, NEW E \in SUBSET (DHTKey \X Nat), IsFiniteSet(E), NEW n \in Nat
  PROVE  /\ Cardinality(E) \in Nat
         /\ \E at : /\ Lists(at, E, ByDistance(E, t))
                    /\ NearestFirst(E, t, n) = [m \in 1 .. Lesser(n, Cardinality(E)) |-> at[m][1]]
<1>1. StrictOrder(E, ByDistance(E, t))
  BY PrecedesOrder
<1>2. Cardinality(E) \in Nat /\ \E at : Lists(at, E, ByDistance(E, t))
  BY <1>1, Listing
<1>3. PICK at : Lists(at, E, ByDistance(E, t))
  BY <1>2
<1>4. \A e \in E : Before(E, ByDistance(E, t), e) = {d \in E : Precedes(d, e, t)}
  BY PrecedesOrder DEF Before
<1>5. ASSUME NEW m
      PROVE  Nth(E, ByDistance(E, t), m)
             = CHOOSE e \in E : Cardinality({d \in E : Precedes(d, e, t)}) = m - 1
  <2>1. \A e : (e \in E /\ Cardinality(Before(E, ByDistance(E, t), e)) = m - 1)
            <=> (e \in E /\ Cardinality({d \in E : Precedes(d, e, t)}) = m - 1)
    BY <1>4, Zenon
  <2> QED
    BY <2>1, Zenon DEF Nth
<1>6. NearestFirst(E, t, n) =
        [m \in 1 .. Lesser(n, Cardinality(E)) |-> Nth(E, ByDistance(E, t), m)[1]]
  <2>1. NearestFirst(E, t, n) =
          [m \in 1 .. Lesser(n, Cardinality(E)) |->
             (CHOOSE e \in E : Cardinality({d \in E : Precedes(d, e, t)}) = m - 1)[1]]
    BY Zenon DEF NearestFirst
  <2> QED
    BY <1>5, <2>1, Zenon
<1>7. \A m \in 1 .. Lesser(n, Cardinality(E)) : m \in 1 .. Cardinality(E)
  BY <1>2 DEF Lesser
<1>8. \A m \in 1 .. Lesser(n, Cardinality(E)) : Nth(E, ByDistance(E, t), m) = at[m]
  BY <1>3, <1>7, Zenon DEF Lists
<1>9. NearestFirst(E, t, n) = [m \in 1 .. Lesser(n, Cardinality(E)) |-> at[m][1]]
  BY <1>6, <1>8, Zenon
<1> QED
  BY <1>2, <1>3, <1>9

\* The list is in order of distance, an entry that is not in it is not nearer
\* than its last one, and neither is a key with n entries nearer than itself.
LEMMA NearestFirstFacts ==
  ASSUME NEW t \in DHTKey, NEW S \in SUBSET DHTKey,
         NEW E \in SUBSET (S \X Nat), IsFiniteSet(E), NEW n \in Nat \ {0}
  PROVE  /\ NearestFirst(E, t, n) \in Seq(S)
         /\ Cardinality(E) \in Nat
         /\ Len(NearestFirst(E, t, n)) = Lesser(n, Cardinality(E))
         /\ \A m \in 1 .. Len(NearestFirst(E, t, n)) : \E e \in E : NearestFirst(E, t, n)[m] = e[1]
         /\ \A i, j \in 1 .. Len(NearestFirst(E, t, n)) :
              i < j => ~ Closer(NearestFirst(E, t, n)[j], NearestFirst(E, t, n)[i], t)
         /\ \A e \in E :
              \/ \E m \in 1 .. Len(NearestFirst(E, t, n)) : NearestFirst(E, t, n)[m] = e[1]
              \/ Len(NearestFirst(E, t, n)) = n /\ Closer(NearestFirst(E, t, n)[n], e[1], t)
         /\ \A x \in DHTKey, F \in SUBSET E :
              (Cardinality(F) >= n /\ \A f \in F : Closer(f[1], x, t))
                => Len(NearestFirst(E, t, n)) = n /\ Closer(NearestFirst(E, t, n)[n], x, t)
<1> DEFINE s == NearestFirst(E, t, n)
           N == Cardinality(E)
           L == Lesser(n, N)
           R == ByDistance(E, t)
<1>0. E \in SUBSET (DHTKey \X Nat) /\ n \in Nat
  OBVIOUS
<1>1. /\ N \in Nat
      /\ \E at : /\ Lists(at, E, R)
                 /\ s = [m \in 1 .. L |-> at[m][1]]
  BY <1>0, NearestFirstListed, Zenon
<1>2. PICK at : Lists(at, E, R) /\ s = [m \in 1 .. L |-> at[m][1]]
  BY <1>1, Zenon
<1>3. /\ at \in [1 .. N -> E]
      /\ \A m \in 1 .. N : Cardinality(Before(E, R, at[m])) = m - 1
      /\ \A i, j \in 1 .. N : i < j <=> <<at[i], at[j]>> \in R
      /\ \A e \in E : \E m \in 1 .. N : at[m] = e
  BY <1>2, Zenon DEF Lists
<1>4. \A d, e \in E : <<d, e>> \in R <=> Precedes(d, e, t)
  BY <1>0, PrecedesOrder, Zenon
<1>5. \A e \in E : e[1] \in S /\ e[1] \in DHTKey
  OBVIOUS
<1>6. L \in Nat /\ L <= n /\ L <= N /\ (L = n \/ L = N)
  BY <1>1 DEF Lesser
<1>L. L = Lesser(n, Cardinality(E))
  OBVIOUS
<1> HIDE DEF s, R, L
<1>7. \A m \in 1 .. L : m \in 1 .. N /\ at[m] \in E /\ s[m] = at[m][1] /\ s[m] \in S /\ s[m] \in DHTKey
  BY <1>1, <1>2, <1>3, <1>5, <1>6
<1>8. s \in Seq(S) /\ Len(s) = L
  BY <1>2, <1>6, <1>7
<1>9. \A m \in 1 .. L : \E e \in E : s[m] = e[1]
  BY <1>7
<1>10. ASSUME NEW i \in 1 .. L, NEW j \in 1 .. L, i < j
       PROVE  ~ Closer(s[j], s[i], t)
  <2>1. Precedes(at[i], at[j], t)
    BY <1>3, <1>4, <1>7, <1>10
  <2>2. Closer(s[i], s[j], t) \/ s[i] = s[j]
    BY <1>7, <2>1 DEF Precedes
  <2>3. s[i] \in DHTKey /\ s[j] \in DHTKey
    BY <1>7
  <2> QED
    BY <2>2, <2>3, CloserAsymmetric, CloserIrreflexive
<1>11. ASSUME NEW e \in E
       PROVE  \/ \E m \in 1 .. L : s[m] = e[1]
              \/ L = n /\ Closer(s[n], e[1], t)
  <2>1. PICK m \in 1 .. N : at[m] = e
    BY <1>3
  <2>2. CASE m <= L
    BY <1>1, <1>6, <1>7, <2>1, <2>2
  <2>3. CASE L < m
    <3>1. L = n /\ n \in 1 .. L /\ n \in 1 .. N /\ n < m
      BY <1>1, <1>6, <2>3
    <3>2. Precedes(at[n], e, t)
      BY <1>3, <1>4, <1>7, <2>1, <3>1
    <3>3. Closer(s[n], e[1], t) \/ s[n] = e[1]
      BY <1>7, <3>1, <3>2 DEF Precedes
    <3> QED
      BY <3>1, <3>3
  <2> QED
    BY <1>1, <1>6, <2>2, <2>3
<1>12. ASSUME NEW x \in DHTKey, NEW F \in SUBSET E, Cardinality(F) >= n, \A f \in F : Closer(f[1], x, t)
       PROVE  L = n /\ Closer(s[n], x, t)
  <2>1. Cardinality(F) \in Nat /\ Cardinality(F) <= N /\ IsFiniteSet(F)
    BY FS_Subset, FS_CardinalityType
  <2>2. L = n /\ n \in 1 .. L /\ n \in 1 .. N
    BY <1>1, <1>6, <1>12, <2>1
  <2>3. SUFFICES ASSUME ~ Closer(s[n], x, t) PROVE FALSE
    BY <2>2
  <2>4. s[n] = x \/ Closer(x, s[n], t)
    BY <1>7, <2>2, <2>3, CloserTotal
  <2>5. \A f \in F : Closer(f[1], s[n], t)
    BY <1>5, <1>7, <1>12, <2>2, <2>4, CloserTransitive
  <2>6. F \in SUBSET Before(E, R, at[n])
    BY <1>4, <1>7, <2>2, <2>5 DEF Before, Precedes
  <2>7. Before(E, R, at[n]) \in SUBSET E
    BY DEF Before
  <2>8. IsFiniteSet(Before(E, R, at[n]))
    BY <2>7, FS_Subset
  <2>9. Cardinality(F) <= Cardinality(Before(E, R, at[n]))
    BY <2>6, <2>8, FS_Subset
  <2> QED
    BY <1>3, <1>12, <2>1, <2>2, <2>9
<1> QED
  BY <1>1, <1>8, <1>9, <1>10, <1>11, <1>12, <1>L DEF s

-----------------------------------------------------------------------------

\* t is s without its entry i, and with c at the end.
MovesUp(t, s, i, c) ==
  /\ Len(t) = Len(s)
  /\ \A j \in 1 .. Len(s) :
       t[j] = IF j < i THEN s[j] ELSE IF j < Len(s) THEN s[j + 1] ELSE c

\* What the double append of lines 45, 65 and 75 makes of a bucket: its
\* length is kept, the entries behind i move up, c comes last.
LEMMA ReplaceAtTailElements ==
  ASSUME NEW S, NEW s \in Seq(S), NEW i \in 1 .. Len(s), NEW c \in S
  PROVE  /\ ReplaceAtTail(s, i, c) \in Seq(S)
         /\ MovesUp(ReplaceAtTail(s, i, c), s, i, c)
<1> DEFINE front == SubSeq(s, 1, i - 1)
           back == SubSeq(s, i + 1, Len(s))
           t == front \o back
<1>0. Len(s) \in Nat /\ i \in Int /\ 1 <= i /\ i <= Len(s)
  OBVIOUS
<1>1. /\ front \in Seq(S) /\ Len(front) = i - 1
      /\ \A j \in 1 .. i - 1 : front[j] = s[j]
  <2>1. \A j \in 1 .. i - 1 : s[j] \in S
    BY <1>0
  <2> QED
    BY <1>0, <2>1, SubSeqProperties
<1>2. /\ back \in Seq(S) /\ Len(back) = Len(s) - i
      /\ \A j \in 1 .. Len(s) - i : back[j] = s[i + j]
  <2>1. \A j \in i + 1 .. Len(s) : s[j] \in S
    BY <1>0
  <2> QED
    BY <1>0, <2>1, SubSeqProperties
<1>4. ReplaceAtTail(s, i, c) = Append(t, c)
  BY DEF ReplaceAtTail, RemoveAt
<1> HIDE DEF front, back
<1>5. /\ t \in Seq(S) /\ Len(t) = Len(s) - 1
      /\ \A j \in 1 .. Len(s) - 1 : t[j] = IF j < i THEN front[j] ELSE back[j - (i - 1)]
  <2>1. /\ t \in Seq(S) /\ Len(t) = Len(front) + Len(back)
        /\ \A j \in 1 .. Len(front) + Len(back) :
             t[j] = IF j <= Len(front) THEN front[j] ELSE back[j - Len(front)]
    BY <1>1, <1>2, ConcatProperties
  <2> HIDE DEF t
  <2>2. /\ Len(front) + Len(back) = Len(s) - 1
        /\ Len(front) = i - 1
        /\ \A j \in 1 .. Len(s) - 1 : j <= i - 1 <=> j < i
    BY <1>0, <1>1, <1>2
  <2> QED
    BY <2>1, <2>2
<1> HIDE DEF t
<1>6. \A j \in 1 .. Len(s) - 1 : t[j] = IF j < i THEN s[j] ELSE s[j + 1]
  <2> SUFFICES ASSUME NEW j \in 1 .. Len(s) - 1
               PROVE  t[j] = IF j < i THEN s[j] ELSE s[j + 1]
    OBVIOUS
  <2>1. CASE j < i
    BY <1>0, <1>1, <1>5, <2>1
  <2>2. CASE ~ (j < i)
    <3>1. j - (i - 1) \in 1 .. Len(s) - i /\ i + (j - (i - 1)) = j + 1
      BY <1>0, <2>2
    <3> QED
      BY <1>2, <1>5, <2>2, <3>1
  <2> QED
    BY <2>1, <2>2
<1>7. /\ Append(t, c) \in Seq(S)
      /\ Len(Append(t, c)) = Len(t) + 1
      /\ \A j \in 1 .. Len(t) : Append(t, c)[j] = t[j]
      /\ Append(t, c)[Len(t) + 1] = c
  BY <1>5, AppendProperties
<1> QED
  BY <1>0, <1>4, <1>5, <1>6, <1>7 DEF MovesUp

-----------------------------------------------------------------------------

\* An Add that waits for an answer concerns another peer than the node itself,
\* and pinged a contact of that peer's bucket.
PendingPlaced ==
  \A g \in Pending :
    /\ adder[g].node.id # Self
    /\ adder[g].lrs.id # Self
    /\ BucketOf(adder[g].lrs.id) = BucketOf(adder[g].node.id)

Shape == TypeOK /\ WellPlaced /\ Bounded /\ PendingPlaced

\* Ids are keys and have a bucket.
LEMMA IdsHaveBuckets ==
  /\ \A c \in Contacts : c.id \in Ids
  /\ \A id \in Ids : id \in DHTKey /\ BucketOf(id) \in BitNo
<1>1. \A id \in Ids : id \in DHTKey
  BY ContactsAreNodes DEF Ids
<1>2. \A id \in Ids : BucketOf(id) \in BitNo
  BY <1>1, SelfIsKey, BucketIndexInRange DEF BucketOf
<1> QED
  BY <1>1, <1>2 DEF Ids

\* What the history variables become keeps its type.
LEMMA PendingTyped ==
  ASSUME TypeOK
  PROVE  \A g \in Pending : /\ g \in Adders
                            /\ adder[g] \in [node : Contacts, lrs : Contacts]
                            /\ adder[g].node \in Contacts
                            /\ adder[g].lrs \in Contacts
BY DEF TypeOK, Pending

\* How one bucket changes: every action that writes the table stores c at the
\* end of bucket idx, and either drops no entry, or the one at place i.
Appends(idx, c) ==
  buckets' = [buckets EXCEPT ![idx] = Append(buckets[idx], c)]

Replaces(idx, i, c) ==
  buckets' = [buckets EXCEPT ![idx] = ReplaceAtTail(buckets[idx], i, c)]

\* The entries of the changed bucket: those that were there, and c.
LEMMA AppendsEntries ==
  ASSUME TypeOK, NEW idx \in BitNo, NEW c \in Contacts, Appends(idx, c)
  PROVE  /\ buckets' \in [BitNo -> Seq(Contacts)]
         /\ \A l \in BitNo \ {idx} : buckets'[l] = buckets[l]
         /\ Len(buckets'[idx]) = Len(buckets[idx]) + 1
         /\ \A j \in 1 .. Len(buckets[idx]) : buckets'[idx][j] = buckets[idx][j]
         /\ buckets'[idx][Len(buckets[idx]) + 1] = c
<1>1. buckets[idx] \in Seq(Contacts)
  BY DEF TypeOK
<1>2. buckets'[idx] = Append(buckets[idx], c)
  BY DEF TypeOK, Appends
<1>3. Append(buckets[idx], c) \in Seq(Contacts)
  BY <1>1
<1> QED
  BY <1>1, <1>2, <1>3, AppendProperties DEF TypeOK, Appends

LEMMA ReplacesEntries ==
  ASSUME TypeOK, NEW idx \in BitNo, NEW c \in Contacts,
         NEW i \in DOMAIN buckets[idx], Replaces(idx, i, c)
  PROVE  /\ buckets' \in [BitNo -> Seq(Contacts)]
         /\ \A l \in BitNo \ {idx} : buckets'[l] = buckets[l]
         /\ MovesUp(buckets'[idx], buckets[idx], i, c)
<1>1. buckets[idx] \in Seq(Contacts) /\ i \in 1 .. Len(buckets[idx])
  BY DEF TypeOK
<1>2. buckets'[idx] = ReplaceAtTail(buckets[idx], i, c)
  BY DEF TypeOK, Replaces
<1>3. /\ buckets'[idx] \in Seq(Contacts)
      /\ MovesUp(buckets'[idx], buckets[idx], i, c)
  BY <1>1, <1>2, ReplaceAtTailElements
<1>4. \A l \in BitNo \ {idx} : buckets'[l] = buckets[l]
  BY DEF TypeOK, Replaces
<1>5. buckets' \in [BitNo -> Seq(Contacts)]
  <2>1. ReplaceAtTail(buckets[idx], i, c) \in Seq(Contacts)
    BY <1>2, <1>3
  <2> QED
    BY <2>1 DEF TypeOK, Replaces
<1> QED
  BY <1>3, <1>4, <1>5

-----------------------------------------------------------------------------

\* Type correctness, the place and the number of the entries.
LEMMA InitShape == Init => Shape
<1> SUFFICES ASSUME Init PROVE Shape
  OBVIOUS
<1>1. Pending = {}
  BY DEF Init, Pending
<1>2. TypeOK
  BY <1>1 DEF Init, TypeOK
<1> QED
  BY <1>1, <1>2, BucketSize DEF Init, Shape, WellPlaced, Bounded, PendingPlaced

\* The history variables keep their types in the actions that call Add.
LEMMA HistoryTyped ==
  ASSUME TypeOK, NEW c \in Contacts, NoteCall(c.id)
  PROVE  contended' \subseteq Ids
BY IdsHaveBuckets DEF TypeOK, NoteCall

\* Shape survives a write of c to the bucket where c belongs.
LEMMA AppendsShape ==
  ASSUME Shape, NEW c \in Contacts, c.id # Self,
         Appends(BucketOf(c.id), c), Len(buckets[BucketOf(c.id)]) < K
  PROVE  /\ buckets' \in [BitNo -> Seq(Contacts)]
         /\ WellPlaced' /\ Bounded'
<1> DEFINE idx == BucketOf(c.id)
<1>1. idx \in BitNo
  BY IdsHaveBuckets
<1>2. TypeOK /\ \A l \in BitNo : Len(buckets[l]) \in Nat
  BY DEF Shape, TypeOK
<1>3. WellPlaced'
  BY <1>1, <1>2, AppendsEntries DEF Shape, WellPlaced, BucketOf
<1>4. Bounded'
  BY <1>1, <1>2, AppendsEntries, BucketSize DEF Shape, Bounded
<1> QED
  BY <1>1, <1>2, <1>3, <1>4, AppendsEntries

LEMMA ReplacesShape ==
  ASSUME Shape, NEW c \in Contacts, c.id # Self, NEW idx, idx = BucketOf(c.id),
         NEW i \in DOMAIN buckets[idx], Replaces(idx, i, c)
  PROVE  /\ buckets' \in [BitNo -> Seq(Contacts)]
         /\ WellPlaced' /\ Bounded'
<1>1. idx \in BitNo
  BY IdsHaveBuckets
<1>2. TypeOK /\ \A l \in BitNo : Len(buckets[l]) \in Nat
  BY DEF Shape, TypeOK
<1>3. WellPlaced'
  BY <1>1, <1>2, ReplacesEntries DEF Shape, WellPlaced, BucketOf, MovesUp
<1>4. Bounded'
  BY <1>1, <1>2, ReplacesEntries DEF Shape, Bounded, MovesUp
<1> QED
  BY <1>1, <1>2, <1>3, <1>4, ReplacesEntries

\* Every step of the table keeps Shape, one action at a time.
LEMMA NextShape == Shape /\ [Next]_vars => Shape'
<1> SUFFICES ASSUME Shape, [Next]_vars PROVE Shape'
  OBVIOUS
<1>0. /\ TypeOK
      /\ \A g \in Pending : /\ g \in Adders
                            /\ adder[g] \in [node : Contacts, lrs : Contacts]
                            /\ adder[g].node \in Contacts
                            /\ adder[g].lrs \in Contacts
  BY PendingTyped DEF Shape
<1>1. ASSUME NEW c \in Contacts, AddKnown(c) PROVE Shape'
  <2>1. PICK i \in DOMAIN buckets[BucketOf(c.id)] : Replaces(BucketOf(c.id), i, c)
    BY <1>1 DEF AddKnown, Replaces
  <2>2. buckets' \in [BitNo -> Seq(Contacts)] /\ WellPlaced' /\ Bounded'
    BY <1>1, <2>1, ReplacesShape DEF AddKnown
  <2>3. adder' = adder /\ Pending' = Pending
    BY <1>1 DEF AddKnown, Pending
  <2>4. TypeOK'
    <3>1. latest' \in [Ids -> Contacts \cup {NoAdd}]
      BY <1>0, <1>1, IdsHaveBuckets DEF AddKnown, TypeOK
    <3>2. contended' \subseteq Ids
      BY <1>0, <1>1, HistoryTyped DEF AddKnown
    <3>3. heard' \subseteq Pending'
      BY <1>0, <1>1, <2>3 DEF AddKnown, NoteHeard, TypeOK
    <3> QED
      BY <1>0, <2>2, <2>3, <3>1, <3>2, <3>3 DEF TypeOK
  <2> QED
    BY <2>2, <2>3, <2>4 DEF Shape, PendingPlaced
<1>2. ASSUME NEW c \in Contacts, AddNew(c) PROVE Shape'
  <2>1. Appends(BucketOf(c.id), c) /\ Len(buckets[BucketOf(c.id)]) < K /\ c.id # Self
    BY <1>2 DEF AddNew, Appends
  <2>2. buckets' \in [BitNo -> Seq(Contacts)] /\ WellPlaced' /\ Bounded'
    BY <2>1, AppendsShape
  <2>3. adder' = adder /\ Pending' = Pending
    BY <1>2 DEF AddNew, Pending
  <2>4. TypeOK'
    <3>1. latest' \in [Ids -> Contacts \cup {NoAdd}]
      BY <1>0, <1>2, IdsHaveBuckets DEF AddNew, TypeOK
    <3>2. contended' \subseteq Ids
      BY <1>0, <1>2, HistoryTyped DEF AddNew
    <3>3. heard' \subseteq Pending'
      BY <1>0, <1>2, <2>3 DEF AddNew, NoteHeard, TypeOK
    <3> QED
      BY <1>0, <2>2, <2>3, <3>1, <3>2, <3>3 DEF TypeOK
  <2> QED
    BY <2>2, <2>3, <2>4 DEF Shape, PendingPlaced
<1>3. ASSUME NEW g \in Adders, NEW c \in Contacts, AddFull(g, c) PROVE Shape'
  <2> DEFINE b == buckets[BucketOf(c.id)]
  <2>1. BucketOf(c.id) \in BitNo /\ b \in Seq(Contacts) /\ Len(b) >= K
    BY <1>0, <1>3, IdsHaveBuckets DEF AddFull, TypeOK
  <2>2. /\ Head(b) = b[1] /\ 1 \in DOMAIN b /\ b[1] \in Contacts
    BY <2>1, BucketSize
  <2>3. /\ b[1].id # Self /\ BucketOf(b[1].id) = BucketOf(c.id)
    BY <2>1, <2>2 DEF Shape, WellPlaced
  <2>4. adder' = [adder EXCEPT ![g] = [node |-> c, lrs |-> b[1]]]
    BY <1>3, <2>2 DEF AddFull
  <2>5. /\ adder' \in [Adders -> [node : Contacts, lrs : Contacts] \cup {NoAdd}]
        /\ adder'[g] = [node |-> c, lrs |-> b[1]]
        /\ \A h \in Adders \ {g} : adder'[h] = adder[h]
    BY <1>0, <2>2, <2>4 DEF TypeOK
  <2>6. Pending \subseteq Pending' /\ Pending' \subseteq Pending \cup {g}
    BY <1>3, <2>5 DEF Pending, AddFull
  <2>7. TypeOK'
    <3>1. contended' \subseteq Ids
      BY <1>0, <1>3, HistoryTyped DEF AddFull
    <3>2. heard' \subseteq Pending'
      BY <1>0, <1>3, <2>6 DEF AddFull, NoteHeard, TypeOK
    <3> QED
      BY <1>0, <1>3, <2>5, <3>1, <3>2 DEF TypeOK, AddFull
  <2>8. PendingPlaced'
    BY <1>3, <2>3, <2>5, <2>6 DEF Shape, PendingPlaced, AddFull, BucketOf
  <2> QED
    BY <1>3, <2>7, <2>8 DEF Shape, AddFull, WellPlaced, Bounded
<1>4. ASSUME NEW g \in Pending, Return(g)
      PROVE  /\ Pending' = Pending \ {g}
             /\ \A h \in Pending' : adder'[h] = adder[h]
             /\ adder' \in [Adders -> [node : Contacts, lrs : Contacts] \cup {NoAdd}]
             /\ PendingPlaced'
  <2>1. /\ Pending' = Pending \ {g}
        /\ \A h \in Pending' : adder'[h] = adder[h]
        /\ adder' \in [Adders -> [node : Contacts, lrs : Contacts] \cup {NoAdd}]
    BY <1>0, <1>4 DEF Return, TypeOK, Pending
  <2> QED
    BY <2>1 DEF Shape, PendingPlaced, BucketOf
<1>5. ASSUME NEW g \in Adders, PingAnswered(g) PROVE Shape'
  <2> DEFINE idx == BucketOf(adder[g].node.id)
             lrs == adder[g].lrs
  <2>1. g \in Pending /\ Return(g) /\ latest' = latest /\ contended' = contended
    BY <1>5 DEF PingAnswered
  <2>2. lrs \in Contacts /\ lrs.id # Self /\ idx = BucketOf(lrs.id)
    BY <1>0, <2>1 DEF Shape, PendingPlaced
  <2>3. \/ \E i \in DOMAIN buckets[idx] : Replaces(idx, i, lrs)
        \/ UNCHANGED buckets
    BY <1>5 DEF PingAnswered, Replaces
  <2>5. buckets' \in [BitNo -> Seq(Contacts)] /\ WellPlaced' /\ Bounded'
    <3>1. ASSUME NEW i \in DOMAIN buckets[idx], Replaces(idx, i, lrs)
          PROVE  buckets' \in [BitNo -> Seq(Contacts)] /\ WellPlaced' /\ Bounded'
      BY <2>2, <3>1, ReplacesShape
    <3>2. CASE UNCHANGED buckets
      BY <3>2 DEF Shape, TypeOK, WellPlaced, Bounded, BucketOf
    <3> QED
      BY <2>3, <3>1, <3>2
  <2>6. heard' \subseteq Pending'
    BY <1>0, <1>4, <1>5, <2>1 DEF PingAnswered, TypeOK
  <2>7. TypeOK'
    BY <1>0, <1>4, <2>1, <2>5, <2>6 DEF TypeOK
  <2> QED
    BY <1>4, <2>1, <2>5, <2>7 DEF Shape
<1>6. ASSUME NEW g \in Adders, PingFailed(g) PROVE Shape'
  <2> DEFINE idx == BucketOf(adder[g].node.id)
             node == adder[g].node
  <2>1. g \in Pending /\ Return(g) /\ contended' = contended
    BY <1>6 DEF PingFailed
  <2>2. node \in Contacts /\ node.id # Self
    BY <1>0, <2>1 DEF Shape, PendingPlaced
  <2>3. \/ \E i \in DOMAIN buckets[idx] : Replaces(idx, i, node)
        \/ UNCHANGED buckets
    BY <1>6 DEF PingFailed, Replaces
  <2>5. buckets' \in [BitNo -> Seq(Contacts)] /\ WellPlaced' /\ Bounded'
    <3>1. ASSUME NEW i \in DOMAIN buckets[idx], Replaces(idx, i, node)
          PROVE  buckets' \in [BitNo -> Seq(Contacts)] /\ WellPlaced' /\ Bounded'
      BY <2>2, <3>1, ReplacesShape
    <3>2. CASE UNCHANGED buckets
      BY <3>2 DEF Shape, TypeOK, WellPlaced, Bounded, BucketOf
    <3> QED
      BY <2>3, <3>1, <3>2
  <2>6. heard' \subseteq Pending'
    BY <1>0, <1>4, <1>6, <2>1 DEF PingFailed, TypeOK
  <2>7. latest' \in [Ids -> Contacts \cup {NoAdd}]
    BY <1>0, <1>6, <2>2, IdsHaveBuckets DEF PingFailed, TypeOK
  <2>8. TypeOK'
    BY <1>0, <1>4, <2>1, <2>5, <2>6, <2>7 DEF TypeOK
  <2> QED
    BY <1>4, <2>1, <2>5, <2>8 DEF Shape
<1>7. CASE UNCHANGED vars
  BY <1>7 DEF vars, Shape, TypeOK, WellPlaced, Bounded, PendingPlaced, Pending
<1> QED
  BY <1>1, <1>2, <1>3, <1>5, <1>6, <1>7 DEF Next

\* Every reachable table is well typed.
THEOREM TypeCorrect == Spec => []TypeOK
<1>1. Spec => []Shape
  BY InitShape, NextShape, PTL DEF Spec
<1>2. Shape => TypeOK
  BY DEF Shape
<1> QED
  BY <1>1, <1>2, PTL

\* However many Adds overlap, the table is well typed, no bucket holds more than K entries, none holds
\* the node itself, and every entry is in the bucket of its distance.
THEOREM BucketsWellFormed == Spec => []WellFormed
<1>1. Spec => []Shape
  BY InitShape, NextShape, PTL DEF Spec
<1>2. Shape => WellFormed
  BY DEF Shape, WellFormed
<1> QED
  BY <1>1, <1>2, PTL

-----------------------------------------------------------------------------

\* The peer that an Add found missing is still missing while it pings, unless
\* another Add was called with it.
PendingAbsent ==
  \A g \in Pending :
    adder[g].node.id \notin contended => ~ Stored(adder[g].node.id)

\* Two unfinished Adds of one id, or one of an id that another one pings.
PendingDistinct ==
  \A g, h \in Pending :
    (g # h /\ adder[g].node.id \in {adder[h].node.id, adder[h].lrs.id})
      => adder[g].node.id \in contended

\* The pinged contact is the one last written for its id.
PendingFresh ==
  \A g \in Pending :
    adder[g].lrs.id \notin contended => adder[g].lrs = latest[adder[g].lrs.id]

History == /\ NoDuplicates /\ FreshContact /\ JudgesOldest
           /\ PendingAbsent /\ PendingDistinct /\ PendingFresh

IInv == Shape /\ History

\* c is the contact last written for its id, and no other id is written.
Writes(c) ==
  /\ \A id \in Ids \ {c.id} : latest'[id] = latest[id]
  /\ c.id \in contended' \/ latest'[c.id] = c

\* Storing c behind a bucket that does not hold its id.
LEMMA AppendsHistory ==
  ASSUME Shape, NoDuplicates, FreshContact, contended \subseteq contended',
         NEW c \in Contacts, NEW idx, idx = BucketOf(c.id),
         ~ Holds(buckets[idx], c.id), Appends(idx, c), Writes(c)
  PROVE  /\ NoDuplicates' /\ FreshContact'
         /\ \A id \in Ids : Stored(id)' => Stored(id) \/ id = c.id
<1>0. /\ idx \in BitNo /\ TypeOK
      /\ \A l \in BitNo : buckets[l] \in Seq(Contacts) /\ buckets'[l] \in Seq(Contacts)
  BY IdsHaveBuckets, AppendsEntries DEF Shape, TypeOK
<1> DEFINE n == Len(buckets[idx])
<1>1. /\ \A l \in BitNo \ {idx} : buckets'[l] = buckets[l]
      /\ Len(buckets'[idx]) = n + 1
      /\ \A j \in 1 .. n : buckets'[idx][j] = buckets[idx][j]
      /\ buckets'[idx][n + 1] = c
  BY <1>0, AppendsEntries
<1>2. \A j \in 1 .. n : buckets[idx][j].id # c.id
  BY <1>0 DEF Holds
<1>3. NoDuplicates'
  <2> SUFFICES ASSUME NEW l \in BitNo, NEW j \in DOMAIN buckets'[l],
                      NEW k \in DOMAIN buckets'[l], j # k,
                      buckets'[l][j].id = buckets'[l][k].id
               PROVE  buckets'[l][j].id \in contended'
    BY DEF NoDuplicates
  <2>1. CASE l # idx
    BY <1>1, <2>1 DEF NoDuplicates
  <2>2. CASE l = idx
    <3>1. j \in 1 .. n + 1 /\ k \in 1 .. n + 1 /\ n \in Nat
      BY <1>0, <1>1, <2>2
    <3>2. \A i \in 1 .. n : buckets'[idx][i].id # c.id
      BY <1>1, <1>2
    <3>3. buckets'[idx][n + 1].id = c.id
      BY <1>1
    <3>4. ~(j = n + 1 /\ k \in 1 .. n) /\ ~(k = n + 1 /\ j \in 1 .. n)
      BY <2>2, <3>2, <3>3
    <3>5. j \in 1 .. n /\ k \in 1 .. n
      BY <3>1, <3>4
    <3> QED
      BY <1>0, <1>1, <2>2, <3>5 DEF NoDuplicates
  <2> QED
    BY <2>1, <2>2
<1>4. FreshContact'
  <2> SUFFICES ASSUME NEW l \in BitNo, NEW j \in DOMAIN buckets'[l],
                      buckets'[l][j].id \notin contended'
               PROVE  buckets'[l][j] = latest'[buckets'[l][j].id]
    BY DEF FreshContact
  <2>1. CASE l = idx /\ j = n + 1
    BY <1>1, <2>1 DEF Writes
  <2>2. CASE ~ (l = idx /\ j = n + 1)
    <3>1. j \in DOMAIN buckets[l] /\ buckets'[l][j] = buckets[l][j]
      BY <1>0, <1>1, <2>2
    <3>2. buckets[l][j].id \in Ids \ {c.id}
      BY <1>0, <1>2, <3>1, IdsHaveBuckets DEF Shape, WellPlaced
    <3> QED
      BY <3>1, <3>2 DEF FreshContact, Writes
  <2> QED
    BY <2>1, <2>2
<1>5. \A id \in Ids : Stored(id)' => Stored(id) \/ id = c.id
  BY <1>0, <1>1, IdsHaveBuckets DEF Stored, Holds, BucketOf
<1> QED
  BY <1>3, <1>4, <1>5

\* Storing c in place of the entry at i, the only one that may have its id.
LEMMA ReplacesHistory ==
  ASSUME Shape, NoDuplicates, FreshContact, contended \subseteq contended',
         NEW c \in Contacts, NEW idx, idx = BucketOf(c.id),
         NEW i \in DOMAIN buckets[idx], Replaces(idx, i, c), Writes(c),
         c.id \notin contended'
           => \A j \in DOMAIN buckets[idx] : buckets[idx][j].id = c.id => j = i
  PROVE  /\ NoDuplicates' /\ FreshContact'
         /\ \A id \in Ids : Stored(id)' => Stored(id) \/ id = c.id
<1>0. /\ idx \in BitNo /\ TypeOK
      /\ \A l \in BitNo : buckets[l] \in Seq(Contacts) /\ buckets'[l] \in Seq(Contacts)
  BY IdsHaveBuckets, ReplacesEntries DEF Shape, TypeOK
<1>1. /\ \A l \in BitNo \ {idx} : buckets'[l] = buckets[l]
      /\ MovesUp(buckets'[idx], buckets[idx], i, c)
  BY <1>0, ReplacesEntries
<1> DEFINE n == Len(buckets[idx])
           Origin(j) == IF j < i THEN j ELSE j + 1
<1>2. /\ n \in Nat /\ i \in 1 .. n /\ Len(buckets'[idx]) = n
      /\ buckets'[idx][n] = c
      /\ \A j \in 1 .. n - 1 : /\ Origin(j) \in DOMAIN buckets[idx] \ {i}
                             /\ buckets'[idx][j] = buckets[idx][Origin(j)]
  BY <1>0, <1>1 DEF MovesUp
<1>3. NoDuplicates'
  <2> SUFFICES ASSUME NEW l \in BitNo, NEW j \in DOMAIN buckets'[l],
                      NEW k \in DOMAIN buckets'[l], j # k,
                      buckets'[l][j].id = buckets'[l][k].id,
                      buckets'[l][j].id \notin contended'
               PROVE  FALSE
    BY DEF NoDuplicates
  <2>1. CASE l # idx
    BY <1>1, <2>1 DEF NoDuplicates
  <2>2. CASE l = idx
    <3>1. j \in 1 .. n /\ k \in 1 .. n
      BY <1>0, <1>2, <2>2
    <3>2. j \in 1 .. n - 1 /\ k \in 1 .. n - 1
      BY <1>2, <2>2, <3>1
    <3>3. Origin(j) # Origin(k)
      BY <1>2, <3>2
    <3> HIDE DEF Origin
    <3> QED
      BY <1>2, <2>2, <3>2, <3>3 DEF NoDuplicates
  <2> QED
    BY <2>1, <2>2
<1>4. FreshContact'
  <2> SUFFICES ASSUME NEW l \in BitNo, NEW j \in DOMAIN buckets'[l],
                      buckets'[l][j].id \notin contended'
               PROVE  buckets'[l][j] = latest'[buckets'[l][j].id]
    BY DEF FreshContact
  <2>1. CASE l = idx /\ j = n
    BY <1>2, <2>1 DEF Writes
  <2>2. CASE l = idx /\ j # n
    <3>1. j \in 1 .. n - 1
      BY <1>0, <1>2, <2>2
    <3>2. buckets[idx][Origin(j)].id \in Ids \ {c.id}
      BY <1>0, <1>2, <2>2, <3>1, IdsHaveBuckets
    <3> HIDE DEF Origin
    <3> QED
      BY <1>0, <1>2, <2>2, <3>1, <3>2 DEF FreshContact, Writes
  <2>3. CASE l # idx
    <3>1. j \in DOMAIN buckets[l] /\ buckets'[l][j] = buckets[l][j]
      BY <1>1, <2>3
    <3>2. buckets[l][j].id \in Ids \ {c.id}
      BY <1>0, <2>3, <3>1, IdsHaveBuckets DEF Shape, WellPlaced
    <3> QED
      BY <3>1, <3>2 DEF FreshContact, Writes
  <2> QED
    BY <2>1, <2>2, <2>3
<1>5. \A id \in Ids : Stored(id)' => Stored(id) \/ id = c.id
  BY <1>0, <1>1, IdsHaveBuckets DEF Stored, Holds, BucketOf, MovesUp
<1> QED
  BY <1>3, <1>4, <1>5

\* The first entry of a bucket stays first unless its place is taken over.
LEMMA AppendsFirst ==
  ASSUME Shape, NEW c \in Contacts, NEW idx, idx = BucketOf(c.id), Appends(idx, c)
  PROVE  \A l \in BitNo : buckets[l] # << >> => buckets'[l][1] = buckets[l][1]
<1>1. idx \in BitNo /\ TypeOK /\ \A l \in BitNo : buckets[l] \in Seq(Contacts)
  BY IdsHaveBuckets DEF Shape, TypeOK
<1> QED
  BY <1>1, AppendsEntries

LEMMA ReplacesFirst ==
  ASSUME Shape, NEW c \in Contacts, NEW idx, idx = BucketOf(c.id),
         NEW i \in DOMAIN buckets[idx], Replaces(idx, i, c)
  PROVE  \A l \in BitNo :
           (buckets[l] # << >> /\ ~ (l = idx /\ i = 1)) => buckets'[l][1] = buckets[l][1]
<1>1. idx \in BitNo /\ TypeOK /\ \A l \in BitNo : buckets[l] \in Seq(Contacts)
  BY IdsHaveBuckets DEF Shape, TypeOK
<1> QED
  BY <1>1, ReplacesEntries DEF MovesUp

\* When Add writes c: what the other, waiting Adds rely on.
LEMMA CallKeepsPending ==
  ASSUME IInv, NEW c \in Contacts, adder' = adder, NoteCall(c.id), Writes(c),
         \A id \in Ids : Stored(id)' => Stored(id) \/ id = c.id
  PROVE  PendingAbsent' /\ PendingDistinct' /\ PendingFresh'
<1>0. /\ TypeOK /\ Pending' = Pending /\ contended \subseteq contended'
      /\ \A g \in Pending : adder[g].node \in Contacts /\ adder[g].lrs \in Contacts
      /\ \A g \in Pending : adder[g].node.id \in Ids /\ adder[g].lrs.id \in Ids
  BY PendingTyped, IdsHaveBuckets DEF IInv, Shape, Pending, NoteCall
<1>1. \A g \in Pending : c.id \in {adder[g].node.id, adder[g].lrs.id} => c.id \in contended'
  BY DEF NoteCall
<1>2. PendingAbsent'
  BY <1>0, <1>1 DEF IInv, History, PendingAbsent
<1>3. PendingDistinct'
  BY <1>0 DEF IInv, History, PendingDistinct
<1>4. PendingFresh'
  BY <1>0, <1>1 DEF IInv, History, PendingFresh, Writes
<1> QED
  BY <1>2, <1>3, <1>4

\* Add on a peer whose bucket holds it.
LEMMA AddKnownHistory ==
  ASSUME IInv, NEW c \in Contacts, AddKnown(c) PROVE History'
<1> DEFINE idx == BucketOf(c.id)
<1>0. /\ Shape /\ TypeOK /\ contended \subseteq contended' /\ adder' = adder
      /\ idx \in BitNo /\ c.id \in Ids /\ Pending' = Pending /\ NoteCall(c.id)
      /\ heard' = heard \cup {g \in Pending : adder[g].lrs.id = c.id}
  BY IdsHaveBuckets DEF IInv, Shape, AddKnown, NoteCall, NoteHeard, Pending
<1>1. PICK i \in DOMAIN buckets[idx] : FoundAt(buckets[idx], c.id, i) /\ Replaces(idx, i, c)
  BY DEF AddKnown, Replaces
<1>2. Writes(c)
  BY <1>0 DEF AddKnown, Writes, TypeOK
<1>3. c.id \notin contended'
         => \A j \in DOMAIN buckets[idx] : buckets[idx][j].id = c.id => j = i
  BY <1>0, <1>1 DEF IInv, History, NoDuplicates, FoundAt
<1>4. /\ NoDuplicates' /\ FreshContact'
      /\ \A id \in Ids : Stored(id)' => Stored(id) \/ id = c.id
  BY <1>0, <1>1, <1>2, <1>3, ReplacesHistory DEF IInv, History
<1>5. PendingAbsent' /\ PendingDistinct' /\ PendingFresh'
  BY <1>0, <1>2, <1>4, CallKeepsPending
<1>6. JudgesOldest'
  <2> SUFFICES ASSUME NEW g \in Pending, g \notin heard',
                      adder[g].lrs.id \notin contended', Stored(adder[g].lrs.id)'
               PROVE  buckets'[BucketOf(adder[g].node.id)][1].id = adder[g].lrs.id
    BY <1>0 DEF JudgesOldest, Stored, IInv, Shape, PendingPlaced, BucketOf
  <2> DEFINE l == BucketOf(adder[g].node.id)
             id == adder[g].lrs.id
  <2>1. id \in Ids /\ l = BucketOf(id) /\ l \in BitNo /\ id # c.id
    BY <1>0, PendingTyped, IdsHaveBuckets DEF Shape, PendingPlaced
  <2>2. Stored(id)
    BY <1>0, <1>4, <2>1 DEF Stored, BucketOf
  <2>3. buckets[l] # << >> /\ buckets[l][1].id = id
    BY <1>0, <2>1, <2>2 DEF IInv, History, JudgesOldest, Stored, Holds
  <2>4. ~ (l = idx /\ i = 1)
    BY <1>1, <2>1, <2>3 DEF FoundAt
  <2>5. buckets'[l][1] = buckets[l][1]
    <3> HIDE DEF l
    <3> QED
      BY <1>0, <1>1, <2>1, <2>3, <2>4, ReplacesFirst
  <2> QED
    BY <2>3, <2>5
<1> QED
  BY <1>4, <1>5, <1>6 DEF History

\* Add on a new peer whose bucket has room.
LEMMA AddNewHistory ==
  ASSUME IInv, NEW c \in Contacts, AddNew(c) PROVE History'
<1> DEFINE idx == BucketOf(c.id)
<1>0. /\ Shape /\ TypeOK /\ contended \subseteq contended' /\ adder' = adder
      /\ idx \in BitNo /\ c.id \in Ids /\ Pending' = Pending /\ NoteCall(c.id)
      /\ heard' = heard \cup {g \in Pending : adder[g].lrs.id = c.id}
      /\ ~ Holds(buckets[idx], c.id) /\ Appends(idx, c)
  BY IdsHaveBuckets DEF IInv, Shape, AddNew, NoteCall, NoteHeard, Pending, Appends
<1>2. Writes(c)
  BY <1>0 DEF AddNew, Writes, TypeOK
<1>4. /\ NoDuplicates' /\ FreshContact'
      /\ \A id \in Ids : Stored(id)' => Stored(id) \/ id = c.id
  BY <1>0, <1>2, AppendsHistory DEF IInv, History
<1>5. PendingAbsent' /\ PendingDistinct' /\ PendingFresh'
  BY <1>0, <1>2, <1>4, CallKeepsPending
<1>6. JudgesOldest'
  <2> SUFFICES ASSUME NEW g \in Pending, g \notin heard',
                      adder[g].lrs.id \notin contended', Stored(adder[g].lrs.id)'
               PROVE  buckets'[BucketOf(adder[g].node.id)][1].id = adder[g].lrs.id
    BY <1>0 DEF JudgesOldest, Stored, IInv, Shape, PendingPlaced, BucketOf
  <2> DEFINE l == BucketOf(adder[g].node.id)
             id == adder[g].lrs.id
  <2>1. id \in Ids /\ l = BucketOf(id) /\ l \in BitNo /\ id # c.id
    BY <1>0, PendingTyped, IdsHaveBuckets DEF Shape, PendingPlaced
  <2>2. Stored(id)
    BY <1>0, <1>4, <2>1 DEF Stored, BucketOf
  <2>3. buckets[l] # << >> /\ buckets[l][1].id = id
    BY <1>0, <2>1, <2>2 DEF IInv, History, JudgesOldest, Stored, Holds
  <2> QED
    BY <1>0, <2>1, <2>3, AppendsFirst
<1> QED
  BY <1>4, <1>5, <1>6 DEF History

\* Add on a new peer whose bucket is full: the table stays as it is.
LEMMA AddFullHistory ==
  ASSUME IInv, NEW g \in Adders, NEW c \in Contacts, AddFull(g, c) PROVE History'
<1> DEFINE b == buckets[BucketOf(c.id)]
<1>0. /\ Shape /\ TypeOK /\ contended \subseteq contended' /\ heard \subseteq heard'
      /\ BucketOf(c.id) \in BitNo /\ b \in Seq(Contacts) /\ c.id \in Ids
      /\ buckets' = buckets /\ latest' = latest /\ ~ Holds(b, c.id)
      /\ \A h \in Pending : adder[h].node.id \in Ids /\ adder[h].lrs.id \in Ids
  BY PendingTyped, IdsHaveBuckets
     DEF IInv, Shape, TypeOK, AddFull, NoteCall, NoteHeard
<1>1. /\ 1 \in DOMAIN b /\ Head(b) = b[1] /\ b[1].id \in Ids
      /\ BucketOf(b[1].id) = BucketOf(c.id)
  BY <1>0, BucketSize, IdsHaveBuckets DEF AddFull, Shape, WellPlaced
<1>2. /\ adder'[g] = [node |-> c, lrs |-> b[1]]
      /\ \A h \in Pending : h # g /\ adder'[h] = adder[h]
      /\ Pending' \subseteq Pending \cup {g}
  BY <1>0, <1>1 DEF AddFull, TypeOK, Pending
<1>3. \A h \in Pending : c.id \in {adder[h].node.id, adder[h].lrs.id} => c.id \in contended'
  BY DEF AddFull, NoteCall
<1>4. Stored(b[1].id) /\ ~ Stored(c.id) /\ \A id \in Ids : Stored(id)' <=> Stored(id)
  BY <1>0, <1>1 DEF Stored, Holds, BucketOf
<1>5. NoDuplicates' /\ FreshContact'
  BY <1>0 DEF IInv, History, NoDuplicates, FreshContact
<1>6. PendingAbsent'
  BY <1>0, <1>2, <1>4 DEF IInv, History, PendingAbsent
<1>7. PendingDistinct'
  <2>1. \A h \in Pending : adder[h].node.id = b[1].id => adder[h].node.id \in contended
    BY <1>0, <1>4 DEF IInv, History, PendingAbsent
  <2> QED
    BY <1>0, <1>2, <1>3, <2>1 DEF IInv, History, PendingDistinct
<1>8. PendingFresh'
  <2>1. b[1].id \notin contended => b[1] = latest[b[1].id]
    BY <1>0, <1>1 DEF IInv, History, FreshContact
  <2> QED
    BY <1>0, <1>2, <2>1 DEF IInv, History, PendingFresh
<1>9. JudgesOldest'
  BY <1>0, <1>1, <1>2 DEF IInv, History, JudgesOldest, BucketOf
<1> QED
  BY <1>5, <1>6, <1>7, <1>8, <1>9 DEF History

\* What the other Adds rely on when g returns having written node, or nothing.
LEMMA ReturnKeepsPending ==
  ASSUME IInv, NEW g \in Pending, Return(g), contended' = contended,
         latest' = latest \/ Writes(adder[g].node),
         \A id \in Ids : Stored(id)' => Stored(id) \/ id = adder[g].node.id
  PROVE  PendingAbsent' /\ PendingDistinct' /\ PendingFresh'
<1>0. /\ Pending' = Pending \ {g} /\ \A h \in Pending' : adder'[h] = adder[h]
      /\ \A h \in Pending : adder[h].node.id \in Ids /\ adder[h].lrs.id \in Ids
  BY PendingTyped, IdsHaveBuckets DEF IInv, Shape, TypeOK, Return, Pending
<1>1. \A h \in Pending' : adder[g].node.id \in {adder[h].node.id, adder[h].lrs.id}
                           => adder[g].node.id \in contended
  BY <1>0 DEF IInv, History, PendingDistinct
<1>2. PendingAbsent'
  BY <1>0, <1>1 DEF IInv, History, PendingAbsent
<1>3. PendingDistinct'
  BY <1>0 DEF IInv, History, PendingDistinct
<1>4. PendingFresh'
  BY <1>0, <1>1 DEF IInv, History, PendingFresh, Writes
<1> QED
  BY <1>2, <1>3, <1>4

\* The pinged peer answered.
LEMMA PingAnsweredHistory ==
  ASSUME IInv, NEW g \in Adders, PingAnswered(g) PROVE History'
<1> DEFINE lrs == adder[g].lrs
           idx == BucketOf(adder[g].node.id)
<1>0. /\ Shape /\ TypeOK /\ contended' = contended /\ latest' = latest
      /\ g \in Pending /\ Return(g) /\ lrs \in Contacts /\ idx = BucketOf(lrs.id)
      /\ Pending' = Pending \ {g} /\ \A h \in Pending' : adder'[h] = adder[h]
      /\ heard' = (heard \cup {h \in Pending : adder[h].lrs.id = lrs.id}) \ {g}
  BY PendingTyped
     DEF IInv, Shape, PingAnswered, PendingPlaced, Return, TypeOK, Pending
<1>1. idx \in BitNo /\ lrs.id \in Ids
  BY <1>0, IdsHaveBuckets
<1>2. CASE UNCHANGED buckets
  <2>1. NoDuplicates' /\ FreshContact' /\ JudgesOldest'
    BY <1>0, <1>2
       DEF IInv, History, NoDuplicates, FreshContact, JudgesOldest, Holds, BucketOf
  <2>2. \A id \in Ids : Stored(id)' => Stored(id)
    BY <1>2 DEF Stored, Holds, BucketOf
  <2> QED
    BY <1>0, <2>1, <2>2, ReturnKeepsPending DEF History
<1>3. ASSUME NEW i \in DOMAIN buckets[idx],
             FoundAt(buckets[idx], lrs.id, i), Replaces(idx, i, lrs)
      PROVE  History'
  <2>1. Writes(lrs)
    BY <1>0 DEF Writes, IInv, History, PendingFresh
  <2>2. lrs.id \notin contended'
           => \A j \in DOMAIN buckets[idx] : buckets[idx][j].id = lrs.id => j = i
    BY <1>0, <1>1, <1>3 DEF IInv, History, NoDuplicates, FoundAt
  <2>3. /\ NoDuplicates' /\ FreshContact'
        /\ \A id \in Ids : Stored(id)' => Stored(id) \/ id = lrs.id
    BY <1>0, <1>3, <2>1, <2>2, ReplacesHistory DEF IInv, History
  <2>4. Stored(lrs.id)
    BY <1>0, <1>3 DEF Stored, Holds, FoundAt
  <2>5. PendingAbsent' /\ PendingDistinct' /\ PendingFresh'
    BY <1>0, <2>3, <2>4, ReturnKeepsPending
  <2>6. JudgesOldest'
    <3> SUFFICES ASSUME NEW h \in Pending', h \notin heard',
                        adder[h].lrs.id \notin contended', Stored(adder[h].lrs.id)'
                 PROVE  buckets'[BucketOf(adder[h].node.id)][1].id = adder[h].lrs.id
      BY <1>0 DEF JudgesOldest, Stored, IInv, Shape, PendingPlaced, BucketOf
    <3> DEFINE l == BucketOf(adder[h].node.id)
               id == adder[h].lrs.id
    <3>1. h \in Pending /\ h # g /\ h \notin heard /\ id # lrs.id
      BY <1>0
    <3>2. id \in Ids /\ l = BucketOf(id) /\ l \in BitNo
      BY <1>0, <3>1, PendingTyped, IdsHaveBuckets DEF Shape, PendingPlaced
    <3>3. Stored(id)
      BY <1>0, <2>3, <3>1, <3>2 DEF Stored, BucketOf
    <3>4. buckets[l] # << >> /\ buckets[l][1].id = id
      BY <1>0, <3>1, <3>2, <3>3 DEF IInv, History, JudgesOldest, Stored, Holds
    <3>5. ~ (l = idx /\ i = 1)
      BY <1>3, <3>1, <3>4 DEF FoundAt
    <3>6. buckets'[l][1] = buckets[l][1]
      <4> HIDE DEF l, idx, lrs
      <4> QED
        BY <1>0, <1>3, <3>2, <3>4, <3>5, ReplacesFirst
    <3> QED
      BY <3>4, <3>6
  <2> QED
    BY <2>3, <2>5, <2>6 DEF History
<1> QED
  BY <1>2, <1>3 DEF PingAnswered, Replaces

\* The ping failed.
LEMMA PingFailedHistory ==
  ASSUME IInv, NEW g \in Adders, PingFailed(g) PROVE History'
<1> DEFINE lrs == adder[g].lrs
           node == adder[g].node
           idx == BucketOf(node.id)
<1>0. /\ Shape /\ TypeOK /\ contended' = contended
      /\ g \in Pending /\ Return(g) /\ lrs \in Contacts /\ node \in Contacts
      /\ idx = BucketOf(lrs.id) /\ idx = BucketOf(node.id)
      /\ Pending' = Pending \ {g} /\ \A h \in Pending' : adder'[h] = adder[h]
      /\ heard' = heard \ {g}
  BY PendingTyped
     DEF IInv, Shape, PingFailed, PendingPlaced, Return, TypeOK, Pending
<1>1. idx \in BitNo /\ lrs.id \in Ids /\ node.id \in Ids
  BY <1>0, IdsHaveBuckets
<1>2. CASE UNCHANGED <<buckets, latest>>
  <2>1. NoDuplicates' /\ FreshContact' /\ JudgesOldest'
    BY <1>0, <1>2
       DEF IInv, History, NoDuplicates, FreshContact, JudgesOldest, Holds, BucketOf
  <2>2. \A id \in Ids : Stored(id)' => Stored(id)
    BY <1>2 DEF Stored, Holds, BucketOf
  <2> QED
    BY <1>0, <1>2, <2>1, <2>2, ReturnKeepsPending DEF History
<1>3. ASSUME NEW i \in DOMAIN buckets[idx],
             FoundAt(buckets[idx], lrs.id, i), Replaces(idx, i, node),
             latest' = [latest EXCEPT ![node.id] = node]
      PROVE  History'
  <2>1. Writes(node)
    BY <1>0, <1>1, <1>3 DEF Writes, TypeOK
  <2>2. node.id \notin contended' => ~ Stored(node.id)
    BY <1>0 DEF IInv, History, PendingAbsent
  <2>3. /\ NoDuplicates' /\ FreshContact'
        /\ \A id \in Ids : Stored(id)' => Stored(id) \/ id = node.id
    BY <1>0, <1>3, <2>1, <2>2, ReplacesHistory DEF IInv, History, Stored, Holds
  <2>4. PendingAbsent' /\ PendingDistinct' /\ PendingFresh'
    BY <1>0, <2>1, <2>3, ReturnKeepsPending
  <2>5. JudgesOldest'
    <3> SUFFICES ASSUME NEW h \in Pending', h \notin heard',
                        adder[h].lrs.id \notin contended', Stored(adder[h].lrs.id)'
                 PROVE  buckets'[BucketOf(adder[h].node.id)][1].id = adder[h].lrs.id
      BY <1>0 DEF JudgesOldest, Stored, IInv, Shape, PendingPlaced, BucketOf
    <3> DEFINE l == BucketOf(adder[h].node.id)
               id == adder[h].lrs.id
    <3>1. h \in Pending /\ h # g /\ h \notin heard /\ id \notin contended
      BY <1>0
    <3>2. id \in Ids /\ l = BucketOf(id) /\ l \in BitNo
      BY <1>0, <3>1, PendingTyped, IdsHaveBuckets DEF Shape, PendingPlaced
    <3>3. id # node.id
      BY <1>0, <3>1 DEF IInv, History, PendingDistinct
    <3>4. Stored(id)
      BY <1>0, <2>3, <3>2, <3>3 DEF Stored, BucketOf
    <3>5. buckets[l] # << >> /\ buckets[l][1].id = id
      BY <1>0, <3>1, <3>2, <3>4 DEF IInv, History, JudgesOldest, Stored, Holds
    <3>6. CASE id = lrs.id
      \* h pinged the peer that g has just evicted: no entry of it is left
      <4>1. \A j \in DOMAIN buckets[idx] : buckets[idx][j].id = id => j = i
        BY <1>0, <1>1, <1>3, <3>1, <3>6 DEF IInv, History, NoDuplicates, FoundAt
      <4>2. MovesUp(buckets'[idx], buckets[idx], i, node)
        BY <1>0, <1>1, <1>3, ReplacesEntries
      <4>3. buckets[idx] \in Seq(Contacts) /\ buckets'[idx] \in Seq(Contacts)
        BY <1>0, <1>1, <1>3, ReplacesEntries DEF TypeOK
      <4>4. \A j \in DOMAIN buckets'[idx] : buckets'[idx][j].id # id
        <5> SUFFICES ASSUME NEW j \in DOMAIN buckets'[idx] PROVE buckets'[idx][j].id # id
          OBVIOUS
        <5> DEFINE n == Len(buckets[idx])
        <5>1. n \in Nat /\ i \in 1 .. n /\ j \in 1 .. n
          BY <1>3, <4>2, <4>3 DEF MovesUp
        <5>2. CASE j = n
          BY <3>3, <4>2, <5>1, <5>2 DEF MovesUp
        <5>3. CASE j < i
          <6>1. buckets'[idx][j] = buckets[idx][j] /\ j \in DOMAIN buckets[idx]
            BY <4>2, <4>3, <5>1, <5>3 DEF MovesUp
          <6> QED
            BY <4>1, <5>1, <5>3, <6>1
        <5>4. CASE i <= j /\ j < n
          <6>1. buckets'[idx][j] = buckets[idx][j + 1] /\ j + 1 \in DOMAIN buckets[idx]
            BY <4>2, <4>3, <5>1, <5>4 DEF MovesUp
          <6> QED
            BY <4>1, <5>1, <5>4, <6>1
        <5> QED
          BY <5>1, <5>2, <5>3, <5>4
      <4>5. ~ Stored(id)'
        BY <1>0, <3>2, <3>6, <4>4 DEF Stored, Holds, BucketOf
      <4> QED
        BY <1>0, <4>5 DEF Stored, BucketOf
    <3>7. CASE id # lrs.id
      <4>1. ~ (l = idx /\ i = 1)
        BY <1>3, <3>5, <3>7 DEF FoundAt
      <4>2. buckets'[l][1] = buckets[l][1]
        <5>1. /\ Shape /\ node \in Contacts /\ idx = BucketOf(node.id)
              /\ i \in DOMAIN buckets[idx] /\ Replaces(idx, i, node)
          BY <1>0, <1>3
        <5>2. \A m \in BitNo : (buckets[m] # << >> /\ ~ (m = idx /\ i = 1))
                               => buckets'[m][1] = buckets[m][1]
          <6> HIDE DEF idx, node
          <6> QED
            BY <5>1, ReplacesFirst
        <5> QED
          BY <3>2, <3>5, <4>1, <5>2
      <4> QED
        BY <3>5, <4>2
    <3> QED
      BY <3>6, <3>7
  <2> QED
    BY <2>3, <2>4, <2>5 DEF History
<1> QED
  BY <1>2, <1>3 DEF PingFailed, Replaces

\* IInv is inductive.
LEMMA Inductive ==
  /\ Init => IInv
  /\ IInv /\ [Next]_vars => IInv'
<1>1. Init => IInv
  <2> SUFFICES ASSUME Init PROVE History
    BY InitShape DEF IInv
  <2>1. Pending = {} /\ \A i \in BitNo : buckets[i] = << >>
    BY DEF Init, Pending
  <2> QED
    BY <2>1 DEF History, NoDuplicates, FreshContact, JudgesOldest,
                PendingAbsent, PendingDistinct, PendingFresh
<1>2. ASSUME IInv, Next PROVE History'
  <2>1. ASSUME NEW c \in Contacts, AddKnown(c) PROVE History'
    BY <1>2, <2>1, AddKnownHistory
  <2>2. ASSUME NEW c \in Contacts, AddNew(c) PROVE History'
    BY <1>2, <2>2, AddNewHistory
  <2>3. ASSUME NEW g \in Adders, NEW c \in Contacts, AddFull(g, c) PROVE History'
    BY <1>2, <2>3, AddFullHistory
  <2>4. ASSUME NEW g \in Adders, PingAnswered(g) PROVE History'
    BY <1>2, <2>4, PingAnsweredHistory
  <2>5. ASSUME NEW g \in Adders, PingFailed(g) PROVE History'
    BY <1>2, <2>5, PingFailedHistory
  <2> QED
    BY <1>2, <2>1, <2>2, <2>3, <2>4, <2>5 DEF Next
<1>3. ASSUME IInv, UNCHANGED vars PROVE History'
  BY <1>3 DEF vars, IInv, History, NoDuplicates, FreshContact, JudgesOldest,
              PendingAbsent, PendingDistinct, PendingFresh, Pending, Stored, Holds
<1> QED
  BY <1>1, <1>2, <1>3, NextShape DEF IInv

\* A peer is stored once, and with the contact last written for it, unless
\* Adds that refer to it overlapped; and an Add that gives up on a peer judges
\* the least recently seen one, unless the peer was heard of meanwhile.
THEOREM OverlapOnly ==
  Spec => []RacesNeedOverlap
<1>1. Spec => []IInv
  BY Inductive, PTL DEF Spec
<1>2. IInv => RacesNeedOverlap
  BY DEF IInv, History, RacesNeedOverlap
<1> QED
  BY <1>1, <1>2, PTL

\* No step shortens a bucket.
THEOREM TableNeverShrinks == Spec => NeverShrinks
<1>1. ASSUME Shape, [Next]_vars PROVE \A i \in BitNo : Len(buckets'[i]) >= Len(buckets[i])
  <2>0. /\ TypeOK /\ \A l \in BitNo : Len(buckets[l]) \in Nat
        /\ \A g \in Pending : /\ adder[g].node \in Contacts /\ adder[g].lrs \in Contacts
                              /\ BucketOf(adder[g].node.id) \in BitNo
    BY <1>1, PendingTyped, IdsHaveBuckets DEF Shape, TypeOK
  <2>1. ASSUME NEW c \in Contacts, NEW idx \in BitNo,
               Appends(idx, c) \/ \E i \in DOMAIN buckets[idx] : Replaces(idx, i, c)
        PROVE  \A i \in BitNo : Len(buckets'[i]) >= Len(buckets[i])
    BY <2>0, <2>1, AppendsEntries, ReplacesEntries DEF MovesUp
  <2>2. CASE UNCHANGED buckets
    BY <2>0, <2>2
  <2>3. ASSUME NEW c \in Contacts, AddKnown(c) \/ AddNew(c)
        PROVE  \A i \in BitNo : Len(buckets'[i]) >= Len(buckets[i])
    BY <2>1, <2>3, IdsHaveBuckets DEF AddKnown, AddNew, Appends, Replaces
  <2>4. ASSUME NEW g \in Adders, PingAnswered(g) \/ PingFailed(g)
        PROVE  \A i \in BitNo : Len(buckets'[i]) >= Len(buckets[i])
    BY <2>0, <2>1, <2>2, <2>4 DEF PingAnswered, PingFailed, Replaces
  <2> QED
    BY <1>1, <2>2, <2>3, <2>4 DEF Next, AddFull, vars
<1>2. Spec => []Shape
  BY InitShape, NextShape, PTL DEF Spec
<1> QED
  BY <1>1, <1>2, PTL DEF Spec, NeverShrinks

\* Replacing the entry at i loses no id but the one at i, and stores c.
LEMMA ReplacesStored ==
  ASSUME Shape, NEW c \in Contacts, NEW idx, idx = BucketOf(c.id),
         NEW i \in DOMAIN buckets[idx], Replaces(idx, i, c), NEW id \in Ids
  PROVE  /\ Stored(id) /\ id # buckets[idx][i].id => Stored(id)'
         /\ Stored(c.id)'
<1>0. /\ idx \in BitNo /\ TypeOK /\ BucketOf(id) \in BitNo
      /\ \A l \in BitNo : buckets[l] \in Seq(Contacts) /\ buckets'[l] \in Seq(Contacts)
      /\ \A l \in BitNo \ {idx} : buckets'[l] = buckets[l]
      /\ MovesUp(buckets'[idx], buckets[idx], i, c)
  BY IdsHaveBuckets, ReplacesEntries DEF Shape, TypeOK
<1> DEFINE n == Len(buckets[idx])
<1>1. n \in Nat /\ i \in 1 .. n /\ Len(buckets'[idx]) = n /\ buckets'[idx][n] = c
  BY <1>0 DEF MovesUp
<1>2. Stored(c.id)'
  BY <1>0, <1>1 DEF Stored, Holds, BucketOf
<1>3. ASSUME Stored(id), id # buckets[idx][i].id PROVE Stored(id)'
  <2>1. CASE BucketOf(id) # idx
    BY <1>0, <1>3, <2>1 DEF Stored, Holds, BucketOf
  <2>2. CASE BucketOf(id) = idx
    <3>1. PICK j \in 1 .. n : buckets[idx][j].id = id
      BY <1>0, <1>3, <2>2 DEF Stored, Holds
    <3>2. CASE j < i
      <4>1. j \in DOMAIN buckets'[idx] /\ buckets'[idx][j] = buckets[idx][j]
        BY <1>0, <1>1, <3>2 DEF MovesUp
      <4> QED
        BY <2>2, <3>1, <4>1 DEF Stored, Holds, BucketOf
    <3>3. CASE i < j
      <4>0. /\ j - 1 \in 1 .. n /\ ~ (j - 1 < i) /\ j - 1 < n /\ (j - 1) + 1 = j
        BY <1>1, <3>3
      <4>1. j - 1 \in DOMAIN buckets'[idx] /\ buckets'[idx][j - 1] = buckets[idx][j]
        BY <1>0, <1>1, <4>0 DEF MovesUp
      <4> QED
        BY <2>2, <3>1, <4>1 DEF Stored, Holds, BucketOf
    <3> QED
      BY <1>1, <1>3, <3>1, <3>2, <3>3
  <2> QED
    BY <2>1, <2>2
<1> QED
  BY <1>2, <1>3

\* A peer leaves the table only when an Add that pinged it gives up on it, and
\* that Add has then stored the peer it was called with.
THEOREM EvictionNeedsFailedPing == Spec => EvictedForFailedPing
<1> DEFINE Evicts(id) ==
      \E g \in Pending, new \in Ids :
        /\ adder[g].lrs.id = id /\ adder[g].node.id = new
        /\ adder'[g] = NoAdd
        /\ Stored(new)'
<1>1. ASSUME Shape, [Next]_vars, NEW id \in Ids, Stored(id), ~ Stored(id)'
      PROVE  Evicts(id)
  <2>0. TypeOK
    BY <1>1 DEF Shape
  <2>1. ASSUME NEW c \in Contacts, AddKnown(c) PROVE FALSE
    <3>1. PICK i \in DOMAIN buckets[BucketOf(c.id)] :
            /\ buckets[BucketOf(c.id)][i].id = c.id
            /\ Replaces(BucketOf(c.id), i, c)
      BY <2>1 DEF AddKnown, Replaces, FoundAt
    <3> QED
      BY <1>1, <3>1, ReplacesStored
  <2>2. ASSUME NEW c \in Contacts, AddNew(c) PROVE FALSE
    <3>1. Appends(BucketOf(c.id), c) /\ BucketOf(c.id) \in BitNo
      BY <2>2, IdsHaveBuckets DEF AddNew, Appends
    <3>2. \A l \in BitNo : buckets[l] \in Seq(Contacts) /\ buckets'[l] \in Seq(Contacts)
      BY <2>0, <3>1, AppendsEntries DEF TypeOK
    <3>3. PICK j \in DOMAIN buckets[BucketOf(id)] : buckets[BucketOf(id)][j].id = id
      BY <1>1 DEF Stored, Holds
    <3>4. BucketOf(id) \in BitNo
      BY <1>1, IdsHaveBuckets
    <3>5. /\ j \in DOMAIN buckets'[BucketOf(id)]
          /\ buckets'[BucketOf(id)][j] = buckets[BucketOf(id)][j]
      BY <2>0, <3>1, <3>2, <3>3, <3>4, AppendsEntries
    <3> QED
      BY <1>1, <3>3, <3>5 DEF Stored, Holds, BucketOf
  <2>3. CASE UNCHANGED buckets
    BY <1>1, <2>3 DEF Stored, Holds, BucketOf
  <2>4. ASSUME NEW g \in Adders, PingAnswered(g), ~ UNCHANGED buckets PROVE FALSE
    <3>0. /\ g \in Pending /\ adder[g].lrs \in Contacts
          /\ BucketOf(adder[g].node.id) = BucketOf(adder[g].lrs.id)
      BY <1>1, <2>0, <2>4, PendingTyped DEF PingAnswered, Shape, PendingPlaced
    <3>1. PICK i \in DOMAIN buckets[BucketOf(adder[g].lrs.id)] :
            /\ buckets[BucketOf(adder[g].lrs.id)][i].id = adder[g].lrs.id
            /\ Replaces(BucketOf(adder[g].lrs.id), i, adder[g].lrs)
      BY <2>4, <3>0 DEF PingAnswered, Replaces, FoundAt
    <3> QED
      BY <1>1, <3>0, <3>1, ReplacesStored
  <2>5. ASSUME NEW g \in Adders, PingFailed(g), ~ UNCHANGED buckets PROVE Evicts(id)
    <3>0. /\ g \in Pending /\ adder[g].node \in Contacts /\ adder[g].node.id \in Ids
          /\ adder'[g] = NoAdd
      BY <2>0, <2>5, PendingTyped, IdsHaveBuckets DEF PingFailed, Return, TypeOK
    <3>1. PICK c \in Contacts : c = adder[g].node
      BY <3>0
    <3>2. PICK i \in DOMAIN buckets[BucketOf(c.id)] :
            /\ buckets[BucketOf(c.id)][i].id = adder[g].lrs.id
            /\ Replaces(BucketOf(c.id), i, c)
      BY <2>5, <3>0, <3>1 DEF PingFailed, Replaces, FoundAt
    <3>3. Stored(c.id)' /\ id = adder[g].lrs.id
      BY <1>1, <3>2, ReplacesStored
    <3> QED
      BY <3>0, <3>1, <3>3
  <2> QED
    BY <1>1, <2>1, <2>2, <2>3, <2>4, <2>5 DEF Next, AddFull, vars
<1>2. Spec => []Shape
  BY InitShape, NextShape, PTL DEF Spec
<1>3. Shape /\ [Next]_vars
        => [\A id \in Ids : Stored(id) /\ ~ Stored(id)' => Evicts(id)]_vars
  BY <1>1
<1> QED
  BY <1>2, <1>3, PTL DEF Spec, EvictedForFailedPing

-----------------------------------------------------------------------------

\* FindClosest, for a table in the state that every Add leaves it in.

\* The contacts of the table.
StoredContacts == UNION {ToSet(buckets[i]) : i \in BitNo}

\* Where they are: in finitely many places, as no bucket exceeds K.
LEMMA PlacesFacts ==
  ASSUME WellFormed
  PROVE  /\ IsFiniteSet(Places)
         /\ \A p \in Places : /\ p[1] \in Int /\ p[2] \in Int /\ p = <<p[1], p[2]>>
                              /\ EntryAt(p) \in StoredContacts
                              /\ EntryAt(p).id \in DHTKey
         /\ \A c \in StoredContacts : \E p \in Places : c = EntryAt(p)
<1>1. \A i \in BitNo : /\ buckets[i] \in Seq(Contacts) /\ Len(buckets[i]) \in Nat
                       /\ Len(buckets[i]) <= K /\ DOMAIN buckets[i] = 1 .. Len(buckets[i])
                       /\ \A j \in 1 .. Len(buckets[i]) : buckets[i][j] \in Contacts
  BY LenProperties DEF WellFormed, TypeOK, Bounded
<1>2. \A p : p \in Places <=> /\ p = <<p[1], p[2]>>
                              /\ p[1] \in BitNo /\ p[2] \in 1 .. Len(buckets[p[1]])
  BY <1>1 DEF Places
<1>3. Places \in SUBSET (BitNo \X (1 .. K))
  BY <1>1, <1>2, BucketSize
<1>4. IsFiniteSet(BitNo) /\ IsFiniteSet(1 .. K)
  <2>1. 0 \in Int /\ B - 1 \in Int /\ 1 \in Int /\ K \in Int
    BY KeyWidth, BucketSize
  <2> QED
    BY <2>1, FS_Interval, Zenon DEF BitNo
<1>5. IsFiniteSet(BitNo \X (1 .. K))
  BY <1>4, FS_Product
<1>6. IsFiniteSet(Places)
  BY <1>3, <1>5, FS_Subset
<1>7. \A c : c \in StoredContacts <=> \E i \in BitNo : \E j \in 1 .. Len(buckets[i]) : c = buckets[i][j]
  <2>1. \A i \in BitNo : ToSet(buckets[i]) = {buckets[i][j] : j \in 1 .. Len(buckets[i])}
    BY <1>1, Zenon DEF ToSet
  <2>2. \A c : \A i \in BitNo : c \in ToSet(buckets[i]) <=> \E j \in 1 .. Len(buckets[i]) : c = buckets[i][j]
    BY <2>1
  <2>3. \A c : c \in StoredContacts <=> \E i \in BitNo : c \in ToSet(buckets[i])
    BY DEF StoredContacts
  <2> QED
    BY <2>2, <2>3, Zenon
<1>8. ASSUME NEW p \in Places
      PROVE  /\ p[1] \in Int /\ p[2] \in Int /\ p = <<p[1], p[2]>>
             /\ EntryAt(p) \in StoredContacts /\ EntryAt(p).id \in DHTKey
  <2>1. p[1] \in BitNo /\ p[2] \in 1 .. Len(buckets[p[1]]) /\ p = <<p[1], p[2]>>
    BY <1>2
  <2>2. p[1] \in Int /\ p[2] \in Int
    BY <1>1, <2>1, KeyWidth DEF BitNo
  <2>3. EntryAt(p) \in StoredContacts /\ EntryAt(p) \in Contacts
    BY <1>1, <1>7, <2>1 DEF EntryAt
  <2> QED
    BY <2>1, <2>2, <2>3, ContactsAreNodes
<1>9. ASSUME NEW c \in StoredContacts
      PROVE  \E p \in Places : c = EntryAt(p)
  <2>0. PICK i \in BitNo : \E j \in 1 .. Len(buckets[i]) : c = buckets[i][j]
    BY <1>7
  <2>1. PICK j \in 1 .. Len(buckets[i]) : c = buckets[i][j]
    BY <2>0
  <2>2. <<i, j>> \in Places
    BY <1>2, <2>1
  <2> QED
    BY <2>1, <2>2 DEF EntryAt
<1> QED
  BY <1>6, <1>8, <1>9

\* The order in which FindClosest sorts.
ByEntry(P, t) == {x \in P \X P : SortedBefore(x[1], x[2], t)}

\* It is a strict total order of the places, also when a peer has several.
LEMMA SortedOrder ==
  ASSUME WellFormed, NEW t \in DHTKey
  PROVE  /\ StrictOrder(Places, ByEntry(Places, t))
         /\ \A p, q \in Places : <<p, q>> \in ByEntry(Places, t) <=> SortedBefore(p, q, t)
<1>1. \A p, q \in Places : <<p, q>> \in ByEntry(Places, t) <=> SortedBefore(p, q, t)
  BY DEF ByEntry
<1>2. \A p \in Places : /\ p[1] \in Int /\ p[2] \in Int /\ p = <<p[1], p[2]>>
                        /\ EntryAt(p).id \in DHTKey
  BY PlacesFacts
<1>3. ASSUME NEW p \in Places, NEW q \in Places, NEW r \in Places
      PROVE  /\ ~ ReadBefore(p, p)
             /\ ReadBefore(p, q) /\ ReadBefore(q, r) => ReadBefore(p, r)
             /\ p # q => ReadBefore(p, q) \/ ReadBefore(q, p)
  <2>1. PICK a, b, c, d, e, f \in Int : p = <<a, b>> /\ q = <<c, d>> /\ r = <<e, f>>
    <3>1. /\ p[1] \in Int /\ p[2] \in Int /\ q[1] \in Int /\ q[2] \in Int
          /\ r[1] \in Int /\ r[2] \in Int
          /\ p = <<p[1], p[2]>> /\ q = <<q[1], q[2]>> /\ r = <<r[1], r[2]>>
      BY <1>2
    <3> QED
      BY <3>1, Zenon
  <2> QED
    BY <2>1 DEF ReadBefore
<1>4. \A p \in Places : ~ SortedBefore(p, p, t)
  BY <1>2, <1>3, CloserIrreflexive DEF SortedBefore
<1>5. ASSUME NEW p \in Places, NEW q \in Places, NEW r \in Places,
             SortedBefore(p, q, t), SortedBefore(q, r, t)
      PROVE  SortedBefore(p, r, t)
  <2>1. EntryAt(p).id \in DHTKey /\ EntryAt(q).id \in DHTKey /\ EntryAt(r).id \in DHTKey
    BY <1>2
  <2>2. CASE Closer(EntryAt(p).id, EntryAt(q).id, t) /\ Closer(EntryAt(q).id, EntryAt(r).id, t)
    BY <2>1, <2>2, CloserTransitive DEF SortedBefore
  <2>3. CASE Closer(EntryAt(p).id, EntryAt(q).id, t) /\ EntryAt(q).id = EntryAt(r).id
    BY <2>3 DEF SortedBefore
  <2>4. CASE EntryAt(p).id = EntryAt(q).id /\ Closer(EntryAt(q).id, EntryAt(r).id, t)
    BY <2>4 DEF SortedBefore
  <2>5. CASE /\ EntryAt(p).id = EntryAt(q).id /\ ReadBefore(p, q)
             /\ EntryAt(q).id = EntryAt(r).id /\ ReadBefore(q, r)
    BY <1>3, <2>5, Zenon DEF SortedBefore
  <2> QED
    BY <1>5, <2>2, <2>3, <2>4, <2>5, Zenon DEF SortedBefore
<1>6. ASSUME NEW p \in Places, NEW q \in Places, p # q
      PROVE  SortedBefore(p, q, t) \/ SortedBefore(q, p, t)
  <2>1. CASE EntryAt(p).id # EntryAt(q).id
    BY <1>2, <2>1, CloserTotal DEF SortedBefore
  <2>2. CASE EntryAt(p).id = EntryAt(q).id
    BY <1>3, <1>6, <2>2, Zenon DEF SortedBefore
  <2> QED
    BY <2>1, <2>2
<1> QED
  BY <1>1, <1>4, <1>5, <1>6, Zenon DEF StrictOrder

\* FindClosest takes its contacts from the list of the places in this order.
LEMMA FindClosestListed ==
  ASSUME WellFormed, NEW t \in DHTKey, NEW count \in Nat
  PROVE  /\ Cardinality(Places) \in Nat
         /\ \E at : /\ Lists(at, Places, ByEntry(Places, t))
                    /\ FindClosest(t, count)
                       = [n \in 1 .. Lesser(count, Cardinality(Places)) |-> EntryAt(at[n])]
<1>0. IsFiniteSet(Places)
  BY PlacesFacts
<1>1. StrictOrder(Places, ByEntry(Places, t))
  BY SortedOrder
<1>2. Cardinality(Places) \in Nat /\ \E at : Lists(at, Places, ByEntry(Places, t))
  BY <1>0, <1>1, Listing
<1>3. PICK at : Lists(at, Places, ByEntry(Places, t))
  BY <1>2
<1>4. \A p \in Places : Before(Places, ByEntry(Places, t), p) = {q \in Places : SortedBefore(q, p, t)}
  BY SortedOrder DEF Before
<1>5. ASSUME NEW n
      PROVE  Nth(Places, ByEntry(Places, t), n)
             = CHOOSE p \in Places : Cardinality({q \in Places : SortedBefore(q, p, t)}) = n - 1
  <2>1. \A p : (p \in Places /\ Cardinality(Before(Places, ByEntry(Places, t), p)) = n - 1)
            <=> (p \in Places /\ Cardinality({q \in Places : SortedBefore(q, p, t)}) = n - 1)
    BY <1>4, Zenon
  <2> QED
    BY <2>1, Zenon DEF Nth
<1>6. FindClosest(t, count) =
        [n \in 1 .. Lesser(count, Cardinality(Places)) |-> EntryAt(Nth(Places, ByEntry(Places, t), n))]
  <2>1. FindClosest(t, count) =
          [n \in 1 .. Lesser(count, Cardinality(Places)) |->
             EntryAt(CHOOSE p \in Places : Cardinality({q \in Places : SortedBefore(q, p, t)}) = n - 1)]
    BY Zenon DEF FindClosest, NearestOfPlaces
  <2> QED
    BY <1>5, <2>1, Zenon
<1>7. \A n \in 1 .. Lesser(count, Cardinality(Places)) : n \in 1 .. Cardinality(Places)
  BY <1>2 DEF Lesser
<1>8. \A n \in 1 .. Lesser(count, Cardinality(Places)) : Nth(Places, ByEntry(Places, t), n) = at[n]
  BY <1>3, <1>7, Zenon DEF Lists
<1>9. FindClosest(t, count) = [n \in 1 .. Lesser(count, Cardinality(Places)) |-> EntryAt(at[n])]
  BY <1>6, <1>8, Zenon
<1> QED
  BY <1>2, <1>3, <1>9

\* What FindClosest returns in such a table, for every target and count.
LEMMA FindClosestFacts ==
  ASSUME WellFormed, NEW t \in DHTKey, NEW count \in Nat
  PROVE  /\ Cardinality(Places) \in Nat
         /\ Len(FindClosest(t, count)) = Lesser(count, Cardinality(Places))
         /\ DOMAIN FindClosest(t, count) = 1 .. Len(FindClosest(t, count))
         /\ \A i, j \in DOMAIN FindClosest(t, count) :
              i < j => ~ Closer(FindClosest(t, count)[j].id, FindClosest(t, count)[i].id, t)
         /\ ToSet(FindClosest(t, count)) \subseteq StoredContacts
         /\ \A c \in StoredContacts \ ToSet(FindClosest(t, count)), d \in ToSet(FindClosest(t, count)) :
              ~ Closer(c.id, d.id, t)
<1> DEFINE s == FindClosest(t, count)
           N == Cardinality(Places)
           L == Lesser(count, N)
           R == ByEntry(Places, t)
<1>1. /\ N \in Nat
      /\ \E at : Lists(at, Places, R) /\ s = [n \in 1 .. L |-> EntryAt(at[n])]
  BY FindClosestListed, Zenon
<1>2. PICK at : Lists(at, Places, R) /\ s = [n \in 1 .. L |-> EntryAt(at[n])]
  BY <1>1, Zenon
<1>3. /\ at \in [1 .. N -> Places]
      /\ \A i, j \in 1 .. N : i < j <=> <<at[i], at[j]>> \in R
      /\ \A p \in Places : \E n \in 1 .. N : at[n] = p
  BY <1>2, Zenon DEF Lists
<1>4. \A p, q \in Places : <<p, q>> \in R <=> SortedBefore(p, q, t)
  BY SortedOrder, Zenon
<1>5. /\ \A p \in Places : EntryAt(p) \in StoredContacts /\ EntryAt(p).id \in DHTKey
      /\ \A c \in StoredContacts : \E p \in Places : c = EntryAt(p)
  BY PlacesFacts
<1>6. L \in Nat /\ L <= N
  BY <1>1 DEF Lesser
<1>L. L = Lesser(count, Cardinality(Places))
  OBVIOUS
<1> HIDE DEF s, R, L, N
<1>7. \A n \in 1 .. L : n \in 1 .. N /\ at[n] \in Places /\ s[n] = EntryAt(at[n])
  BY <1>1, <1>2, <1>3, <1>6
<1>8. s \in Seq(StoredContacts) /\ Len(s) = L /\ DOMAIN s = 1 .. L
  <2>1. \A n \in 1 .. L : EntryAt(at[n]) \in StoredContacts
    BY <1>5, <1>7
  <2>2. s \in [1 .. L -> StoredContacts]
    BY <1>2, <2>1, Zenon
  <2> QED
    BY <1>6, <2>2
<1>9. ToSet(s) = {s[n] : n \in 1 .. L}
  BY <1>8, Zenon DEF ToSet
<1>10. ASSUME NEW i \in 1 .. N, NEW j \in 1 .. N, i < j
       PROVE  ~ Closer(EntryAt(at[j]).id, EntryAt(at[i]).id, t)
  <2>1. at[i] \in Places /\ at[j] \in Places
    BY <1>3
  <2>2. SortedBefore(at[i], at[j], t)
    BY <1>3, <1>4, <1>10, <2>1
  <2>3. Closer(EntryAt(at[i]).id, EntryAt(at[j]).id, t) \/ EntryAt(at[i]).id = EntryAt(at[j]).id
    BY <2>2 DEF SortedBefore
  <2>4. EntryAt(at[i]).id \in DHTKey /\ EntryAt(at[j]).id \in DHTKey
    BY <1>5, <2>1
  <2> QED
    BY <2>3, <2>4, CloserAsymmetric, CloserIrreflexive
<1>11. \A i, j \in 1 .. L : i < j => ~ Closer(s[j].id, s[i].id, t)
  BY <1>7, <1>10
<1>12. ToSet(s) \subseteq StoredContacts
  BY <1>5, <1>7, <1>9
<1>13. ASSUME NEW c \in StoredContacts \ ToSet(s), NEW d \in ToSet(s)
       PROVE  ~ Closer(c.id, d.id, t)
  <2>1. PICK n \in 1 .. L : d = s[n]
    BY <1>9
  <2>2. PICK p \in Places : c = EntryAt(p)
    BY <1>5
  <2>3. PICK m \in 1 .. N : at[m] = p
    BY <1>3
  <2>4. ~ (m <= L)
    BY <1>1, <1>6, <1>7, <1>9, <2>2, <2>3
  <2>5. n < m /\ n \in 1 .. N
    BY <1>1, <1>6, <2>4
  <2> QED
    BY <1>7, <1>10, <2>1, <2>2, <2>3, <2>5
<1> QED
  BY <1>1, <1>8, <1>11, <1>12, <1>13, <1>L DEF s, N

\* In a table of any size, FindClosest returns the count nearest contacts of
\* the table, nearest first, for every key (sort and cut of lines 92-106).
THEOREM FindsNearest == Spec => []FindClosestIsNearest
<1>1. WellFormed => FindClosestIsNearest
  <2>1. SUFFICES ASSUME WellFormed, NEW t \in DHTKey, NEW count \in 1 .. K + 1
                 PROVE  /\ Len(FindClosest(t, count)) =
                             IF Cardinality(Places) < count THEN Cardinality(Places) ELSE count
                        /\ \A i, j \in DOMAIN FindClosest(t, count) :
                             i < j => ~ Closer(FindClosest(t, count)[j].id, FindClosest(t, count)[i].id, t)
                        /\ ToSet(FindClosest(t, count)) \subseteq StoredContacts
                        /\ \A c \in StoredContacts \ ToSet(FindClosest(t, count)),
                              d \in ToSet(FindClosest(t, count)) : ~ Closer(c.id, d.id, t)
    BY Zenon DEF FindClosestIsNearest, StoredContacts
  <2>2. count \in Nat
    BY BucketSize
  <2>3. Cardinality(Places) \in Nat
    BY <2>1, <2>2, FindClosestFacts
  <2>4. Lesser(count, Cardinality(Places)) =
          IF Cardinality(Places) < count THEN Cardinality(Places) ELSE count
    BY <2>2, <2>3 DEF Lesser
  <2> QED
    BY <2>1, <2>2, <2>4, FindClosestFacts, Zenon
<1> QED
  BY <1>1, BucketsWellFormed, PTL

-----------------------------------------------------------------------------

\* One search, for any set of peers and any widths Alpha and StoreK.

\* id has an entry in s; s is in order of distance; s is full of nearer ones.
ListedIn(s, id) == \E i \in 1 .. Len(s) : s[i] = id

InOrder(s) == \A i, j \in 1 .. Len(s) : i < j => ~ Closer(s[j], s[i], target)

BeyondLast(s, n, id) == Len(s) = n /\ Closer(s[n], id, target)

\* Before the first shortlist nothing has been queried.
BeforeRounds == pc \in {"bootstrap", "start"} => closest = <<>> /\ visited = {}

\* The shortlist is in order, and every peer that was learned of or visited is
\* in it, or will be merged into it, or is farther than all of it.
Rounds ==
  pc \in {"loop", "launch", "wait"} =>
    /\ closest # <<>> /\ InOrder(closest)
    /\ \A id \in table \cup visited :
         \/ ListedIn(closest, id)
         \/ pc # "loop" /\ newNodes[id] > 0
         \/ BeyondLast(closest, K, id)

\* A round queries entries of the shortlist; one it has not come to yet was
\* visited in no earlier round.
Batch ==
  pc \in {"launch", "wait"} =>
    /\ pc = "launch" => launched < Len(toQuery)
    /\ \A i \in 1 .. Len(toQuery) : ListedIn(closest, toQuery[i])
    /\ \A i \in launched + 1 .. Len(toQuery) :
         toQuery[i] \in visited => \E w \in 1 .. launched : toQuery[w] = toQuery[i]

\* Where a call can be, and when it has a value or an error.
Course ==
  /\ pc = "bootstrap" => op = "Bootstrap"
  /\ pc = "store" => op = "StoreValue"
  /\ foundValue => op = "FindValue" /\ pc \in {"launch", "wait", "returned", "aborted"}
  /\ pc # "returned" => err = "none"

SearchIInv ==
  /\ SearchTyped /\ BeforeRounds /\ Rounds /\ Batch /\ Course
  /\ StoresAtNearest /\ SearchIsComplete /\ ValueIsReturned

LEMMA TargetKey == target \in DHTKey /\ Peers \subseteq DHTKey /\ IsFiniteSet(Peers)
BY SelfIsKey, TargetIsKey, SelfIsNoPeer DEF target

\* Every peer that is listed is in the next shortlist or farther than all of it.
LEMMA MergedFacts ==
  ASSUME SearchTyped, closest # <<>>, InOrder(closest), NEW S,
         \A id \in S : /\ id \in Peers
                       /\ \/ ListedIn(closest, id)
                          \/ newNodes[id] > 0
                          \/ BeyondLast(closest, K, id)
  PROVE  /\ Merged \in Seq(Peers) /\ Len(Merged) <= K /\ Merged # <<>> /\ InOrder(Merged)
         /\ \A id \in S : ListedIn(Merged, id) \/ BeyondLast(Merged, K, id)
<1> DEFINE E == Appended
           s == Merged
<1>1. /\ target \in DHTKey /\ Peers \in SUBSET DHTKey /\ IsFiniteSet(Peers)
      /\ K \in Nat \ {0} /\ Alpha \in Nat \ {0}
  BY TargetKey, BucketSize, SearchWidths
<1>2. /\ closest \in Seq(Peers) /\ Len(closest) \in Nat /\ Len(closest) <= K
      /\ DOMAIN closest = 1 .. Len(closest)
      /\ \A i \in 1 .. Len(closest) : closest[i] \in Peers
      /\ newNodes \in [Peers -> Nat]
  BY LenProperties DEF SearchTyped
<1>3. E \in SUBSET (Peers \X (1 .. K + Alpha))
  BY DEF Appended
<1>4. E \in SUBSET (Peers \X Nat)
  BY <1>1, <1>3
<1>5. IsFiniteSet(E)
  <2>1. 1 \in Int /\ K + Alpha \in Int
    BY <1>1
  <2>2. IsFiniteSet(1 .. K + Alpha)
    BY <2>1, FS_Interval, Zenon
  <2>3. IsFiniteSet(Peers \X (1 .. K + Alpha))
    BY <1>1, <2>2, FS_Product
  <2> QED
    BY <1>3, <2>3, FS_Subset
<1>6. s = NearestFirst(E, target, K)
  BY DEF Merged
<1>7. /\ s \in Seq(Peers)
      /\ Cardinality(E) \in Nat
      /\ Len(s) = Lesser(K, Cardinality(E))
      /\ \A i, j \in 1 .. Len(s) : i < j => ~ Closer(s[j], s[i], target)
      /\ \A e \in E : \/ \E m \in 1 .. Len(s) : s[m] = e[1]
                      \/ Len(s) = K /\ Closer(s[K], e[1], target)
      /\ \A x \in DHTKey, F \in SUBSET E :
           (Cardinality(F) >= K /\ \A f \in F : Closer(f[1], x, target))
             => Len(s) = K /\ Closer(s[K], x, target)
  <2>1. target \in DHTKey /\ Peers \in SUBSET DHTKey /\ K \in Nat \ {0}
    BY <1>1
  <2> HIDE DEF E, s
  <2>2. /\ NearestFirst(E, target, K) \in Seq(Peers)
        /\ Cardinality(E) \in Nat
        /\ Len(NearestFirst(E, target, K)) = Lesser(K, Cardinality(E))
        /\ \A m \in 1 .. Len(NearestFirst(E, target, K)) : \E e \in E : NearestFirst(E, target, K)[m] = e[1]
        /\ \A i, j \in 1 .. Len(NearestFirst(E, target, K)) :
             i < j => ~ Closer(NearestFirst(E, target, K)[j], NearestFirst(E, target, K)[i], target)
        /\ \A e \in E :
             \/ \E m \in 1 .. Len(NearestFirst(E, target, K)) : NearestFirst(E, target, K)[m] = e[1]
             \/ Len(NearestFirst(E, target, K)) = K /\ Closer(NearestFirst(E, target, K)[K], e[1], target)
        /\ \A x \in DHTKey, F \in SUBSET E :
             (Cardinality(F) >= K /\ \A f \in F : Closer(f[1], x, target))
               => Len(NearestFirst(E, target, K)) = K /\ Closer(NearestFirst(E, target, K)[K], x, target)
    BY <2>1, <1>4, <1>5, NearestFirstFacts, Zenon
  <2> QED
    BY <1>6, <2>2, Zenon
<1>8. \A i \in 1 .. Len(closest) : <<closest[i], i>> \in E
  <2>1. \A i \in 1 .. Len(closest) : i \in 1 .. K + Alpha
    BY <1>1, <1>2
  <2> QED
    BY <1>2, <2>1 DEF Appended
<1>9. \A id \in Peers : newNodes[id] > 0 => <<id, K + 1>> \in E
  <2>1. K + 1 \in 1 .. K + Alpha
    BY <1>1
  <2>2. \A n \in Nat : n > 0 => K + 1 \in K + 1 .. K + n
    BY <1>1
  <2> QED
    BY <1>2, <2>1, <2>2 DEF Appended
<1> HIDE DEF E, s
<1>10. 1 \in 1 .. Len(closest)
  BY <1>2, EmptySeq
<1>11. E # {}
  BY <1>8, <1>10
<1>12. Cardinality(E) # 0
  BY <1>5, <1>11, FS_EmptySet
<1>13. Len(s) <= K /\ Len(s) > 0
  BY <1>1, <1>7, <1>12 DEF Lesser
<1>14. s # <<>>
  BY <1>13
<1>15. InOrder(s)
  BY <1>7 DEF InOrder
<1>16. ASSUME NEW id \in S
       PROVE  ListedIn(s, id) \/ BeyondLast(s, K, id)
  <2>1. CASE ListedIn(closest, id)
    <3>1. PICK i \in 1 .. Len(closest) : closest[i] = id
      BY <2>1 DEF ListedIn
    <3>2. PICK e \in E : e[1] = id
      BY <1>8, <3>1
    <3> QED
      BY <1>7, <3>2 DEF ListedIn, BeyondLast
  <2>2. CASE newNodes[id] > 0
    <3>1. PICK e \in E : e[1] = id
      BY <1>9, <2>2
    <3> QED
      BY <1>7, <3>1 DEF ListedIn, BeyondLast
  <2>3. CASE BeyondLast(closest, K, id)
    <3> DEFINE F == {<<closest[i], i>> : i \in 1 .. K}
               f == [i \in 1 .. K |-> <<closest[i], i>>]
    <3>0. Len(closest) = K /\ Closer(closest[K], id, target)
      BY <2>3 DEF BeyondLast
    <3>1. F \in SUBSET E
      BY <1>8, <3>0
    <3>2. f \in Bijection(1 .. K, F)
      <4>1. f \in [1 .. K -> F] /\ \A i \in 1 .. K : f[i] = <<closest[i], i>>
        OBVIOUS
      <4>2. \A i, j \in 1 .. K : f[i] = f[j] => i = j
        BY <4>1
      <4>3. \A y \in F : \E i \in 1 .. K : f[i] = y
        BY <4>1
      <4> HIDE DEF f, F
      <4> QED
        BY <4>1, <4>2, <4>3, Fun_IsBij, Zenon
    <3>3. IsFiniteSet(1 .. K) /\ Cardinality(1 .. K) = K
      <4>1. 1 \in Int /\ K \in Int
        BY <1>1
      <4>2. IsFiniteSet(1 .. K) /\ Cardinality(1 .. K) = IF 1 > K THEN 0 ELSE K - 1 + 1
        BY <4>1, FS_Interval, Zenon
      <4> QED
        BY <1>1, <4>2
    <3>4. \A y \in F : \E i \in 1 .. K : y[1] = closest[i]
      OBVIOUS
    <3> HIDE DEF f, F
    <3>5. ExistsBijection(1 .. K, F)
      BY <3>2, Zenon DEF ExistsBijection
    <3>6. Cardinality(F) = K
      BY <3>3, <3>5, FS_Bijection, Zenon
    <3>7. ASSUME NEW y \in F PROVE Closer(y[1], id, target)
      <4>1. PICK i \in 1 .. K : y[1] = closest[i]
        BY <3>4
      <4>2. K \in 1 .. Len(closest) /\ i \in 1 .. Len(closest)
        BY <1>1, <3>0
      <4>3. closest[i] \in DHTKey /\ closest[K] \in DHTKey /\ id \in DHTKey
        BY <1>1, <1>2, <4>2
      <4>4. CASE i = K
        BY <3>0, <4>1, <4>4
      <4>5. CASE i < K
        <5>1. ~ Closer(closest[K], closest[i], target)
          BY <4>2, <4>5 DEF InOrder
        <5>2. closest[i] = closest[K] \/ Closer(closest[i], closest[K], target)
          BY <1>1, <4>3, <5>1, CloserTotal
        <5> QED
          BY <1>1, <3>0, <4>1, <4>3, <5>2, CloserTransitive
      <4> QED
        BY <1>1, <4>4, <4>5
    <3>8. id \in DHTKey /\ Cardinality(F) >= K
      BY <1>1, <3>6
    <3>9. Len(s) = K /\ Closer(s[K], id, target)
      BY <1>7, <3>1, <3>7, <3>8
    <3> QED
      BY <3>9 DEF BeyondLast
  <2> QED
    BY <2>1, <2>2, <2>3
<1> QED
  BY <1>7, <1>13, <1>14, <1>15, <1>16 DEF s

\* The first shortlist has the nearest peers of the table: the node itself is
\* not in the table, so that leaving it out changes nothing.
LEMMA FirstFacts ==
  ASSUME table \subseteq Peers, NEW s,
         s = Only(NearestFirst(table \X {1}, target, K), DHTKey \ {Self})
  PROVE  /\ s \in Seq(Peers) /\ Len(s) <= K /\ InOrder(s)
         /\ \A id \in table : ListedIn(s, id) \/ BeyondLast(s, K, id)
<1> DEFINE E == table \X {1}
           r == NearestFirst(E, target, K)
<1>1. /\ target \in DHTKey /\ Peers \in SUBSET DHTKey /\ IsFiniteSet(Peers) /\ K \in Nat \ {0}
      /\ Peers \subseteq DHTKey \ {Self}
  BY TargetKey, BucketSize, SelfIsNoPeer
<1>2. E \in SUBSET (Peers \X Nat)
  OBVIOUS
<1>3. IsFiniteSet(E)
  <2>1. IsFiniteSet(table)
    BY <1>1, FS_Subset
  <2>2. IsFiniteSet({1})
    BY FS_Singleton
  <2> QED
    BY <2>1, <2>2, FS_Product
<1>4. ASSUME NEW id \in table PROVE \E e \in E : e[1] = id
  <2>1. <<id, 1>> \in E /\ <<id, 1>>[1] = id
    OBVIOUS
  <2> QED
    BY <2>1, Zenon
<1>E. s = Only(r, DHTKey \ {Self})
  OBVIOUS
<1>R. r = NearestFirst(E, target, K)
  OBVIOUS
<1> HIDE DEF E, r
<1>5. /\ r \in Seq(Peers)
      /\ Cardinality(E) \in Nat
      /\ Len(r) = Lesser(K, Cardinality(E))
      /\ \A i, j \in 1 .. Len(r) : i < j => ~ Closer(r[j], r[i], target)
      /\ \A e \in E : \/ \E m \in 1 .. Len(r) : r[m] = e[1]
                      \/ Len(r) = K /\ Closer(r[K], e[1], target)
  <2>1. target \in DHTKey /\ Peers \in SUBSET DHTKey /\ K \in Nat \ {0}
    BY <1>1
  <2>2. /\ NearestFirst(E, target, K) \in Seq(Peers)
        /\ Cardinality(E) \in Nat
        /\ Len(NearestFirst(E, target, K)) = Lesser(K, Cardinality(E))
        /\ \A m \in 1 .. Len(NearestFirst(E, target, K)) : \E e \in E : NearestFirst(E, target, K)[m] = e[1]
        /\ \A i, j \in 1 .. Len(NearestFirst(E, target, K)) :
             i < j => ~ Closer(NearestFirst(E, target, K)[j], NearestFirst(E, target, K)[i], target)
        /\ \A e \in E :
             \/ \E m \in 1 .. Len(NearestFirst(E, target, K)) : NearestFirst(E, target, K)[m] = e[1]
             \/ Len(NearestFirst(E, target, K)) = K /\ Closer(NearestFirst(E, target, K)[K], e[1], target)
        /\ \A x \in DHTKey, F \in SUBSET E :
             (Cardinality(F) >= K /\ \A f \in F : Closer(f[1], x, target))
               => Len(NearestFirst(E, target, K)) = K /\ Closer(NearestFirst(E, target, K)[K], x, target)
    BY <2>1, <1>2, <1>3, NearestFirstFacts, Zenon
  <2> QED
    BY <1>R, <2>2, Zenon
<1>6. s = r
  BY <1>1, <1>5, <1>E, OnlyAll
<1>7. Len(r) <= K
  BY <1>1, <1>5 DEF Lesser
<1>8. ASSUME NEW id \in table PROVE ListedIn(r, id) \/ BeyondLast(r, K, id)
  BY <1>4, <1>5 DEF ListedIn, BeyondLast
<1> QED
  BY <1>5, <1>6, <1>7, <1>8 DEF InOrder

\* What a search leaves to StoreValue: the StoreK first entries of an ordered
\* shortlist are nearer than all other peers that were learned of.
LEMMA TakesNearest ==
  ASSUME NEW s \in Seq(Peers), Len(s) <= K, s # <<>>, InOrder(s), NEW t, t = Take(s, StoreK),
         table \subseteq Peers,
         \A id \in table : ListedIn(s, id) \/ BeyondLast(s, K, id)
  PROVE  /\ t \in Seq(Peers) /\ Len(t) <= StoreK /\ t # <<>>
         /\ NearestOf(t, StoreK)
<1>1. /\ target \in DHTKey /\ Peers \subseteq DHTKey /\ K \in Nat \ {0}
      /\ StoreK \in Nat \ {0} /\ StoreK <= K
  BY TargetKey, BucketSize, SearchWidths
<1>2. Len(s) \in Nat /\ Len(s) > 0 /\ \A i \in 1 .. Len(s) : s[i] \in Peers
  BY LenProperties, EmptySeq
<1>3. StoreK \in Nat
  BY <1>1
<1>4. /\ t \in Seq(Peers) /\ Len(t) = Lesser(Len(s), StoreK) /\ Len(t) \in Nat
      /\ Len(t) <= StoreK /\ Len(t) <= Len(s)
      /\ \A i \in 1 .. Len(t) : t[i] = s[i]
  BY <1>3, TakeFacts, Zenon
<1>5. t # <<>> /\ DOMAIN t = 1 .. Len(t)
  <2>1. Len(t) > 0
    BY <1>1, <1>2, <1>4 DEF Lesser
  <2> QED
    BY <1>4, <2>1, LenProperties
<1>6. \A i, j \in DOMAIN t : i < j => ~ Closer(t[j], t[i], target)
  BY <1>2, <1>4, <1>5 DEF InOrder
<1>7. ASSUME NEW id \in table \ ToSet(t)
      PROVE  Len(t) = StoreK /\ Closer(t[StoreK], id, target)
  <2>0. id \in DHTKey /\ ~ \E i \in 1 .. Len(t) : t[i] = id
    BY <1>1, <1>5 DEF ToSet
  <2>1. ASSUME NEW j \in 1 .. Len(s), s[j] = id \/ (j = K /\ Closer(s[j], id, target)), StoreK <= j
        PROVE  Len(t) = StoreK /\ Closer(t[StoreK], id, target)
    <3>1. Len(t) = StoreK /\ StoreK \in 1 .. Len(t) /\ StoreK \in 1 .. Len(s)
      BY <1>1, <1>2, <1>4, <2>1 DEF Lesser
    <3>2. t[StoreK] = s[StoreK] /\ s[StoreK] \in DHTKey /\ s[j] \in DHTKey
      BY <1>1, <1>2, <1>4, <3>1
    <3>3. StoreK = j \/ ~ Closer(s[j], s[StoreK], target)
      BY <1>1, <2>1, <3>1 DEF InOrder
    <3>4. s[StoreK] = s[j] \/ Closer(s[StoreK], s[j], target)
      BY <1>1, <3>2, <3>3, CloserTotal
    <3>5. CASE s[j] = id
      BY <2>0, <3>1, <3>2, <3>4, <3>5
    <3>6. CASE Closer(s[j], id, target)
      BY <1>1, <2>0, <3>1, <3>2, <3>4, <3>6, CloserTransitive
    <3> QED
      BY <2>1, <3>5, <3>6
  <2>2. CASE ListedIn(s, id)
    <3>1. PICK i \in 1 .. Len(s) : s[i] = id
      BY <2>2 DEF ListedIn
    <3>2. ~ (i <= Len(t))
      BY <1>4, <2>0, <3>1
    <3>3. StoreK <= i
      BY <1>1, <1>2, <1>4, <3>2 DEF Lesser
    <3> QED
      BY <2>1, <3>1, <3>3
  <2>3. CASE BeyondLast(s, K, id)
    <3>1. K \in 1 .. Len(s) /\ Closer(s[K], id, target)
      BY <1>1, <2>3 DEF BeyondLast
    <3> QED
      BY <1>1, <2>1, <3>1
  <2> QED
    BY <2>2, <2>3
<1> QED
  BY <1>4, <1>5, <1>6, <1>7 DEF NearestOf

\* The nodes of a round are unvisited entries of the shortlist; there is none
\* only when every entry has been visited.
LEMMA UnvisitedFacts ==
  ASSUME SearchTyped
  PROVE  /\ Unvisited \in Seq(Peers) /\ Len(Unvisited) \in Nat /\ Len(Unvisited) <= Alpha
         /\ \A i \in 1 .. Len(Unvisited) : ListedIn(closest, Unvisited[i]) /\ Unvisited[i] \notin visited
         /\ Unvisited = <<>> => \A id : ListedIn(closest, id) => id \in visited
<1> DEFINE fresh == Peers \ visited
           s == Only(closest, fresh)
<1>1. /\ closest \in Seq(Peers) /\ Len(closest) \in Nat /\ Alpha \in Nat \ {0}
      /\ \A i \in 1 .. Len(closest) : closest[i] \in Peers
  BY LenProperties, SearchWidths DEF SearchTyped
<1>2. /\ s \in Seq(Peers) /\ Len(s) \in Nat
      /\ \A n \in 1 .. Len(s) :
           s[n] \in Peers \ visited /\ \E i \in 1 .. Len(closest) : s[n] = closest[i]
      /\ \A i \in 1 .. Len(closest) :
           closest[i] \in Peers \ visited => \E n \in 1 .. Len(s) : s[n] = closest[i]
  <2>1. closest \in Seq(Peers)
    BY <1>1
  <2> HIDE DEF fresh
  <2>2. s \in Seq(Peers) /\ Keeps(s, closest, fresh)
    BY <2>1, OnlyFacts, Zenon
  <2> HIDE DEF s
  <2>4. /\ s \in Seq(Peers) /\ Len(s) \in Nat /\ Len(s) <= Len(closest)
        /\ \A n \in 1 .. Len(s) : s[n] \in fresh /\ \E i \in 1 .. Len(closest) : s[n] = closest[i]
        /\ \A i \in 1 .. Len(closest) : closest[i] \in fresh => \E n \in 1 .. Len(s) : s[n] = closest[i]
    BY <2>2, Zenon DEF Keeps
  <2> QED
    BY <2>4 DEF fresh
<1>3. Unvisited = Take(s, Alpha)
  BY DEF Unvisited
<1> HIDE DEF s
<1>4. Alpha \in Nat
  BY <1>1
<1>5. /\ Take(s, Alpha) \in Seq(Peers) /\ Len(Take(s, Alpha)) = Lesser(Len(s), Alpha)
      /\ Len(Take(s, Alpha)) \in Nat /\ Len(Take(s, Alpha)) <= Alpha
      /\ Len(Take(s, Alpha)) <= Len(s)
      /\ \A i \in 1 .. Len(Take(s, Alpha)) : Take(s, Alpha)[i] = s[i]
  BY <1>2, <1>4, TakeFacts, Zenon
<1>6. \A i \in 1 .. Len(Unvisited) : ListedIn(closest, Unvisited[i]) /\ Unvisited[i] \notin visited
  <2>1. SUFFICES ASSUME NEW i \in 1 .. Len(Unvisited)
                 PROVE  ListedIn(closest, Unvisited[i]) /\ Unvisited[i] \notin visited
    OBVIOUS
  <2>2. i \in 1 .. Len(s) /\ Unvisited[i] = s[i]
    BY <1>2, <1>3, <1>5
  <2>3. s[i] \in Peers \ visited /\ \E j \in 1 .. Len(closest) : s[i] = closest[j]
    BY <1>2, <2>2
  <2> QED
    BY <2>2, <2>3 DEF ListedIn
<1>7. ASSUME Unvisited = <<>>, NEW id, ListedIn(closest, id)
      PROVE  id \in visited
  <2>1. PICK i \in 1 .. Len(closest) : closest[i] = id
    BY <1>7 DEF ListedIn
  <2>2. Len(s) = 0
    BY <1>1, <1>2, <1>3, <1>5, <1>7 DEF Lesser
  <2>3. ~ \E n \in 1 .. Len(s) : s[n] = closest[i]
    BY <2>2
  <2> QED
    BY <1>1, <1>2, <2>1, <2>3
<1> QED
  BY <1>3, <1>5, <1>6, <1>7

LEMMA SearchInitIInv == SearchInit => SearchIInv
<1> SUFFICES ASSUME SearchInit PROVE SearchIInv
  OBVIOUS
<1> USE DEF SearchInit
<1>1. /\ K \in Nat \ {0} /\ Alpha \in Nat \ {0} /\ StoreK \in Nat \ {0}
  BY BucketSize, SearchWidths
<1>2. closest \in Seq(Peers) /\ toQuery \in Seq(Peers) /\ Len(closest) = 0 /\ Len(toQuery) = 0
  OBVIOUS
<1>3. newNodes \in [Peers -> Nat] /\ \A w \in Workers : rpc[w] = "idle"
  BY DEF NoNodes, Idle, Workers
<1>5. pc \in {"bootstrap", "start"} /\ (pc = "bootstrap" => op = "Bootstrap")
  OBVIOUS
<1>4. SearchTyped
  <2>1. op \in Ops /\ table \subseteq Peers /\ visited \subseteq Peers /\ launched \in 0 .. Alpha
    BY <1>1
  <2>3. foundValue \in BOOLEAN /\ cancelled \in BOOLEAN /\ err = "none"
    BY Zenon
  <2>2. Len(closest) <= K /\ Len(toQuery) <= Alpha
    BY <1>1, <1>2
  <2> QED
    BY <1>2, <1>3, <1>5, <2>1, <2>2, <2>3 DEF SearchTyped
<1> QED
  BY <1>4, <1>5 DEF SearchIInv, BeforeRounds, Rounds, Batch, Course, StoresAtNearest,
                    SearchIsComplete, ValueIsReturned

\* Of these steps only rpc, cancelled and foundValue know, and a value comes
\* during the rounds of a FindValue only.
LEMMA QuietStep ==
  ASSUME SearchIInv,
         UNCHANGED <<op, table, pc, closest, visited, toQuery, launched, newNodes, err>>,
         \A w \in DOMAIN rpc' : rpc'[w] \in {"idle", "sent", "done"},
         cancelled' \in BOOLEAN,
         \/ foundValue' = foundValue
         \/ foundValue' = TRUE /\ op = "FindValue" /\ pc \in {"launch", "wait"}
  PROVE  SearchIInv'
<1>1. target' = target
  BY DEF target
<1>2. SearchTyped'
  BY DEF SearchIInv, SearchTyped, Workers
<1>3. BeforeRounds' /\ Course'
  BY DEF SearchIInv, BeforeRounds, Course
<1>4. Rounds'
  BY <1>1 DEF SearchIInv, Rounds, InOrder, ListedIn, BeyondLast
<1>5. Batch'
  BY DEF SearchIInv, Batch, ListedIn
<1>6. StoresAtNearest'
  BY <1>1 DEF SearchIInv, StoresAtNearest, NearestOf
<1>7. SearchIsComplete'
  BY <1>1 DEF SearchIInv, SearchIsComplete
<1>8. ValueIsReturned'
  BY DEF SearchIInv, ValueIsReturned
<1> QED
  BY <1>2, <1>3, <1>4, <1>5, <1>6, <1>7, <1>8 DEF SearchIInv

\* A step that writes one entry of rpc keeps its type.
LEMMA DoneTyped ==
  ASSUME SearchIInv, NEW w \in Workers, Done(w)
  PROVE  \A v \in DOMAIN rpc' : rpc'[v] \in {"idle", "sent", "done"}
BY DEF SearchIInv, SearchTyped, Workers, Done

\* A search ends: with a list that has the nearest peers, or with none.
LEMMA EndsSearch ==
  ASSUME SearchIInv, NEW e \in {"none", "empty", "ctx", "notfound"}, EndSearch(e),
         pc \in {"start", "loop", "wait"},
         UNCHANGED <<op, table, visited, launched, newNodes, foundValue, cancelled>>,
         NEW s, s = closest', s \in Seq(Peers), Len(s) <= K,
         \/ s = <<>>
         \/ InOrder(s) /\ \A id \in table : ListedIn(s, id) \/ BeyondLast(s, K, id),
         op = "StoreValue" => s # <<>> \/ e # "none",
         op = "FindValue" => (e = "none" <=> foundValue),
         s # <<>> /\ op # "StoreValue" /\ e = (IF op = "FindValue" THEN "notfound" ELSE "none")
           => \A id : ListedIn(s, id) => id \in visited
  PROVE  SearchIInv'
<1>1. target' = target
  BY DEF target
<1>2. SearchTyped /\ Course /\ table \subseteq Peers
  BY DEF SearchIInv, SearchTyped
<1>3. K \in Nat \ {0} /\ Alpha \in Nat \ {0} /\ StoreK \in Nat \ {0} /\ Len(s) \in Nat
  BY BucketSize, SearchWidths
<1>4. Len(toQuery) \in Nat /\ Len(toQuery) <= Alpha
  BY <1>2 DEF SearchTyped
<1>5. foundValue => op = "FindValue"
  BY <1>2 DEF Course
<1>6. CASE op = "StoreValue" /\ ~ (e # "none" /\ s = <<>>)
  <2>1. /\ pc' = "store" /\ toQuery' = Take(s, StoreK) /\ err' = "none"
        /\ rpc' = [w \in 1 .. Len(toQuery') |-> "sent"]
    BY <1>6 DEF EndSearch
  <2>2. s # <<>> /\ InOrder(s) /\ \A id \in table : ListedIn(s, id) \/ BeyondLast(s, K, id)
    BY <1>6
  <2>3. PICK t : t = toQuery'
    OBVIOUS
  <2>4. t = Take(s, StoreK)
    BY <2>1, <2>3
  <2>5. t \in Seq(Peers) /\ Len(t) <= StoreK /\ t # <<>> /\ NearestOf(t, StoreK)
    BY <1>2, <2>2, <2>4, TakesNearest, Zenon
  <2>6. \A w \in DOMAIN rpc' : rpc'[w] = "sent"
    BY <2>1
  <2>7. Len(t) \in Nat /\ Len(t) <= Alpha + StoreK
    BY <1>3, <2>5
  <2>8. SearchTyped'
    BY <1>2, <1>6, <2>1, <2>3, <2>5, <2>6, <2>7 DEF SearchTyped, Workers
  <2>9. ~ foundValue
    BY <1>5, <1>6
  <2>10. BeforeRounds' /\ Rounds' /\ Batch' /\ Course' /\ SearchIsComplete' /\ ValueIsReturned'
    BY <1>6, <2>1, <2>9 DEF BeforeRounds, Rounds, Batch, Course, SearchIsComplete, ValueIsReturned
  <2>11. StoresAtNearest'
    BY <1>1, <2>1, <2>3, <2>5 DEF StoresAtNearest, NearestOf
  <2> QED
    BY <2>8, <2>10, <2>11 DEF SearchIInv
<1>7. CASE ~ (op = "StoreValue" /\ ~ (e # "none" /\ s = <<>>))
  <2>1. pc' = "returned" /\ err' = e /\ UNCHANGED <<toQuery, rpc>>
    BY <1>7 DEF EndSearch
  <2>2. Len(toQuery) <= Alpha + StoreK
    BY <1>3, <1>4
  <2>3. SearchTyped'
    BY <1>2, <1>4, <2>1, <2>2 DEF SearchTyped, Workers
  <2>4. BeforeRounds' /\ Rounds' /\ Batch' /\ Course' /\ StoresAtNearest' /\ ValueIsReturned'
    BY <1>5, <2>1 DEF BeforeRounds, Rounds, Batch, Course, StoresAtNearest, ValueIsReturned
  <2>5. SearchIsComplete'
    <3>1. SUFFICES ASSUME s # <<>>, op # "StoreValue",
                          e = IF op = "FindValue" THEN "notfound" ELSE "none",
                          NEW id \in table \ visited
                   PROVE  Len(s) = K /\ Closer(s[K], id, target)
      BY <1>1, <2>1 DEF SearchIsComplete
    <3>2. ~ ListedIn(s, id)
      BY <3>1
    <3> QED
      BY <3>1, <3>2 DEF BeyondLast
  <2> QED
    BY <2>3, <2>4, <2>5 DEF SearchIInv
<1> QED
  BY <1>6, <1>7

\* The actions, one by one.

LEMMA CancelKeeps == SearchIInv /\ Cancel => SearchIInv'
<1> SUFFICES ASSUME SearchIInv, Cancel PROVE SearchIInv'
  OBVIOUS
<1>1. \A w \in DOMAIN rpc' : rpc'[w] \in {"idle", "sent", "done"}
  BY DEF SearchIInv, SearchTyped, Workers, Cancel
<1>2. cancelled' \in BOOLEAN /\ foundValue' = foundValue
  BY DEF Cancel
<1>3. UNCHANGED <<op, table, pc, closest, visited, toQuery, launched, newNodes, err>>
  BY DEF Cancel
<1> QED
  BY <1>1, <1>2, <1>3, QuietStep

LEMMA StutterKeeps == SearchIInv /\ UNCHANGED searchVars => SearchIInv'
<1> SUFFICES ASSUME SearchIInv, UNCHANGED searchVars PROVE SearchIInv'
  OBVIOUS
<1>1. \A w \in DOMAIN rpc' : rpc'[w] \in {"idle", "sent", "done"}
  BY DEF SearchIInv, SearchTyped, Workers, searchVars
<1>2. cancelled' \in BOOLEAN /\ foundValue' = foundValue
  BY DEF SearchIInv, SearchTyped, searchVars
<1>3. UNCHANGED <<op, table, pc, closest, visited, toQuery, launched, newNodes, err>>
  BY DEF searchVars
<1> QED
  BY <1>1, <1>2, <1>3, QuietStep

LEMMA AnswerValueKeeps == ASSUME NEW w \in Workers PROVE SearchIInv /\ AnswerValue(w) => SearchIInv'
<1> SUFFICES ASSUME SearchIInv, AnswerValue(w) PROVE SearchIInv'
  OBVIOUS
<1>1. \A v \in DOMAIN rpc' : rpc'[v] \in {"idle", "sent", "done"}
  BY DoneTyped DEF AnswerValue
<1>2. cancelled' \in BOOLEAN /\ foundValue' = TRUE /\ op = "FindValue" /\ pc \in {"launch", "wait"}
  BY DEF SearchIInv, SearchTyped, AnswerValue, Waiting
<1>3. UNCHANGED <<op, table, pc, closest, visited, toQuery, launched, newNodes, err>>
  BY DEF AnswerValue
<1> QED
  BY <1>1, <1>2, <1>3, QuietStep

LEMMA FailKeeps == ASSUME NEW w \in Workers PROVE SearchIInv /\ (Fail(w) \/ StoreAt(w)) => SearchIInv'
<1> SUFFICES ASSUME SearchIInv, Fail(w) \/ StoreAt(w) PROVE SearchIInv'
  OBVIOUS
<1>1. \A v \in DOMAIN rpc' : rpc'[v] \in {"idle", "sent", "done"}
  BY DoneTyped DEF Fail, StoreAt
<1>2. cancelled' \in BOOLEAN /\ foundValue' = foundValue
  BY DEF SearchIInv, SearchTyped, Fail, StoreAt
<1>3. UNCHANGED <<op, table, pc, closest, visited, toQuery, launched, newNodes, err>>
  BY DEF Fail, StoreAt
<1> QED
  BY <1>1, <1>2, <1>3, QuietStep

LEMMA AddBootstrapNodesKeeps == SearchIInv /\ AddBootstrapNodes => SearchIInv'
<1> SUFFICES ASSUME SearchIInv, AddBootstrapNodes PROVE SearchIInv'
  OBVIOUS
<1>1. /\ pc = "bootstrap" /\ op = "Bootstrap" /\ closest = <<>> /\ ~ foundValue
  BY DEF SearchIInv, BeforeRounds, Course, AddBootstrapNodes
<1>2. /\ UNCHANGED <<op, closest, visited, toQuery, launched, rpc, newNodes, foundValue, cancelled>>
      /\ \/ pc' = "returned" /\ err' = "empty" /\ table' = table
         \/ pc' = "start" /\ err' = err /\ table' \subseteq Peers
  BY DEF AddBootstrapNodes, SearchIInv, SearchTyped
<1>3. SearchTyped'
  BY <1>1, <1>2 DEF SearchIInv, SearchTyped, Workers
<1> QED
  BY <1>1, <1>2, <1>3 DEF SearchIInv, BeforeRounds, Rounds, Batch, Course, StoresAtNearest,
                          SearchIsComplete, ValueIsReturned

LEMMA FoundLocallyKeeps == SearchIInv /\ FoundLocally => SearchIInv'
<1> SUFFICES ASSUME SearchIInv, FoundLocally PROVE SearchIInv'
  OBVIOUS
<1>1. pc = "start" /\ op = "FindValue" /\ closest = <<>> /\ err = "none"
  BY DEF SearchIInv, BeforeRounds, Course, FoundLocally
<1>2. /\ UNCHANGED <<op, table, closest, visited, toQuery, launched, rpc, newNodes, cancelled, err>>
      /\ pc' = "returned" /\ foundValue' = TRUE
  BY DEF FoundLocally
<1>3. SearchTyped'
  BY <1>1, <1>2 DEF SearchIInv, SearchTyped, Workers
<1> QED
  BY <1>1, <1>2, <1>3 DEF SearchIInv, BeforeRounds, Rounds, Batch, Course, StoresAtNearest,
                          SearchIsComplete, ValueIsReturned

\* A round, or the first one, is about to begin with the shortlist s.
LEMMA EntersLoop ==
  ASSUME SearchIInv, pc \in {"start", "wait"}, pc' = "loop", ~ foundValue,
         UNCHANGED <<op, table, visited, toQuery, launched, rpc, newNodes, foundValue, cancelled, err>>,
         NEW s, s = closest', s \in Seq(Peers), Len(s) <= K, s # <<>>, InOrder(s),
         \A id \in table \cup visited : ListedIn(s, id) \/ BeyondLast(s, K, id)
  PROVE  SearchIInv'
<1>1. target' = target
  BY DEF target
<1>2. SearchTyped'
  BY DEF SearchIInv, SearchTyped, Workers
<1>3. Rounds'
  <2>1. InOrder(closest)'
    BY <1>1 DEF InOrder
  <2>2. ASSUME NEW id \in table' \cup visited'
        PROVE  ListedIn(closest, id)' \/ BeyondLast(closest, K, id)'
    BY <1>1 DEF ListedIn, BeyondLast
  <2> QED
    BY <2>1, <2>2 DEF Rounds
<1> QED
  BY <1>2, <1>3 DEF SearchIInv, BeforeRounds, Batch, Course, StoresAtNearest,
                    SearchIsComplete, ValueIsReturned

LEMMA StartKeeps == SearchIInv /\ Start => SearchIInv'
<1> SUFFICES ASSUME SearchIInv, Start PROVE SearchIInv'
  OBVIOUS
<1>1. PICK s : s = closest'
  OBVIOUS
<1>2. /\ pc = "start" /\ visited = {} /\ ~ foundValue /\ table \subseteq Peers
  BY DEF SearchIInv, SearchTyped, BeforeRounds, Course, Start
<1>3. /\ s = Only(NearestFirst(table \X {1}, target, K), DHTKey \ {Self})
      /\ UNCHANGED <<op, table, visited, launched, newNodes, foundValue, cancelled>>
  BY <1>1 DEF Start
<1>4. /\ s \in Seq(Peers) /\ Len(s) <= K /\ InOrder(s)
      /\ \A id \in table : ListedIn(s, id) \/ BeyondLast(s, K, id)
  BY <1>2, <1>3, FirstFacts, Zenon
<1>5. CASE s = <<>>
  <2>1. EndSearch("empty")
    BY <1>1, <1>5 DEF Start
  <2> QED
    BY <1>1, <1>2, <1>3, <1>4, <1>5, <2>1, EndsSearch
<1>6. CASE s # <<>>
  <2>1. pc' = "loop" /\ UNCHANGED <<toQuery, rpc, err>>
    BY <1>1, <1>6 DEF Start
  <2> QED
    BY <1>1, <1>2, <1>3, <1>4, <1>6, <2>1, EntersLoop
<1> QED
  BY <1>5, <1>6

\* At the head of the loop the shortlist has the nearest peers.
LEMMA LoopFacts ==
  ASSUME SearchIInv, pc = "loop"
  PROVE  /\ closest \in Seq(Peers) /\ Len(closest) <= K /\ closest # <<>> /\ InOrder(closest)
         /\ \A id \in table : ListedIn(closest, id) \/ BeyondLast(closest, K, id)
         /\ ~ foundValue
BY DEF SearchIInv, SearchTyped, Rounds, Course

LEMMA GiveUpKeeps == SearchIInv /\ GiveUp => SearchIInv'
<1> SUFFICES ASSUME SearchIInv, GiveUp PROVE SearchIInv'
  OBVIOUS
<1>1. /\ pc = "loop" /\ closest' = closest /\ EndSearch("ctx")
      /\ UNCHANGED <<op, table, visited, launched, newNodes, foundValue, cancelled>>
  BY DEF GiveUp
<1>2. PICK s : s = closest'
  OBVIOUS
<1>3. /\ s \in Seq(Peers) /\ Len(s) <= K /\ s # <<>> /\ InOrder(s) /\ ~ foundValue
      /\ \A id \in table : ListedIn(s, id) \/ BeyondLast(s, K, id)
  BY <1>1, <1>2, LoopFacts
<1> QED
  BY <1>1, <1>2, <1>3, EndsSearch

LEMMA ConvergedKeeps == SearchIInv /\ Converged => SearchIInv'
<1> SUFFICES ASSUME SearchIInv, Converged PROVE SearchIInv'
  OBVIOUS
<1>1. PICK e \in {"none", "empty", "ctx", "notfound"} :
        e = IF op = "FindValue" THEN "notfound" ELSE "none"
  OBVIOUS
<1>2. /\ pc = "loop" /\ closest' = closest /\ EndSearch(e) /\ Unvisited = <<>>
      /\ UNCHANGED <<op, table, visited, launched, newNodes, foundValue, cancelled>>
  BY <1>1 DEF Converged
<1>3. PICK s : s = closest'
  OBVIOUS
<1>4. /\ s \in Seq(Peers) /\ Len(s) <= K /\ s # <<>> /\ InOrder(s) /\ ~ foundValue
      /\ \A id \in table : ListedIn(s, id) \/ BeyondLast(s, K, id)
  BY <1>2, <1>3, LoopFacts
<1>5. \A id : ListedIn(s, id) => id \in visited
  BY <1>2, <1>3, UnvisitedFacts DEF SearchIInv
<1>6. op = "FindValue" => (e = "none" <=> foundValue)
  BY <1>1, <1>4
<1> QED
  BY <1>2, <1>3, <1>4, <1>5, <1>6, EndsSearch

LEMMA EndRoundKeeps == SearchIInv /\ EndRound => SearchIInv'
<1> SUFFICES ASSUME SearchIInv, EndRound PROVE SearchIInv'
  OBVIOUS
<1>1. /\ pc = "wait"
      /\ UNCHANGED <<op, table, visited, launched, newNodes, foundValue, cancelled>>
  BY DEF EndRound
<1>2. PICK s : s = closest'
  OBVIOUS
<1>3. CASE foundValue
  <2>1. s = <<>> /\ EndSearch("none") /\ op = "FindValue"
    BY <1>2, <1>3 DEF EndRound, SearchIInv, Course
  <2>2. s \in Seq(Peers) /\ Len(s) <= K
    BY <2>1, BucketSize
  <2> QED
    BY <1>1, <1>2, <1>3, <2>1, <2>2, EndsSearch
<1>4. CASE ~ foundValue
  <2>1. s = Merged /\ pc' = "loop" /\ UNCHANGED <<toQuery, rpc, err>>
    BY <1>2, <1>4 DEF EndRound
  <2>2. /\ SearchTyped /\ closest # <<>> /\ InOrder(closest)
        /\ \A id \in table \cup visited :
             /\ id \in Peers
             /\ \/ ListedIn(closest, id)
                \/ newNodes[id] > 0
                \/ BeyondLast(closest, K, id)
    BY <1>1 DEF SearchIInv, SearchTyped, Rounds
  <2>3. /\ Merged \in Seq(Peers) /\ Len(Merged) <= K /\ Merged # <<>> /\ InOrder(Merged)
        /\ \A id \in table \cup visited : ListedIn(Merged, id) \/ BeyondLast(Merged, K, id)
    BY <2>2, MergedFacts
  <2>4. /\ s \in Seq(Peers) /\ Len(s) <= K /\ s # <<>> /\ InOrder(s)
        /\ \A id \in table \cup visited : ListedIn(s, id) \/ BeyondLast(s, K, id)
    BY <2>1, <2>3
  <2> QED
    BY <1>1, <1>2, <1>4, <2>1, <2>4, EntersLoop
<1> QED
  BY <1>3, <1>4

LEMMA BeginRoundKeeps == SearchIInv /\ BeginRound => SearchIInv'
<1> SUFFICES ASSUME SearchIInv, BeginRound PROVE SearchIInv'
  OBVIOUS
<1>1. /\ pc = "loop" /\ pc' = "launch" /\ launched' = 0 /\ rpc' = Idle /\ newNodes' = NoNodes
      /\ toQuery' = Unvisited /\ Unvisited # <<>>
      /\ UNCHANGED <<op, table, closest, visited, foundValue, cancelled, err>>
  BY DEF BeginRound
<1>2. PICK q : q = toQuery'
  OBVIOUS
<1>3. SearchTyped
  BY DEF SearchIInv
<1>4. /\ q \in Seq(Peers) /\ Len(q) \in Nat /\ Len(q) <= Alpha /\ q # <<>>
      /\ \A i \in 1 .. Len(q) : ListedIn(closest, q[i]) /\ q[i] \notin visited
  BY <1>1, <1>2, <1>3, UnvisitedFacts
<1>5. target' = target
  BY <1>1 DEF target
<1>6. 0 < Len(q)
  BY <1>4, EmptySeq
<1>7. SearchTyped'
  <2>1. newNodes' \in [Peers -> Nat]
    BY <1>1 DEF NoNodes
  <2>2. launched' \in 0 .. Alpha /\ \A w \in DOMAIN rpc' : rpc'[w] = "idle"
    BY <1>1, SearchWidths DEF Idle
  <2> QED
    BY <1>1, <1>2, <1>3, <1>4, <2>1, <2>2 DEF SearchTyped, Workers
<1>8. Rounds'
  <2>1. closest # <<>> /\ InOrder(closest)
    BY <1>1 DEF SearchIInv, Rounds
  <2>2. InOrder(closest)'
    BY <1>1, <1>5, <2>1 DEF InOrder
  <2>3. ASSUME NEW id \in table' \cup visited'
        PROVE  ListedIn(closest, id)' \/ BeyondLast(closest, K, id)'
    <3>1. ListedIn(closest, id) \/ BeyondLast(closest, K, id)
      BY <1>1 DEF SearchIInv, Rounds
    <3> QED
      BY <1>1, <1>5, <3>1 DEF ListedIn, BeyondLast
  <2> QED
    BY <1>1, <2>1, <2>2, <2>3 DEF Rounds
<1>9. Batch'
  BY <1>1, <1>2, <1>4, <1>6 DEF Batch, ListedIn
<1> QED
  BY <1>1, <1>7, <1>8, <1>9 DEF SearchIInv, BeforeRounds, Course, StoresAtNearest,
                                SearchIsComplete, ValueIsReturned

LEMMA LaunchKeeps == SearchIInv /\ Launch => SearchIInv'
<1> SUFFICES ASSUME SearchIInv, Launch PROVE SearchIInv'
  OBVIOUS
<1>1. /\ pc = "launch" /\ pc' \in {"launch", "wait"} /\ launched' = launched + 1
      /\ visited' = visited \cup {toQuery[launched + 1]}
      /\ pc' = IF launched + 1 = Len(toQuery) THEN "wait" ELSE "launch"
      /\ rpc' = [rpc EXCEPT ![launched + 1] = "sent"]
      /\ UNCHANGED <<op, table, closest, toQuery, newNodes, foundValue, cancelled, err>>
  BY DEF Launch
<1>2. /\ SearchTyped /\ toQuery \in Seq(Peers) /\ Len(toQuery) \in Nat /\ launched \in Nat
      /\ launched < Len(toQuery) /\ Len(toQuery) <= Alpha
  BY <1>1, LenProperties, SearchWidths DEF SearchIInv, SearchTyped, Batch
<1>3. launched + 1 \in 1 .. Len(toQuery) /\ toQuery[launched + 1] \in Peers
  <2>1. launched + 1 \in 1 .. Len(toQuery)
    BY <1>2
  <2> QED
    BY <1>2, <2>1, LenProperties
<1>4. target' = target
  BY <1>1 DEF target
<1>5. /\ \A i \in 1 .. Len(toQuery) : ListedIn(closest, toQuery[i])
      /\ \A i \in launched + 1 .. Len(toQuery) :
           toQuery[i] \in visited => \E w \in 1 .. launched : toQuery[w] = toQuery[i]
  BY <1>1 DEF SearchIInv, Batch
<1>6. SearchTyped'
  <2>1. launched' \in 0 .. Alpha /\ visited' \subseteq Peers
    BY <1>1, <1>2, <1>3, SearchWidths DEF SearchTyped
  <2>2. \A w \in DOMAIN rpc' : rpc'[w] \in {"idle", "sent", "done"}
    BY <1>1, <1>2 DEF SearchTyped, Workers
  <2> QED
    BY <1>1, <1>2, <2>1, <2>2 DEF SearchTyped, Workers
<1>7. Rounds'
  <2>1. closest # <<>> /\ InOrder(closest)
    BY <1>1 DEF SearchIInv, Rounds
  <2>2. InOrder(closest)'
    BY <1>1, <1>4, <2>1 DEF InOrder
  <2>3. ASSUME NEW id \in table' \cup visited'
        PROVE  ListedIn(closest, id)' \/ newNodes'[id] > 0 \/ BeyondLast(closest, K, id)'
    <3>1. ListedIn(closest, id) \/ newNodes[id] > 0 \/ BeyondLast(closest, K, id)
      <4>1. CASE id \in table \cup visited
        BY <1>1, <4>1 DEF SearchIInv, Rounds
      <4>2. CASE id = toQuery[launched + 1]
        BY <1>3, <1>5, <4>2
      <4> QED
        BY <1>1, <4>1, <4>2
    <3> QED
      BY <1>1, <1>4, <3>1 DEF ListedIn, BeyondLast
  <2> QED
    BY <1>1, <2>1, <2>2, <2>3 DEF Rounds
<1>8. Batch'
  <2>1. pc' = "launch" => launched' < Len(toQuery')
    BY <1>1, <1>2
  <2>2. \A i \in 1 .. Len(toQuery') : ListedIn(closest, toQuery[i])'
    BY <1>1, <1>5 DEF ListedIn
  <2>3. ASSUME NEW i \in launched' + 1 .. Len(toQuery'), toQuery'[i] \in visited'
        PROVE  \E w \in 1 .. launched' : toQuery'[w] = toQuery'[i]
    <3>1. i \in launched + 1 .. Len(toQuery) /\ launched + 1 \in 1 .. launched'
      BY <1>1, <1>2
    <3>2. \A w \in 1 .. launched : w \in 1 .. launched'
      BY <1>1, <1>2
    <3>3. CASE toQuery[i] \in visited
      BY <1>1, <1>5, <3>1, <3>2, <3>3
    <3>4. CASE toQuery[i] = toQuery[launched + 1]
      BY <1>1, <3>1, <3>4
    <3> QED
      BY <1>1, <2>3, <3>3, <3>4
  <2> QED
    BY <2>1, <2>2, <2>3 DEF Batch
<1> QED
  BY <1>1, <1>6, <1>7, <1>8 DEF SearchIInv, BeforeRounds, Course, StoresAtNearest,
                                SearchIsComplete, ValueIsReturned

\* A goroutine that does not see that another one's peer was visited lists it
\* again: it is listed twice, and never missing.
LEMMA AnswerKeeps == ASSUME NEW w \in Workers PROVE SearchIInv /\ Answer(w) => SearchIInv'
<1> SUFFICES ASSUME SearchIInv, Answer(w) PROVE SearchIInv'
  OBVIOUS
<1>1. PICK res \in Answers(w), missed \in SUBSET Unseen(w) :
        /\ missed \subseteq res \ {Self}
        /\ table' = table \cup (res \ {Self})
        /\ newNodes' = [id \in Peers |-> IF id \in (res \ {Self}) \ (visited \ missed)
                                          THEN newNodes[id] + 1 ELSE newNodes[id]]
  BY DEF Answer
<1>2. /\ pc \in {"launch", "wait"} /\ Done(w)
      /\ UNCHANGED <<op, pc, closest, visited, toQuery, launched, foundValue, cancelled, err>>
  BY DEF Answer, Waiting
<1>3. /\ SearchTyped /\ newNodes \in [Peers -> Nat] /\ visited \subseteq Peers /\ table \subseteq Peers
      /\ res \ {Self} \subseteq Peers
  BY DEF SearchIInv, SearchTyped, Answers
<1>4. /\ newNodes' \in [Peers -> Nat]
      /\ \A id \in Peers : newNodes'[id] >= newNodes[id]
      /\ \A id \in Peers : id \in res \ {Self} /\ id \notin visited => newNodes'[id] > 0
  BY <1>1, <1>3
<1>5. target' = target
  BY <1>2 DEF target
<1>6. SearchTyped'
  <2>1. \A v \in DOMAIN rpc' : rpc'[v] \in {"idle", "sent", "done"}
    BY <1>2, DoneTyped
  <2>2. table' \subseteq Peers
    BY <1>1, <1>3
  <2> QED
    BY <1>2, <1>3, <1>4, <2>1, <2>2 DEF SearchTyped, Workers
<1>7. Rounds'
  <2>1. closest # <<>> /\ InOrder(closest)
    BY <1>2 DEF SearchIInv, Rounds
  <2>2. InOrder(closest)'
    BY <1>2, <1>5, <2>1 DEF InOrder
  <2>3. ASSUME NEW id \in table' \cup visited'
        PROVE  ListedIn(closest, id)' \/ newNodes'[id] > 0 \/ BeyondLast(closest, K, id)'
    <3>0. id \in Peers
      BY <1>1, <1>2, <1>3
    <3>1. ListedIn(closest, id) \/ newNodes'[id] > 0 \/ BeyondLast(closest, K, id)
      <4>1. CASE id \in table \cup visited
        <5>1. ListedIn(closest, id) \/ newNodes[id] > 0 \/ BeyondLast(closest, K, id)
          BY <1>2, <4>1 DEF SearchIInv, Rounds
        <5>2. newNodes[id] > 0 => newNodes'[id] > 0
          BY <1>3, <1>4, <3>0
        <5> QED
          BY <5>1, <5>2
      <4>2. CASE id \in res \ {Self} /\ id \notin visited
        BY <1>4, <3>0, <4>2
      <4> QED
        BY <1>1, <1>2, <4>1, <4>2
    <3> QED
      BY <1>2, <1>5, <3>1 DEF ListedIn, BeyondLast
  <2> QED
    BY <1>2, <2>1, <2>2, <2>3 DEF Rounds
<1>8. Batch'
  BY <1>2 DEF SearchIInv, Batch, ListedIn
<1> QED
  BY <1>2, <1>6, <1>7, <1>8 DEF SearchIInv, BeforeRounds, Course, StoresAtNearest,
                                SearchIsComplete, ValueIsReturned

LEMMA MapRaceKeeps == ASSUME NEW w \in Workers PROVE SearchIInv /\ MapRace(w) => SearchIInv'
<1> SUFFICES ASSUME SearchIInv, MapRace(w) PROVE SearchIInv'
  OBVIOUS
<1>1. /\ pc = "launch" /\ pc' = "aborted"
      /\ UNCHANGED <<op, table, closest, visited, toQuery, launched, rpc, newNodes,
                     foundValue, cancelled, err>>
  BY DEF MapRace
<1>2. SearchTyped'
  BY <1>1 DEF SearchIInv, SearchTyped, Workers
<1> QED
  BY <1>1, <1>2 DEF SearchIInv, BeforeRounds, Rounds, Batch, Course, StoresAtNearest,
                    SearchIsComplete, ValueIsReturned

LEMMA StoreReturnsKeeps == SearchIInv /\ StoreReturns => SearchIInv'
<1> SUFFICES ASSUME SearchIInv, StoreReturns PROVE SearchIInv'
  OBVIOUS
<1>1. /\ pc = "store" /\ op = "StoreValue" /\ pc' = "returned"
      /\ UNCHANGED <<op, table, closest, visited, toQuery, launched, rpc, newNodes,
                     foundValue, cancelled, err>>
  BY DEF StoreReturns, SearchIInv, Course
<1>2. SearchTyped'
  BY <1>1 DEF SearchIInv, SearchTyped, Workers
<1> QED
  BY <1>1, <1>2 DEF SearchIInv, BeforeRounds, Rounds, Batch, Course, StoresAtNearest,
                    SearchIsComplete, ValueIsReturned

LEMMA SearchStepKeeps == SearchIInv /\ [SearchNext]_searchVars => SearchIInv'
<1> SUFFICES ASSUME SearchIInv, [SearchNext]_searchVars PROVE SearchIInv'
  OBVIOUS
<1>1. CASE Cancel
  BY <1>1, CancelKeeps
<1>2. CASE AddBootstrapNodes
  BY <1>2, AddBootstrapNodesKeeps
<1>3. CASE FoundLocally
  BY <1>3, FoundLocallyKeeps
<1>4. CASE Start
  BY <1>4, StartKeeps
<1>5. CASE GiveUp
  BY <1>5, GiveUpKeeps
<1>6. CASE BeginRound
  BY <1>6, BeginRoundKeeps
<1>7. CASE Converged
  BY <1>7, ConvergedKeeps
<1>8. CASE Launch
  BY <1>8, LaunchKeeps
<1>9. CASE EndRound
  BY <1>9, EndRoundKeeps
<1>10. CASE StoreReturns
  BY <1>10, StoreReturnsKeeps
<1>11. CASE \E w \in Workers : Answer(w)
  BY <1>11, AnswerKeeps
<1>12. CASE \E w \in Workers : AnswerValue(w)
  BY <1>12, AnswerValueKeeps
<1>13. CASE \E w \in Workers : Fail(w) \/ StoreAt(w)
  BY <1>13, FailKeeps
<1>14. CASE \E w \in Workers : MapRace(w)
  BY <1>14, MapRaceKeeps
<1>15. CASE UNCHANGED searchVars
  BY <1>15, StutterKeeps
<1> QED
  BY <1>1, <1>2, <1>3, <1>4, <1>5, <1>6, <1>7, <1>8, <1>9, <1>10, <1>11, <1>12, <1>13,
     <1>14, <1>15 DEF SearchNext, Ended

LEMMA SearchInvariant == SearchSpec => []SearchIInv
BY SearchInitIInv, SearchStepKeeps, PTL DEF SearchSpec

\* Whatever the peers answer, fail to answer or repeat, and whatever reads of
\* visited miss its writes, a round starts from the K nearest of all peers the
\* node has learned of, and StoreValue stores at the StoreK nearest of them.
THEOREM ShortlistStaysNearest == SearchSpec => []ShortlistInv
<1>1. SearchIInv => ShortlistInv
  <2> SUFFICES ASSUME SearchIInv PROVE ShortlistInv
    OBVIOUS
  <2>1. SearchTyped /\ StoresAtNearest
    BY DEF SearchIInv
  <2>2. ASSUME pc = "loop" PROVE NearestOf(closest, K)
    <3>1. /\ closest \in Seq(Peers) /\ InOrder(closest)
          /\ \A id \in table : ListedIn(closest, id) \/ BeyondLast(closest, K, id)
      BY <2>2, LoopFacts
    <3>2. DOMAIN closest = 1 .. Len(closest)
      BY <3>1, LenProperties
    <3>3. \A id : ListedIn(closest, id) => id \in ToSet(closest)
      BY <3>2 DEF ListedIn, ToSet
    <3> QED
      BY <3>1, <3>2, <3>3 DEF NearestOf, InOrder, BeyondLast
  <2> QED
    BY <2>1, <2>2 DEF ShortlistInv, ShortlistIsNearest
<1> QED
  BY <1>1, SearchInvariant, PTL

\* A lookup without an error, and a FindValue that reports ErrNotFound, have
\* queried every peer they learned of that is not beyond a full shortlist.
THEOREM SearchesEndComplete == SearchSpec => []SearchIsComplete
<1>1. SearchIInv => SearchIsComplete
  BY DEF SearchIInv
<1> QED
  BY <1>1, SearchInvariant, PTL

\* A value that a peer gave is returned, and nothing else is.
THEOREM ValuesAreReturned == SearchSpec => []ValueIsReturned
<1>1. SearchIInv => ValueIsReturned
  BY DEF SearchIInv
<1> QED
  BY <1>1, SearchInvariant, PTL

\* No peer is queried in two rounds of a search.
THEOREM QueriedInOneRound == SearchSpec => OneRoundPerPeer
<1>1. SearchIInv /\ [SearchNext]_searchVars =>
        [(pc = "launch" /\ launched' = launched + 1 /\ toQuery[launched'] \in visited)
           => \E w \in 1 .. launched : toQuery[w] = toQuery[launched']]_searchVars
  <2> SUFFICES ASSUME SearchIInv, pc = "launch", launched' = launched + 1,
                      toQuery[launched'] \in visited
               PROVE  \E w \in 1 .. launched : toQuery[w] = toQuery[launched']
    OBVIOUS
  <2>1. launched \in Nat /\ Len(toQuery) \in Nat /\ launched < Len(toQuery)
    BY LenProperties, SearchWidths DEF SearchIInv, SearchTyped, Batch
  <2>2. launched' \in launched + 1 .. Len(toQuery)
    BY <2>1
  <2> QED
    BY <2>2 DEF SearchIInv, Batch
<1> QED
  BY <1>1, SearchInvariant, PTL DEF SearchSpec, OneRoundPerPeer
=============================================================================
