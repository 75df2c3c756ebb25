---------------------------- MODULE RoutingTable ----------------------------
(***************************************************************************)
(* dht/routing_table.go: the buckets of a node and the calls to Add that   *)
(* request handlers and lookups make at the same time.  A bucket lists     *)
(* contacts from the least to the most recently seen.  An Add that meets a *)
(* full bucket releases the lock, pings the least recently seen contact,   *)
(* and takes the lock again to keep or replace it: between the two the     *)
(* bucket can change under it.                                             *)
(*                                                                         *)
(* latest, contended and heard are history variables: no action reads them *)
(* to decide what it does.                                                 *)
(***************************************************************************)
EXTENDS KeySpace, SequencesExt

CONSTANTS
  Contacts,  \* the NetworkNodes that Add is called with
  Adders     \* goroutines that may be inside Add at one time

ASSUME ContactsAreNodes == \A c \in Contacts : c.id \in DHTKey

VARIABLES
  buckets,    \* rt.buckets
  adder,      \* the Add that each goroutine is pinging for
  latest,     \* the contact last written to the table, per id
  contended,  \* ids passed to Add while an unfinished Add referred to them
  heard       \* goroutines whose pinged peer was heard of in the meantime

vars == <<buckets, adder, latest, contended, heard>>

NoAdd == [idle |-> TRUE]

Ids == {c.id : c \in Contacts}

Pending == {g \in Adders : adder[g] # NoAdd}

BucketOf(id) == bucketIndex(Self, id)

\* i is the first place of b that holds id: where the loop of Add stops.
FoundAt(b, id, i) == b[i].id = id /\ \A j \in 1 .. i - 1 : b[j].id # id

\* Mutant of Holds: the loop stops before the last entry.
HoldsButLast(b, id) == \E i \in 1 .. Len(b) - 1 : b[i].id = id

Holds(b, id) == \E i \in DOMAIN b : b[i].id = id

\* Mutant of ReplaceAtTail: the old entry is not removed.
ReplaceKeepsBoth(b, i, c) == Append(b, c)

\* append(append(b[:i:i], b[i+1:]...), c), counting from 1.
ReplaceAtTail(b, i, c) == Append(RemoveAt(b, i), c)

-----------------------------------------------------------------------------

Init ==
  /\ buckets = [i \in BitNo |-> <<>>]
  /\ adder = [g \in Adders |-> NoAdd]
  /\ latest = [id \in Ids |-> NoAdd]
  /\ contended = {}
  /\ heard = {}

\* History: Add is called with an id that unfinished Adds refer to.
NoteCall(id) ==
  /\ contended' =
       IF \E g \in Pending : id \in {adder[g].node.id, adder[g].lrs.id}
       THEN contended \cup {id} ELSE contended

\* History: peer id is heard of, while others wait for its answer to a ping.
NoteHeard(id) ==
  heard' = heard \cup {g \in Pending : adder[g].lrs.id = id}

\* The peer is in its bucket: its contact is replaced and becomes the most
\* recently seen one.
AddKnown(c) ==
  LET b == buckets[BucketOf(c.id)] IN
  /\ c.id # Self
  /\ \E i \in DOMAIN b :
       /\ FoundAt(b, c.id, i)
       /\ buckets' = [buckets EXCEPT ![BucketOf(c.id)] = ReplaceAtTail(b, i, c)]
  /\ latest' = [latest EXCEPT ![c.id] = c]
  /\ NoteCall(c.id)
  /\ NoteHeard(c.id)
  /\ UNCHANGED adder

\* The peer is new and its bucket has room.
AddNew(c) ==
  LET b == buckets[BucketOf(c.id)] IN
  /\ c.id # Self
  /\ ~Holds(b, c.id)
  /\ Len(b) < K
  /\ buckets' = [buckets EXCEPT ![BucketOf(c.id)] = Append(b, c)]
  /\ latest' = [latest EXCEPT ![c.id] = c]
  /\ NoteCall(c.id)
  /\ NoteHeard(c.id)
  /\ UNCHANGED adder

\* Mutant of AddFull: the least recently seen contact gives way at once.
AddFullEvicts(g, c) ==
  LET b == buckets[BucketOf(c.id)] IN
  /\ adder[g] = NoAdd
  /\ c.id # Self
  /\ ~Holds(b, c.id)
  /\ Len(b) >= K
  /\ buckets' = [buckets EXCEPT ![BucketOf(c.id)] = ReplaceAtTail(b, 1, c)]
  /\ latest' = [latest EXCEPT ![c.id] = c]
  /\ NoteCall(c.id)
  /\ NoteHeard(c.id)
  /\ UNCHANGED adder

\* The peer is new and its bucket is full: goroutine g remembers the least
\* recently seen contact, unlocks and pings it.
AddFull(g, c) ==
  LET b == buckets[BucketOf(c.id)] IN
  /\ adder[g] = NoAdd
  /\ c.id # Self
  /\ ~Holds(b, c.id)
  /\ Len(b) >= K
  /\ adder' = [adder EXCEPT ![g] = [node |-> c, lrs |-> Head(b)]]
  /\ NoteCall(c.id)
  /\ NoteHeard(c.id)
  /\ UNCHANGED <<buckets, latest>>

\* g's Add returns.
Return(g) == adder' = [adder EXCEPT ![g] = NoAdd]

\* The pinged peer answered: the contact that was pinged (not the one the
\* table holds by now) becomes the most recently seen one and the new peer is
\* dropped.  Nothing changes when the peer has left the bucket.
PingAnswered(g) ==
  LET idx == BucketOf(adder[g].node.id)
      b == buckets[idx]
      lrs == adder[g].lrs
  IN
  /\ g \in Pending
  /\ \/ \E i \in DOMAIN b :
          /\ FoundAt(b, lrs.id, i)
          /\ buckets' = [buckets EXCEPT ![idx] = ReplaceAtTail(b, i, lrs)]
     \/ ~Holds(b, lrs.id) /\ UNCHANGED buckets
  /\ Return(g)
  /\ heard' = (heard \cup {h \in Pending : adder[h].lrs.id = lrs.id}) \ {g}
  /\ UNCHANGED <<latest, contended>>

\* The ping failed: the peer's first entry, if any, gives way to the new one.
PingFailed(g) ==
  LET idx == BucketOf(adder[g].node.id)
      b == buckets[idx]
      node == adder[g].node
      lrs == adder[g].lrs
  IN
  /\ g \in Pending
  /\ \/ /\ \E i \in DOMAIN b :
             /\ FoundAt(b, lrs.id, i)
             /\ buckets' = [buckets EXCEPT ![idx] = ReplaceAtTail(b, i, node)]
        /\ latest' = [latest EXCEPT ![node.id] = node]
     \/ ~Holds(b, lrs.id) /\ UNCHANGED <<buckets, latest>>
  /\ Return(g)
  /\ heard' = heard \ {g}
  /\ UNCHANGED contended

Next ==
  \/ \E c \in Contacts : AddKnown(c)
  \/ \E c \in Contacts : AddNew(c)
  \/ \E g \in Adders, c \in Contacts : AddFull(g, c)
  \/ \E g \in Adders : PingAnswered(g)
  \/ \E g \in Adders : PingFailed(g)

Spec == Init /\ [][Next]_vars

-----------------------------------------------------------------------------

\* Where the table has entries, in the order in which FindClosest reads them.
Places == UNION {{i} \X DOMAIN buckets[i] : i \in BitNo}

ReadBefore(p, q) == p[1] < q[1] \/ (p[1] = q[1] /\ p[2] < q[2])

EntryAt(p) == buckets[p[1]][p[2]]

\* The order of sort.Slice in FindClosest, which is not stable: which of two
\* entries of one id comes first is not determined by the code (here, the one
\* read first).
SortedBefore(p, q, target) ==
  \/ Closer(EntryAt(p).id, EntryAt(q).id, target)
  \/ EntryAt(p).id = EntryAt(q).id /\ ReadBefore(p, q)

\* The count nearest of the entries at P, nearest first.
NearestOfPlaces(P, target, count) ==
  [n \in 1 .. Lesser(count, Cardinality(P)) |->
     EntryAt(CHOOSE p \in P : Cardinality({q \in P : SortedBefore(q, p, target)}) = n - 1)]

\* Mutant of FindClosest: the contacts are cut to count before they are sorted.
FindClosestCutFirst(target, count) ==
  NearestOfPlaces({p \in Places : Cardinality({q \in Places : ReadBefore(q, p)}) < count},
                  target, count)

\* rt.FindClosest: the count stored contacts nearest to target, nearest first.
FindClosest(target, count) == NearestOfPlaces(Places, target, count)

-----------------------------------------------------------------------------

TypeOK ==
  /\ buckets \in [BitNo -> Seq(Contacts)]
  /\ adder \in [Adders -> [node : Contacts, lrs : Contacts] \cup {NoAdd}]
  /\ latest \in [Ids -> Contacts \cup {NoAdd}]
  /\ contended \subseteq Ids
  /\ heard \subseteq Pending

\* An entry sits in the bucket of its distance and never is the node itself,
\* also the entries that an unlocked ping writes back (lines 65 and 75).
WellPlaced ==
  \A i \in BitNo : \A j \in DOMAIN buckets[i] :
    /\ buckets[i][j].id # Self
    /\ BucketOf(buckets[i][j].id) = i

\* A bucket holds at most K entries, however many Adds found it full.
Bounded == \A i \in BitNo : Len(buckets[i]) <= K

\* What every Add relies on when it takes the lock: entries of the types and in
\* the places they must have.
WellFormed == TypeOK /\ WellPlaced /\ Bounded

\* Two entries of one id need two Adds of that id to overlap, or an Add of an
\* id that another Add is pinging: Adds of unrelated peers that share a bucket
\* and ping the same contact never do it.
NoDuplicates ==
  \A i \in BitNo : \A j, k \in DOMAIN buckets[i] :
    (j # k /\ buckets[i][j].id = buckets[i][k].id)
      => buckets[i][j].id \in contended

\* The table has the address last written for a peer: the contact that line
\* 65 writes back is older only if that peer was added during the ping.
FreshContact ==
  \A i \in BitNo : \A j \in DOMAIN buckets[i] :
    LET c == buckets[i][j] IN c.id \notin contended => c = latest[c.id]

\* The contact that an Add is about to judge is still the least recently seen
\* one of the bucket, unless it has been heard of since, or has left it.
JudgesOldest ==
  \A g \in Pending :
    LET b == buckets[BucketOf(adder[g].node.id)]
        id == adder[g].lrs.id
    IN (g \notin heard /\ id \notin contended /\ Holds(b, id)) => b[1].id = id

\* What the unlocked ping can break, two entries of a peer, an old address, a
\* contact judged although it is not the oldest, takes Adds that overlap.
RacesNeedOverlap == NoDuplicates /\ FreshContact /\ JudgesOldest

\* A bucket never shrinks: an entry leaves only in exchange for another one.
NeverShrinks ==
  [][\A i \in BitNo : Len(buckets'[i]) >= Len(buckets[i])]_vars

Stored(id) == Holds(buckets[BucketOf(id)], id)

\* A peer leaves the table only when an Add that pinged it gives up on it, and
\* the peer which that Add was called with is then in the table.
EvictedForFailedPing ==
  [][\A id \in Ids :
       (Stored(id) /\ ~Stored(id)')
         => \E g \in Pending, new \in Ids :
              /\ adder[g].lrs.id = id /\ adder[g].node.id = new
              /\ adder'[g] = NoAdd
              /\ Stored(new)']_vars

\* FindClosest returns stored contacts in order of distance, count of them
\* when there are so many, and none that it leaves out is nearer than one
\* that it returns, for every target (line 88).
FindClosestIsNearest ==
  LET stored == UNION {ToSet(buckets[i]) : i \in BitNo}
      total == Cardinality(Places)
  IN \A target \in DHTKey, count \in 1 .. K + 1 :
       LET found == FindClosest(target, count) IN
       /\ Len(found) = IF total < count THEN total ELSE count
       /\ \A i, j \in DOMAIN found :
            i < j => ~Closer(found[j].id, found[i].id, target)
       /\ ToSet(found) \subseteq stored
       /\ \A c \in stored \ ToSet(found), d \in ToSet(found) :
            ~Closer(c.id, d.id, target)
=============================================================================
