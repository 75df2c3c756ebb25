----------------------------- MODULE StoredValues -----------------------------
(***************************************************************************)
(* What StoreValue and FindValue of dht/logic.go promise together: one key *)
(* in a network of nodes that know one another (fewer than K nodes: their  *)
(* buckets are never full, so that contacts of dead nodes stay as well).   *)
(* Several nodes store and read at the same time; requests may be lost, a  *)
(* disk may fail, and nodes crash and come back.                           *)
(*                                                                         *)
(* A node is its rank by the distance to the key, 1 being the nearest.  The*)
(* value that a StoreValue stores is its number, and 0 is no value.  The   *)
(* lookup of StoreValue meets every node (module IterativeSearch), dead    *)
(* ones included: only its result is here.  The value of a StoreBlob names *)
(* the node that has the blob, which nobody else gets a copy of.           *)
(***************************************************************************)
EXTENDS Integers, FiniteSets

CONSTANTS
  N,          \* number of nodes
  StoreK, Alpha,
  MaxWrites,  \* bound: calls of StoreValue and StoreBlob
  MaxBlobs,   \* bound: those of StoreBlob
  MaxFaults   \* bound: requests that are lost, Puts that fail, and crashes

\* A node alone stores nothing: its StoreValue returns an error.
ASSUME StoreBounds ==
  /\ N \in Nat \ {0, 1} /\ {StoreK, Alpha, MaxWrites} \subseteq Nat \ {0}
  /\ {MaxBlobs, MaxFaults} \subseteq Nat

VARIABLES
  storage,    \* per node: the value of the key
  durable,    \* the nodes use DiskStorage, not MemoryStorage
  blobs,      \* per node: the blobs of which calls its storage has
  up,         \* nodes that run
  write,      \* the calls of StoreValue and StoreBlob
  read,       \* a FindValue and its FetchBlob: one at a time, as they change nothing
  lost,       \* history: requests that were lost, and Puts that failed
  crashes     \* history: crashes

stores == <<storage, durable, blobs>>
vars == <<storage, durable, blobs, up, write, read, lost, crashes>>

Nodes == 1 .. N
Writes == 1 .. MaxWrites
NoValue == 0

Unused == [st |-> "unused"]
Used == {w \in Writes : write[w] # Unused}
Ended == {w \in Used : write[w].st = "ended"}

NoRead == [st |-> "none"]

\* The k nearest of S.
Nearest(S, k) == {n \in S : Cardinality({m \in S : m < n}) < k}

\* Mutant of Replicas: one node too few.
ReplicasLess(n) == Nearest(Nodes \ {n}, StoreK - 1)

\* Where node n stores the value: a search never returns the node itself.
Replicas(n) == Nearest(Nodes \ {n}, StoreK)

Init ==
  /\ storage = [n \in Nodes |-> NoValue]
  /\ durable \in BOOLEAN
  /\ blobs = [n \in Nodes |-> {}]
  /\ up = Nodes
  /\ write = [w \in Writes |-> Unused]
  /\ read = NoRead
  /\ lost = 0 /\ crashes = 0

MayFail == lost + crashes < MaxFaults

\* after is history: the calls that had ended when this one began.
Begin(n, st, kind) ==
  LET w == Cardinality(Used) + 1 IN
  /\ n \in up /\ w \in Writes
  /\ write' = [write EXCEPT ![w] = [st |-> st, by |-> n, kind |-> kind,
                                   left |-> Replicas(n), after |-> Ended]]
  /\ UNCHANGED <<stores, up, read, lost, crashes>>

StoreValue(n) == Begin(n, "storing", "inline")

\* StoreBlob needs a storage that has blobs; a blob may be empty.
StoreBlob(n) ==
  /\ durable
  /\ Cardinality({w \in Used : write[w].kind # "inline"}) < MaxBlobs
  /\ \E kind \in {"blob", "empty"} : Begin(n, "put", kind)

\* PutBlob, before anything is stored elsewhere; when it fails StoreBlob returns.
PutBlob(w) ==
  /\ w \in Used /\ write[w].st = "put"
  /\ \/ /\ blobs' = [blobs EXCEPT ![write[w].by] = @ \cup {w}]
        /\ write' = [write EXCEPT ![w].st = "storing"]
     \/ write' = [write EXCEPT ![w].st = "cut"] /\ UNCHANGED blobs
  /\ UNCHANGED <<storage, durable, up, read, lost, crashes>>

Storing(w, n) == w \in Used /\ write[w].st = "storing" /\ n \in write[w].left
StoreEnds(w, n) == write' = [write EXCEPT ![w].left = @ \ {n}]

\* Mutant of StoreAt: a node keeps the value that it has.
StoreAtIfAbsent(w, n) ==
  /\ Storing(w, n) /\ n \in up
  /\ storage' = IF storage[n] = NoValue THEN [storage EXCEPT ![n] = w] ELSE storage
  /\ StoreEnds(w, n)
  /\ UNCHANGED <<durable, blobs, up, read, lost, crashes>>

\* Replica n carries out the Store and answers.
StoreAt(w, n) ==
  /\ Storing(w, n) /\ n \in up
  /\ storage' = [storage EXCEPT ![n] = w]
  /\ StoreEnds(w, n)
  /\ UNCHANGED <<durable, blobs, up, read, lost, crashes>>

\* The Store fails, and its error is dropped: n is down, or a message is lost,
\* the request or the answer.
StoreFails(w, n) ==
  /\ Storing(w, n)
  /\ \/ n \notin up /\ UNCHANGED <<storage, lost>>
     \/ n \in up /\ MayFail /\ lost' = lost + 1
        /\ storage' \in {storage, [storage EXCEPT ![n] = w]}
  /\ StoreEnds(w, n)
  /\ UNCHANGED <<durable, blobs, up, read, crashes>>

\* Put of a DiskStorage fails and tells nobody: n answers as if it had stored the
\* value.  It has what it had, or a file that was cut and holds no value.
PutFails(w, n) ==
  /\ Storing(w, n) /\ n \in up
  /\ durable /\ MayFail /\ lost' = lost + 1
  /\ storage' \in {storage, [storage EXCEPT ![n] = NoValue]}
  /\ StoreEnds(w, n)
  /\ UNCHANGED <<durable, blobs, up, read, crashes>>

\* Mutant of StoreReturns: StoreValue does not wait for its goroutines.
StoreReturnsEarly(w) ==
  /\ w \in Used /\ write[w].st = "storing"
  /\ write' = [write EXCEPT ![w].st = "ended"]
  /\ UNCHANGED <<stores, up, read, lost, crashes>>

\* wg.Wait returns, and StoreValue without an error.
StoreReturns(w) ==
  /\ w \in Used /\ write[w].st = "storing" /\ write[w].left = {}
  /\ write' = [write EXCEPT ![w].st = "ended"]
  /\ UNCHANGED <<stores, up, read, lost, crashes>>

\* The value in the storage of the node itself is returned at once.  before is
\* history: the calls of StoreValue that had ended by now.
FindValue(n) ==
  /\ n \in up /\ read.st # "asking"
  /\ read' = [st |-> IF storage[n] # NoValue THEN "done" ELSE "asking", by |-> n,
              visited |-> {}, left |-> {}, got |-> storage[n], blob |-> "none",
              before |-> Ended]
  /\ UNCHANGED <<stores, up, write, lost, crashes>>

Asking == read.st = "asking"
Unvisited == Nodes \ (read.visited \cup {read.by})

\* A round of iterativeSearch: the Alpha nearest that have not been visited.
Ask ==
  /\ Asking /\ read.left = {} /\ read.got = NoValue
  /\ Unvisited # {}
  /\ LET round == Nearest(Unvisited, Alpha) IN
     read' = [read EXCEPT !.left = round, !.visited = @ \cup round]
  /\ UNCHANGED <<stores, up, write, lost, crashes>>

\* n answers with its value, or with nodes, which are all known.  Of the values
\* of a round the last one counts.
Answer(n) ==
  /\ Asking /\ n \in read.left /\ n \in up
  /\ read' = [read EXCEPT !.left = @ \ {n},
                          !.got = IF storage[n] # NoValue THEN storage[n] ELSE @]
  /\ UNCHANGED <<stores, up, write, lost, crashes>>

AnswerFails(n) ==
  /\ Asking /\ n \in read.left
  /\ \/ n \notin up /\ UNCHANGED lost
     \/ n \in up /\ MayFail /\ lost' = lost + 1
  /\ read' = [read EXCEPT !.left = @ \ {n}]
  /\ UNCHANGED <<stores, up, write, crashes>>

\* The round has brought a value, or there is nobody left to ask.
FindReturns ==
  /\ Asking /\ read.left = {}
  /\ read.got # NoValue \/ Unvisited = {}
  /\ read' = [read EXCEPT !.st = "done", !.visited = {}]
  /\ UNCHANGED <<stores, up, write, lost, crashes>>

\* Mutant of BlobNode: the first node that stores the value.
BlobNodeOfReplica(w) == CHOOSE n \in Replicas(write[w].by) : \A m \in Replicas(write[w].by) : n <= m

BlobNode(w) == write[w].by

\* FetchBlob of the value that was found: its contents, if it is inline or this
\* node has the blob; else what the node that it names has, which a blob of size
\* 0 looks like nothing of; else, or when that node is down, an error.
FetchBlob ==
  LET w == read.got
      n == BlobNode(w)
      ok(b) == read' = [read EXCEPT !.blob = IF b THEN "ok" ELSE "failed"]
  IN
  /\ read.st = "done" /\ w # NoValue /\ read.blob = "none" /\ read.by \in up
  /\ \/ /\ ok(\/ write[w].kind = "inline" \/ w \in blobs[read.by]
              \/ n \in up /\ w \in blobs[n] /\ write[w].kind # "empty")
        /\ UNCHANGED lost
     \/ /\ write[w].kind # "inline" /\ w \notin blobs[read.by]
        /\ MayFail /\ lost' = lost + 1 /\ ok(FALSE)
  /\ UNCHANGED <<stores, up, write, crashes>>

\* A crash ends the calls of its node; what was not written to disk is lost, and a
\* file is cut when a Store was just being carried out there.
Crash(n) ==
  /\ n \in up /\ MayFail
  /\ up' = up \ {n}
  /\ crashes' = crashes + 1
  /\ \/ durable /\ UNCHANGED storage
     \/ /\ durable => \E w \in Writes : Storing(w, n)
        /\ storage' = [storage EXCEPT ![n] = NoValue]
  /\ write' = [w \in Writes |-> IF w \in Used /\ write[w].by = n /\ write[w].st \in {"put", "storing"}
                                THEN [write[w] EXCEPT !.st = "cut"] ELSE write[w]]
  /\ read' = IF Asking /\ read.by = n THEN NoRead ELSE read
  /\ UNCHANGED <<durable, blobs, lost>>

Restart(n) ==
  /\ n \in Nodes \ up
  /\ up' = up \cup {n}
  /\ UNCHANGED <<stores, write, read, lost, crashes>>

Next ==
  \/ \E n \in Nodes : StoreValue(n)
  \/ \E n \in Nodes : StoreBlob(n)
  \/ \E w \in Writes : PutBlob(w)
  \/ \E w \in Writes, n \in Nodes : StoreAt(w, n)
  \/ \E w \in Writes, n \in Nodes : StoreFails(w, n)
  \/ \E w \in Writes, n \in Nodes : PutFails(w, n)
  \/ \E w \in Writes : StoreReturns(w)
  \/ \E n \in Nodes : FindValue(n)
  \/ Ask
  \/ \E n \in Nodes : Answer(n)
  \/ \E n \in Nodes : AnswerFails(n)
  \/ FindReturns
  \/ FetchBlob
  \/ \E n \in Nodes : Crash(n)
  \/ \E n \in Nodes : Restart(n)

Spec == Init /\ [][Next]_vars

-----------------------------------------------------------------------------

Values == {NoValue} \cup Writes

TypeOK ==
  /\ storage \in [Nodes -> Values]
  /\ durable \in BOOLEAN
  /\ blobs \in [Nodes -> SUBSET Writes]
  /\ up \subseteq Nodes
  /\ write \in [Writes -> {Unused} \cup
       [st : {"put", "storing", "ended", "cut"}, by : Nodes, kind : {"inline", "blob", "empty"}, left : SUBSET Nodes, after : SUBSET Writes]]
  /\ read \in {NoRead} \cup
       [st : {"asking", "done"}, by : Nodes, visited : SUBSET Nodes, left : SUBSET Nodes,
        got : Values, blob : {"none", "ok", "failed"}, before : SUBSET Writes]
  /\ lost \in Nat /\ crashes \in Nat /\ lost + crashes <= MaxFaults

\* Once a StoreValue has returned, every FindValue returns a value as long as
\* there have been fewer than StoreK faults: a nil error of StoreValue alone
\* promises nothing, for the errors of the Stores are dropped (line 43).
ValueFound ==
  (read.st = "done" /\ read.before # {} /\ lost + crashes < StoreK) => read.got # NoValue

\* A blob whose value is found can be fetched, also while its StoreBlob goes
\* on, unless it is empty or something fails: one fault is enough here.
BlobFound ==
  (read.st = "done" /\ read.blob = "failed" /\ lost + crashes = 0)
    => write[read.got].kind = "empty"

\* What has been stored is found, as far as copies of it go.
Findable == ValueFound /\ BlobFound

\* What is found without faults is no value that was overwritten, that is one
\* whose call had ended before another one began that ended before FindValue
\* began, unless the two writers store at different nodes: a writer among the
\* StoreK nearest does not store at itself, and its own replica goes stale.
\* Crashes excuse nothing unless the nodes come back with what they had.
StaleNeedsOtherReplicas ==
  (read.st = "done" /\ lost = 0 /\ (durable => crashes = 0)) =>
    \A u \in read.before : read.got \in write[u].after =>
      ~(Replicas(write[read.got].by) \subseteq Replicas(write[u].by))

\* Values are only where their writer stores them, and as long as nothing fails
\* every replica of a call that has ended has its value or one that came later;
\* and the state is typed.
StoredInv ==
  /\ TypeOK
  /\ \A n \in Nodes : storage[n] # NoValue =>
       storage[n] \in Used /\ n \in Replicas(write[storage[n]].by)
  /\ lost + crashes = 0 => \A u \in Ended : \A n \in Replicas(write[u].by) :
       storage[n] \notin write[u].after \cup {NoValue}
=============================================================================
