---------------------------- MODULE StorageProofs ----------------------------
(***************************************************************************)
(* First StoredValues: StoredInv, StaleNeedsOtherReplicas and Findable for *)
(* every number of nodes, replicas, calls and faults.  The inductive       *)
(* invariant says what the replicas of a call that goes on hold, where the *)
(* value of a read that goes on comes from, and, for Findable, which nodes *)
(* the faults so far account for.                                          *)
(*                                                                         *)
(* Then DiskStorage for every set of keys, values and blobs: what its      *)
(* files keep over interrupted writes, and that it implements ValueStore.  *)
(***************************************************************************)
EXTENDS StoredValues, DiskStorage, FiniteSetTheorems, TLAPS

CallRecords ==
  [st : {"put", "storing", "ended", "cut"}, by : Nodes, kind : {"inline", "blob", "empty"},
   left : SUBSET Nodes, after : SUBSET Writes]

ReadRecords ==
  [st : {"asking", "done"}, by : Nodes, visited : SUBSET Nodes, left : SUBSET Nodes,
   got : Values, blob : {"none", "ok", "failed"}, before : SUBSET Writes]

\* Calls are numbered in the order of their beginning.
NoHoles == \E k \in Nat : Used = 1 .. k

\* What came before a call had ended; a call stores at its replicas, and ends
\* when none is left.
Lifecycle ==
  \A u \in Used : /\ write[u].after \subseteq Ended
                  /\ write[u].left \subseteq Replicas(write[u].by)
                  /\ write[u].st = "ended" => write[u].left = {}

Placed ==
  \A n \in Nodes : storage[n] # NoValue =>
    storage[n] \in Used /\ n \in Replicas(write[storage[n]].by)

\* Nodes are down after crashes only, and those without a disk have nothing then.
DownIsEmpty ==
  /\ crashes = 0 => up = Nodes
  /\ \A n \in Nodes \ up : durable \/ storage[n] = NoValue

\* The faults so far are none that StaleNeedsOtherReplicas excuses.
Quiet == lost = 0 /\ (durable => crashes = 0)

\* The replicas at which call u has stored.
Reached(u) == Replicas(write[u].by) \ write[u].left

NotOverwritten == Quiet => \A u \in Used : \A n \in Reached(u) : storage[n] \notin write[u].after

Present == lost + crashes = 0 => \A u \in Used : \A n \in Reached(u) : storage[n] # NoValue

\* v was read at a replica of its writer that no call of B has written over.
Fresh(v, B) ==
  \E n \in Replicas(write[v].by) :
    \A u \in B : n \in Replicas(write[u].by) => v \notin write[u].after

ReadFresh ==
  read # NoRead =>
    /\ read.before \subseteq Ended
    /\ (Quiet /\ read.got # NoValue) => read.got \in Used /\ Fresh(read.got, read.before)

IInv ==
  /\ TypeOK /\ NoHoles /\ Lifecycle /\ Placed /\ DownIsEmpty
  /\ NotOverwritten /\ Present /\ ReadFresh

-----------------------------------------------------------------------------

\* What a node stores at are nodes, other than itself.
LEMMA ReplicasAreNodes == \A n : Replicas(n) \subseteq Nodes
BY DEF Replicas, Nearest

LEMMA CallType ==
  ASSUME TypeOK
  PROVE  /\ write \in [Writes -> {Unused} \cup CallRecords]
         /\ \A u \in Used : u \in Writes /\ write[u] \in CallRecords
         /\ \A u \in Ended : u \in Used /\ write[u].st = "ended"
         /\ \A u \in Writes : u \in Nat /\ u # NoValue
BY StoreBounds DEF TypeOK, Used, Ended, CallRecords, Writes, NoValue

LEMMA ReadType ==
  ASSUME TypeOK
  PROVE  /\ read \in {NoRead} \cup ReadRecords
         /\ (read.st \in {"asking", "done"}) => read \in ReadRecords
         /\ read \in ReadRecords => read # NoRead
<1>1. \A r \in ReadRecords : r.st \in {"asking", "done"}
  BY DEF ReadRecords
<1>2. NoRead.st = "none"
  BY DEF NoRead
<1> QED
  BY <1>1, <1>2 DEF TypeOK, ReadRecords

\* The number of a call that begins is free.
LEMMA NextIsFree ==
  ASSUME NoHoles
  PROVE  LET w == Cardinality(Used) + 1 IN
         /\ w \notin Used
         /\ \E k \in Nat : Used \cup {w} = 1 .. k
<1>1. PICK k \in Nat : Used = 1 .. k
  BY DEF NoHoles
<1>2. Cardinality(Used) = k
  BY <1>1, FS_Interval
<1>3. 1 .. k + 1 = (1 .. k) \cup {k + 1}
  OBVIOUS
<1> QED
  BY <1>1, <1>2, <1>3

-----------------------------------------------------------------------------

\* A call that goes on keeps what it was called with, and an ended one all.
Keeps ==
  \A u \in Used :
    /\ u \in Used'
    /\ write'[u].by = write[u].by /\ write'[u].after = write[u].after
    /\ write'[u].kind = write[u].kind
    /\ u \in Ended => write'[u] = write[u] /\ u \in Ended'

LEMMA KeepsIfSame ==
  ASSUME UNCHANGED write
  PROVE  Used' = Used /\ Ended' = Ended /\ Keeps
BY DEF Keeps, Used, Ended

LEMMA Unlike == \A r \in CallRecords : r # Unused
<1>1. \A r \in CallRecords : r.st # "unused"
  BY DEF CallRecords
<1>2. Unused.st = "unused"
  BY DEF Unused
<1> QED
  BY <1>1, <1>2

\* One call that goes on changes its record.
LEMMA OneChanges ==
  ASSUME TypeOK, NEW w \in Used, NEW r \in CallRecords,
         write[w].st # "ended", write' = [write EXCEPT ![w] = r],
         r.by = write[w].by, r.kind = write[w].kind, r.after = write[w].after
  PROVE  /\ write' \in [Writes -> {Unused} \cup CallRecords]
         /\ write'[w] = r /\ \A u \in Used \ {w} : write'[u] = write[u]
         /\ Used' = Used /\ Ended \subseteq Ended'
         /\ r.st # "ended" => Ended' = Ended
         /\ Keeps
<1>1. /\ write' \in [Writes -> {Unused} \cup CallRecords]
      /\ write'[w] = r /\ \A u \in Writes \ {w} : write'[u] = write[u]
  BY CallType
<1>2. Used' = Used
  BY <1>1, CallType, Unlike DEF Used
<1>3. \A u \in Used \ {w} : write'[u] = write[u]
  BY <1>1, CallType
<1>4. w \notin Ended /\ Ended \subseteq Ended' /\ (r.st # "ended" => Ended' = Ended)
  BY <1>1, <1>2, <1>3 DEF Ended
<1> QED
  BY <1>1, <1>2, <1>3, <1>4 DEF Keeps

LEMMA BeginChanges ==
  ASSUME TypeOK, NoHoles, NEW n \in Nodes, NEW st \in {"put", "storing"},
         NEW kind \in {"inline", "blob", "empty"}, Begin(n, st, kind)
  PROVE  LET w == Cardinality(Used) + 1 IN
         /\ write' \in [Writes -> {Unused} \cup CallRecords]
         /\ w \in Writes \ Used /\ write'[w].left = Replicas(write'[w].by)
         /\ write'[w].st # "ended" /\ write'[w].after = Ended
         /\ \A u \in Used : write'[u] = write[u]
         /\ Used' = Used \cup {w} /\ Ended' = Ended
         /\ Keeps /\ NoHoles'
<1> DEFINE w == Cardinality(Used) + 1
           r == [st |-> st, by |-> n, kind |-> kind, left |-> Replicas(n), after |-> Ended]
<1>1. w \in Writes /\ write' = [write EXCEPT ![w] = r]
  BY DEF Begin
<1>2. w \notin Used /\ \E k \in Nat : Used \cup {w} = 1 .. k
  BY NextIsFree
<1>3. Ended \subseteq Writes
  BY CallType
<1>4. r \in CallRecords
  BY <1>3, ReplicasAreNodes DEF CallRecords
<1>5. r.left = Replicas(r.by) /\ r.st # "ended" /\ r.after = Ended
  OBVIOUS
<1> HIDE DEF w, r
<1>6. /\ write' \in [Writes -> {Unused} \cup CallRecords]
      /\ write'[w] = r /\ \A u \in Writes \ {w} : write'[u] = write[u]
  BY <1>1, <1>4, CallType
<1>7. \A u \in Used : write'[u] = write[u]
  BY <1>2, <1>6, CallType
<1>8. Used' = Used \cup {w}
  BY <1>1, <1>4, <1>6, Unlike, CallType DEF Used
<1>9. Ended' = Ended
  BY <1>2, <1>5, <1>6, <1>7, <1>8 DEF Ended
<1>10. Keeps
  BY <1>7, <1>8, <1>9 DEF Keeps
<1>11. NoHoles'
  BY <1>2, <1>8 DEF NoHoles
<1> QED
  BY <1>1, <1>2, <1>5, <1>6, <1>7, <1>8, <1>9, <1>10, <1>11 DEF w

\* A crash cuts calls, and changes nothing else of them.
LEMMA CrashChanges ==
  ASSUME TypeOK, NEW n \in Nodes, Crash(n)
  PROVE  /\ write' \in [Writes -> {Unused} \cup CallRecords]
         /\ \A u \in Used : /\ write'[u].left = write[u].left
                            /\ write[u].st # "ended" => write'[u].st # "ended"
         /\ Used' = Used /\ Ended' = Ended /\ Keeps
<1> DEFINE IsCut(u) == u \in Used /\ write[u].by = n /\ write[u].st \in {"put", "storing"}
           r(u) == [write[u] EXCEPT !.st = "cut"]
<1>1. write' = [u \in Writes |-> IF IsCut(u) THEN r(u) ELSE write[u]]
  BY DEF Crash
<1>2. \A u \in Used : /\ r(u) \in CallRecords /\ r(u).st = "cut"
                      /\ r(u).by = write[u].by /\ r(u).kind = write[u].kind
                      /\ r(u).left = write[u].left /\ r(u).after = write[u].after
  BY CallType DEF CallRecords
<1>3. \A u \in Used : IsCut(u) => write[u].st # "ended"
  OBVIOUS
<1> HIDE DEF r
<1>4. /\ \A u \in Used : write'[u] = IF IsCut(u) THEN r(u) ELSE write[u]
      /\ \A u \in Writes \ Used : write'[u] = write[u]
  BY <1>1, CallType
<1>5. write' \in [Writes -> {Unused} \cup CallRecords]
  BY <1>1, <1>2, CallType
<1>6. \A u \in Used : write'[u] # Unused
  BY <1>2, <1>4, Unlike DEF Used
<1>7. Used' = Used
  BY <1>4, <1>6, CallType DEF Used
<1> HIDE DEF IsCut
<1>8. Ended' = Ended
  BY <1>2, <1>3, <1>4, <1>7 DEF Ended
<1>9. \A u \in Ended : write'[u] = write[u]
  BY <1>3, <1>4 DEF Ended
<1>10. Keeps
  BY <1>2, <1>4, <1>7, <1>8, <1>9 DEF Keeps
<1> QED
  BY <1>2, <1>3, <1>4, <1>5, <1>7, <1>8, <1>10

-----------------------------------------------------------------------------

\* The actions of a call that change its record only, and what becomes of it.
LEMMA PutBlobChanges ==
  ASSUME TypeOK, NEW w \in Writes, PutBlob(w)
  PROVE  /\ write' \in [Writes -> {Unused} \cup CallRecords]
         /\ w \in Used /\ write'[w].left = write[w].left /\ \A u \in Used \ {w} : write'[u] = write[u]
         /\ Used' = Used /\ Ended' = Ended /\ Keeps
         /\ write'[w].st # "ended"
<1>1. w \in Used /\ write[w] \in CallRecords /\ write[w].st = "put"
  BY CallType DEF PutBlob
<1>2. PICK st \in {"storing", "cut"} : write' = [write EXCEPT ![w].st = st]
  BY DEF PutBlob
<1> DEFINE r == [write[w] EXCEPT !.st = st]
<1>3. /\ r \in CallRecords /\ r.st = st /\ r.left = write[w].left
      /\ r.by = write[w].by /\ r.kind = write[w].kind /\ r.after = write[w].after
  BY <1>1 DEF CallRecords
<1>4. write' = [write EXCEPT ![w] = r]
  BY <1>2
<1> HIDE DEF r
<1> QED
  BY <1>1, <1>3, <1>4, OneChanges

LEMMA StoreChanges ==
  ASSUME TypeOK, NEW w \in Writes, NEW n \in Nodes, Storing(w, n), StoreEnds(w, n)
  PROVE  /\ write' \in [Writes -> {Unused} \cup CallRecords]
         /\ w \in Used \ Ended /\ n \in write[w].left /\ write'[w].left = write[w].left \ {n}
         /\ \A u \in Used \ {w} : write'[u] = write[u]
         /\ Used' = Used /\ Ended' = Ended /\ Keeps
         /\ write'[w].st # "ended"
<1>1. w \in Used /\ write[w] \in CallRecords /\ write[w].st = "storing" /\ n \in write[w].left
  BY CallType DEF Storing
<1> DEFINE r == [write[w] EXCEPT !.left = @ \ {n}]
<1>2. /\ r \in CallRecords /\ r.st = "storing" /\ r.left = write[w].left \ {n}
      /\ r.by = write[w].by /\ r.kind = write[w].kind /\ r.after = write[w].after
  BY <1>1 DEF CallRecords
<1>3. write' = [write EXCEPT ![w] = r]
  BY DEF StoreEnds
<1> HIDE DEF r
<1>4. w \notin Ended
  BY <1>1 DEF Ended
<1> QED
  BY <1>1, <1>2, <1>3, <1>4, OneChanges

LEMMA ReturnChanges ==
  ASSUME TypeOK, NEW w \in Writes, StoreReturns(w)
  PROVE  /\ write' \in [Writes -> {Unused} \cup CallRecords]
         /\ w \in Used /\ write'[w].left = {} /\ write[w].left = {}
         /\ \A u \in Used \ {w} : write'[u] = write[u]
         /\ Used' = Used /\ Ended \subseteq Ended' /\ Keeps
<1>1. w \in Used /\ write[w] \in CallRecords /\ write[w].st = "storing" /\ write[w].left = {}
  BY CallType DEF StoreReturns
<1> DEFINE r == [write[w] EXCEPT !.st = "ended"]
<1>2. /\ r \in CallRecords /\ r.left = {}
      /\ r.by = write[w].by /\ r.kind = write[w].kind /\ r.after = write[w].after
  BY <1>1 DEF CallRecords
<1>3. write' = [write EXCEPT ![w] = r]
  BY DEF StoreReturns
<1> HIDE DEF r
<1> QED
  BY <1>1, <1>2, <1>3, OneChanges

\* Whatever happens, a call that has begun is not forgotten.
LEMMA NothingForgotten ==
  ASSUME TypeOK, NoHoles, [Next]_vars
  PROVE  Keeps /\ NoHoles' /\ Ended \subseteq Ended'
<1>1. Keeps /\ NoHoles' => Ended \subseteq Ended'
  BY DEF Keeps, Ended
<1>2. ASSUME UNCHANGED write PROVE Keeps /\ NoHoles'
  BY <1>2, KeepsIfSame DEF NoHoles
<1>3. ASSUME Used' = Used PROVE NoHoles'
  BY <1>3 DEF NoHoles
<1>4. ASSUME NEW n \in Nodes, StoreValue(n) PROVE Keeps /\ NoHoles'
  BY <1>4, BeginChanges DEF StoreValue
<1>5. ASSUME NEW n \in Nodes, StoreBlob(n) PROVE Keeps /\ NoHoles'
  BY <1>5, BeginChanges DEF StoreBlob
<1>6. ASSUME NEW w \in Writes, PutBlob(w) PROVE Keeps /\ NoHoles'
  BY <1>3, <1>6, PutBlobChanges
<1>7. ASSUME NEW w \in Writes, NEW n \in Nodes, StoreAt(w, n) \/ StoreFails(w, n) \/ PutFails(w, n) PROVE Keeps /\ NoHoles'
  BY <1>3, <1>7, StoreChanges DEF StoreAt, StoreFails, PutFails
<1>8. ASSUME NEW w \in Writes, StoreReturns(w) PROVE Keeps /\ NoHoles'
  BY <1>3, <1>8, ReturnChanges
<1>9. ASSUME NEW n \in Nodes, Crash(n) PROVE Keeps /\ NoHoles'
  BY <1>3, <1>9, CrashChanges
<1>10. ASSUME NEW n \in Nodes, FindValue(n) \/ Answer(n) \/ AnswerFails(n) \/ Restart(n)
       PROVE  UNCHANGED write
  BY <1>10 DEF FindValue, Answer, AnswerFails, Restart
<1>11. ASSUME Ask \/ FindReturns \/ FetchBlob \/ UNCHANGED vars PROVE UNCHANGED write
  BY <1>11 DEF Ask, FindReturns, FetchBlob, vars
<1> QED
  BY <1>1, <1>2, <1>4, <1>5, <1>6, <1>7, <1>8, <1>9, <1>10, <1>11 DEF Next

-----------------------------------------------------------------------------

LEMMA TypeHolds ==
  ASSUME Init
  PROVE  TypeOK
BY StoreBounds DEF Init, TypeOK, Values, NoValue, NoRead, Nodes

LEMMA CallsTyped ==
  ASSUME TypeOK, NoHoles, [Next]_vars
  PROVE  write' \in [Writes -> {Unused} \cup CallRecords]
<1>1. ASSUME NEW n \in Nodes, StoreValue(n) \/ StoreBlob(n)
      PROVE  write' \in [Writes -> {Unused} \cup CallRecords]
  BY <1>1, BeginChanges DEF StoreValue, StoreBlob
<1>2. ASSUME NEW w \in Writes, NEW n \in Nodes, StoreAt(w, n) \/ StoreFails(w, n) \/ PutFails(w, n)
      PROVE  write' \in [Writes -> {Unused} \cup CallRecords]
  BY <1>2, StoreChanges DEF StoreAt, StoreFails, PutFails
<1>3. ASSUME NEW w \in Writes, PutBlob(w) \/ StoreReturns(w)
      PROVE  write' \in [Writes -> {Unused} \cup CallRecords]
  BY <1>3, PutBlobChanges, ReturnChanges
<1>4. ASSUME NEW n \in Nodes, Crash(n)
      PROVE  write' \in [Writes -> {Unused} \cup CallRecords]
  BY <1>4, CrashChanges
<1>5. ASSUME NEW n \in Nodes, FindValue(n) \/ Answer(n) \/ AnswerFails(n) \/ Restart(n)
      PROVE  UNCHANGED write
  BY <1>5 DEF FindValue, Answer, AnswerFails, Restart
<1>6. ASSUME Ask \/ FindReturns \/ FetchBlob \/ UNCHANGED vars PROVE UNCHANGED write
  BY <1>6 DEF Ask, FindReturns, FetchBlob, vars
<1> QED
  BY <1>1, <1>2, <1>3, <1>4, <1>5, <1>6, CallType DEF Next

LEMMA StoresTyped ==
  ASSUME TypeOK, [Next]_vars
  PROVE  /\ storage' \in [Nodes -> Values]
         /\ blobs' \in [Nodes -> SUBSET Writes]
         /\ durable' = durable /\ durable' \in BOOLEAN
<1> USE DEF TypeOK
<1>1. ASSUME NEW w \in Writes, PutBlob(w)
      PROVE  /\ storage' = storage /\ durable' = durable
             /\ blobs' \in [Nodes -> SUBSET Writes]
  <2>1. write[w].by \in Nodes
    BY <1>1, CallType DEF PutBlob, CallRecords
  <2> QED
    BY <1>1, <2>1 DEF PutBlob
<1>2. ASSUME NEW w \in Writes, NEW n \in Nodes, StoreAt(w, n) \/ StoreFails(w, n) \/ PutFails(w, n)
      PROVE  /\ storage' \in {storage, [storage EXCEPT ![n] = w], [storage EXCEPT ![n] = NoValue]}
             /\ durable' = durable /\ blobs' = blobs
  BY <1>2 DEF StoreAt, StoreFails, PutFails
<1>3. ASSUME NEW n \in Nodes, Crash(n)
      PROVE  /\ storage' \in {storage, [storage EXCEPT ![n] = NoValue]}
             /\ durable' = durable /\ blobs' = blobs
  BY <1>3 DEF Crash
<1>4. ASSUME NEW n \in Nodes, StoreValue(n) \/ StoreBlob(n) PROVE UNCHANGED stores
  BY <1>4 DEF StoreValue, StoreBlob, Begin
<1>5. ASSUME NEW w \in Writes, StoreReturns(w) PROVE UNCHANGED stores
  BY <1>5 DEF StoreReturns
<1>6. ASSUME NEW n \in Nodes, FindValue(n) \/ Answer(n) \/ AnswerFails(n) \/ Restart(n)
      PROVE  UNCHANGED stores
  BY <1>6 DEF FindValue, Answer, AnswerFails, Restart
<1>7. ASSUME Ask \/ FindReturns \/ FetchBlob \/ UNCHANGED vars PROVE UNCHANGED stores
  BY <1>7 DEF Ask, FindReturns, FetchBlob, vars, stores
<1> QED
  BY <1>1, <1>2, <1>3, <1>4, <1>5, <1>6, <1>7 DEF Next, Values, stores

LEMMA ReadTyped ==
  ASSUME TypeOK, [Next]_vars
  PROVE  read' \in {NoRead} \cup ReadRecords
<1> DEFINE T == {NoRead} \cup ReadRecords
<1>1. ASSUME NEW n \in Nodes, FindValue(n) PROVE read' \in T
  <2>1. storage[n] \in Values /\ Ended \subseteq Writes
    BY CallType DEF TypeOK
  <2> QED
    BY <1>1, <2>1 DEF FindValue, ReadRecords
<1>2. ASSUME Ask PROVE read' \in T
  <2>1. read \in ReadRecords /\ Nearest(Unvisited, Alpha) \subseteq Nodes
    BY <1>2, ReadType DEF Ask, Asking, Nearest, Unvisited
  <2> QED
    BY <1>2, <2>1 DEF Ask, ReadRecords
<1>3. ASSUME NEW n \in Nodes, Answer(n) PROVE read' \in T
  <2>1. read \in ReadRecords /\ storage[n] \in Values
    BY <1>3, ReadType DEF Answer, Asking, TypeOK
  <2> QED
    BY <1>3, <2>1 DEF Answer, ReadRecords
<1>4. ASSUME NEW n \in Nodes, AnswerFails(n) PROVE read' \in T
  <2>1. read \in ReadRecords
    BY <1>4, ReadType DEF AnswerFails, Asking
  <2> QED
    BY <1>4, <2>1 DEF AnswerFails, ReadRecords
<1>5. ASSUME FindReturns PROVE read' \in T
  <2>1. read \in ReadRecords
    BY <1>5, ReadType DEF FindReturns, Asking
  <2> QED
    BY <1>5, <2>1 DEF FindReturns, ReadRecords
<1>6. ASSUME FetchBlob PROVE read' \in T
  <2>1. read \in ReadRecords
    BY <1>6, ReadType DEF FetchBlob
  <2>2. \E b \in {"ok", "failed"} : read' = [read EXCEPT !.blob = b]
    BY <1>6 DEF FetchBlob
  <2> QED
    BY <2>1, <2>2 DEF ReadRecords
<1>7. ASSUME NEW n \in Nodes, Crash(n) PROVE read' \in T
  BY <1>7, ReadType DEF Crash
<1>8. ASSUME NEW n \in Nodes, StoreValue(n) \/ StoreBlob(n) \/ Restart(n) PROVE UNCHANGED read
  BY <1>8 DEF StoreValue, StoreBlob, Begin, Restart
<1>9. ASSUME NEW w \in Writes, PutBlob(w) \/ StoreReturns(w) PROVE UNCHANGED read
  BY <1>9 DEF PutBlob, StoreReturns
<1>10. ASSUME NEW w \in Writes, NEW n \in Nodes, StoreAt(w, n) \/ StoreFails(w, n) \/ PutFails(w, n) PROVE UNCHANGED read
  BY <1>10 DEF StoreAt, StoreFails, PutFails
<1> QED
  BY <1>1, <1>2, <1>3, <1>4, <1>5, <1>6, <1>7, <1>8, <1>9, <1>10, ReadType DEF Next, vars

\* Faults are counted, and nodes go down by a fault only.
LEMMA FaultsCounted ==
  ASSUME TypeOK, [Next]_vars
  PROVE  /\ up' \subseteq Nodes
         /\ lost' \in Nat /\ crashes' \in Nat /\ lost' + crashes' <= MaxFaults
         /\ lost <= lost' /\ crashes <= crashes'
         /\ crashes' = crashes => up \subseteq up'
<1> USE DEF TypeOK
<1>1. ASSUME NEW w \in Writes, NEW n \in Nodes, StoreFails(w, n) \/ PutFails(w, n)
      PROVE  up' = up /\ crashes' = crashes /\ (lost' = lost \/ (MayFail /\ lost' = lost + 1))
  BY <1>1 DEF StoreFails, PutFails
<1>2. ASSUME NEW n \in Nodes, AnswerFails(n)
      PROVE  up' = up /\ crashes' = crashes /\ (lost' = lost \/ (MayFail /\ lost' = lost + 1))
  BY <1>2 DEF AnswerFails
<1>3. ASSUME FetchBlob
      PROVE  up' = up /\ crashes' = crashes /\ (lost' = lost \/ (MayFail /\ lost' = lost + 1))
  BY <1>3 DEF FetchBlob
<1>4. ASSUME NEW n \in Nodes, Crash(n)
      PROVE  up' \subseteq Nodes /\ MayFail /\ lost' = lost /\ crashes' = crashes + 1
  BY <1>4 DEF Crash
<1>5. ASSUME NEW n \in Nodes, Restart(n)
      PROVE  up \subseteq up' /\ up' \subseteq Nodes /\ lost' = lost /\ crashes' = crashes
  BY <1>5 DEF Restart
<1>6. ASSUME NEW n \in Nodes, StoreValue(n) \/ StoreBlob(n) \/ FindValue(n) \/ Answer(n)
      PROVE  UNCHANGED <<up, lost, crashes>>
  BY <1>6 DEF StoreValue, StoreBlob, Begin, FindValue, Answer
<1>7. ASSUME NEW w \in Writes, PutBlob(w) \/ StoreReturns(w)
      PROVE  UNCHANGED <<up, lost, crashes>>
  BY <1>7 DEF PutBlob, StoreReturns
<1>8. ASSUME NEW w \in Writes, NEW n \in Nodes, StoreAt(w, n)
      PROVE  UNCHANGED <<up, lost, crashes>>
  BY <1>8 DEF StoreAt
<1>9. ASSUME Ask \/ FindReturns \/ UNCHANGED vars PROVE UNCHANGED <<up, lost, crashes>>
  BY <1>9 DEF Ask, FindReturns, vars
<1> QED
  BY <1>1, <1>2, <1>3, <1>4, <1>5, <1>6, <1>7, <1>8, <1>9, StoreBounds DEF Next, MayFail

LEMMA TypePreserved ==
  ASSUME TypeOK, NoHoles, [Next]_vars
  PROVE  TypeOK'
<1>1. /\ write' \in [Writes -> {Unused} \cup CallRecords]
      /\ read' \in {NoRead} \cup ReadRecords
  BY CallsTyped, ReadTyped
<1> QED
  BY <1>1, StoresTyped, FaultsCounted DEF TypeOK, CallRecords, ReadRecords

-----------------------------------------------------------------------------

LEMMA LifecyclePreserved ==
  ASSUME TypeOK, NoHoles, Lifecycle, [Next]_vars
  PROVE  Lifecycle'
<1> USE NothingForgotten
<1>1. \A u \in Used : write'[u].after \subseteq Ended'
  BY DEF Lifecycle, Keeps
<1>2. ASSUME Used' = Used, NEW w \in Used, \A u \in Used \ {w} : write'[u] = write[u],
             write'[w].left \subseteq write[w].left,
             write'[w].st # "ended" \/ write'[w].left = {}
      PROVE  Lifecycle'
  BY <1>1, <1>2 DEF Lifecycle, Keeps
<1>3. ASSUME NEW n \in Nodes, StoreValue(n) \/ StoreBlob(n) PROVE Lifecycle'
  BY <1>1, <1>3, BeginChanges DEF StoreValue, StoreBlob, Lifecycle
<1>4. ASSUME NEW w \in Writes, PutBlob(w) PROVE Lifecycle'
  BY <1>2, <1>4, PutBlobChanges
<1>5. ASSUME NEW w \in Writes, NEW n \in Nodes, StoreAt(w, n) \/ StoreFails(w, n) \/ PutFails(w, n) PROVE Lifecycle'
  BY <1>2, <1>5, StoreChanges DEF StoreAt, StoreFails, PutFails
<1>6. ASSUME NEW w \in Writes, StoreReturns(w) PROVE Lifecycle'
  BY <1>2, <1>6, ReturnChanges
<1>7. ASSUME NEW n \in Nodes, Crash(n) PROVE Lifecycle'
  BY <1>1, <1>7, CrashChanges DEF Lifecycle, Keeps
<1>8. ASSUME UNCHANGED write PROVE Lifecycle'
  BY <1>8, KeepsIfSame DEF Lifecycle
<1>9. ASSUME NEW n \in Nodes, FindValue(n) \/ Answer(n) \/ AnswerFails(n) \/ Restart(n)
      PROVE  UNCHANGED write
  BY <1>9 DEF FindValue, Answer, AnswerFails, Restart
<1>10. ASSUME Ask \/ FindReturns \/ FetchBlob \/ UNCHANGED vars PROVE UNCHANGED write
  BY <1>10 DEF Ask, FindReturns, FetchBlob, vars
<1> QED
  BY <1>3, <1>4, <1>5, <1>6, <1>7, <1>8, <1>9, <1>10 DEF Next

\* What a step does to the storages: a Store puts its number, or fails to, and a
\* crash empties.
LEMMA StorageSteps ==
  ASSUME TypeOK, [Next]_vars
  PROVE  \/ storage' = storage
         \/ \E w \in Writes, n \in Nodes :
              /\ Storing(w, n) /\ StoreEnds(w, n) /\ storage' = [storage EXCEPT ![n] = w]
              /\ n \in up /\ up' = up
         \/ \E n \in Nodes : /\ storage' = [storage EXCEPT ![n] = NoValue]
                             /\ \/ crashes' = crashes + 1 /\ up' = up \ {n}
                                \/ durable /\ lost' = lost + 1 /\ up' = up
<1>1. ASSUME NEW w \in Writes, NEW n \in Nodes, StoreAt(w, n) \/ StoreFails(w, n) \/ PutFails(w, n)
      PROVE  \/ storage' = storage
             \/ /\ Storing(w, n) /\ StoreEnds(w, n) /\ storage' = [storage EXCEPT ![n] = w]
                /\ n \in up /\ up' = up
             \/ /\ storage' = [storage EXCEPT ![n] = NoValue]
                /\ durable /\ lost' = lost + 1 /\ up' = up
  BY <1>1 DEF StoreAt, StoreFails, PutFails
<1>2. ASSUME NEW n \in Nodes, Crash(n)
      PROVE  \/ storage' = storage
             \/ /\ storage' = [storage EXCEPT ![n] = NoValue]
                /\ crashes' = crashes + 1 /\ up' = up \ {n}
  BY <1>2 DEF Crash
<1>3. ASSUME NEW n \in Nodes, StoreValue(n) \/ StoreBlob(n) \/ FindValue(n) \/ Answer(n)
                              \/ AnswerFails(n) \/ Restart(n)
      PROVE  storage' = storage
  BY <1>3 DEF StoreValue, StoreBlob, Begin, FindValue, Answer, AnswerFails, Restart, stores
<1>4. ASSUME NEW w \in Writes, PutBlob(w) \/ StoreReturns(w) PROVE storage' = storage
  BY <1>4 DEF PutBlob, StoreReturns, stores
<1>5. ASSUME Ask \/ FindReturns \/ FetchBlob \/ UNCHANGED vars PROVE storage' = storage
  BY <1>5 DEF Ask, FindReturns, FetchBlob, vars, stores
<1> QED
  BY <1>1, <1>2, <1>3, <1>4, <1>5 DEF Next

LEMMA PlacedPreserved ==
  ASSUME TypeOK, NoHoles, Placed, Lifecycle, [Next]_vars
  PROVE  Placed'
<1> USE NothingForgotten
<1>1. CASE storage' = storage
  BY <1>1 DEF Placed, Keeps
<1>2. ASSUME NEW w \in Writes, NEW n \in Nodes, Storing(w, n), storage' = [storage EXCEPT ![n] = w]
      PROVE  Placed'
  <2>1. w \in Used /\ n \in Replicas(write[w].by)
    BY <1>2 DEF Storing, Lifecycle
  <2>2. \A m \in Nodes : storage'[m] = IF m = n THEN w ELSE storage[m]
    BY <1>2 DEF TypeOK
  <2> QED
    BY <2>1, <2>2 DEF Placed, Keeps
<1>3. ASSUME NEW n \in Nodes, storage' = [storage EXCEPT ![n] = NoValue]
      PROVE  Placed'
  <2>1. \A m \in Nodes : storage'[m] = IF m = n THEN NoValue ELSE storage[m]
    BY <1>3 DEF TypeOK
  <2> QED
    BY <2>1 DEF Placed, Keeps
<1> QED
  BY <1>1, <1>2, <1>3, StorageSteps

LEMMA DownIsEmptyPreserved ==
  ASSUME TypeOK, DownIsEmpty, [Next]_vars
  PROVE  DownIsEmpty'
<1>1. crashes' = 0 => crashes = 0 /\ crashes' = crashes
  BY FaultsCounted DEF TypeOK
<1>2. crashes' = 0 => up' = Nodes
  BY <1>1, FaultsCounted DEF DownIsEmpty
<1>3. durable' = durable
  BY StoresTyped
<1>4. CASE up \subseteq up' /\ storage' = storage
  BY <1>2, <1>3, <1>4 DEF DownIsEmpty
<1>5. ASSUME NEW w \in Writes, NEW n \in Nodes, n \in up, up' = up, storage' = [storage EXCEPT ![n] = w]
      PROVE  DownIsEmpty'
  <2>1. \A m \in Nodes \ up' : storage'[m] = storage[m]
    BY <1>5 DEF TypeOK
  <2> QED
    BY <1>2, <1>3, <1>5, <2>1 DEF DownIsEmpty
<1>6. ASSUME NEW n \in Nodes, ~durable, up' = up \ {n}, storage' = [storage EXCEPT ![n] = NoValue]
      PROVE  DownIsEmpty'
  <2>1. \A m \in Nodes : storage'[m] = IF m = n THEN NoValue ELSE storage[m]
    BY <1>6 DEF TypeOK
  <2> QED
    BY <1>2, <1>3, <1>6, <2>1 DEF DownIsEmpty
<1>7. CASE durable
  BY <1>2, <1>3, <1>7 DEF DownIsEmpty
<1>8. ~durable /\ storage' = storage => up \subseteq up' \/ \E n \in Nodes : up' = up \ {n} /\ storage' = [storage EXCEPT ![n] = NoValue]
  <2>1. ASSUME NEW n \in Nodes, Crash(n), ~durable
        PROVE  up' = up \ {n} /\ storage' = [storage EXCEPT ![n] = NoValue]
    BY <2>1 DEF Crash
  <2>2. ASSUME NEW n \in Nodes, StoreValue(n) \/ StoreBlob(n) \/ FindValue(n) \/ Answer(n)
                                \/ AnswerFails(n) \/ Restart(n)
        PROVE  up \subseteq up'
    BY <2>2 DEF StoreValue, StoreBlob, Begin, FindValue, Answer, AnswerFails, Restart
  <2>3. ASSUME NEW w \in Writes, PutBlob(w) \/ StoreReturns(w) PROVE up' = up
    BY <2>3 DEF PutBlob, StoreReturns
  <2>4. ASSUME NEW w \in Writes, NEW n \in Nodes, StoreAt(w, n) \/ StoreFails(w, n) \/ PutFails(w, n) PROVE up' = up
    BY <2>4 DEF StoreAt, StoreFails, PutFails
  <2>5. ASSUME Ask \/ FindReturns \/ FetchBlob \/ UNCHANGED vars PROVE up' = up
    BY <2>5 DEF Ask, FindReturns, FetchBlob, vars
  <2> QED
    BY <2>1, <2>2, <2>3, <2>4, <2>5 DEF Next
<1> QED
  BY <1>4, <1>5, <1>6, <1>7, <1>8, StorageSteps

\* A replica that a call has reached had been reached before, or it stores the
\* value just now, or is passed over because it is down or a message is lost.
LEMMA ReachedSteps ==
  ASSUME TypeOK, NoHoles, Lifecycle, [Next]_vars, NEW u \in Used', NEW n \in Reached(u)'
  PROVE  /\ u \in Used /\ n \in Nodes
         /\ \/ n \in Reached(u)
            \/ storage'[n] = u /\ u \notin Ended
            \/ n \notin up /\ storage' = storage
            \/ lost' = lost + 1
<1> USE DEF Reached
<1>1. n \in Nodes
  BY ReplicasAreNodes
<1>2. ASSUME NEW m \in Nodes, StoreValue(m) \/ StoreBlob(m)
      PROVE  u \in Used /\ n \in Reached(u)
  BY <1>2, BeginChanges DEF StoreValue, StoreBlob
<1>3. ASSUME NEW w \in Writes, PutBlob(w) \/ StoreReturns(w)
      PROVE  u \in Used /\ n \in Reached(u)
  <2>1. Keeps /\ Used' = Used /\ write'[w].left = write[w].left /\ \A v \in Used \ {w} : write'[v] = write[v]
    BY <1>3, PutBlobChanges, ReturnChanges
  <2> QED
    BY <2>1 DEF Keeps
<1>4. ASSUME NEW w \in Writes, NEW m \in Nodes, StoreAt(w, m) \/ StoreFails(w, m) \/ PutFails(w, m)
      PROVE  /\ u \in Used
             /\ \/ n \in Reached(u)
                \/ storage'[n] = u /\ u \notin Ended
                \/ n \notin up /\ storage' = storage
                \/ lost' = lost + 1
  <2>1. /\ Keeps /\ Used' = Used /\ w \in Used \ Ended /\ write'[w].left = write[w].left \ {m}
        /\ \A v \in Used \ {w} : write'[v] = write[v]
    BY <1>4, StoreChanges DEF StoreAt, StoreFails, PutFails
  <2>2. u \in Used /\ (n \in Reached(u) \/ (u = w /\ n = m))
    BY <2>1 DEF Keeps
  <2>3. StoreAt(w, m) => storage'[m] = w
    BY DEF StoreAt, TypeOK
  <2>4. StoreFails(w, m) \/ PutFails(w, m) => (m \notin up /\ storage' = storage) \/ lost' = lost + 1
    BY DEF StoreFails, PutFails
  <2> QED
    BY <1>4, <2>1, <2>2, <2>3, <2>4
<1>5. ASSUME NEW m \in Nodes, Crash(m)
      PROVE  u \in Used /\ n \in Reached(u)
  BY <1>5, CrashChanges DEF Keeps
<1>6. ASSUME UNCHANGED write PROVE u \in Used /\ n \in Reached(u)
  BY <1>6, KeepsIfSame
<1>7. ASSUME NEW m \in Nodes, FindValue(m) \/ Answer(m) \/ AnswerFails(m) \/ Restart(m)
      PROVE  UNCHANGED write
  BY <1>7 DEF FindValue, Answer, AnswerFails, Restart
<1>8. ASSUME Ask \/ FindReturns \/ FetchBlob \/ UNCHANGED vars PROVE UNCHANGED write
  BY <1>8 DEF Ask, FindReturns, FetchBlob, vars
<1> QED
  BY <1>1, <1>2, <1>3, <1>4, <1>5, <1>6, <1>7, <1>8 DEF Next

\* The value of a node stays, is lost, or becomes that of a call that goes on.
LEMMA ValueSteps ==
  ASSUME TypeOK, [Next]_vars, NEW n \in Nodes
  PROVE  \/ storage'[n] = storage[n]
         \/ storage'[n] = NoValue /\ (crashes' = crashes + 1 \/ lost' = lost + 1)
         \/ storage'[n] \in Used \ Ended
<1>1. ASSUME NEW w \in Writes, NEW m \in Nodes, Storing(w, m), storage' = [storage EXCEPT ![m] = w]
      PROVE  storage'[n] = storage[n] \/ storage'[n] \in Used \ Ended
  BY <1>1 DEF Storing, Ended, TypeOK
<1>2. ASSUME NEW m \in Nodes, storage' = [storage EXCEPT ![m] = NoValue]
      PROVE  storage'[n] = storage[n] \/ storage'[n] = NoValue
  BY <1>2 DEF TypeOK
<1> QED
  BY <1>1, <1>2, StorageSteps

\* Faults only add up.
LEMMA QuietBefore ==
  ASSUME TypeOK, [Next]_vars
  PROVE  /\ Quiet' => Quiet /\ lost' # lost + 1 /\ (durable => crashes' # crashes + 1)
         /\ lost' + crashes' = 0 => lost + crashes = 0 /\ lost' # lost + 1 /\ crashes' # crashes + 1
BY FaultsCounted, StoresTyped DEF TypeOK, Quiet

LEMMA NotOverwrittenPreserved ==
  ASSUME TypeOK, NoHoles, Lifecycle, DownIsEmpty, NotOverwritten, [Next]_vars
  PROVE  NotOverwritten'
<1> SUFFICES ASSUME Quiet', NEW u \in Used', NEW n \in Reached(u)'
             PROVE  storage'[n] \notin write'[u].after
  BY DEF NotOverwritten
<1>1. u \in Used /\ n \in Nodes /\ write'[u].after = write[u].after /\ Quiet /\ lost' # lost + 1
  BY ReachedSteps, NothingForgotten, QuietBefore DEF Keeps
<1>2. write[u].after \subseteq Ended /\ NoValue \notin Ended
  BY <1>1, CallType DEF Lifecycle, Ended
<1>3. n \in Reached(u) => storage[n] \notin write[u].after
  BY <1>1 DEF NotOverwritten
<1>4. n \notin up => storage[n] = NoValue
  BY <1>1 DEF DownIsEmpty, Quiet
<1> QED
  BY <1>1, <1>2, <1>3, <1>4, ReachedSteps, ValueSteps

LEMMA PresentPreserved ==
  ASSUME TypeOK, NoHoles, Lifecycle, DownIsEmpty, Present, [Next]_vars
  PROVE  Present'
<1> SUFFICES ASSUME lost' + crashes' = 0, NEW u \in Used', NEW n \in Reached(u)'
             PROVE  storage'[n] # NoValue
  BY DEF Present
<1>1. /\ u \in Used /\ n \in Nodes /\ lost + crashes = 0
      /\ lost' # lost + 1 /\ crashes' # crashes + 1
  BY ReachedSteps, QuietBefore
<1>2. NoValue \notin Used
  BY CallType
<1>3. n \in Reached(u) => storage[n] # NoValue
  BY <1>1 DEF Present
<1>4. n \in up
  BY <1>1 DEF DownIsEmpty, TypeOK
<1> QED
  BY <1>1, <1>2, <1>3, <1>4, ReachedSteps, ValueSteps

-----------------------------------------------------------------------------

\* What node n has is fresh for a reader that knows of B.
LEMMA StoredIsFresh ==
  ASSUME TypeOK, Lifecycle, Placed, NotOverwritten, Quiet,
         NEW n \in Nodes, storage[n] # NoValue, NEW B \in SUBSET Ended
  PROVE  storage[n] \in Used /\ Fresh(storage[n], B)
<1>1. storage[n] \in Used /\ n \in Replicas(write[storage[n]].by)
  BY DEF Placed
<1>2. ASSUME NEW u \in B, n \in Replicas(write[u].by)
      PROVE  storage[n] \notin write[u].after
  <2>1. u \in Used /\ write[u].left = {}
    BY DEF Lifecycle, Ended
  <2> QED
    BY <1>2, <2>1 DEF NotOverwritten, Reached
<1> QED
  BY <1>1, <1>2 DEF Fresh

LEMMA FreshPreserved ==
  ASSUME TypeOK, NoHoles, [Next]_vars,
         NEW v \in Used, NEW B \in SUBSET Ended, Fresh(v, B)
  PROVE  v \in Used' /\ Fresh(v, B)'
<1>1. v \in Used' /\ write'[v].by = write[v].by
  BY NothingForgotten DEF Keeps
<1>2. \A u \in B : write'[u].by = write[u].by /\ write'[u].after = write[u].after
  BY NothingForgotten DEF Keeps, Ended
<1> QED
  BY <1>1, <1>2 DEF Fresh

\* What a step does to a read: it is new or over, goes on with what it has, or
\* gets the value of a node.
LEMMA ReadSteps ==
  ASSUME TypeOK, [Next]_vars
  PROVE  \/ read' = NoRead
         \/ /\ read # NoRead
            /\ read'.before = read.before /\ read'.got = read.got
         \/ /\ UNCHANGED <<stores, write, lost, crashes>>
            /\ \E n \in Nodes : read'.got = storage[n]
            /\ read'.before = Ended \/ (read # NoRead /\ read'.before = read.before)
<1> DEFINE GoesOn == read # NoRead /\ read'.before = read.before /\ read'.got = read.got
<1>1. ASSUME NEW n \in Nodes, FindValue(n)
      PROVE  /\ UNCHANGED <<stores, write, lost, crashes>>
             /\ read'.got = storage[n] /\ read'.before = Ended
  BY <1>1 DEF FindValue
<1>2. ASSUME NEW n \in Nodes, Answer(n)
      PROVE  \/ GoesOn
             \/ /\ UNCHANGED <<stores, write, lost, crashes>>
                /\ read'.got = storage[n] /\ read # NoRead /\ read'.before = read.before
  <2>1. read \in ReadRecords /\ read # NoRead
    BY <1>2, ReadType DEF Answer, Asking
  <2> QED
    BY <1>2, <2>1 DEF Answer, ReadRecords
<1>3. ASSUME Ask PROVE GoesOn
  <2>1. read \in ReadRecords /\ read # NoRead
    BY <1>3, ReadType DEF Ask, Asking
  <2> QED
    BY <1>3, <2>1 DEF Ask, ReadRecords
<1>4. ASSUME NEW n \in Nodes, AnswerFails(n) PROVE GoesOn
  <2>1. read \in ReadRecords /\ read # NoRead
    BY <1>4, ReadType DEF AnswerFails, Asking
  <2> QED
    BY <1>4, <2>1 DEF AnswerFails, ReadRecords
<1>5. ASSUME FindReturns PROVE GoesOn
  <2>1. read \in ReadRecords /\ read # NoRead
    BY <1>5, ReadType DEF FindReturns, Asking
  <2> QED
    BY <1>5, <2>1 DEF FindReturns, ReadRecords
<1>6. ASSUME FetchBlob PROVE GoesOn
  <2>1. read \in ReadRecords /\ read # NoRead
    BY <1>6, ReadType DEF FetchBlob
  <2>2. \E b \in {"ok", "failed"} : read' = [read EXCEPT !.blob = b]
    BY <1>6 DEF FetchBlob
  <2> QED
    BY <2>1, <2>2 DEF ReadRecords
<1>7. ASSUME UNCHANGED read PROVE GoesOn \/ read' = NoRead
  BY <1>7
<1>8. ASSUME NEW n \in Nodes, Crash(n) PROVE read' = NoRead \/ UNCHANGED read
  BY <1>8 DEF Crash
<1>9. ASSUME NEW n \in Nodes, StoreValue(n) \/ StoreBlob(n) \/ Restart(n) PROVE UNCHANGED read
  BY <1>9 DEF StoreValue, StoreBlob, Begin, Restart
<1>10. ASSUME NEW w \in Writes, PutBlob(w) \/ StoreReturns(w) PROVE UNCHANGED read
  BY <1>10 DEF PutBlob, StoreReturns
<1>11. ASSUME NEW w \in Writes, NEW n \in Nodes, StoreAt(w, n) \/ StoreFails(w, n) \/ PutFails(w, n) PROVE UNCHANGED read
  BY <1>11 DEF StoreAt, StoreFails, PutFails
<1> QED
  BY <1>1, <1>2, <1>3, <1>4, <1>5, <1>6, <1>7, <1>8, <1>9, <1>10, <1>11 DEF Next, vars

LEMMA ReadFreshPreserved ==
  ASSUME TypeOK, NoHoles, Lifecycle, Placed, NotOverwritten, ReadFresh, [Next]_vars
  PROVE  ReadFresh'
<1> SUFFICES ASSUME read' # NoRead
             PROVE  /\ read'.before \subseteq Ended'
                    /\ (Quiet' /\ read'.got # NoValue) =>
                         read'.got \in Used' /\ \E v \in {read'.got}, B \in {read'.before} : Fresh(v, B)'
  BY DEF ReadFresh, Fresh
<1>1. Ended \subseteq Ended' /\ Used \subseteq Used' /\ (Quiet' => Quiet)
  BY NothingForgotten, QuietBefore DEF Keeps
<1>2. CASE read # NoRead /\ read'.before = read.before /\ read'.got = read.got
  <2>1. read.before \subseteq Ended
    BY <1>2 DEF ReadFresh
  <2>2. ASSUME Quiet', read'.got # NoValue
        PROVE  \E v \in {read'.got}, B \in {read'.before} : v \in Used' /\ Fresh(v, B)'
    <3>1. read.got \in Used /\ Fresh(read.got, read.before)
      BY <1>1, <1>2, <2>2 DEF ReadFresh
    <3>2. PICK v \in {read.got}, B \in {read.before} : v \in Used /\ Fresh(v, B)
      BY <3>1
    <3>3. v \in Used' /\ Fresh(v, B)'
      BY <2>1, <3>2, FreshPreserved
    <3> QED
      BY <1>2, <3>2, <3>3
  <2> QED
    BY <1>1, <1>2, <2>1, <2>2
<1>3. CASE /\ UNCHANGED <<stores, write, lost, crashes>>
           /\ \E n \in Nodes : read'.got = storage[n]
           /\ read'.before = Ended \/ (read # NoRead /\ read'.before = read.before)
  <2>1. read'.before \subseteq Ended
    BY <1>3 DEF ReadFresh
  <2>2. ASSUME Quiet', read'.got # NoValue
        PROVE  \E v \in {read'.got}, B \in {read'.before} : v \in Used' /\ Fresh(v, B)'
    <3>1. PICK n \in Nodes : read'.got = storage[n]
      BY <1>3
    <3>2. PICK v \in {read'.got}, B \in {read'.before} : v = storage[n] /\ B \subseteq Ended
      BY <2>1, <3>1
    <3>3. v \in Used /\ Fresh(v, B)
      BY <1>1, <2>2, <3>1, <3>2, StoredIsFresh
    <3>4. v \in Used' /\ Fresh(v, B)'
      BY <3>2, <3>3, FreshPreserved
    <3> QED
      BY <3>2, <3>4
  <2> QED
    BY <1>1, <2>1, <2>2
<1> QED
  BY <1>2, <1>3, ReadSteps

-----------------------------------------------------------------------------

LEMMA InitInvariant ==
  ASSUME Init
  PROVE  IInv
<1>1. TypeOK /\ Used = {}
  BY TypeHolds DEF Init, Used
<1>2. NoHoles
  <2>1. {} = 1 .. 0
    OBVIOUS
  <2> QED
    BY <1>1, <2>1 DEF NoHoles
<1>3. Placed /\ DownIsEmpty /\ ReadFresh
  BY DEF Init, Placed, DownIsEmpty, ReadFresh
<1> QED
  BY <1>1, <1>2, <1>3 DEF IInv, Lifecycle, NotOverwritten, Present

LEMMA StepInvariant ==
  ASSUME IInv, [Next]_vars
  PROVE  IInv'
BY TypePreserved, NothingForgotten, LifecyclePreserved, PlacedPreserved, DownIsEmptyPreserved,
   NotOverwrittenPreserved, PresentPreserved, ReadFreshPreserved DEF IInv

LEMMA InvariantHolds == Spec => []IInv
BY InitInvariant, StepInvariant, PTL DEF Spec

\* Without faults the replicas of a call that has returned have its value or a
\* later one, and a value is where its writer stores it: what the Stores of
\* StoreValue (logic.go:37) bring about, in whatever order they arrive.
THEOREM ReplicasUpToDate == Spec => []StoredInv
<1>1. IInv => StoredInv
  <2> SUFFICES ASSUME IInv PROVE StoredInv
    OBVIOUS
  <2>1. ASSUME lost + crashes = 0, NEW u \in Ended, NEW n \in Replicas(write[u].by)
        PROVE  storage[n] \notin write[u].after \cup {NoValue}
    <3>1. u \in Used /\ n \in Reached(u)
      BY DEF IInv, Lifecycle, Ended, Reached
    <3>2. Quiet
      BY <2>1 DEF IInv, TypeOK, Quiet
    <3> QED
      BY <2>1, <3>1, <3>2 DEF IInv, NotOverwritten, Present
  <2> QED
    BY <2>1 DEF StoredInv, IInv, Placed
<1> QED
  BY <1>1, InvariantHolds, PTL

\* A FindValue returns a value that was overwritten before it began only when
\* the writers have other replicas, or something has failed: a replica that the
\* later call has stored at cannot be the one that the value came from.
THEOREM StaleOnlyFromOtherReplicas == Spec => []StaleNeedsOtherReplicas
<1>1. IInv => StaleNeedsOtherReplicas
  <2> SUFFICES ASSUME IInv, read.st = "done", lost = 0, durable => crashes = 0,
                      NEW u \in read.before, read.got \in write[u].after
               PROVE  ~(Replicas(write[read.got].by) \subseteq Replicas(write[u].by))
    BY DEF StaleNeedsOtherReplicas
  <2>1. read # NoRead /\ u \in Used /\ write[u] \in CallRecords
    BY ReadType, CallType DEF IInv, ReadFresh
  <2>2. read.got # NoValue
    BY <2>1, CallType DEF IInv, CallRecords
  <2>3. PICK n \in Replicas(write[read.got].by) :
          \A x \in read.before : n \in Replicas(write[x].by) => read.got \notin write[x].after
    BY <2>1, <2>2 DEF IInv, ReadFresh, Quiet, Fresh
  <2> QED
    BY <2>3
<1> QED
  BY <1>1, InvariantHolds, PTL

-----------------------------------------------------------------------------

\* C accounts for the faults so far: each of its nodes has crashed, a message to or
\* from it was lost, or its disk has failed.  Outside of C a replica that a call has reached has a
\* value, and a read without a value has still to ask it.
HasValue(C) == \A u \in Used : \A n \in Reached(u) \ C : storage[n] # NoValue

Covered(C) ==
  (read # NoRead /\ read.got = NoValue) =>
    \A u \in read.before : \A n \in Replicas(write[u].by) \ C :
      Asking /\ n \in read.left \cup Unvisited

Accounts(C) ==
  /\ Cardinality(C) <= lost + crashes /\ Nodes \ C \subseteq up
  /\ HasValue(C) /\ Covered(C)

FaultsAccounted == \E C \in SUBSET Nodes : Accounts(C)

LEMMA OneMore ==
  ASSUME NEW C \in SUBSET Nodes, NEW n \in Nodes
  PROVE  /\ IsFiniteSet(C) /\ Cardinality(C) \in Nat
         /\ C \cup {n} \in SUBSET Nodes
         /\ Cardinality(C \cup {n}) \in Nat
         /\ Cardinality(C \cup {n}) <= Cardinality(C) + 1
<1>1. IsFiniteSet(Nodes)
  BY StoreBounds, FS_Interval DEF Nodes
<1>2. IsFiniteSet(C) /\ Cardinality(C) \in Nat
  BY <1>1, FS_Subset, FS_CardinalityType
<1>3. Cardinality(C \cup {n}) = IF n \in C THEN Cardinality(C) ELSE Cardinality(C) + 1
  BY <1>2, FS_AddElement
<1> QED
  BY <1>2, <1>3

LEMMA UpTo ==
  ASSUME NEW k \in Nat
  PROVE  /\ IsFiniteSet(1 .. k) /\ Cardinality(1 .. k) = k
         /\ \A i \in 1 .. k : /\ IsFiniteSet((1 .. k) \ {i})
                              /\ Cardinality((1 .. k) \ {i}) = k - 1
<1>1. IsFiniteSet(1 .. k) /\ Cardinality(1 .. k) = k
  BY FS_Interval
<1> QED
  BY <1>1, FS_RemoveElement

\* Every writer stores at StoreK nodes when there are as many others.
LEMMA EnoughReplicas ==
  ASSUME N > StoreK, NEW w \in Nodes, NEW C \in SUBSET Nodes, Replicas(w) \subseteq C
  PROVE  StoreK <= Cardinality(C)
<1> DEFINE Below(m) == {j \in Nodes \ {w} : j < m}
           R == IF w <= StoreK THEN (1 .. StoreK + 1) \ {w} ELSE 1 .. StoreK
<1>1. StoreK \in Nat \ {0} /\ N \in Nat /\ w \in Nat
  BY StoreBounds DEF Nodes
<1>2. ASSUME NEW m \in R PROVE m \in Replicas(w)
  <2>1. m \in Nodes \ {w} /\ m \in 1 .. StoreK + 1
    BY <1>1 DEF Nodes
  <2>2. m - 1 \in Nat
    BY <1>1, <2>1
  <2>3. Cardinality(Below(m)) < StoreK
    <3>1. CASE w < m
      <4>1. Below(m) \subseteq (1 .. m - 1) \ {w} /\ w \in 1 .. m - 1
        BY <1>1, <2>1, <3>1 DEF Nodes
      <4>2. IsFiniteSet((1 .. m - 1) \ {w}) /\ Cardinality((1 .. m - 1) \ {w}) = m - 1 - 1
        BY <2>2, <4>1, UpTo
      <4>3. Cardinality(Below(m)) <= m - 1 - 1 /\ Cardinality(Below(m)) \in Nat
        BY <4>1, <4>2, FS_Subset, FS_CardinalityType
      <4> QED
        BY <1>1, <2>1, <4>3
    <3>2. CASE m < w
      <4>1. Below(m) \subseteq 1 .. m - 1 /\ m <= StoreK
        BY <1>1, <2>1, <3>2 DEF Nodes
      <4>2. Cardinality(Below(m)) <= m - 1 /\ Cardinality(Below(m)) \in Nat
        BY <4>1, <2>2, UpTo, FS_Subset, FS_CardinalityType
      <4> QED
        BY <1>1, <2>1, <4>1, <4>2
    <3> QED
      BY <1>1, <2>1, <3>1, <3>2 DEF Nodes
  <2> QED
    BY <2>1, <2>3 DEF Replicas, Nearest
<1>3. IsFiniteSet(R) /\ Cardinality(R) = StoreK
  <2>1. CASE w <= StoreK
    <3>1. PICK k \in Nat : k = StoreK + 1
      BY <1>1
    <3>2. w \in 1 .. k /\ k - 1 = StoreK
      BY <1>1, <2>1, <3>1 DEF Nodes
    <3>3. IsFiniteSet((1 .. k) \ {w}) /\ Cardinality((1 .. k) \ {w}) = StoreK
      BY <3>2, UpTo
    <3>4. R = (1 .. k) \ {w}
      BY <2>1, <3>1
    <3> QED
      BY <3>3, <3>4
  <2>2. CASE ~(w <= StoreK)
    BY <1>1, <2>2, UpTo
  <2> QED
    BY <2>1, <2>2
<1>4. IsFiniteSet(C) /\ R \subseteq C
  BY <1>2, OneMore
<1> HIDE DEF R
<1>5. Cardinality(R) <= Cardinality(C)
  BY <1>4, FS_Subset
<1> QED
  BY <1>3, <1>5

LEMMA ValueKept ==
  ASSUME TypeOK, [Next]_vars, NEW n \in Nodes, crashes' # crashes + 1, lost' # lost + 1, storage[n] # NoValue
  PROVE  storage'[n] # NoValue
BY ValueSteps, CallType

LEMMA HasValueKept ==
  ASSUME TypeOK, NoHoles, Lifecycle, [Next]_vars, lost' # lost + 1,
         NEW C \in SUBSET Nodes, NEW D \in SUBSET Nodes, C \subseteq D, Accounts(C),
         \A n \in Nodes \ D : storage[n] # NoValue => storage'[n] # NoValue
  PROVE  HasValue(D)'
<1> SUFFICES ASSUME NEW u \in Used', NEW n \in Reached(u)', n \notin D
             PROVE  storage'[n] # NoValue
  BY DEF HasValue
<1>1. /\ u \in Used /\ n \in Nodes \ D /\ u # NoValue
      /\ n \in Reached(u) \/ storage'[n] = u \/ n \notin up
  BY ReachedSteps, CallType
<1>2. n \in up /\ (n \in Reached(u) => storage[n] # NoValue)
  BY <1>1 DEF Accounts, HasValue
<1> QED
  BY <1>1, <1>2

LEMMA CoveredKept ==
  ASSUME TypeOK, NoHoles, [Next]_vars, ReadFresh, read' \in {read, NoRead},
         NEW C \in SUBSET Nodes, NEW D \in SUBSET Nodes, C \subseteq D, Covered(C)
  PROVE  Covered(D)'
<1>1. CASE read' = NoRead
  BY <1>1 DEF Covered
<1>2. CASE read' = read /\ read # NoRead
  <2>1. \A u \in read.before : write'[u].by = write[u].by
    BY <1>2, NothingForgotten DEF Keeps, ReadFresh, Ended
  <2>2. Asking' = Asking /\ Unvisited' = Unvisited
    BY <1>2 DEF Asking, Unvisited
  <2> QED
    BY <1>2, <2>1, <2>2 DEF Covered
<1> QED
  BY <1>1, <1>2

\* The calls of StoreValue and StoreBlob, and a node that comes back.
LEMMA CallsAccounted ==
  ASSUME TypeOK, NoHoles, Lifecycle, ReadFresh, [Next]_vars,
         UNCHANGED <<read, lost, crashes>>, up \subseteq up',
         NEW C \in SUBSET Nodes, Accounts(C)
  PROVE  Accounts(C)'
<1>1. lost' # lost + 1 /\ crashes' # crashes + 1
  BY DEF TypeOK
<1>2. HasValue(C)'
  BY <1>1, HasValueKept, ValueKept
<1>3. Covered(C)'
  BY CoveredKept DEF Accounts
<1> QED
  BY <1>2, <1>3 DEF Accounts

LEMMA StoreFailsAccounted ==
  ASSUME TypeOK, NoHoles, Lifecycle, ReadFresh, [Next]_vars,
         NEW w \in Writes, NEW m \in Nodes, StoreFails(w, m) \/ PutFails(w, m),
         NEW C \in SUBSET Nodes, Accounts(C)
  PROVE  FaultsAccounted'
<1>1. /\ read' = read /\ up' = up /\ crashes' = crashes /\ Storing(w, m) /\ StoreEnds(w, m)
      /\ storage' \in {storage, [storage EXCEPT ![m] = w], [storage EXCEPT ![m] = NoValue]}
  BY DEF StoreFails, PutFails
<1>2. CASE lost' = lost
  <2>1. Accounts(C)'
    BY <1>1, <1>2, CallsAccounted
  <2> QED
    BY <2>1 DEF FaultsAccounted
<1>3. CASE lost' = lost + 1
  <2> DEFINE D == C \cup {m}
  <2>1. D \in SUBSET Nodes /\ Cardinality(D) <= lost' + crashes'
    BY <1>1, <1>3, OneMore DEF TypeOK, Accounts
  <2>2. ASSUME NEW u \in Used', NEW n \in Reached(u)', n \notin D
        PROVE  storage'[n] # NoValue
    <3>1. /\ Used' = Used /\ w \in Used /\ write'[w].left = write[w].left \ {m}
          /\ \A v \in Used \ {w} : write'[v] = write[v]
          /\ write'[w].by = write[w].by
      BY <1>1, StoreChanges DEF Keeps
    <3>2. n \in Reached(u) /\ n \in Nodes /\ u \in Used
      BY <2>2, <3>1, ReplicasAreNodes DEF Reached
    <3>3. storage[n] # NoValue
      BY <2>2, <3>2 DEF Accounts, HasValue
    <3>4. storage'[n] = storage[n]
      BY <1>1, <2>2, <3>2 DEF TypeOK
    <3> QED
      BY <3>3, <3>4
  <2>3. Covered(D)'
    BY <1>1, <2>1, CoveredKept DEF Accounts
  <2> HIDE DEF D
  <2>4. HasValue(D)'
    BY <2>2 DEF HasValue
  <2>5. Nodes \ D \subseteq up'
    BY <1>1 DEF D, Accounts
  <2>6. Accounts(D)'
    BY <2>1, <2>3, <2>4, <2>5 DEF Accounts
  <2> QED
    BY <2>1, <2>6 DEF FaultsAccounted
<1> QED
  BY <1>2, <1>3 DEF StoreFails, PutFails

LEMMA CrashAccounted ==
  ASSUME TypeOK, NoHoles, Lifecycle, ReadFresh, [Next]_vars,
         NEW m \in Nodes, Crash(m), NEW C \in SUBSET Nodes, Accounts(C)
  PROVE  FaultsAccounted'
<1> DEFINE D == C \cup {m}
<1>1. /\ read' \in {read, NoRead} /\ up' = up \ {m} /\ crashes' = crashes + 1 /\ lost' = lost
      /\ storage' \in {storage, [storage EXCEPT ![m] = NoValue]}
  BY DEF Crash
<1>2. D \in SUBSET Nodes /\ Cardinality(D) <= lost' + crashes' /\ C \subseteq D
  BY <1>1, OneMore DEF TypeOK, Accounts
<1>3. \A n \in Nodes \ D : storage'[n] = storage[n]
  BY <1>1 DEF TypeOK
<1>4. Nodes \ D \subseteq up'
  BY <1>1 DEF Accounts
<1> HIDE DEF D
<1>5. HasValue(D)'
  <2>1. lost' # lost + 1
    BY <1>1 DEF TypeOK
  <2> QED
    BY <1>2, <1>3, <2>1, HasValueKept
<1>6. Covered(D)'
  BY <1>1, <1>2, CoveredKept DEF Accounts
<1>7. Accounts(D)'
  BY <1>2, <1>4, <1>5, <1>6 DEF Accounts
<1> QED
  BY <1>2, <1>7 DEF FaultsAccounted

\* A node without a value that a read looks at is no replica of an ended call,
\* or has had a fault.
LEMMA NothingMeansFault ==
  ASSUME Lifecycle, NEW C \in SUBSET Nodes, Accounts(C),
         NEW n \in Nodes, storage[n] = NoValue, NEW u \in Ended, n \in Replicas(write[u].by)
  PROVE  n \in C
<1>1. u \in Used /\ n \in Reached(u)
  BY DEF Ended, Lifecycle, Reached
<1> QED
  BY <1>1 DEF Accounts, HasValue

\* The steps of a read, with and without a fault.
LEMMA ReadAccounted ==
  ASSUME TypeOK, NoHoles, Lifecycle, ReadFresh, UNCHANGED <<stores, up, write, crashes>>,
         lost <= lost', lost' \in Nat,
         NEW C \in SUBSET Nodes, Accounts(C),
         NEW D \in SUBSET Nodes, C \subseteq D, Cardinality(D) <= lost' + crashes, Covered(D)'
  PROVE  FaultsAccounted'
<1>1. HasValue(D)'
  BY DEF HasValue, Accounts, Used, Reached, stores
<1>2. Nodes \ D \subseteq up'
  BY DEF Accounts
<1>3. Accounts(D)'
  BY <1>1, <1>2 DEF Accounts
<1> QED
  BY <1>3 DEF FaultsAccounted

LEMMA FindAccounted ==
  ASSUME IInv, NEW m \in Nodes, FindValue(m), NEW C \in SUBSET Nodes, Accounts(C)
  PROVE  FaultsAccounted'
<1>1. UNCHANGED <<stores, up, write, lost, crashes>>
  BY DEF FindValue
<1>2. /\ read'.got = storage[m] /\ read'.before = Ended /\ read'.by = m /\ read'.visited = {}
      /\ storage[m] = NoValue => Asking'
  BY DEF FindValue, Asking
<1>3. Covered(C)'
  <2> SUFFICES ASSUME read'.got = NoValue, NEW u \in Ended, NEW n \in Replicas(write'[u].by) \ C
               PROVE  Asking' /\ n \in Unvisited'
    BY <1>2 DEF Covered
  <2>1. n \in Nodes /\ n \in Replicas(write[u].by) /\ storage[m] = NoValue
    BY <1>1, <1>2, ReplicasAreNodes
  <2>2. n # m
    BY <2>1, NothingMeansFault DEF IInv
  <2> QED
    BY <1>2, <2>1, <2>2 DEF Unvisited
<1> QED
  BY <1>1, <1>3, ReadAccounted DEF IInv, TypeOK, Accounts

LEMMA AskAccounted ==
  ASSUME IInv, Ask, NEW C \in SUBSET Nodes, Accounts(C)
  PROVE  FaultsAccounted'
<1> DEFINE round == Nearest(Unvisited, Alpha)
<1>1. UNCHANGED <<stores, up, write, lost, crashes>> /\ read \in ReadRecords /\ read # NoRead
  BY ReadType DEF Ask, Asking, IInv
<1>2. /\ read'.st = read.st /\ read'.by = read.by /\ read'.before = read.before /\ read'.got = read.got
      /\ read'.left = round /\ read'.visited = read.visited \cup round
      /\ read.left = {}
  BY <1>1 DEF Ask, ReadRecords
<1> HIDE DEF round
<1>3. Covered(C)'
  <2>1. Unvisited \subseteq read'.left \cup Unvisited' /\ (Asking => Asking')
    BY <1>2 DEF Unvisited, Asking
  <2> QED
    BY <1>1, <1>2, <2>1 DEF Covered, Accounts
<1> QED
  BY <1>1, <1>3, ReadAccounted DEF IInv, TypeOK, Accounts

LEMMA AnswerAccounted ==
  ASSUME IInv, NEW m \in Nodes, Answer(m), NEW C \in SUBSET Nodes, Accounts(C)
  PROVE  FaultsAccounted'
<1>1. UNCHANGED <<stores, up, write, lost, crashes>> /\ read \in ReadRecords /\ read # NoRead
  BY ReadType DEF Answer, Asking, IInv
<1>2. /\ read'.st = read.st /\ read'.by = read.by /\ read'.before = read.before
      /\ read'.left = read.left \ {m} /\ read'.visited = read.visited
      /\ read'.got = NoValue => read.got = NoValue /\ storage[m] = NoValue
  BY <1>1 DEF Answer, ReadRecords
<1>3. Covered(C)'
  <2> SUFFICES ASSUME read'.got = NoValue, NEW u \in read.before, NEW n \in Replicas(write[u].by) \ C
               PROVE  Asking' /\ n \in read'.left \cup Unvisited'
    BY <1>1, <1>2 DEF Covered
  <2>1. Asking /\ n \in read.left \cup Unvisited
    BY <1>1, <1>2 DEF Accounts, Covered
  <2>2. u \in Ended
    BY <1>1 DEF IInv, ReadFresh
  <2>3. n # m
    BY <1>2, <2>2, NothingMeansFault DEF IInv
  <2> QED
    BY <1>2, <2>1, <2>3 DEF Asking, Unvisited
<1> QED
  BY <1>1, <1>3, ReadAccounted DEF IInv, TypeOK, Accounts

LEMMA AnswerFailsAccounted ==
  ASSUME IInv, NEW m \in Nodes, AnswerFails(m), NEW C \in SUBSET Nodes, Accounts(C)
  PROVE  FaultsAccounted'
<1> DEFINE D == C \cup {m}
<1>1. UNCHANGED <<stores, up, write, crashes>> /\ read \in ReadRecords /\ read # NoRead
  BY ReadType DEF AnswerFails, Asking, IInv
<1>2. /\ read'.st = read.st /\ read'.by = read.by /\ read'.before = read.before /\ read'.got = read.got
      /\ read'.left = read.left \ {m} /\ read'.visited = read.visited
  BY <1>1 DEF AnswerFails, ReadRecords
<1>3. /\ D \in SUBSET Nodes /\ C \subseteq D /\ Cardinality(D) <= lost' + crashes
      /\ lost <= lost' /\ lost' \in Nat
  <2>1. lost \in Nat /\ crashes \in Nat
    BY DEF IInv, TypeOK
  <2>4. lost' = lost \/ lost' = lost + 1
    BY DEF AnswerFails
  <2>5. m \in up => lost' = lost + 1
    BY DEF AnswerFails
  <2>2. /\ Cardinality(C) <= lost + crashes /\ Cardinality(C) \in Nat
        /\ m \notin up => D = C
    BY OneMore DEF Accounts
  <2>3. D \in SUBSET Nodes /\ Cardinality(D) \in Nat /\ Cardinality(D) <= Cardinality(C) + 1
    BY OneMore
  <2> HIDE DEF D
  <2> QED
    BY <2>1, <2>2, <2>3, <2>4, <2>5 DEF D
<1>4. Covered(D)'
  <2>1. read.left \ {m} = read'.left /\ Unvisited' = Unvisited /\ Asking' = Asking
    BY <1>2 DEF Unvisited, Asking
  <2> QED
    BY <1>1, <1>2, <2>1 DEF Covered, Accounts
<1> HIDE DEF D
<1> QED
  BY <1>1, <1>3, <1>4, ReadAccounted DEF IInv

LEMMA ReturnsAccounted ==
  ASSUME IInv, FindReturns \/ FetchBlob, NEW C \in SUBSET Nodes, Accounts(C)
  PROVE  FaultsAccounted'
<1>1. UNCHANGED <<stores, up, write, crashes>> /\ read \in ReadRecords /\ read # NoRead
  BY ReadType DEF FindReturns, FetchBlob, Asking, IInv
<1>2. Cardinality(C) <= lost' + crashes /\ lost <= lost' /\ lost' \in Nat
  <2>1. lost \in Nat /\ crashes \in Nat
    BY DEF IInv, TypeOK
  <2>3. lost' = lost \/ lost' = lost + 1
    BY DEF FindReturns, FetchBlob
  <2>2. Cardinality(C) <= lost + crashes /\ Cardinality(C) \in Nat
    <3>1. 1 \in Nodes
      BY StoreBounds DEF Nodes
    <3> QED
      BY <3>1, OneMore DEF Accounts
  <2> QED
    BY <2>1, <2>2, <2>3
<1>3. CASE FindReturns
  <2>1. /\ read'.before = read.before /\ read'.got = read.got
        /\ read.got # NoValue \/ read.left \cup Unvisited = {}
    BY <1>1, <1>3 DEF FindReturns, ReadRecords
  <2>2. Covered(C)'
    BY <1>1, <2>1 DEF Covered, Accounts
  <2> QED
    BY <1>1, <1>2, <2>2, ReadAccounted DEF IInv
<1>4. CASE FetchBlob
  <2>1. \E b \in {"ok", "failed"} : read' = [read EXCEPT !.blob = b]
    BY <1>4 DEF FetchBlob
  <2>2. read'.got = read.got /\ read.got # NoValue
    BY <1>1, <1>4, <2>1 DEF ReadRecords, FetchBlob
  <2>3. Covered(C)'
    BY <2>2 DEF Covered
  <2> QED
    BY <1>1, <1>2, <2>3, ReadAccounted DEF IInv
<1> QED
  BY <1>3, <1>4

LEMMA FaultsAccountedPreserved ==
  ASSUME IInv, FaultsAccounted, [Next]_vars
  PROVE  FaultsAccounted'
<1>1. PICK C \in SUBSET Nodes : Accounts(C)
  BY DEF FaultsAccounted
<1>2. ASSUME UNCHANGED <<read, lost, crashes>>, up \subseteq up' PROVE FaultsAccounted'
  <2>1. Accounts(C)'
    BY <1>1, <1>2, CallsAccounted DEF IInv
  <2> QED
    BY <2>1 DEF FaultsAccounted
<1>3. ASSUME NEW n \in Nodes, StoreValue(n) \/ StoreBlob(n) \/ Restart(n)
      PROVE  UNCHANGED <<read, lost, crashes>> /\ up \subseteq up'
  BY <1>3 DEF StoreValue, StoreBlob, Begin, Restart
<1>4. ASSUME NEW w \in Writes, PutBlob(w) \/ StoreReturns(w)
      PROVE  UNCHANGED <<read, lost, crashes>> /\ up \subseteq up'
  BY <1>4 DEF PutBlob, StoreReturns
<1>5. ASSUME NEW w \in Writes, NEW n \in Nodes, StoreAt(w, n)
      PROVE  UNCHANGED <<read, lost, crashes>> /\ up \subseteq up'
  BY <1>5 DEF StoreAt
<1>6. UNCHANGED vars => UNCHANGED <<read, lost, crashes>> /\ up \subseteq up'
  BY DEF vars
<1>7. ASSUME NEW w \in Writes, NEW n \in Nodes, StoreFails(w, n) \/ PutFails(w, n) PROVE FaultsAccounted'
  BY <1>1, <1>7, StoreFailsAccounted DEF IInv
<1>8. ASSUME NEW n \in Nodes, Crash(n) PROVE FaultsAccounted'
  BY <1>1, <1>8, CrashAccounted DEF IInv
<1>9. ASSUME NEW n \in Nodes, FindValue(n) \/ Answer(n) \/ AnswerFails(n) PROVE FaultsAccounted'
  BY <1>1, <1>9, FindAccounted, AnswerAccounted, AnswerFailsAccounted
<1>10. ASSUME Ask \/ FindReturns \/ FetchBlob PROVE FaultsAccounted'
  BY <1>1, <1>10, AskAccounted, ReturnsAccounted
<1> QED
  BY <1>2, <1>3, <1>4, <1>5, <1>6, <1>7, <1>8, <1>9, <1>10 DEF Next

-----------------------------------------------------------------------------

\* The value of call u can be fetched: it is inline, or its writer has the blob.
Kept(u) == write[u].kind = "inline" \/ u \in blobs[write[u].by]

\* A blob is kept before its value is stored anywhere, and while it is found.
BlobsKept ==
  /\ \A u \in Used : write[u].st \in {"storing", "ended"} => Kept(u)
  /\ \A n \in Nodes : storage[n] # NoValue => Kept(storage[n])
  /\ (read # NoRead /\ read.got # NoValue) => read.got \in Used /\ Kept(read.got)

FailsOnEmpty ==
  /\ Asking => read.blob = "none"
  /\ (read # NoRead /\ read.blob = "failed" /\ lost + crashes = 0) =>
       read.got \in Used /\ write[read.got].kind = "empty"

FindInv == IInv /\ FaultsAccounted /\ BlobsKept /\ FailsOnEmpty

LEMMA BlobsGrow ==
  ASSUME TypeOK, [Next]_vars
  PROVE  \A n \in Nodes : blobs[n] \subseteq blobs'[n]
<1>1. ASSUME NEW w \in Writes, PutBlob(w) PROVE \A n \in Nodes : blobs[n] \subseteq blobs'[n]
  <2>1. \/ blobs' = [blobs EXCEPT ![write[w].by] = @ \cup {w}]
        \/ blobs' = blobs
    BY <1>1 DEF PutBlob
  <2> QED
    BY <2>1 DEF TypeOK
<1>2. ASSUME NEW n \in Nodes, StoreValue(n) \/ StoreBlob(n) \/ FindValue(n) \/ Answer(n)
                              \/ AnswerFails(n) \/ Crash(n) \/ Restart(n)
      PROVE  blobs' = blobs
  BY <1>2 DEF StoreValue, StoreBlob, Begin, FindValue, Answer, AnswerFails, Crash, Restart, stores
<1>3. ASSUME NEW w \in Writes, NEW n \in Nodes, StoreAt(w, n) \/ StoreFails(w, n) \/ PutFails(w, n) PROVE blobs' = blobs
  BY <1>3 DEF StoreAt, StoreFails, PutFails
<1>4. ASSUME NEW w \in Writes, StoreReturns(w) PROVE blobs' = blobs
  BY <1>4 DEF StoreReturns, stores
<1>5. ASSUME Ask \/ FindReturns \/ FetchBlob \/ UNCHANGED vars PROVE blobs' = blobs
  BY <1>5 DEF Ask, FindReturns, FetchBlob, vars, stores
<1> QED
  BY <1>1, <1>2, <1>3, <1>4, <1>5 DEF Next

LEMMA KeptStays ==
  ASSUME TypeOK, NoHoles, [Next]_vars, NEW u \in Used, Kept(u)
  PROVE  u \in Used' /\ Kept(u)'
<1>1. u \in Used' /\ write'[u].by = write[u].by /\ write'[u].kind = write[u].kind
  BY NothingForgotten DEF Keeps
<1>2. write[u].by \in Nodes
  BY CallType DEF CallRecords
<1> QED
  BY <1>1, <1>2, BlobsGrow DEF Kept

LEMMA CallsKept ==
  ASSUME TypeOK, NoHoles, BlobsKept, [Next]_vars,
         NEW u \in Used', write'[u].st \in {"storing", "ended"}
  PROVE  Kept(u)'
<1>1. ASSUME u \in Used, write[u].st \in {"storing", "ended"} PROVE Kept(u)'
  BY <1>1, KeptStays DEF BlobsKept
<1>2. ASSUME NEW w \in Writes, PutBlob(w) PROVE Kept(u)'
  <2>1. /\ w \in Used /\ Used' = Used /\ \A v \in Used \ {w} : write'[v] = write[v]
        /\ write'[w].by = write[w].by
    BY <1>2, PutBlobChanges DEF Keeps
  <2>2. CASE u = w
    <3>1. write[w] \in CallRecords /\ write[w].by \in Nodes
      BY <2>1, CallType DEF CallRecords
    <3>2. CASE write' = [write EXCEPT ![w].st = "cut"]
      <4>1. write'[w].st = "cut"
        BY <3>1, <3>2, CallType DEF CallRecords
      <4> QED
        BY <2>2, <4>1
    <3>3. CASE blobs' = [blobs EXCEPT ![write[w].by] = @ \cup {w}]
      BY <2>1, <2>2, <3>1, <3>3 DEF Kept, TypeOK
    <3> QED
      BY <1>2, <3>2, <3>3 DEF PutBlob
  <2> QED
    BY <1>1, <2>1, <2>2
<1>3. ASSUME NEW n \in Nodes, StoreValue(n) PROVE Kept(u)'
  <2> DEFINE w == Cardinality(Used) + 1
  <2>1. /\ Begin(n, "storing", "inline") /\ Used' = Used \cup {w} /\ w \in Writes \ Used
        /\ \A v \in Used : write'[v] = write[v]
    BY <1>3, BeginChanges DEF StoreValue
  <2>2. write'[w].kind = "inline"
    BY <2>1, CallType DEF Begin
  <2> QED
    BY <1>1, <2>1, <2>2 DEF Kept
<1>4. ASSUME NEW n \in Nodes, StoreBlob(n) PROVE Kept(u)'
  <2> DEFINE w == Cardinality(Used) + 1
  <2>1. PICK kind \in {"blob", "empty"} : Begin(n, "put", kind)
    BY <1>4 DEF StoreBlob
  <2>2. /\ Used' = Used \cup {w} /\ w \in Writes \ Used /\ \A v \in Used : write'[v] = write[v]
    BY <2>1, BeginChanges
  <2>3. write'[w].st = "put"
    BY <2>1, <2>2, CallType DEF Begin
  <2> QED
    BY <1>1, <2>2, <2>3
<1>5. ASSUME NEW w \in Writes, NEW n \in Nodes, StoreAt(w, n) \/ StoreFails(w, n) \/ PutFails(w, n) PROVE Kept(u)'
  <2>1. /\ Used' = Used /\ w \in Used /\ write[w].st = "storing"
        /\ \A v \in Used \ {w} : write'[v] = write[v]
    BY <1>5, StoreChanges DEF StoreAt, StoreFails, PutFails, Storing
  <2> QED
    BY <1>1, <2>1
<1>6. ASSUME NEW w \in Writes, StoreReturns(w) PROVE Kept(u)'
  <2>1. /\ Used' = Used /\ w \in Used /\ write[w].st = "storing"
        /\ \A v \in Used \ {w} : write'[v] = write[v]
    BY <1>6, ReturnChanges DEF StoreReturns
  <2> QED
    BY <1>1, <2>1
<1>7. ASSUME NEW n \in Nodes, Crash(n) PROVE Kept(u)'
  <2> DEFINE IsCut == u \in Used /\ write[u].by = n /\ write[u].st \in {"put", "storing"}
  <2>1. Used' = Used /\ u \in Writes
    BY <1>7, CrashChanges, CallType
  <2>2. write'[u] = IF IsCut THEN [write[u] EXCEPT !.st = "cut"] ELSE write[u]
    BY <1>7, <2>1 DEF Crash
  <2>3. IsCut => write'[u].st = "cut"
    BY <2>1, <2>2, CallType DEF CallRecords
  <2> HIDE DEF IsCut
  <2> QED
    BY <1>1, <2>1, <2>2, <2>3
<1>8. ASSUME UNCHANGED write PROVE Kept(u)'
  BY <1>1, <1>8, KeepsIfSame
<1>9. ASSUME NEW n \in Nodes, FindValue(n) \/ Answer(n) \/ AnswerFails(n) \/ Restart(n)
      PROVE  UNCHANGED write
  BY <1>9 DEF FindValue, Answer, AnswerFails, Restart
<1>10. ASSUME Ask \/ FindReturns \/ FetchBlob \/ UNCHANGED vars PROVE UNCHANGED write
  BY <1>10 DEF Ask, FindReturns, FetchBlob, vars
<1> QED
  BY <1>2, <1>3, <1>4, <1>5, <1>6, <1>7, <1>8, <1>9, <1>10 DEF Next

LEMMA BlobsKeptPreserved ==
  ASSUME IInv, BlobsKept, [Next]_vars
  PROVE  BlobsKept'
<1> USE DEF IInv
<1>1. \A u \in Used' : write'[u].st \in {"storing", "ended"} => Kept(u)'
  BY CallsKept
<1>2. ASSUME NEW n \in Nodes, storage'[n] # NoValue
      PROVE  \E v \in {storage'[n]} : Kept(v)'
  <2>1. CASE storage'[n] = storage[n]
    <3>1. PICK v \in {storage[n]} : v \in Used /\ Kept(v)
      BY <1>2, <2>1 DEF Placed, BlobsKept
    <3>2. Kept(v)'
      BY <3>1, KeptStays
    <3> QED
      BY <2>1, <3>1, <3>2
  <2>2. ASSUME NEW w \in Writes, NEW m \in Nodes, Storing(w, m), storage' = [storage EXCEPT ![m] = w],
               storage'[n] # storage[n]
        PROVE  \E v \in {storage'[n]} : Kept(v)'
    <3>1. storage'[n] = w
      BY <2>2 DEF TypeOK
    <3>2. w \in Used /\ Kept(w)
      BY <2>2 DEF Storing, BlobsKept
    <3> QED
      BY <3>1, <3>2, KeptStays
  <2>3. ASSUME NEW m \in Nodes, storage' = [storage EXCEPT ![m] = NoValue]
        PROVE  storage'[n] = storage[n]
    BY <1>2, <2>3 DEF TypeOK
  <2> QED
    BY <2>1, <2>2, <2>3, StorageSteps
<1>3. ASSUME read' # NoRead, read'.got # NoValue
      PROVE  \E v \in {read'.got} : v \in Used' /\ Kept(v)'
  <2>1. CASE read # NoRead /\ read'.got = read.got
    <3>1. PICK v \in {read.got} : v \in Used /\ Kept(v)
      BY <1>3, <2>1 DEF BlobsKept
    <3> QED
      BY <2>1, <3>1, KeptStays
  <2>2. CASE \E n \in Nodes : read'.got = storage[n]
    <3>1. PICK n \in Nodes : read'.got = storage[n]
      BY <2>2
    <3>2. PICK v \in {storage[n]} : v \in Used /\ Kept(v)
      BY <1>3, <3>1 DEF Placed, BlobsKept
    <3> QED
      BY <3>1, <3>2, KeptStays
  <2> QED
    BY <1>3, <2>1, <2>2, ReadSteps
<1> QED
  BY <1>1, <1>2, <1>3 DEF BlobsKept, Kept

\* The outcome of a FetchBlob stays until the next read.
LEMMA OutcomeSteps ==
  ASSUME TypeOK, FailsOnEmpty, [Next]_vars
  PROVE  \/ read' = NoRead
         \/ read'.blob = "none"
         \/ read # NoRead /\ read'.got = read.got /\ read'.blob = read.blob /\ ~Asking'
         \/ FetchBlob /\ ~Asking'
<1> DEFINE Same == read # NoRead /\ read'.got = read.got /\ read'.blob = read.blob /\ ~Asking'
<1>1. ASSUME NEW n \in Nodes, FindValue(n) PROVE read'.blob = "none"
  BY <1>1 DEF FindValue
<1>2. ASSUME NEW n \in Nodes, Ask \/ Answer(n) \/ AnswerFails(n) PROVE read'.blob = "none"
  <2>1. read \in ReadRecords /\ read.blob = "none"
    BY <1>2, ReadType DEF Ask, Answer, AnswerFails, Asking, FailsOnEmpty
  <2> QED
    BY <1>2, <2>1 DEF Ask, Answer, AnswerFails, ReadRecords
<1>3. ASSUME FindReturns PROVE Same
  <2>1. read \in ReadRecords /\ read # NoRead
    BY <1>3, ReadType DEF FindReturns, Asking
  <2> QED
    BY <1>3, <2>1 DEF FindReturns, Asking, ReadRecords
<1>4. ASSUME FetchBlob PROVE ~Asking'
  <2>1. read \in ReadRecords /\ read.st = "done"
    BY <1>4, ReadType DEF FetchBlob
  <2>2. \E b \in {"ok", "failed"} : read' = [read EXCEPT !.blob = b]
    BY <1>4 DEF FetchBlob
  <2> QED
    BY <2>1, <2>2 DEF ReadRecords, Asking
<1>5. ASSUME UNCHANGED read PROVE read' = NoRead \/ read'.blob = "none" \/ Same
  BY <1>5 DEF Asking, FailsOnEmpty
<1>6. ASSUME NEW n \in Nodes, Crash(n) PROVE read' = NoRead \/ UNCHANGED read
  BY <1>6 DEF Crash
<1>7. ASSUME NEW n \in Nodes, StoreValue(n) \/ StoreBlob(n) \/ Restart(n) PROVE UNCHANGED read
  BY <1>7 DEF StoreValue, StoreBlob, Begin, Restart
<1>8. ASSUME NEW w \in Writes, PutBlob(w) \/ StoreReturns(w) PROVE UNCHANGED read
  BY <1>8 DEF PutBlob, StoreReturns
<1>9. ASSUME NEW w \in Writes, NEW n \in Nodes, StoreAt(w, n) \/ StoreFails(w, n) \/ PutFails(w, n) PROVE UNCHANGED read
  BY <1>9 DEF StoreAt, StoreFails, PutFails
<1>10. 1 \in Nodes
  BY StoreBounds DEF Nodes
<1> QED
  BY <1>1, <1>2, <1>3, <1>4, <1>5, <1>6, <1>7, <1>8, <1>9, <1>10 DEF Next, vars

LEMMA FailsOnEmptyPreserved ==
  ASSUME IInv, BlobsKept, FailsOnEmpty, [Next]_vars
  PROVE  FailsOnEmpty'
<1>0. Asking' => read'.blob = "none"
  <2>1. NoRead.st # "asking"
    BY DEF NoRead
  <2> QED
    BY <2>1, OutcomeSteps DEF IInv, Asking
<1> SUFFICES ASSUME read' # NoRead, read'.blob = "failed", lost' + crashes' = 0
             PROVE  read'.got \in Used' /\ write'[read'.got].kind = "empty"
  BY <1>0 DEF FailsOnEmpty
<1>1. lost + crashes = 0 /\ lost' # lost + 1 /\ up = Nodes
  BY QuietBefore DEF IInv, TypeOK, DownIsEmpty
<1>2. ASSUME read # NoRead, read'.got = read.got, read.got \in Used, write[read.got].kind = "empty"
      PROVE  read'.got \in Used' /\ write'[read'.got].kind = "empty"
  BY <1>2, NothingForgotten DEF IInv, Keeps
<1>3. ASSUME read # NoRead, read'.got = read.got, read'.blob = read.blob
      PROVE  read'.got \in Used' /\ write'[read'.got].kind = "empty"
  BY <1>1, <1>2, <1>3 DEF FailsOnEmpty
<1>4. CASE FetchBlob
  <2>1. read \in ReadRecords /\ read # NoRead
    BY <1>4, ReadType DEF FetchBlob, IInv
  <2>2. /\ read' = [read EXCEPT !.blob = "failed"]
        /\ ~(write[read.got].kind = "inline" \/ (BlobNode(read.got) \in up /\ read.got \in blobs[BlobNode(read.got)]
                                                 /\ write[read.got].kind # "empty"))
        /\ read.got # NoValue
    <3> DEFINE ok == \/ write[read.got].kind = "inline" \/ read.got \in blobs[read.by]
                     \/ /\ BlobNode(read.got) \in up /\ read.got \in blobs[BlobNode(read.got)]
                        /\ write[read.got].kind # "empty"
    <3>1. read' = [read EXCEPT !.blob = IF ok THEN "ok" ELSE "failed"] /\ read.got # NoValue
      BY <1>1, <1>4 DEF FetchBlob
    <3> HIDE DEF ok
    <3>2. read'.blob = IF ok THEN "ok" ELSE "failed"
      BY <2>1, <3>1 DEF ReadRecords
    <3>3. ~ok
      BY <3>2
    <3> QED
      BY <3>1, <3>3 DEF ok
  <2>3. read.got \in Used /\ Kept(read.got) /\ write[read.got].by \in Nodes
    BY <2>1, <2>2, CallType DEF BlobsKept, IInv, CallRecords
  <2>4. write[read.got].kind = "empty"
    BY <1>1, <2>2, <2>3 DEF Kept, BlobNode
  <2>5. read'.got = read.got
    BY <2>1, <2>2 DEF ReadRecords
  <2> QED
    BY <1>2, <2>1, <2>3, <2>4, <2>5
<1> QED
  BY <1>3, <1>4, OutcomeSteps DEF IInv

LEMMA FindInvariant == Spec => []FindInv
<1>1. Init => FindInv
  <2> SUFFICES ASSUME Init PROVE FindInv
    OBVIOUS
  <2>1. IInv /\ Used = {}
    BY InitInvariant DEF Init, Used
  <2>2. Accounts({})
    <3>1. Cardinality({}) = 0
      BY FS_EmptySet
    <3> QED
      BY <2>1, <3>1 DEF Init, Accounts, HasValue, Covered
  <2>3. BlobsKept /\ FailsOnEmpty
    BY <2>1 DEF Init, BlobsKept, FailsOnEmpty, Asking, NoRead
  <2> QED
    BY <2>1, <2>2, <2>3 DEF FindInv, FaultsAccounted
<1>2. FindInv /\ [Next]_vars => FindInv'
  BY StepInvariant, FaultsAccountedPreserved, BlobsKeptPreserved, FailsOnEmptyPreserved DEF FindInv
<1> QED
  BY <1>1, <1>2, PTL DEF Spec

\* When a StoreValue has returned, every FindValue returns a value as long as
\* there have been fewer than StoreK faults, of messages and of nodes together:
\* each fault costs one replica at most.  A blob whose value is found can be
\* fetched without faults, unless it is empty.
THEOREM StoredIsFound ==
  ASSUME N > StoreK
  PROVE  Spec => []Findable
<1>1. FindInv => ValueFound
  <2> SUFFICES ASSUME FindInv, read.st = "done", read.before # {}, lost + crashes < StoreK,
                      read.got = NoValue
               PROVE  FALSE
    BY DEF ValueFound
  <2>1. PICK u \in read.before : u \in Ended
    BY ReadType DEF FindInv, IInv, ReadFresh
  <2>2. write[u].by \in Nodes /\ read # NoRead /\ ~Asking
    BY <2>1, CallType, ReadType DEF FindInv, IInv, CallRecords, Asking
  <2>3. PICK C \in SUBSET Nodes : Accounts(C)
    BY DEF FindInv, FaultsAccounted
  <2>4. Replicas(write[u].by) \subseteq C
    BY <2>2, <2>3 DEF Accounts, Covered
  <2>5. StoreK <= Cardinality(C) /\ Cardinality(C) <= lost + crashes /\ Cardinality(C) \in Nat
    BY <2>2, <2>3, <2>4, EnoughReplicas, OneMore DEF Accounts
  <2> QED
    BY <2>5, StoreBounds DEF FindInv, IInv, TypeOK
<1>2. FindInv => BlobFound
  BY ReadType DEF FindInv, FailsOnEmpty, BlobFound, IInv
<1>3. FindInv => Findable
  BY <1>1, <1>2 DEF Findable
<1> QED
  BY <1>3, FindInvariant, PTL

-----------------------------------------------------------------------------
(* DiskStorage.                                                             *)

\* What the holder of the lock is in the middle of: its file is cut.
MidWrite ==
  /\ writer \in PutRecords => meta[writer.put] = Cut
  /\ writer \in BlobRecords => blob[writer.blob] = Cut

\* A blob is cut only while it is written, or because its write was cut short.
CutIsKnown ==
  \A b \in Blobs : blob[b] = Cut =>
    b \in interrupted \/ (writer \in BlobRecords /\ writer.blob = b)

DiskIInv == FilesOK /\ MidWrite /\ CutIsKnown /\ AckedBlobIsWhole

-----------------------------------------------------------------------------

\* The records of the two kinds of writers can be told apart.
LEMMA Writers ==
  /\ \A w \in PutRecords : w # None /\ "put" \in DOMAIN w /\ "blob" \notin DOMAIN w
  /\ \A w \in BlobRecords : w # None /\ "blob" \in DOMAIN w /\ "put" \notin DOMAIN w
BY NoneIsNoWriter DEF PutRecords, BlobRecords

LEMMA FilesDiffer ==
  Absent # Cut /\ Cut # Whole /\ Absent # Whole
BY DEF Absent, Cut, Whole

LEMMA PutTruncatesFile ==
  ASSUME FilesOK, NEW k \in Keys, NEW v \in Metas, PutTruncates(k, v)
  PROVE  /\ writer = None /\ writer' \in PutRecords
         /\ writer'.put = k /\ writer'.value = v /\ writer'.old = meta[k]
         /\ meta' = [meta EXCEPT ![k] = Cut]
         /\ UNCHANGED <<blob, running, answer, fetched, acked, interrupted>>
<1>1. meta[k] \in Metas \cup {Absent, Cut}
  BY DEF FilesOK
<1> QED
  BY <1>1 DEF PutTruncates, Unlocked, PutRecords

LEMMA PutEnds ==
  ASSUME FilesOK, PutWrites
  PROVE  /\ writer \in PutRecords /\ writer' = None
         /\ writer.put \in Keys /\ writer.value \in Metas
         /\ meta' \in {meta, [meta EXCEPT ![writer.put] = writer.value]}
         /\ UNCHANGED <<blob, running, answer, fetched, acked, interrupted>>
<1>1. writer \in PutRecords
  BY Writers DEF PutWrites, FilesOK
<1> QED
  BY <1>1 DEF PutWrites, PutRecords

LEMMA BlobIsCreated ==
  ASSUME FilesOK, NEW b \in Blobs, PutBlobCreates(b)
  PROVE  /\ writer = None /\ blob[b] = Absent
         /\ writer' \in BlobRecords /\ writer'.blob = b
         /\ blob' = [blob EXCEPT ![b] = Cut]
         /\ UNCHANGED <<meta, running, answer, fetched, acked, interrupted>>
BY DEF PutBlobCreates, Unlocked, BlobRecords

LEMMA BlobWriteEnds ==
  ASSUME FilesOK, PutBlobWrites
  PROVE  /\ writer \in BlobRecords /\ writer.blob \in Blobs /\ writer' = None
         /\ \/ /\ blob' = [blob EXCEPT ![writer.blob] = Whole]
               /\ acked' = acked \cup {writer.blob} /\ interrupted' = interrupted
            \/ /\ interrupted' = interrupted \cup {writer.blob}
               /\ blob' = blob /\ acked' = acked
         /\ UNCHANGED <<meta, running, answer, fetched>>
<1>1. writer \in BlobRecords
  BY Writers DEF PutBlobWrites, FilesOK
<1> QED
  BY <1>1 DEF PutBlobWrites, BlobRecords

\* A crash takes the lock away, and leaves the files as they are.
LEMMA CrashLeaves ==
  ASSUME FilesOK, ProcessDies
  PROVE  /\ writer' = None /\ running' = FALSE
         /\ \/ writer \in BlobRecords /\ interrupted' = interrupted \cup {writer.blob}
            \/ writer \notin BlobRecords /\ interrupted' = interrupted
         /\ UNCHANGED <<meta, blob, answer, fetched, acked>>
BY Writers DEF ProcessDies, FilesOK

\* The steps that read, and those that only end or begin something.
LEMMA Readers ==
  ASSUME FilesOK
  PROVE  /\ \A k \in Keys : Get(k) =>
              /\ writer = None /\ answer' = [key |-> k, value |-> Parsed(meta[k])]
              /\ UNCHANGED <<meta, blob, writer, running, fetched, acked, interrupted>>
         /\ \A b \in Blobs : GetBlob(b) =>
              /\ fetched' = [blob |-> b, contents |-> blob[b]]
              /\ UNCHANGED <<meta, blob, writer, running, answer, acked, interrupted>>
         /\ \A b \in Blobs : PutBlobExists(b) =>
              /\ writer = None /\ blob[b] # Absent /\ acked' = acked \cup {b}
              /\ UNCHANGED <<meta, blob, writer, running, answer, fetched, interrupted>>
         /\ \A k \in Keys : Delete(k) =>
              /\ writer = None /\ meta' = [meta EXCEPT ![k] = Absent]
              /\ UNCHANGED <<blob, writer, running, answer, fetched, acked, interrupted>>
         /\ NewDiskStorage =>
              running' = TRUE /\ UNCHANGED <<meta, blob, writer, answer, fetched, acked, interrupted>>
BY DEF Get, GetBlob, PutBlobExists, Delete, NewDiskStorage, Unlocked

-----------------------------------------------------------------------------

LEMMA FilesOKPreserved ==
  ASSUME FilesOK, [DiskNext]_diskVars
  PROVE  FilesOK'
<1> USE DEF FilesOK
<1>1. ASSUME NEW k \in Keys, NEW v \in Metas, PutTruncates(k, v) PROVE FilesOK'
  BY <1>1, PutTruncatesFile
<1>2. ASSUME PutWrites PROVE FilesOK'
  BY <1>2, PutEnds
<1>3. ASSUME NEW k \in Keys, Delete(k) PROVE FilesOK'
  BY <1>3, Readers
<1>4. ASSUME NEW k \in Keys, Get(k) PROVE FilesOK'
  <2>1. Parsed(meta[k]) \in Metas \cup {None}
    BY DEF Parsed
  <2>2. /\ answer' = [key |-> k, value |-> Parsed(meta[k])]
        /\ UNCHANGED <<meta, blob, writer, running, fetched, acked, interrupted>>
    BY <1>4, Readers
  <2>3. answer' \in [key : Keys, value : Metas \cup {None}]
    BY <2>1, <2>2
  <2>4. UNCHANGED <<meta, blob, writer, running, fetched, acked, interrupted>>
    BY <2>2
  <2> QED
    BY <2>3, <2>4
<1>5. ASSUME NEW b \in Blobs, PutBlobExists(b) PROVE FilesOK'
  BY <1>5, Readers
<1>6. ASSUME NEW b \in Blobs, PutBlobCreates(b) PROVE FilesOK'
  BY <1>6, BlobIsCreated
<1>7. ASSUME PutBlobWrites PROVE FilesOK'
  BY <1>7, BlobWriteEnds
<1>8. ASSUME NEW b \in Blobs, GetBlob(b) PROVE FilesOK'
  <2>1. blob[b] \in {Absent, Cut, Whole}
    OBVIOUS
  <2>2. /\ fetched' = [blob |-> b, contents |-> blob[b]]
        /\ UNCHANGED <<meta, blob, writer, running, answer, acked, interrupted>>
    BY <1>8, Readers
  <2>3. fetched' \in [blob : Blobs, contents : {Absent, Cut, Whole}]
    BY <2>1, <2>2
  <2>4. UNCHANGED <<meta, blob, writer, running, answer, acked, interrupted>>
    BY <2>2
  <2> QED
    BY <2>3, <2>4
<1>9. ASSUME ProcessDies PROVE FilesOK'
  <2>1. \A w \in BlobRecords : w.blob \in Blobs
    BY DEF BlobRecords
  <2> QED
    BY <1>9, <2>1, CrashLeaves
<1>10. ASSUME NewDiskStorage PROVE FilesOK'
  BY <1>10, Readers
<1>11. ASSUME UNCHANGED diskVars PROVE FilesOK'
  BY <1>11 DEF diskVars
<1> QED
  BY <1>1, <1>2, <1>3, <1>4, <1>5, <1>6, <1>7, <1>8, <1>9, <1>10, <1>11 DEF DiskNext

\* One step per action: what it does to files that are being written, or are cut.
LEMMA FilesPreserved ==
  ASSUME DiskIInv, [DiskNext]_diskVars
  PROVE  MidWrite' /\ CutIsKnown' /\ AckedBlobIsWhole'
<1> DEFINE FilesKept == MidWrite' /\ CutIsKnown' /\ AckedBlobIsWhole'
<1> USE Writers, FilesDiffer DEF DiskIInv, MidWrite, CutIsKnown, AckedBlobIsWhole
<1>0. meta \in [Keys -> Metas \cup {Absent, Cut}] /\ blob \in [Blobs -> {Absent, Cut, Whole}]
      /\ acked \subseteq Blobs
  BY DEF FilesOK
<1>1. ASSUME NEW k \in Keys, NEW v \in Metas, PutTruncates(k, v) PROVE FilesKept
  BY <1>0, <1>1, PutTruncatesFile
<1>2. ASSUME PutWrites PROVE FilesKept
  BY <1>2, PutEnds
<1>3. ASSUME NEW k \in Keys, Delete(k) PROVE FilesKept
  BY <1>3, Readers
<1>4. ASSUME NEW k \in Keys, Get(k) PROVE FilesKept
  BY <1>4, Readers
<1>5. ASSUME NEW b \in Blobs, PutBlobExists(b) PROVE FilesKept
  BY <1>0, <1>5, Readers
<1>6. ASSUME NEW b \in Blobs, PutBlobCreates(b) PROVE FilesKept
  BY <1>0, <1>6, BlobIsCreated
<1>7. ASSUME PutBlobWrites PROVE FilesKept
  BY <1>0, <1>7, BlobWriteEnds
<1>8. ASSUME NEW b \in Blobs, GetBlob(b) PROVE FilesKept
  BY <1>8, Readers
<1>9. ASSUME ProcessDies PROVE FilesKept
  BY <1>9, CrashLeaves
<1>10. ASSUME NewDiskStorage PROVE FilesKept
  BY <1>10, Readers
<1>11. ASSUME UNCHANGED diskVars PROVE FilesKept
  BY <1>11 DEF diskVars
<1> QED
  BY <1>1, <1>2, <1>3, <1>4, <1>5, <1>6, <1>7, <1>8, <1>9, <1>10, <1>11 DEF DiskNext

LEMMA DiskInitInvariant == ASSUME DiskInit PROVE DiskIInv
BY FilesDiffer, Writers DEF DiskInit, DiskIInv, FilesOK, MidWrite, CutIsKnown, AckedBlobIsWhole

LEMMA DiskInvariantHolds == DiskSpec => []DiskIInv
<1>1. DiskIInv /\ [DiskNext]_diskVars => DiskIInv'
  BY FilesOKPreserved, FilesPreserved DEF DiskIInv
<1> QED
  BY <1>1, DiskInitInvariant, PTL DEF DiskSpec

-----------------------------------------------------------------------------

\* A blob that PutBlob (disk_storage.go:74) has acknowledged is whole on the
\* disk, over any number of crashes, unless a write of it was cut short.
THEOREM AcknowledgedBlobsAreWhole == DiskSpec => []FilesInv
<1>1. DiskIInv => FilesInv
  BY DEF DiskIInv, FilesInv
<1> QED
  BY <1>1, DiskInvariantHolds, PTL

\* No step writes to the file of a blob that is whole: PutBlob looks for it
\* under the lock that it writes under.
THEOREM WholeBlobsStay == DiskSpec => BlobsImmutable
<1> DEFINE FilesKept == \A b \in Blobs : blob[b] = Whole => blob'[b] = Whole
<1>1. ASSUME DiskIInv, [DiskNext]_diskVars PROVE FilesKept
  <2> USE FilesDiffer
  <2>0. FilesOK /\ blob \in [Blobs -> {Absent, Cut, Whole}]
    BY <1>1 DEF DiskIInv, FilesOK
  <2>1. ASSUME NEW b \in Blobs, PutBlobCreates(b) PROVE FilesKept
    BY <2>0, <2>1, BlobIsCreated
  <2>2. ASSUME PutBlobWrites PROVE FilesKept
    BY <2>0, <2>2, BlobWriteEnds
  <2>3. ASSUME NEW k \in Keys, Delete(k) \/ Get(k) \/ \E v \in Metas : PutTruncates(k, v)
        PROVE  blob' = blob
    BY <2>0, <2>3, Readers, PutTruncatesFile
  <2>4. ASSUME NEW b \in Blobs, PutBlobExists(b) \/ GetBlob(b) PROVE blob' = blob
    BY <2>0, <2>4, Readers
  <2>5. ASSUME PutWrites \/ ProcessDies \/ NewDiskStorage \/ UNCHANGED diskVars PROVE blob' = blob
    BY <2>0, <2>5, PutEnds, CrashLeaves, Readers DEF diskVars
  <2> QED
    BY <1>1, <2>1, <2>2, <2>3, <2>4, <2>5 DEF DiskNext
<1> HIDE DEF FilesKept
<1>2. DiskSpec => [][FilesKept]_diskVars
  BY <1>1, DiskInvariantHolds, PTL DEF DiskSpec
<1> QED
  BY <1>2 DEF BlobsImmutable, FilesKept

-----------------------------------------------------------------------------

\* The mapping: what callers see of the files.
LEMMA Sees ==
  ASSUME FilesOK
  PROVE  /\ writer \notin PutRecords => VisibleValue = [k \in Keys |-> Parsed(meta[k])]
         /\ writer \in PutRecords =>
              VisibleValue = [k \in Keys |-> IF k = writer.put THEN Parsed(writer.old) ELSE Parsed(meta[k])]
BY Writers DEF VisibleValue, FilesOK

LEMMA ParsedFiles ==
  /\ Parsed(Absent) = None /\ Parsed(Cut) = None
  /\ \A v \in Metas : Parsed(v) = v
BY FilesAreNoValues DEF Parsed

LEMMA MapsInit == ASSUME DiskInit PROVE Abstract!Init
<1>1. FilesOK /\ writer = None /\ meta = [k \in Keys |-> Absent] /\ answer = None
  BY DiskInitInvariant DEF DiskIInv, DiskInit
<1>2. VisibleValue = [k \in Keys |-> Parsed(meta[k])]
  BY <1>1, Sees, Writers
<1>3. VisibleValue = [k \in Keys |-> None]
  BY <1>1, <1>2, ParsedFiles
<1> QED
  BY <1>1, <1>3 DEF Abstract!Init

\* A Put that ends without its value: the key has none.
LEMMA LosesValue ==
  ASSUME DiskIInv, FilesOK', writer \in PutRecords, writer' = None, meta' = meta, answer' = answer
  PROVE  \E k \in Keys : Abstract!PutFails(k)
<1>1. writer.put \in Keys /\ meta[writer.put] = Cut
  BY DEF DiskIInv, MidWrite, PutRecords
<1>2. VisibleValue = [k \in Keys |-> IF k = writer.put THEN Parsed(writer.old) ELSE Parsed(meta[k])]
  BY Sees DEF DiskIInv
<1>3. VisibleValue' = [k \in Keys |-> Parsed(meta[k])]
  BY Writers DEF VisibleValue
<1>4. VisibleValue' = [VisibleValue EXCEPT ![writer.put] = None]
  BY <1>1, <1>2, <1>3, ParsedFiles
<1> QED
  BY <1>1, <1>4 DEF Abstract!PutFails

\* One step per action: a step of ValueStore, or one that callers cannot see.
LEMMA MapsNext ==
  ASSUME DiskIInv, [DiskNext]_diskVars
  PROVE  [Abstract!Next]_(Abstract!vars)
<1> DEFINE Sim == Abstract!Next \/ (VisibleValue' = VisibleValue /\ answer' = answer)
           Now == [k \in Keys |-> Parsed(meta[k])]
<1>0. FilesOK /\ FilesOK' /\ meta \in [Keys -> Metas \cup {Absent, Cut}]
  BY FilesOKPreserved DEF DiskIInv, FilesOK
<1>01. writer = None => VisibleValue = Now
  BY <1>0, Sees, Writers
<1>1. ASSUME NEW k \in Keys, NEW v \in Metas, PutTruncates(k, v) PROVE Sim
  <2>1. /\ writer = None /\ writer' \in PutRecords /\ writer'.put = k /\ writer'.old = meta[k]
        /\ \A j \in Keys \ {k} : meta'[j] = meta[j]
        /\ answer' = answer
    BY <1>0, <1>1, PutTruncatesFile
  <2>2. VisibleValue' = [j \in Keys |-> IF j = k THEN Parsed(meta[k]) ELSE Parsed(meta'[j])]
    BY <2>1, Writers DEF VisibleValue
  <2>3. VisibleValue' = Now
    BY <2>1, <2>2
  <2> QED
    BY <1>01, <2>1, <2>3
<1>2. ASSUME PutWrites PROVE Sim
  <2>1. /\ writer \in PutRecords /\ writer' = None /\ writer.put \in Keys /\ writer.value \in Metas
        /\ meta' \in {meta, [meta EXCEPT ![writer.put] = writer.value]} /\ answer' = answer
    BY <1>0, <1>2, PutEnds
  <2>2. CASE meta' = meta
    BY <1>0, <2>1, <2>2, LosesValue DEF Abstract!Next
  <2>3. CASE meta' = [meta EXCEPT ![writer.put] = writer.value]
    <3>1. VisibleValue = [j \in Keys |-> IF j = writer.put THEN Parsed(writer.old) ELSE Parsed(meta[j])]
      BY <1>0, <2>1, Sees
    <3>2. VisibleValue' = [j \in Keys |-> IF j = writer.put THEN writer.value ELSE Parsed(meta[j])]
      BY <1>0, <2>1, <2>3, Writers, ParsedFiles DEF VisibleValue
    <3>3. VisibleValue' = [VisibleValue EXCEPT ![writer.put] = writer.value]
      BY <2>1, <3>1, <3>2
    <3> QED
      BY <2>1, <3>3 DEF Abstract!Next, Abstract!Put
  <2> QED
    BY <2>1, <2>2, <2>3
<1>3. ASSUME NEW k \in Keys, Delete(k) PROVE Sim
  <2>1. /\ writer = None /\ writer' = None /\ answer' = answer
        /\ meta' = [meta EXCEPT ![k] = Absent]
    BY <1>0, <1>3, Readers
  <2>2. VisibleValue' = [j \in Keys |-> IF j = k THEN None ELSE Parsed(meta[j])]
    BY <1>0, <2>1, ParsedFiles DEF VisibleValue
  <2>3. VisibleValue' = [VisibleValue EXCEPT ![k] = None]
    BY <1>01, <2>1, <2>2
  <2> QED
    BY <2>1, <2>3 DEF Abstract!Next, Abstract!Delete
<1>4. ASSUME NEW k \in Keys, Get(k) PROVE Sim
  <2>1. /\ writer = None /\ answer' = [key |-> k, value |-> Parsed(meta[k])]
        /\ UNCHANGED <<meta, writer>>
    BY <1>0, <1>4, Readers
  <2>2. VisibleValue' = VisibleValue /\ VisibleValue[k] = Parsed(meta[k])
    BY <1>01, <2>1 DEF VisibleValue
  <2> QED
    BY <2>1, <2>2 DEF Abstract!Next, Abstract!Get
<1>5. ASSUME UNCHANGED <<meta, writer, answer>> PROVE Sim
  BY <1>5 DEF VisibleValue
<1>6. ASSUME NEW b \in Blobs, PutBlobExists(b) \/ GetBlob(b) PROVE Sim
  BY <1>0, <1>5, <1>6, Readers
<1>7. ASSUME writer \notin PutRecords, writer' \notin PutRecords, UNCHANGED <<meta, answer>> PROVE Sim
  <2>1. VisibleValue = Now /\ VisibleValue' = [k \in Keys |-> Parsed(meta'[k])]
    BY <1>0, <1>7, Sees, Writers DEF VisibleValue, FilesOK
  <2> QED
    BY <1>7, <2>1
<1>8. ASSUME NEW b \in Blobs, PutBlobCreates(b) PROVE Sim
  BY <1>0, <1>7, <1>8, BlobIsCreated, Writers
<1>9. ASSUME PutBlobWrites PROVE Sim
  BY <1>0, <1>7, <1>9, BlobWriteEnds, Writers
<1>10. ASSUME ProcessDies PROVE Sim
  <2>1. writer' = None /\ UNCHANGED <<meta, answer>>
    BY <1>0, <1>10, CrashLeaves
  <2> QED
    BY <1>0, <1>7, <2>1, LosesValue, Writers DEF Abstract!Next
<1>11. ASSUME NewDiskStorage \/ UNCHANGED diskVars PROVE Sim
  BY <1>0, <1>5, <1>11, Readers DEF diskVars
<1>12. Sim
  BY <1>1, <1>2, <1>3, <1>4, <1>6, <1>8, <1>9, <1>10, <1>11 DEF DiskNext
<1> QED
  BY <1>12 DEF Abstract!vars

\* Storage on a disk is a Storage: to callers, a Put is over at once, or has
\* lost the value of its key (disk_storage.go:57), and a Get is a single step,
\* over crashes and restarts and for any number of keys.
THEOREM DiskImplementsStore == DiskSpec => ImplementsValueStore
BY DiskInvariantHolds, MapsInit, MapsNext, PTL DEF DiskSpec, ImplementsValueStore, Abstract!Spec
=============================================================================
