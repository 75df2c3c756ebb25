# A formal model of webrtc-dht

webrtc-dht is a Kademlia-style distributed hash table in Go whose nodes talk
over UDP datagrams or over WebRTC data channels. This directory holds TLA+
modules that model it, TLC configurations that check them on small instances,
and proofs, checked by the TLA+ proof system, that hold for every instance.
Line numbers below refer to the files under `src/`.

## 1. The system

| Part | State | Operations | Hard behaviour |
|---|---|---|---|
| Key space, `dht/key.go` | none | XOR distance | which bucket, order, ties |
| Routing table, `dht/routing_table.go` | 160 buckets, a lock | `Add`, `FindClosest` | `Add` of a new peer to a full bucket pings outside the lock |
| Iterative search, `dht/logic.go` | shortlist, visited map, goroutines of one round | `Bootstrap`, `LookupNode`, `StoreValue`, `FindValue`, `StoreBlob`, `FetchBlob` | data race on `visited`, repeated entries, failures, cancellation, termination |
| Node, `dht/node.go` | the parts it joins | `OnPing`, `OnStore`, `OnFindNode`, `OnFindValue`, `OnFetchBlob` | every handler but the last first adds the sender to the table, which may ping and wait |
| Storages, `dht/memory_storage.go`, `dht/disk_storage.go` | a map; files | `Get`, `Put`, `Delete`, `PutBlob`, `GetBlob` | interrupted writes, restarts |
| UDP transport, `transport/udp/udp.go` | pending requests | requests, blobs over TCP | loss, delay, repetition and reordering of datagrams, timeouts, late answers |
| WebRTC transport, `transport/webrtc/webrtc.go` | peers, pending requests and blobs | connect, incoming offers, requests, chunked blobs | two nodes connecting to each other, dead entries, handlers that block the channel they read |
| Signalers, `transport/webrtc/signaling.go` | pending offers; keys in the DHT; HTTP server | `SendOffer`, `ListenOffers` | answers to older offers, overwritten bells |
| Signaling server, `cmd/signal_server/main.go` | registered connections | register, forward | re-registration against a late disconnect |
| Pair benchmark, `cmd/bench_signaling/main.go` | jobs posted, results | dispatch of roles, collection of results | lost acceptances, lost results, a timer |
| Other benchmarks, demos, scripts | - | - | drivers around the library |

How they interact: a `Node` owns its routing table and storage and is the
handler of its transport. A search calls the transport and puts what it learns
into the table; a request that arrives puts its sender into the table; the table
calls back into the transport to ping. The WebRTC transport opens connections
with a signaler, and the DHT signaler stores its offers with the `Node` itself.

What makes each part correct:

- key space: comparing and measuring distances agrees with integer XOR;
- routing table: entries in the right bucket, at most `K`, one per peer, with
  the last known address; a peer is evicted only for a failed ping;
- search: the shortlist is the nearest of all that was learned, nothing nearer is
  left unqueried, each peer is queried in one round only, the call returns;
- transports: an answer settles the call it answers, a value that is read was
  held by the callee during the call, every call and handler ends;
- stored values: what was stored is found again as long as fewer than `StoreK` things
  fail, and it is not an overwritten value; a blob is where its value says;
- storages: reads and writes are single steps of a map; a blob that was
  acknowledged is whole;
- connections and signaling: one working connection per pair, an answer belongs
  to the offer in progress, a failed attempt does not disturb another one;
- pair benchmark: no pair is lost or run twice without a fault, and the
  coordinator ends.

## 2. Modules

| Module | Models |
|---|---|
| `KeySpace` | keys as bit vectors, `Closer`, `bucketIndex`, sorting a bag of keys by distance |
| `RoutingTable` | one table and the goroutines inside `Add` |
| `IterativeSearch` | one call of `Bootstrap`, `LookupNode`, `StoreValue` or `FindValue` |
| `UdpRpc` | several nodes, their calls, the network, the handlers with the nested ping |
| `StoredValues` | `StoreValue`, `StoreBlob`, `FindValue`, `FetchBlob` of several nodes on one key, with crashes: search, handlers and storages together |
| `ValueStore` | the abstract map a `Storage` is: `MemoryStorage` |
| `DiskStorage` | the files of `DiskStorage`; implements `ValueStore` |
| `CentralSignaling` | the signaling server, its clients, the websockets between them |
| `WebRtcPeers` | the maps of connections of several nodes, attempts to connect, incoming offers |
| `WebRtcRpc` | requests over WebRTC, handled on the callback that reads the channel |
| `BlobTransfer` | blobs over one WebRTC connection: frames, back-pressure, the reader |
| `DhtSignaling` | offers, answers and bells as values in the DHT, the polling loop of a callee |
| `PairBenchmark` | the coordinator and the agents of `cmd/bench_signaling` |
| `RoutingProofs`, `StorageProofs`, `UdpRpcProofs`, `WebRtcPeersProofs`, `WebRtcRpcProofs`, `BlobTransferProofs`, `CentralSignalingProofs`, `DhtSignalingProofs` | theorems and proofs |
| `MC*` | the instances that TLC checks |

`IterativeSearch` and `RoutingTable` extend `KeySpace`; `DiskStorage`
instantiates `ValueStore`. Three proof modules are about two modules each: `StorageProofs` extends
`StoredValues` and `DiskStorage`, `RoutingProofs` extends `RoutingTable` and `IterativeSearch`, and
`CentralSignalingProofs` extends `CentralSignaling` and `PairBenchmark`. The names of the second one
differ for that reason (`DiskSpec`, `SearchSpec`, `PairSpec`). `StoredValues` composes the results of the others: the
lookup of a `StoreValue` meets every node (`SearchIsComplete`), a read is one value
that the callee held during the call (`AnswersInv`), a storage is a map
(`ValueStore`). `DhtSignaling` uses the DHT as `StoredValues` shows it to be. `WebRtcPeers` takes from `CentralSignaling` what a
signaler can do: fail, be late, or return the answer to an earlier offer of the
pair (`AnswersMatch`). Definitions whose comment says "Mutant of" are faulty
variants of the definition that follows them; no specification uses them. Each
property is violated when such a variant takes the place of the right one. In
each module `TypeOK` (`SearchTyped`, `PairTyped`) is checked as a part of the invariant that describes its state:
`WellFormed`, `ShortlistInv`, `AnswersInv`, `FilesInv`, `PlacesInv`, `MapInv`,
`BufferInv`, `ChannelInv`, `DhtInv`, `StoredInv`, `PairsInv`.

### KeySpace

A key is the function from bit numbers to bits. The code only compares distances
(`Cmp`) and takes their length (`BitLen`), so that a distance is never built:
`Closer(x, y, target)` decides at the highest bit where `x` and `y` differ, and
`bucketIndex` is the highest bit where two keys differ. `AgreesWithIntegers`, in the run `routing_table`,
compares both with the integers, for the keys of the instance.
A sort is given by ranks: the n-th element is the one with n - 1 elements before it
(`NearestFirst`, and `NearestOfPlaces` of `RoutingTable`). This is what TLC computes and what the
proofs reason about; no recursion is needed.

### RoutingTable

`buckets` is `rt.buckets`. `Add` is one action when it returns under its first
lock (`AddKnown`, `AddNew`; an `Add` of the node itself changes nothing) and two
when the bucket is full: `AddFull` reads `bucket[0]` and unlocks, and
`PingAnswered` or `PingFailed` is everything from the answer of the ping to the
return. `adder[g]` holds the local variables `node` and `lrs` of goroutine `g` in
between. `lrs` keeps its contact, with its address, as the code keeps its
pointer. Three history variables state the properties: `latest` (the contact
last written, per peer), `contended` (peers that were passed to `Add` while an
unfinished `Add` was about them) and `heard` (goroutines whose pinged peer was
heard of by another way). `FindClosest` flattens the buckets, sorts and cuts.

The code can leave two entries of one peer, can restore an old address and can
evict a contact that is no longer the oldest. The properties say exactly when:
only when `Add` overlaps with another `Add` about the same peer. That is the
strongest form that the code satisfies (`RacesNeedOverlap`); without the condition
TLC violates all three of its parts.

### IterativeSearch

`pc` is where the caller is; `rpc[w]` is the goroutine that queries
`toQuery[w]`. The peers are the environment: each answers with any set of at most
`K` ids, with a value, or fails. `Launch` is one turn of the loop that marks a peer as
visited and starts its goroutine; goroutines already started may answer between two
turns. As the loop writes `visited` without the mutex that its readers hold,
`Answer` lets a read miss any of the writes made after its goroutine was
started, and `MapRace` is the abort of the Go runtime on concurrent map access.
`newNodes` counts how often each node was brought, since only its sorted merge with
the shortlist is used: `Appended` is the bag that line 197 sorts, `Merged` the sort and the cut. The table is the
set of ids handed to `rt.Add`: no bucket of the instance can fill up, and
`RoutingTable` is where buckets do. The model leaves out that an `Add` inside the
goroutine may wait for a ping: it delays, and changes nothing else here.

### UdpRpc

A datagram that was sent can be delivered now, later, more than once or never:
answers stay in `net`, and the request of a call may be delivered for as long as
the run lasts. `DeliverRequest` starts a handler; it executes `Observe`, or
`ObserveFull` and `PingEnded` with a nested call in between, and then `Act`. A
call ends by `ReceiveAnswer` or `Timeout`; both are possible when the answer and
the timer are ready at once. The routing table of a node is a single bucket.
`Store` carries the number of its call as the value, so that different values are
told apart. `Crash` ends a node with its calls, handlers and memory.

### StoredValues

One key, and nodes that are ranked by their distance to it. `Replicas(n)` is where
node `n` stores: the `StoreK` nearest of the others, since a search does not
return the node itself. A `StoreValue` stores at each replica in any order, drops
the errors of those that fail, and returns when all have ended. A `FindValue` looks
into its own storage and then asks in rounds of `Alpha`, each replica at its own time,
and takes the last value that a round brings. A value is the number of its call; the
value of a `StoreBlob` names the node that has the blob. The nodes use either
storage (`durable`). What fails is counted in `lost` and `crashes`: a request or answer that is lost (`StoreFails`, `AnswerFails`), a
node that stops, and a `Put` of `DiskStorage` that fails (`PutFails`), whose error is dropped, so that the writer is answered as if it had
succeeded, while the file is as before or cut. A node that stops in the middle of a `Put` may have cut the file too. The properties
say how much the answers depend on it. A writer that is itself a replica keeps its
old value: `StaleNeedsOtherReplicas` says that an overwritten value is found only by
such a difference between the replicas of two writers, or after a fault. That a Store may still arrive
after its call has failed is in `UdpRpc` (`NoStaleStore`), not here.

### ValueStore and DiskStorage

`os.WriteFile` truncates and then writes. `PutTruncates` and `PutBlobCreates`
are the first half, under the lock; `PutWrites` and `PutBlobWrites` the second,
which may fail. A crash between the two leaves the file `Cut`. The refinement
mapping `VisibleValue` shows the old value until the write has ended. Since `Put`
has no error, a failed write is, in `ValueStore`, the loss of that key's value.
Only a crash of the process is modelled: what has been written is in the page
cache and stays. A loss of power, for which the code has no fsync, could lose
more. The empty blob has no cut form, and is not among `Blobs`.

### CentralSignaling

A websocket is a queue in each direction (`up`, `down`) until it is closed or breaks;
then what is still in the queues may or may not be read. `ListenOffers` dials and
registers, `ReadOffer` and `ReadAnswer` are the turns of `readLoop`, `HandlerEnds`
is the goroutine that writes the answer to whatever connection its node has by
then. The server reads in `ServerReads` and returns in `ServerEnds`, with the delete
of its `defer`; a goroutine of `doForward` is an element of `forwards`, which first
looks up and then writes. `pending` has one place per pair of nodes, as in the
code, so that a second offer takes the place of the first and the first to end
removes it. Two consequences are part of the properties: an answer that comes
late settles the next offer of the pair (`AnswersMatch` says: never an earlier one,
and one only), and an overlapped call may lose its place (`WaitingHasPlace`). A
node whose old connection ends after it has registered again becomes
unreachable, although it is connected: `EntryLostToSameNode` says that
this is the only way. `PlacesInv` also says that a connection that the
server has given up is not in its map. `MaxLosses` bounds the websockets that are closed or break.

### WebRtcPeers

`attempt[k]` is one execution of `connect`, from `getPeer` finding nothing
(`Connect`) over the write to the map (`Publish`), the answer or the failure of the
signaler, to its return. An attempt has two ends, at the two nodes, and `peers` is the
map of each node. `HandleOffer` is `handleIncomingOffer`, which may run
after the attempt has ended. Opening of the channel is external; an end
opens when both have each other's descriptions and none was closed. `contested`
marks pairs with attempts that overlapped, or with an offer handled after its
attempt had ended. Without these, the maps name the two ends of one connection
and no open connection is lost; with them, an entry is overwritten or deleted and
the connection it named stays open for ever. What holds in every case: a map never
holds a connection that was closed, only Close closes an open one, and after
attempts that have succeeded the entries that stayed can be used. A connection
that dies, or never opens, is not noticed by the code: its entry stays.

### WebRtcRpc

A connection has one ordered channel in each direction, and at each end one callback
that reads it. `ReadAnswer` puts an answer into the channel of its call;
`ReadRequest` makes the callback busy: it adds the sender to the bucket (`Observe`), which may
make it wait for a ping of its own (`ObserveFull`, `PingEnded`), then acts and answers (`Act`).
In the meantime nothing else from that peer is read. A request for a
blob is the exception: it starts a goroutine (`ReadFetch`, `Fetched`). When each
of several callbacks waits for an answer that another one of them would have to read,
only `Timeout` opens the ring; `RingsOpen` says that it does, always. `HandledInOrder` is
what the arrangement is good for: requests of one node to another take effect in
the order in which they were sent. Connections are open from the start, and `Break` takes one away with
what is in it, which neither end notices.

### BlobTransfer

A call of `FetchBlob`, its goroutine at the serving node and the frames in the
channel, in one direction of one connection. `Check` is the two loop
conditions, `Wakes` the receive from `blobLowSignal`, `SendFrame` the write; another
sender may come in between. `Delivers` hands the oldest frame to `onBlobMsg` and releases
its place in the buffer; when that crosses the threshold the callback is due
(`SignalsLow`), before the next frame is delivered. Frames count alike, and
`Threshold` is in frames (31 in the code: with its header, a frame is more than the 32nd part of the threshold). A signal can be missed in one way: two
senders wait, one takes the signal and has a single frame left, the amount stays at or below
the threshold and so never crosses it again. `NoMissedSignal` says that it takes
two that waited at the same time (`rivals`). The blob of no frame is served by
writing nothing, so that its reader runs into the timeout: `BlobArrives` excepts it.

### DhtSignaling

Several callers and one callee. `offer[i]` is a call of `SendOffer`: store the offer, ring,
poll the answer key. `loop` is `pollOffers`, `handler` its goroutines, `processing` the map under
`procMu`. A `StoreValue` sends one Store to each replica from goroutines of its own (`dht/logic.go:38-46`):
`sent` has those that are under way, each lands when it lands (`StoreOffer`, `RingBell`, `StoreAnswer`,
`ClearBell`, one replica each), and the call goes on when all have ended (`OfferStored`, `BellRung`,
`AnswerStored`, `HandlerEnds`). So the replicas of a key differ for a while, and for good when two
`StoreValue`s reach them in different orders; a read returns what one of them holds. Faults are a Store that is lost,
a `StoreValue` that returns while one of its Stores is still under way (it has timed out, and may land later), and
a read or a handler that fails.

A callee that is among the nodes where callers store the bell (`holds`) has a replica of its own, which it reads
first and never clears: it handles the same offer until the offer is 30 s old. `TooOld`
therefore needs that its caller has ended, and that clocks agree. Otherwise each Store of a ring that lands
leads to two handlings at most (`HandledTwicePerStore`): the second one when the
loop had read the bell before it was cleared there. The Stores of a ring count one by one, as a slow one rings again
after the bell was read and cleared at the other replicas; so one ring may be handled more than twice with
no fault at all, and the bound per ring depends on the number of replicas. `OffersSucceed` names what can keep a
call waiting for ever: before the callee had heard it another caller rang, a handler
cleared the bell, another call of the same caller replaced the offer, or something failed.

### PairBenchmark

`runCoordinator` posts the callee of each pair to the agents in turn until one accepts, then the callers,
then waits for as many results as there are pairs or for its timer. `Accepted`, `PostFails`, `PostHangs`
and `AllFailed` are the turns of a job's loop; an execution is known by the attempt that
started it, since a lost acceptance starts the role at a second agent. Two results of one pair
then count as two pairs, and "all results received" (line 448) can be reported without a result of
every pair; `AllMeansAll` says that this takes such a repetition, or a caller that
was reported unreachable while it ran. `tryPostJSON` sets no timeout (line 537): an agent that takes
the connection and never answers (`PostHangs`) holds up `Wait` of lines 378 and 441, or the sequential loop, before the timer of line
445 is started, and no file is written. `CoordinatorEnds` says that this is the only way: once the agents'
answers to the POSTs, or their failures, are in, the coordinator ends whatever becomes of the roles.

## 3. Runs

| Run | Instance | Distinct states | Shows |
|---|---|---|---|
| `routing_table` | 3-bit keys, `K` = 2, 4 peers and the node itself, one peer with two addresses, 2 goroutines | 10,658 | the table's properties; the metric agrees with integer XOR |
| `iterative_search` | 5 peers, `K` = 4, `Alpha` = 3, `StoreK` = 3 | 250,639 | the search's properties, termination included |
| `udp_rpc` | 3 nodes, one-place buckets, 3 calls of which 2 by programs, one repeated request, one crash | 475,718 | what a successful call means; every call and handler ends |
| `stored_values` | 4 nodes, `StoreK` = `Alpha` = 2, 2 writes, 1 blob, 1 fault | 4,427,316 | when a value that was stored is found, and which one |
| `disk_storage` | 2 keys, 2 values, 2 blobs | 51,744 | refinement of `ValueStore`, blobs |
| `central_signaling` | 2 nodes, 3 connections, one of which is lost, 2 offers | 400,437 | whose answer a call gets; offers arrive; what the server's map holds and loses |
| `dht_signaling` | 2 callers, 2 replicas of each key, 2 offers or one and a fault or `Close`, 3 handlers | 980,139 | marks, repeated handling, offers that succeed |
| `webrtc_peers` | 2 nodes, 3 attempts | 2,202,266 | the maps under overlapping attempts |
| `webrtc_rpc` | 3 nodes, one-place buckets, 4 calls of which 2 by programs, 1 lost connection | 415,031 | order of requests; rings of waiting callbacks open |
| `blob_transfer` | 2 calls, blobs of 0 to 3 frames, threshold 1 | 120,654 | whole blobs, bounded buffer, when senders get stuck |
| `pair_benchmark` | 2 pairs, 2 agents, 2 faults | 631,959 | every pair is accounted for; the coordinator ends |
| `disk_finding` | the same as `disk_storage` | - | violated: see section 6 |

Why the bounds are enough. *routing_table*: three peers compete for two places, so
that a bucket overflows, both goroutines can ping the same contact, one can ping what
the other one adds, and the second address makes an overwritten address visible;
with two goroutines every pair of overlapping `Add`s is there. *iterative_search*:
a shortlist smaller than the number of peers makes entries drop out, `Alpha` is
the code's, and a peer can be named by two answers of a round. *udp_rpc*: a request whose
callee does not know the caller makes it ping the peer in its full bucket, which
may do the same: with three calls two programs and a ping, or one program and a chain
of two pings. `Routes` keeps the calls of programs to one pair of nodes, where two Stores can
overtake each other; a crash may come anywhere. Further pings fail as a failed write does.
*stored_values*: with two replicas among four nodes, writers can have the same or
different replicas, and be one themselves; a second write makes the first
one stale; one fault is one less than `StoreK`. *central_signaling*: two offers are of
the same pair or of the two directions; a third connection replaces another of its
node, while the server still reads the old one. *dht_signaling*: two offers
are of one caller or of two, or one offer meets a fault or `Close`, which share one bound (`MaxEvents`); the bell
has two replicas, or one of the two is the callee's (`BellSets`); three handlers are
one more than a single Store of a ring can lead to, so that one ring is handled a third time through a Store that was
slow. The first call is that of a fixed caller (`First`), as callers are interchangeable. *webrtc_peers*: two attempts cross, and a
third follows or overlaps with both. *webrtc_rpc*: the routes are those of two nodes that call each
other and of a third that makes one of them ping: with full buckets of one place,
callbacks wait for one another in a ring. *blob_transfer*: with a threshold of one, three
frames make a sender wait and wake more than once, and two senders can share the signal.
*pair_benchmark*: one fault repeats a role or makes a POST hang, a second one loses a result.

Fairness. `IterativeSearch`: the caller's goroutine is scheduled, and every request
ends, since the transport ends it with a timeout. Cancellation is not fair: it may
never happen. `UdpRpc`: timers fire, goroutines are scheduled (every call and
every handler, weakly fair each); the network owes nothing. `WebRtcRpc`: timers fire, and goroutines and
callbacks are scheduled. `CentralSignaling`: the
loops of clients and server and the forwards are scheduled; nobody has to call,
close, answer or time out. `DhtSignaling`: the steps of callers with their Stores, the turns of the callee's loop, and the
goroutines with their Stores go on (weakly fair, each of the three as one): the transport ends every Store with a timeout; no context has to end. `BlobTransfer`: senders and readers are scheduled, and the
channel delivers while it is not broken, as a reliable channel does. `PairBenchmark`: a POST
of the coordinator ends or hangs for ever, its timer fires once it is started, and agents need not go on with their roles. The other modules
have no liveness property: `RoutingTable`'s pings end by the same timeouts, no
step of a disk has to happen, and what `StoredValues` promises is about calls that have returned.
`NobodyWaitsForEver`, `RingsOpen` and `OffersSucceed` have the form `[]<>P`: the number of
calls of a run is bounded, so that P, that none of them waits, comes to hold for good.
`CHECK_DEADLOCK FALSE` is set for `UdpRpc`, `StoredValues`, `CentralSignaling`, `DhtSignaling`,
`WebRtcPeers`, `WebRtcRpc`, `BlobTransfer` and `PairBenchmark`, which stop when their calls are used up.

## 4. What is proved

All theorems are for every value of the constants, under the assumptions of the
modules: `KeyWidth` (at least one bit), `SelfIsKey`, `TargetIsKey`, `ContactsAreNodes` (ids are
keys), `SelfIsNoPeer` (a finite number of peers, and the node is none of its own), `BucketSize` (`K` positive),
`SearchWidths` (`Alpha` and `StoreK` positive, and `StoreK` at most `K`: the code has 3, 3 and 20), `BenchmarkSizes` (numbers), `StoreBounds` (numbers, and two nodes at least: a node
alone has nobody to store at), `FilesAreNoValues` and
`NoneIsNoWriter` (an absent or cut file is no value, and no writer is not one),
`TablesType` (a routing table is a list of nodes for each node), `CallBounds`, `RpcBounds`, `AttemptBound`, `BlobBounds`
(numbers, and a finite set of fetches), `NobodyCallsItself` (a node is not in its own table: `routing_table.go:35`), `SignalingBounds` (numbers, and no node is
called 0, which stands for none) and `DhtBounds` (numbers, and no caller is called
like an empty bell, a value that is no id for `pollOffers`). The bounds of the runs
are constants of the modules, so that the theorems hold for any number of calls, crashes and faults.

Each proof has an inductive invariant `IInv` (`DiskIInv`, `SearchIInv`, `PairIInv` for the second module of a file), which TLC has checked on the
instance of the component's run before it was proved. Its parts are definitions with a
comment. Lemmas about a single variable, what any step does to it, come first where a
module has many actions; then one lemma for each part of `IInv`.

`RoutingProofs` on closeness: `BucketIndexInRange` (the index is within the array),
`CloserTransitive` and `CloserTotal`; with `CloserIrreflexive` and
`CloserAsymmetric` closeness is a strict total order. They rest on `HighestBit`, that a
nonempty set of bits has a greatest one, which uses the well-foundedness of the naturals.

`RoutingProofs` on sorting: `Ranking` says that the elements of a finite set with a strict
total order can be listed by the number of elements before them (`Lists`), by induction on the size of the set,
over a property of numbers and not of data, which well-foundedness of the naturals
gives. `FindsNearest` (`FindClosestIsNearest`) applies it to the places of a table, so
that a contact which is stored twice is sorted as two, and the lemmas on
`Merged` to the entries of a shortlist.

`RoutingProofs` on the table: `TypeCorrect`, `BucketsWellFormed`, `OverlapOnly` (`RacesNeedOverlap`), `TableNeverShrinks` and `EvictionNeedsFailedPing`.
`TableNeverShrinks` states `NeverShrinks`, which no run lists.
The argument is one inductive invariant, `IInv == Shape /\ History`.
`Shape` adds to the types, `WellPlaced` and `Bounded` that the contact a goroutine
waits for belongs to the bucket of the peer it wants to add (`PendingPlaced`):
without it, line 75 could put a contact into a foreign bucket. `History` adds to
`NoDuplicates`, `FreshContact` and `JudgesOldest` three facts about the `Add`s that
are waiting: the peer to be added is not stored unless contended
(`PendingAbsent`), no two of them bring the same peer (`PendingDistinct`), and
`lrs` is the latest contact of its peer unless contended (`PendingFresh`). Each is
what line 65 or 75 relies on when it writes to a bucket it has not looked at since
it unlocked. The proofs have a step per action; lemmas about `RemoveAt`, `Append`
and `ReplaceAtTail` come first.

`RoutingProofs` on a search: `ShortlistStaysNearest` (`ShortlistInv`), `SearchesEndComplete`
(`SearchIsComplete`), `ValuesAreReturned` (`ValueIsReturned`) and `QueriedInOneRound`
(`OneRoundPerPeer`), for any peers, answers and widths. What a search promises is about its end; in
between, `SearchIInv` says where each peer is that was learned of or visited: in the shortlist, among `newNodes`, or
farther than all of a full shortlist (`Rounds`). Peers are learned of in the
goroutines, which may miss writes to `visited`; the invariant holds all the same, since
a peer is visited only when it is in the shortlist and a peer that drops out was farther than `K` others,
which the merges only replace by nearer ones (`MergedFacts`). A node that the loop has not
come to yet was visited in this round only (`Batch`), so that a peer with two entries
is queried in one round; `Course` ties values and errors to where the call is.

`StorageProofs` on `StoredValues`: `ReplicasUpToDate` (`StoredInv`) and `StaleOnlyFromOtherReplicas`
(`StaleNeedsOtherReplicas`), for any number of nodes, replicas, calls and faults. A read takes
time, and calls begin and end meanwhile, so that neither is inductive. `IInv` adds, for each call that has begun, that the replicas which it has
`Reached` hold nothing that had ended before it began (`NotOverwritten`), and, while there is no fault,
something (`Present`); that a value in hand of a read was taken at a replica
of its writer which no call that the reader knows of had written over (`Fresh`); and
that nodes without a disk have nothing while they are down (`DownIsEmpty`), since
a Store passes them over. That calls are numbered without holes gives a new call a new number.
`StoredIsFound` (`Findable`) counts: a call that has ended stored at `StoreK` nodes or more faults have
happened (`FaultsAccounted`, each fault costs one replica), so that fewer faults than replicas leave
one that every lookup visits. It assumes `N > StoreK`: a writer does not store
at itself, so that in a smaller network there are fewer than `StoreK` copies and the bound is wrong. For
`BlobFound` the node that wrote a blob keeps it (`BlobsKept`).

`StorageProofs` on `DiskStorage`: `AcknowledgedBlobsAreWhole` (`FilesInv`), `WholeBlobsStay` (`BlobsImmutable`) and
`DiskImplementsStore`, the refinement: each step of `DiskStorage` is a step of
`ValueStore` or changes nothing that callers see. It needs that the file of the
key that is being put is cut (`MidWrite`), so that a Put which fails or crashes
ends with the key's value lost; and for blobs that a cut one is being written or was interrupted (`CutIsKnown`).

`UdpRpcProofs`: `AnswersAreReal` (`AnswersInv`) and `StaleStoreNeedsRepeat` (`NoStaleStore`).
`AnswersInv` is about a call that has returned; `IInv` follows its answer back through the channel
(`InboxReal`) and the network (`AnswersReal`) to the callee, whose value is always one that
the call may return while it waits (`CalleeInWindow`). `NoStaleStore` needs that a
request which is not delivered twice has one handler, and that it has replied when the
call was carried out (`HandledOnce`): then no handler of an earlier Store is left that could
write after the later one (`Overwrites`).

`WebRtcPeersProofs`: `MapsAreUsable` (`MapInv`), `EndsOfOneConnection` (`EndsMatch`),
`LeaksNeedOverlap` (`LeakNeedsOverlap`) and `OnlyCloseCloses` (`OpenStaysOpen`). An entry belongs to an attempt between
its two nodes and was not closed (`EntriesBelong`), and is lost to a failure or to `Close`
only (`EntriesKept`). The attempts of a pair that is not contested go on one at a time
(`OneAtATime`); the one that was given its own answer keeps both entries, and no other one
begins (`Connected`). Without the last two, the failure of an earlier attempt could delete the entry of
a later one (lines 271 and 282).

`WebRtcRpcProofs`: `CallsInOrder` (`HandledInOrder`) and `StuckInRings` (`ChannelInv`). `IInv` says that the requests
of a channel are in the order of their calls, all of them behind the one that the callback handles (`InOrder`),
and that, with all connections there, a call that was made is in the channel, being handled, or
carried out, and its answer then in the channel or with the caller (`NothingLost`). So when a call is
carried out, no earlier one of its pair can be left anywhere (`EarlierActed`); and a call that waits
while nobody can move is held up by a callback that waits for a ping, which waits as well (`SomebodyHolds`): all
such callbacks together are the ring.

`BlobTransferProofs`: `BlobsComeWhole` (`WholeOrError`), `BufferStaysBounded` (`BufferInv`) and
`SignalNotMissed` (`NoMissedSignal`), for blobs of any length. `IInv` says where each
frame of a blob is: a call that waits has received the first of them, and the buffer holds
the rest of those sent, in order (`GetsAll`, `BufferOrdered`), among frames of other blobs;
nothing is left of a blob that was handed over (`HasAll`). A
sender without rivals waits alone (`WaitsAlone`), so that the signal is for it.

`CentralSignalingProofs`: `PlacesAgree` (`PlacesInv`), `AnswersSettleOne` (`AnswersMatch`) and
`EntriesLostToOwnNode` (`EntryLostToSameNode`). `AnswersMatch` rests on conservation: of an offer and its answer
there is one copy, in a queue, a goroutine of the server or of the callee, or the channel of a
call (`Single`), so that no answer settles two calls. That an answer settles no earlier call
needs that a place is held by the latest call of its pair (`PlaceIsLatest`). `NoEndedEntry` needs that each
websocket registers once, with its first message (`SessionsInv`).

`CentralSignalingProofs` on the pair benchmark: `PairsAreAccounted` (`PairsInv`) and
`AllResultsOfAllPairs` (`AllMeansAll`), for any number of pairs, agents and faults. `PairIInv` pays for
each thing that goes wrong with a fault: every pair from which nothing can come any more (`LostByFaults`), and
every run of a role that another attempt has followed (`JobAttempts`). Without faults a job fails only after all
agents were tried, which takes that the attempts of a job go to different agents and to all of
them (`EveryAgentTried`: remainders are unique). A pair has one result for each attempt
(`ResultsOnce`) and each result comes from a run, or from a caller that nobody
accepted (`ResultsHaveOrigin`); so when no caller was repeated, results are one to
one with pairs, and as many of them as pairs are those of all pairs.

`DhtSignalingProofs`: `OneGoroutinePerCaller` (`DhtInv`) and `TwicePerStore`
(`HandledTwicePerStore`), for any number of callers, offers, replicas and faults. The second counts the handlings
there were and those still to come: a Store of a ring that lands gives two, one for as long as the bell names the caller or
a turn of the loop has read it (`Ringers`, `Turn`), the other until a goroutine is about the caller that will clear the bell
at that replica (`Pending`). All together they are at most two for each Store that has landed and one for each fault
(`Balance`); starting a goroutine uses one up and adds a handling. Each Store of a call lands once at a replica
(`RungOnce`), so that `rung` counts them.

Only model-checked: `AgreesWithIntegers`, and the liveness properties `Terminates`, `NobodyWaitsForEver`,
`RingsOpen`, `BlobArrives`, `OffersArrive`, `OffersSucceed` and `CoordinatorEnds`. The first
compares bit vectors with integers and XOR, which are recursive computations over the bits, and
the others need fairness; both are outside what the proof system can do. Every other
property of the passing runs is a theorem.

## 5. Not modelled

The direct and hybrid signalers (an HTTP request without state, and a choice); the exchange of
blobs over TCP, which is one step of `StoredValues` (one connection per blob, one request and one reply, and a
deadline); STUN and TLS set-up (a single exchange before the transport starts, and
library configuration); JSON and hex encoding; the other benchmarks (loops that
measure times), demos, scripts,
infrastructure and plots. Hash collisions are excluded.

## 6. Findings

`disk_finding`: `PutBlob` takes a file of the right name for the blob
(`dht/disk_storage.go:74`). When a first write fails half way, or the process
stops in it, the file is there and cut short; the next `PutBlob` of the same
contents succeeds without writing, and `GetBlob` returns the cut contents without an
error, and so would a peer that fetches it. `cmd/disk_demo/main.go:94` expects what it fetched to be
what it stored. `AckedBlobIsWhole`, which passes, is the part that holds: a blob
whose write was not interrupted stays whole.

## 7. Plan

Done: every module of section 2, and the proofs of section 4. What is left:

1. The parts of section 5. The exchange of blobs over TCP is the first that would be worth a module, if it gets
   retries or reuses connections.
2. Three hazards without a property: the two pings of 5 s that wait for one another's
   timeout (`dht/node.go:58`), the answer of the STUN server among early requests
   (`transport/udp/udp.go:219`), and entries of dead connections (`transport/webrtc/webrtc.go:291`), each with its
   reason in `PROJECT.json`. The first needs a model of time, the others a decision on
   what the code should promise.
