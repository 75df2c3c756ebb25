------------------------------ MODULE WebRtcRpc ------------------------------
(***************************************************************************)
(* transport/webrtc/webrtc.go, the control channel: requests and answers   *)
(* of two connected nodes in one ordered, reliable channel per direction.  *)
(* A node reads it on the callback of the channel, and carries out the     *)
(* request there: until the handler has answered, nothing else from that   *)
(* peer is read, answers to the node's own calls included.                 *)
(*                                                                         *)
(* Connections are open (module WebRtcPeers opens them); the routing table *)
(* of a node is one bucket, as in UdpRpc; a blob arrives over a channel of *)
(* its own (module BlobTransfer), here in one step.                        *)
(***************************************************************************)
EXTENDS Integers, Sequences, FiniteSets, SequencesExt

CONSTANTS
  Nodes,
  MaxCalls,   \* bound: calls of the run, the pings of handlers included
  MaxInvoked, \* bound: calls that programs make
  Routes,     \* bound: <<from, to>> of those calls
  MaxBreaks,  \* bound: connections that are lost
  K,          \* capacity of the bucket
  Tables      \* the buckets that the nodes may start with

ASSUME RpcBounds == {MaxCalls, K} \subseteq Nat \ {0} /\ {MaxInvoked, MaxBreaks} \subseteq Nat

\* Nobody calls itself: Add keeps a node out of its own table (routing_table.go:35),
\* and searches leave it out.
ASSUME NobodyCallsItself ==
  /\ \A n \in Nodes : <<n, n>> \notin Routes
  /\ Tables \subseteq [Nodes -> Seq(Nodes)]
  /\ \A t \in Tables : \A n \in Nodes : t[n] \in Seq(Nodes \ {n})

VARIABLES
  call,      \* what sendRPC and FetchBlob know of each call
  inbox,     \* pendingRPC.ch and pendingBlob.ch: the answers in it
  channel,   \* controlDC: messages from the first node to the second
  callback,  \* what the callback of the first node for the second one does
  fetching,  \* goroutines of line 373: calls whose blob is being read
  bucket,    \* per node, least recently seen first
  broken,    \* pairs of nodes whose connection is lost
  acted      \* history: calls whose handler has acted

vars == <<call, inbox, channel, callback, fetching, bucket, broken, acted>>

Calls == 1 .. MaxCalls
NoCall == 0
Ends == {e \in Nodes \X Nodes : e[1] # e[2]}

Types == {"PING", "STORE", "FETCH_BLOB"}

Unused == [st |-> "unused"]
Used == {c \in Calls : call[c] # Unused}
Waiting == {c \in Used : call[c].st = "waiting"}
NextCall == Cardinality(Used) + 1

Request(c) == [call |-> c, isReq |-> TRUE]
Answer(c) == [call |-> c, isReq |-> FALSE]
Messages == [call : Calls, isReq : BOOLEAN]

Idle == [st |-> "idle", call |-> NoCall]
Observing(c) == [st |-> "observe", call |-> c]
Acting(c) == [st |-> "act", call |-> c]
Pinging(c, p, lrs) == [st |-> "ping", call |-> c, ping |-> p, lrs |-> lrs]

Init ==
  /\ call = [c \in Calls |-> Unused]
  /\ inbox = [c \in Calls |-> <<>>]
  /\ channel = [e \in Ends |-> <<>>]
  /\ callback = [e \in Ends |-> Idle]
  /\ fetching = {}
  /\ bucket \in Tables
  /\ broken = {}
  /\ acted = {}

\* controlDC.Send: what is written to a lost connection arrives nowhere.
Send(from, to, msg) ==
  channel' = IF {from, to} \in broken THEN channel
             ELSE [channel EXCEPT ![<<from, to>>] = Append(@, msg)]

\* sendRPC, and FetchBlob, up to the select: registered before it is sent.
SendRPC(c, from, to, type) ==
  /\ call' = [call EXCEPT ![c] = [st |-> "waiting", from |-> from, to |-> to, type |-> type]]
  /\ Send(from, to, Request(c))

\* A program calls Store or FetchBlob (Ping, FindNode and FindValue take the same
\* path as Store).
Invoke(from, to, type) ==
  /\ <<from, to>> \in Routes
  /\ NextCall \in Calls
  /\ Cardinality({c \in Used : call[c].type # "PING"}) < MaxInvoked
  /\ SendRPC(NextCall, from, to, type)
  /\ UNCHANGED <<inbox, callback, fetching, bucket, broken, acted>>

\* The answer, or the blob, is taken and the call unregistered.
ReceiveAnswer(c) ==
  /\ c \in Waiting /\ inbox[c] # <<>>
  /\ call' = [call EXCEPT ![c].st = "ok"]
  /\ inbox' = [inbox EXCEPT ![c] = <<>>]
  /\ UNCHANGED <<channel, callback, fetching, bucket, broken, acted>>

\* Mutant of Timeout: only the calls of programs have one.
TimeoutOfInvoked(c) ==
  /\ c \in Waiting /\ call[c].type # "PING"
  /\ call' = [call EXCEPT ![c].st = "failed"]
  /\ inbox' = [inbox EXCEPT ![c] = <<>>]
  /\ UNCHANGED <<channel, callback, fetching, bucket, broken, acted>>

\* rpcTimeout or blobTimeout passes, or Send reports an error.
Timeout(c) ==
  /\ c \in Waiting
  /\ call' = [call EXCEPT ![c].st = "failed"]
  /\ inbox' = [inbox EXCEPT ![c] = <<>>]
  /\ UNCHANGED <<channel, callback, fetching, bucket, broken, acted>>

\* What the callback of e reads next is the oldest message from its peer.
Incoming(e) == <<e[2], e[1]>>

\* onControlMsg of an answer: into the channel of the call, if it still waits.
ReadAnswer(e) ==
  LET q == channel[Incoming(e)] IN
  /\ callback[e] = Idle /\ q # <<>> /\ ~Head(q).isReq
  /\ channel' = [channel EXCEPT ![Incoming(e)] = Tail(@)]
  /\ LET c == Head(q).call IN
     inbox' = IF c \in Waiting /\ inbox[c] = <<>>
              THEN [inbox EXCEPT ![c] = <<c>>] ELSE inbox
  /\ UNCHANGED <<call, callback, fetching, bucket, broken, acted>>

\* Mutant of Reads: requests are taken in any order, as goroutines of their own
\* would be scheduled.
ReadsAhead(e) ==
  LET q == channel[Incoming(e)] IN
  /\ callback[e] = Idle /\ q # <<>>
  /\ \E i \in DOMAIN q : channel' = [channel EXCEPT ![Incoming(e)] = RemoveAt(q, i)]
                         /\ callback' = [callback EXCEPT ![e] = Observing(q[i].call)]
                         /\ q[i].isReq /\ call[q[i].call].type # "FETCH_BLOB"

\* onControlMsg of a request that is handled on the callback itself.
Reads(e) ==
  LET q == channel[Incoming(e)] IN
  /\ callback[e] = Idle /\ q # <<>>
  /\ Head(q).isReq /\ call[Head(q).call].type # "FETCH_BLOB"
  /\ channel' = [channel EXCEPT ![Incoming(e)] = Tail(q)]
  /\ callback' = [callback EXCEPT ![e] = Observing(Head(q).call)]

ReadRequest(e) ==
  /\ Reads(e)
  /\ UNCHANGED <<call, inbox, fetching, bucket, broken, acted>>

\* onControlMsg of a request for a blob: the callback only starts a goroutine.
ReadFetch(e) ==
  LET q == channel[Incoming(e)] IN
  /\ callback[e] = Idle /\ q # <<>>
  /\ Head(q).isReq /\ call[Head(q).call].type = "FETCH_BLOB"
  /\ channel' = [channel EXCEPT ![Incoming(e)] = Tail(q)]
  /\ fetching' = fetching \cup {Head(q).call}
  /\ UNCHANGED <<call, inbox, callback, bucket, broken, acted>>

\* The goroutine sends the blob, or the reason why not as an answer.
Fetched(c) ==
  /\ c \in fetching
  /\ fetching' = fetching \ {c}
  /\ acted' = acted \cup {c}
  /\ \/ /\ {call[c].from, call[c].to} \notin broken /\ c \in Waiting
        /\ inbox' = [inbox EXCEPT ![c] = <<c>>]
        /\ UNCHANGED channel
     \/ Send(call[c].to, call[c].from, Answer(c)) /\ UNCHANGED inbox
  /\ UNCHANGED <<call, callback, bucket, broken>>

Replace(b, old, new) ==
  LET i == CHOOSE j \in DOMAIN b : b[j] = old /\ \A k \in 1 .. j - 1 : b[k] # old
  IN IF Contains(b, old) THEN Append(RemoveAt(b, i), new) ELSE b

\* observePeer of a sender that is known, or that there is room for.
Observe(e) ==
  LET b == bucket[e[1]] IN
  /\ callback[e].st = "observe"
  /\ \/ Contains(b, e[2]) /\ bucket' = [bucket EXCEPT ![e[1]] = Replace(b, e[2], e[2])]
     \/ ~Contains(b, e[2]) /\ Len(b) < K /\ bucket' = [bucket EXCEPT ![e[1]] = Append(b, e[2])]
  /\ callback' = [callback EXCEPT ![e] = Acting(callback[e].call)]
  /\ UNCHANGED <<call, inbox, channel, fetching, broken, acted>>

\* observePeer with a full bucket: the callback waits for a call of its own.
\* Without a connection (getPeer fails) there is no call; this stands also for
\* the pings beyond MaxCalls.
ObserveFull(e) ==
  LET b == bucket[e[1]]
      c == callback[e].call
  IN
  /\ callback[e].st = "observe"
  /\ ~Contains(b, e[2]) /\ Len(b) >= K
  /\ \/ /\ NextCall \in Calls
        /\ SendRPC(NextCall, e[1], Head(b), "PING")
        /\ callback' = [callback EXCEPT ![e] = Pinging(c, NextCall, Head(b))]
     \/ /\ callback' = [callback EXCEPT ![e] = Pinging(c, NoCall, Head(b))]
        /\ UNCHANGED <<call, channel>>
  /\ UNCHANGED <<inbox, fetching, bucket, broken, acted>>

PingEnds(e) == callback[e].st = "ping" /\ callback[e].ping \notin Waiting

\* The ping has ended: rt.Add keeps its peer or puts the sender in its place.
PingEnded(e) ==
  LET ping == callback[e].ping
      lrs == callback[e].lrs
      answered == ping # NoCall /\ call[ping].st = "ok"
  IN
  /\ PingEnds(e)
  /\ bucket' = [bucket EXCEPT ![e[1]] = Replace(@, lrs, IF answered THEN lrs ELSE e[2])]
  /\ callback' = [callback EXCEPT ![e] = Acting(callback[e].call)]
  /\ UNCHANGED <<call, inbox, channel, fetching, broken, acted>>

\* Mutant of Act: only a call that stores is answered.
ActWithoutPong(e) ==
  /\ callback[e].st = "act"
  /\ IF call[callback[e].call].type = "STORE"
     THEN Send(e[1], e[2], Answer(callback[e].call)) ELSE UNCHANGED channel
  /\ callback' = [callback EXCEPT ![e] = Idle]
  /\ acted' = acted \cup {callback[e].call}
  /\ UNCHANGED <<call, inbox, fetching, bucket, broken>>

\* The rest of the handler, and the answer: the callback is free again.
Act(e) ==
  /\ callback[e].st = "act"
  /\ Send(e[1], e[2], Answer(callback[e].call))
  /\ callback' = [callback EXCEPT ![e] = Idle]
  /\ acted' = acted \cup {callback[e].call}
  /\ UNCHANGED <<call, inbox, fetching, bucket, broken>>

\* A connection is lost, with what is in its channels.
Break(n, m) ==
  /\ n # m /\ {n, m} \notin broken
  /\ Cardinality(broken) < MaxBreaks
  /\ broken' = broken \cup {{n, m}}
  /\ channel' = [channel EXCEPT ![<<n, m>>] = <<>>, ![<<m, n>>] = <<>>]
  /\ UNCHANGED <<call, inbox, callback, fetching, bucket, acted>>

Next ==
  \/ \E n, m \in Nodes, type \in Types \ {"PING"} : Invoke(n, m, type)
  \/ \E c \in Calls : ReceiveAnswer(c)
  \/ \E c \in Calls : Timeout(c)
  \/ \E c \in Calls : Fetched(c)
  \/ \E e \in Ends : ReadAnswer(e)
  \/ \E e \in Ends : ReadRequest(e)
  \/ \E e \in Ends : ReadFetch(e)
  \/ \E e \in Ends : Observe(e)
  \/ \E e \in Ends : ObserveFull(e)
  \/ \E e \in Ends : PingEnded(e)
  \/ \E e \in Ends : Act(e)
  \/ \E n, m \in Nodes : Break(n, m)

\* Timers fire, goroutines run, and a channel hands on what it holds.
Fairness ==
  /\ \A c \in Calls : WF_vars(ReceiveAnswer(c) \/ Timeout(c)) /\ WF_vars(Fetched(c))
  /\ \A e \in Ends : WF_vars(ReadAnswer(e) \/ ReadRequest(e) \/ ReadFetch(e)
                             \/ Observe(e) \/ ObserveFull(e) \/ PingEnded(e) \/ Act(e))

Spec == Init /\ [][Next]_vars /\ Fairness

-----------------------------------------------------------------------------

TypeOK ==
  /\ call \in [Calls -> [st : {"waiting", "ok", "failed"}, from : Nodes, to : Nodes, type : Types]
                        \cup {Unused}]
  /\ \A c \in Calls : inbox[c] \in {<<>>, <<c>>}
  /\ channel \in [Ends -> Seq(Messages)]
  /\ \A e \in Ends :
       \/ callback[e] = Idle
       \/ callback[e] \in [st : {"observe", "act"}, call : Calls]
       \/ callback[e] \in [st : {"ping"}, call : Calls, ping : 0 .. MaxCalls, lrs : Nodes]
  /\ fetching \subseteq Calls
  /\ bucket \in [Nodes -> Seq(Nodes)]
  /\ broken \subseteq SUBSET Nodes
  /\ acted \subseteq Calls

\* Somebody has something to do that is not a new call nor a timeout.
CanMove ==
  \/ fetching # {}
  \/ \E c \in Waiting : inbox[c] # <<>>
  \/ \E e \in Ends : \/ callback[e].st \in {"observe", "act"} \/ PingEnds(e)
                     \/ callback[e] = Idle /\ channel[Incoming(e)] # <<>>

\* The callbacks that have to end before call c can be answered: the one that
\* holds its request, or the one that its request or its answer queues up for.
Holding(c) ==
  {e \in Ends : callback[e].call = c
                \/ \E i \in DOMAIN channel[Incoming(e)] : channel[Incoming(e)][i].call = c}

\* Every callback of the ring waits for a ping that another one of it holds up.
Ring(S) ==
  S # {} /\ \A e \in S : callback[e].st = "ping" /\ Holding(callback[e].ping) \cap S # {}

\* Calls are stuck until a timeout only behind callbacks that wait for one
\* another in a ring, or when a connection was lost: handling requests on the
\* callback (line 339) has no other way to hold up an answer.
StuckNeedsRing ==
  (Waiting # {} /\ ~CanMove /\ broken = {}) => \E S \in SUBSET Ends : Ring(S)

\* Nobody is stuck without reason, in states of their type.
ChannelInv == TypeOK /\ StuckNeedsRing

\* What a node asks of another is carried out in the order in which it was
\* sent, requests for blobs excepted: the callback that waits for a ping lets
\* no later Store overtake an earlier one, as they can over UDP.
HandledInOrder ==
  \A c \in Used, d \in acted :
    (/\ c < d /\ call[c].from = call[d].from /\ call[c].to = call[d].to
     /\ "FETCH_BLOB" \notin {call[c].type, call[d].type} /\ broken = {}) => c \in acted

\* The timeouts open every ring: once no program calls any more (here: MaxInvoked
\* calls), no caller is left waiting and every callback is back at its channel.
RingsOpen == []<>(Waiting = {} /\ \A e \in Ends : callback[e] = Idle)
=============================================================================
