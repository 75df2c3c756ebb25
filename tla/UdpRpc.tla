------------------------------- MODULE UdpRpc -------------------------------
(***************************************************************************)
(* transport/udp/udp.go with the handlers of dht/node.go: calls between    *)
(* nodes over datagrams that may be lost, duplicated, delayed and          *)
(* reordered.  Every call has a request id of its own, a channel of one    *)
(* place for the answer, and one attempt that ends with a timeout.  A      *)
(* handler first adds the sender to the routing table, which may ping      *)
(* another node and wait for it, before it acts and answers.               *)
(*                                                                         *)
(* The routing table of a node is one bucket here, and its entries are     *)
(* ids; module RoutingTable has it in full.  One key is stored: the value  *)
(* that a Store carries is the number of its call, so 0 is no value.       *)
(***************************************************************************)
EXTENDS Integers, Sequences, FiniteSets, SequencesExt

CONSTANTS
  Nodes,
  MaxCalls,   \* bound: calls of the run, the pings of handlers included
  MaxInvoked, \* bound: calls that programs make
  Routes,     \* bound: <<from, to>> of those calls
  MaxCopies,  \* bound: times the network delivers one request
  MaxRepeats, \* bound: requests that it delivers more than once
  MaxCrashes, \* bound: nodes that crash
  K,          \* capacity of the bucket
  Tables      \* the buckets that the nodes may start with

ASSUME TablesType == Tables \subseteq [Nodes -> Seq(Nodes)]

ASSUME CallBounds == {MaxCalls, MaxCopies, K} \subseteq Nat \ {0} /\ {MaxInvoked, MaxRepeats, MaxCrashes} \subseteq Nat

VARIABLES
  call,       \* what sendReq knows of each call
  inbox,      \* pendingReq.ch: the answers in it, at most one
  net,        \* answers that were sent
  handler,    \* goroutines of handleMessage, per call and delivery
  bucket,     \* per node, least recently seen first
  storage,    \* per node: the value of the key
  down,       \* nodes that have crashed
  executed,   \* history: calls whose handler acted
  repeated,   \* history: calls whose request was delivered again
  window      \* history: values the callee held while a FindValue was waiting

vars == <<call, inbox, net, handler, bucket, storage, down, executed, repeated, window>>

Calls == 1 .. MaxCalls
NoCall == 0
NoValue == 0

Types == {"PING", "STORE", "FIND_VALUE"}

Unused == [st |-> "unused"]
Used == {c \in Calls : call[c] # Unused}
Waiting == {c \in Used : call[c].st = "waiting"}
Ended == Used \ Waiting

\* Calls get their numbers in the order in which they are made.
NextCall == Cardinality(Used) + 1

\* A datagram that was sent may be delivered at any time, again, or never: the
\* answers are in net for good, and the request of every used call is too.
Answers == [call : Calls, value : 0 .. MaxCalls]

NoHandler == [st |-> "none"]
Observing == [st |-> "observe"]
Acting == [st |-> "act"]
HasReplied == [st |-> "done"]
Pinging(c, lrs) == [st |-> "ping", ping |-> c, lrs |-> lrs]

-----------------------------------------------------------------------------

Init ==
  /\ call = [c \in Calls |-> Unused]
  /\ inbox = [c \in Calls |-> <<>>]
  /\ net = {}
  /\ handler = [h \in Calls \X (1 .. MaxCopies) |-> NoHandler]
  /\ bucket \in Tables
  /\ storage = [n \in Nodes |-> NoValue]
  /\ down = {} /\ executed = {} /\ repeated = {}
  /\ window = [c \in Calls |-> {}]

\* sendReq up to the write of the datagram: the call is registered under a
\* fresh id.  after is history: the calls that had ended when a Store began.
SendReq(c, from, to, type) ==
  /\ call' = [call EXCEPT ![c] = [st |-> "waiting", from |-> from, to |-> to,
                                  type |-> type, value |-> NoValue,
                                  after |-> IF type = "STORE" THEN Ended ELSE {}]]
  /\ window' = [window EXCEPT ![c] = IF type = "FIND_VALUE" THEN {storage[to]} ELSE {}]

\* A program on from calls Store or FindValue (a FindNode or a Ping does to
\* this state what a FindValue does, and its answer is not looked at here).
Invoke(from, to, type) ==
  /\ from \notin down /\ <<from, to>> \in Routes
  /\ NextCall \in Calls
  /\ Cardinality({c \in Used : call[c].type # "PING"}) < MaxInvoked
  /\ SendReq(NextCall, from, to, type)
  /\ UNCHANGED <<inbox, net, handler, bucket, storage, down, executed, repeated>>

\* The answer is taken from the channel and the call unregistered.
ReceiveAnswer(c) ==
  /\ c \in Waiting /\ inbox[c] # <<>>
  /\ call' = [call EXCEPT ![c].st = "ok", ![c].value = Head(inbox[c])]
  /\ inbox' = [inbox EXCEPT ![c] = <<>>]
  /\ UNCHANGED <<net, handler, bucket, storage, down, executed, repeated, window>>

\* Mutant of Timeout: a ping waits without one.
TimeoutUnlessPing(c) ==
  /\ c \in Waiting /\ call[c].type # "PING"
  /\ call' = [call EXCEPT ![c].st = "failed"]
  /\ inbox' = [inbox EXCEPT ![c] = <<>>]
  /\ UNCHANGED <<net, handler, bucket, storage, down, executed, repeated, window>>

\* requestTimeout passes first, also when an answer has just been put into
\* the channel: select takes either.
Timeout(c) ==
  /\ c \in Waiting
  /\ call' = [call EXCEPT ![c].st = "failed"]
  /\ inbox' = [inbox EXCEPT ![c] = <<>>]
  /\ UNCHANGED <<net, handler, bucket, storage, down, executed, repeated, window>>

\* listenUDP reads a request and starts a goroutine for it, for the k-th time.
DeliverRequest(c, k) ==
  /\ c \in Used /\ call[c].to \notin down
  /\ handler[<<c, k>>] = NoHandler
  /\ \A j \in 1 .. k - 1 : handler[<<c, j>>] # NoHandler
  /\ k > 1 => Cardinality(repeated \cup {c}) <= MaxRepeats
  /\ handler' = [handler EXCEPT ![<<c, k>>] = Observing]
  /\ repeated' = IF k > 1 THEN repeated \cup {c} ELSE repeated
  /\ UNCHANGED <<call, inbox, net, bucket, storage, down, executed, window>>

\* Mutant of DeliverAnswer: an answer is matched with a call by its peers, not by
\* its request id.
DeliverAnswerByPeer(d) ==
  /\ d \in net
  /\ \E c \in Waiting :
       /\ call[c].from = call[d.call].from /\ call[c].to = call[d.call].to
       /\ inbox[c] = <<>>
       /\ inbox' = [inbox EXCEPT ![c] = <<d.value>>]
  /\ UNCHANGED <<call, net, handler, bucket, storage, down, executed, repeated, window>>

\* listenUDP reads an answer: it is put into the channel of its call, unless
\* the call has ended or the channel has one already.
DeliverAnswer(d) ==
  /\ d \in net
  /\ d.call \in Waiting /\ inbox[d.call] = <<>>
  /\ inbox' = [inbox EXCEPT ![d.call] = <<d.value>>]
  /\ UNCHANGED <<call, net, handler, bucket, storage, down, executed, repeated, window>>

\* h = <<call, delivery>> is a handler that has not been killed by a crash.
Server(h) == call[h[1]].to
Sender(h) == call[h[1]].from

Replace(b, old, new) ==
  LET i == CHOOSE j \in DOMAIN b : b[j] = old /\ \A k \in 1 .. j - 1 : b[k] # old
  IN IF Contains(b, old) THEN Append(RemoveAt(b, i), new) ELSE b

\* observePeer: the sender is known, or there is room for it.
Observe(h) ==
  LET b == bucket[Server(h)] IN
  /\ handler[h] = Observing
  /\ \/ Contains(b, Sender(h))
        /\ bucket' = [bucket EXCEPT ![Server(h)] = Replace(b, Sender(h), Sender(h))]
     \/ ~Contains(b, Sender(h)) /\ Len(b) < K
        /\ bucket' = [bucket EXCEPT ![Server(h)] = Append(b, Sender(h))]
  /\ handler' = [handler EXCEPT ![h] = Acting]
  /\ UNCHANGED <<call, inbox, net, storage, down, executed, repeated, window>>

\* observePeer: the bucket is full, its head is pinged, and the handler waits.
\* A write error (line 331) fails the ping without a call; it stands also for
\* the pings beyond MaxCalls.
ObserveFull(h) ==
  LET b == bucket[Server(h)] IN
  /\ handler[h] = Observing
  /\ ~Contains(b, Sender(h)) /\ Len(b) >= K
  /\ \/ /\ NextCall \in Calls
        /\ SendReq(NextCall, Server(h), Head(b), "PING")
        /\ handler' = [handler EXCEPT ![h] = Pinging(NextCall, Head(b))]
     \/ /\ handler' = [handler EXCEPT ![h] = Pinging(NoCall, Head(b))]
        /\ UNCHANGED <<call, window>>
  /\ UNCHANGED <<inbox, net, bucket, storage, down, executed, repeated>>

\* The ping has ended: rt.Add keeps its peer or puts the sender in its place.
PingEnded(h) ==
  LET b == bucket[Server(h)]
      ping == handler[h].ping
      lrs == handler[h].lrs
      answered == ping # NoCall /\ ping \in Ended /\ call[ping].st = "ok"
  IN
  /\ handler[h].st = "ping"
  /\ ping = NoCall \/ ping \in Ended
  /\ bucket' = [bucket EXCEPT ![Server(h)] =
                  Replace(b, lrs, IF answered THEN lrs ELSE Sender(h))]
  /\ handler' = [handler EXCEPT ![h] = Acting]
  /\ UNCHANGED <<call, inbox, net, storage, down, executed, repeated, window>>

\* Mutant of Put: a value that is there is kept.
PutIfAbsent(n, c) == [storage EXCEPT ![n] = IF @ = NoValue THEN c ELSE @]

\* storage.Put of the value that call c carries.
Put(n, c) == [storage EXCEPT ![n] = c]

\* The rest of OnPing, OnStore and OnFindValue, and the answer.
Act(h) ==
  LET c == h[1] IN
  /\ handler[h] = Acting
  /\ IF call[c].type = "STORE"
     THEN /\ storage' = Put(Server(h), c)
          /\ window' = [d \in Calls |->
                          IF d \in Waiting /\ call[d].type = "FIND_VALUE" /\ call[d].to = Server(h)
                          THEN window[d] \cup {c} ELSE window[d]]
     ELSE UNCHANGED <<storage, window>>
  /\ net' = net \cup {[call |-> c, value |-> IF call[c].type = "FIND_VALUE"
                                                THEN storage[Server(h)] ELSE NoValue]}
  /\ handler' = [handler EXCEPT ![h] = HasReplied]
  /\ executed' = executed \cup {c}
  /\ UNCHANGED <<call, inbox, bucket, down, repeated>>

\* A node stops: its calls and handlers end, its memory is lost.
Crash(n) ==
  /\ n \notin down /\ Cardinality(down) < MaxCrashes
  /\ down' = down \cup {n}
  /\ call' = [c \in Calls |-> IF c \in Waiting /\ call[c].from = n
                              THEN [call[c] EXCEPT !.st = "failed"] ELSE call[c]]
  /\ inbox' = [c \in Calls |-> IF c \in Used /\ call[c].from = n THEN <<>> ELSE inbox[c]]
  /\ handler' = [h \in DOMAIN handler |->
                   IF h[1] \in Used /\ call[h[1]].to = n THEN NoHandler ELSE handler[h]]
  /\ bucket' = [bucket EXCEPT ![n] = <<>>]
  /\ storage' = [storage EXCEPT ![n] = NoValue]
  /\ UNCHANGED <<net, executed, repeated, window>>

Handlers == DOMAIN handler

Next ==
  \/ \E from, to \in Nodes, type \in Types \ {"PING"} : Invoke(from, to, type)
  \/ \E c \in Calls : ReceiveAnswer(c)
  \/ \E c \in Calls : Timeout(c)
  \/ \E c \in Calls, k \in 1 .. MaxCopies : DeliverRequest(c, k)
  \/ \E d \in net : DeliverAnswer(d)
  \/ \E h \in Handlers : Observe(h)
  \/ \E h \in Handlers : ObserveFull(h)
  \/ \E h \in Handlers : PingEnded(h)
  \/ \E h \in Handlers : Act(h)
  \/ \E n \in Nodes : Crash(n)

\* Timers fire and goroutines run; the network owes nothing.
Fairness ==
  /\ \A c \in Calls : WF_vars(ReceiveAnswer(c) \/ Timeout(c))
  /\ \A h \in Calls \X (1 .. MaxCopies) :
       WF_vars(Observe(h) \/ ObserveFull(h) \/ PingEnded(h) \/ Act(h))

Spec == Init /\ [][Next]_vars /\ Fairness

-----------------------------------------------------------------------------

CallRecords ==
  [st : {"waiting", "ok", "failed"}, from : Nodes, to : Nodes, type : Types,
   value : 0 .. MaxCalls, after : SUBSET Calls]

TypeOK ==
  /\ call \in [Calls -> CallRecords \cup {Unused}]
  /\ \A c \in Calls : inbox[c] \in {<<>>} \cup {<<v>> : v \in 0 .. MaxCalls}
  /\ net \subseteq Answers
  /\ \A h \in Handlers :
       \/ handler[h] \in {NoHandler, Observing, Acting, HasReplied}
       \/ handler[h] \in [st : {"ping"}, ping : 0 .. MaxCalls, lrs : Nodes]
  /\ bucket \in [Nodes -> Seq(Nodes)]
  /\ storage \in [Nodes -> 0 .. MaxCalls]
  /\ down \subseteq Nodes
  /\ executed \subseteq Calls /\ repeated \subseteq Calls
  /\ window \in [Calls -> SUBSET (0 .. MaxCalls)]

\* A call that succeeds was carried out by its callee: neither a late nor a
\* repeated answer ever settles another call.
SuccessWasExecuted == \A c \in Used : call[c].st = "ok" => c \in executed

\* FindValue returns a value that its callee held during the call.
ReadsDuringCall ==
  \A c \in Used :
    (call[c].st = "ok" /\ call[c].type = "FIND_VALUE") => call[c].value \in window[c]

\* Answers settle the call they answer, with a value of the time of the call, and
\* what a call holds has its type: an answer that is repeated finds its channel
\* full and is dropped.
AnswersInv == TypeOK /\ SuccessWasExecuted /\ ReadsDuringCall

\* A value that was stored before another Store to that node began, and not by
\* a call that failed nor by a repeated datagram, does not come back once the
\* other Store has succeeded: OnStore puts whatever arrives last.
NoStaleStore ==
  \A n \in Nodes \ down : \A c \in Used :
    (/\ call[c].st = "ok" /\ call[c].type = "STORE" /\ call[c].to = n
     /\ storage[n] \in call[c].after
     /\ call[storage[n]].st = "ok")
      => storage[n] \in repeated

\* Although the handler that has to answer a call may itself wait for the answer
\* to a ping, once no program calls any more (here: MaxInvoked calls), no caller
\* is left waiting, and every request that was delivered to a node that has not
\* crashed is carried out.
NobodyWaitsForEver ==
  []<>(Waiting = {} /\ \A h \in Handlers : handler[h] \in {HasReplied, NoHandler})
=============================================================================
