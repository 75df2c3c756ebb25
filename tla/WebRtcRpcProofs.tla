--------------------------- MODULE WebRtcRpcProofs ---------------------------
(***************************************************************************)
(* HandledInOrder and ChannelInv for every number of nodes, calls, lost    *)
(* connections and places in a bucket.  The inductive invariant says that  *)
(* what is on its way was called between the two nodes that it is between, *)
(* that the requests of a channel are in the order of their calls and      *)
(* behind the one that is being handled, and that nothing gets lost while  *)
(* all connections are there.  The first lemmas say what any step does to  *)
(* one variable.                                                           *)
(***************************************************************************)
EXTENDS WebRtcRpc, FiniteSetTheorems, SequenceTheorems, WellFoundedInduction, TLAPS

CallRecords == [st : {"waiting", "ok", "failed"}, from : Nodes, to : Nodes, type : Types]

CallbackStates ==
  {Idle} \cup [st : {"observe", "act"}, call : Calls]
         \cup [st : {"ping"}, call : Calls, ping : 0 .. MaxCalls, lrs : Nodes]

\* TypeOK with the domains that it leaves to Init; no node has itself in its
\* bucket.
Domains ==
  /\ inbox \in [Calls -> {<<>>} \cup {<<c>> : c \in Calls}]
  /\ callback \in [Ends -> CallbackStates]
  /\ \A n \in Nodes : bucket[n] \in Seq(Nodes \ {n})
  /\ \A e \in Ends : callback[e].st = "ping" => callback[e].lrs # e[1]

\* Calls are numbered in the order in which they are made.
NoHoles == \E k \in Nat : Used = 1 .. k

\* The channel that a call is sent on, and the one of its answer; the callback
\* that handles the call is that of the second pair.
Out(c) == <<call[c].from, call[c].to>>
Back(c) == <<call[c].to, call[c].from>>

Handling(e, c) == callback[e] # Idle /\ callback[e].call = c

\* What is on its way was called, between two nodes.
Belongs ==
  /\ \A c \in Used : Out(c) \in Ends
  /\ \A e \in Ends : \A i \in DOMAIN channel[e] :
       channel[e][i].isReq => channel[e][i].call \in Used /\ Out(channel[e][i].call) = e
  /\ \A e \in Ends : callback[e] # Idle =>
       /\ callback[e].call \in Used /\ Back(callback[e].call) = e
       /\ call[callback[e].call].type # "FETCH_BLOB"
  /\ fetching \subseteq Used /\ acted \subseteq Used
  /\ \A c \in fetching : call[c].type = "FETCH_BLOB"

\* Requests are in a channel in the order of their calls, and behind the one that
\* is being handled.
InOrder ==
  /\ \A e \in Ends : \A i, j \in DOMAIN channel[e] :
       (i < j /\ channel[e][i].isReq /\ channel[e][j].isReq) => channel[e][i].call < channel[e][j].call
  /\ \A e \in Ends : \A i \in DOMAIN channel[Incoming(e)] :
       (callback[e] # Idle /\ channel[Incoming(e)][i].isReq)
         => callback[e].call < channel[Incoming(e)][i].call

Has(q, m) == \E i \in DOMAIN q : q[i] = m

\* A request that was not carried out is in the channel, or is being handled.
Requested(c) ==
  \/ Has(channel[Out(c)], Request(c))
  \/ call[c].type # "FETCH_BLOB" /\ Handling(Back(c), c)
  \/ call[c].type = "FETCH_BLOB" /\ c \in fetching

\* While all connections are there, nothing gets lost: neither a request nor the
\* answer to a call that waits.
NothingLost ==
  broken = {} => \A c \in Used :
    /\ c \in acted \/ Requested(c)
    /\ c \in Waiting \cap acted => inbox[c] # <<>> \/ Has(channel[Back(c)], Answer(c))

IInv == TypeOK /\ Domains /\ NoHoles /\ Belongs /\ InOrder /\ NothingLost /\ HandledInOrder

LEMMA AppendFacts ==
  ASSUME NEW S, NEW q \in Seq(S), NEW e \in S
  PROVE  /\ Append(q, e) \in Seq(S) /\ Len(Append(q, e)) = Len(q) + 1 /\ Append(q, e) # <<>>
         /\ Len(q) \in Nat /\ DOMAIN q = 1 .. Len(q) /\ DOMAIN Append(q, e) = 1 .. Len(q) + 1
         /\ \A i \in 1 .. Len(q) : Append(q, e)[i] = q[i]
         /\ Append(q, e)[Len(q) + 1] = e
BY AppendProperties, LenProperties

LEMMA TailFacts ==
  ASSUME NEW S, NEW q \in Seq(S), q # <<>>
  PROVE  /\ Len(q) \in Nat \ {0} /\ DOMAIN q = 1 .. Len(q)
         /\ Head(q) = q[1] /\ Head(q) \in S
         /\ Tail(q) \in Seq(S) /\ Len(Tail(q)) = Len(q) - 1 /\ DOMAIN Tail(q) = 1 .. Len(q) - 1
         /\ \A i \in 1 .. Len(q) - 1 : Tail(q)[i] = q[i + 1]
BY HeadTailProperties, LenProperties, EmptySeq

-----------------------------------------------------------------------------

LEMMA NumberFacts ==
  /\ MaxCalls \in Nat /\ K \in Nat /\ K > 0
  /\ \A c \in Calls : c \in Nat /\ c # NoCall /\ c \in 0 .. MaxCalls
  /\ NoCall \in 0 .. MaxCalls
<1>1. MaxCalls \in Nat /\ K \in Nat /\ K > 0
  BY RpcBounds
<1> QED
  BY <1>1 DEF Calls, NoCall

LEMMA CallFacts ==
  ASSUME TypeOK
  PROVE  /\ call \in [Calls -> CallRecords \cup {Unused}]
         /\ \A c \in Used : /\ c \in Calls /\ call[c] \in CallRecords
                            /\ call[c].from \in Nodes /\ call[c].to \in Nodes /\ call[c].type \in Types
         /\ \A c \in Waiting : c \in Used /\ call[c].st = "waiting"
         /\ \A r \in CallRecords : r # Unused
<1>1. call \in [Calls -> CallRecords \cup {Unused}]
  BY DEF TypeOK, CallRecords
<1>2. \A r \in CallRecords : r.st # "unused" /\ r.from \in Nodes /\ r.to \in Nodes /\ r.type \in Types
  BY DEF CallRecords
<1>3. Unused.st = "unused"
  BY DEF Unused
<1> QED
  BY <1>1, <1>2, <1>3 DEF Used, Waiting

LEMMA EndFacts ==
  /\ \A e \in Ends : /\ e[1] \in Nodes /\ e[2] \in Nodes /\ e[1] # e[2] /\ e = <<e[1], e[2]>>
                     /\ Incoming(e) \in Ends /\ Incoming(Incoming(e)) = e
                     /\ Incoming(e) = <<e[2], e[1]>>
  /\ \A n, m \in Nodes : n # m => <<n, m>> \in Ends /\ Incoming(<<n, m>>) = <<m, n>>
  /\ \A e \in Nodes \X Nodes : e \notin Ends => e[1] = e[2]
BY DEF Ends, Incoming

LEMMA MessageFacts ==
  /\ \A m \in Messages : m.call \in Calls /\ m.isReq \in BOOLEAN
  /\ \A c \in Calls : /\ Request(c) \in Messages /\ Request(c).isReq /\ Request(c).call = c
                      /\ Answer(c) \in Messages /\ ~Answer(c).isReq /\ Answer(c).call = c
                      /\ Request(c) # Answer(c)
  /\ \A m \in Messages : m.isReq => m = Request(m.call)
  /\ \A m \in Messages : ~m.isReq => m = Answer(m.call)
BY DEF Messages, Request, Answer

LEMMA QueueFacts ==
  ASSUME TypeOK, NEW e \in Ends
  PROVE  /\ channel[e] \in Seq(Messages) /\ Len(channel[e]) \in Nat /\ DOMAIN channel[e] = 1 .. Len(channel[e])
         /\ \A i \in DOMAIN channel[e] : channel[e][i] \in Messages
<1>1. channel[e] \in Seq(Messages)
  BY DEF TypeOK
<1> QED
  BY <1>1, LenProperties, ElementOfSeq

\* The states of a callback.
LEMMA StateFacts ==
  /\ Idle.st = "idle" /\ Idle \in CallbackStates
  /\ \A s \in CallbackStates : s = Idle \/ (s # Idle /\ s.call \in Calls /\ s.st \in {"observe", "act", "ping"})
  /\ \A s \in CallbackStates : s.st = "ping" => s.ping \in 0 .. MaxCalls /\ s.lrs \in Nodes
  /\ \A c \in Calls :
       /\ Observing(c) \in CallbackStates /\ Observing(c) # Idle /\ Observing(c).call = c /\ Observing(c).st = "observe"
       /\ Acting(c) \in CallbackStates /\ Acting(c) # Idle /\ Acting(c).call = c /\ Acting(c).st = "act"
       /\ \A p \in 0 .. MaxCalls : \A n \in Nodes :
            /\ Pinging(c, p, n) \in CallbackStates /\ Pinging(c, p, n) # Idle
            /\ Pinging(c, p, n).call = c /\ Pinging(c, p, n).st = "ping"
            /\ Pinging(c, p, n).ping = p /\ Pinging(c, p, n).lrs = n
<1>1. Idle.st = "idle" /\ Idle \in CallbackStates
  BY DEF Idle, CallbackStates
<1>2. \A s \in CallbackStates : s = Idle \/ s \in [st : {"observe", "act"}, call : Calls]
                                \/ s \in [st : {"ping"}, call : Calls, ping : 0 .. MaxCalls, lrs : Nodes]
  BY DEF CallbackStates
<1>3. \A s \in [st : {"observe", "act"}, call : Calls] : s.st \in {"observe", "act"} /\ s.call \in Calls
  OBVIOUS
<1>4. \A s \in [st : {"ping"}, call : Calls, ping : 0 .. MaxCalls, lrs : Nodes] :
        s.st = "ping" /\ s.call \in Calls /\ s.ping \in 0 .. MaxCalls /\ s.lrs \in Nodes
  OBVIOUS
<1>5. \A c \in Calls :
        /\ Observing(c) \in [st : {"observe", "act"}, call : Calls] /\ Observing(c).call = c /\ Observing(c).st = "observe"
        /\ Acting(c) \in [st : {"observe", "act"}, call : Calls] /\ Acting(c).call = c /\ Acting(c).st = "act"
  BY DEF Observing, Acting
<1>6. \A c \in Calls : \A p \in 0 .. MaxCalls : \A n \in Nodes :
        /\ Pinging(c, p, n) \in [st : {"ping"}, call : Calls, ping : 0 .. MaxCalls, lrs : Nodes]
        /\ Pinging(c, p, n).call = c /\ Pinging(c, p, n).st = "ping"
        /\ Pinging(c, p, n).ping = p /\ Pinging(c, p, n).lrs = n
  BY DEF Pinging
<1>7. \A s : (s \in [st : {"observe", "act"}, call : Calls]
              \/ s \in [st : {"ping"}, call : Calls, ping : 0 .. MaxCalls, lrs : Nodes]) => s \in CallbackStates /\ s # Idle
  BY <1>1, <1>3, <1>4 DEF CallbackStates
<1>8. \A s \in CallbackStates : s = Idle \/ (s # Idle /\ s.call \in Calls /\ s.st \in {"observe", "act", "ping"})
  BY <1>1, <1>2, <1>3, <1>4
<1>9. \A s \in CallbackStates : s.st = "ping" => s.ping \in 0 .. MaxCalls /\ s.lrs \in Nodes
  BY <1>1, <1>2, <1>3, <1>4
<1> QED
  BY <1>1, <1>5, <1>6, <1>7, <1>8, <1>9

LEMMA CallbackFacts ==
  ASSUME Domains, NEW e \in Ends
  PROVE  /\ callback[e] \in CallbackStates
         /\ callback[e].st \in {"observe", "act", "ping"} => callback[e] # Idle
         /\ callback[e] # Idle => callback[e].call \in Calls /\ callback[e].st \in {"observe", "act", "ping"}
BY StateFacts DEF Domains

-----------------------------------------------------------------------------

\* The parts of a call that do not change; no call that has ended waits again.
CallsKept ==
  \A c \in Used :
    /\ c \in Used' /\ Out(c)' = Out(c) /\ Back(c)' = Back(c) /\ call'[c].type = call[c].type
    /\ c \in Waiting' => c \in Waiting

CallTypePrimed == call' \in [Calls -> CallRecords \cup {Unused}]

\* A message is written to channel e, or to a lost connection.
Sent(e, m) ==
  /\ \A f \in Ends \ {e} : channel'[f] = channel[f]
  /\ e \in Ends => \/ channel'[e] = Append(channel[e], m)
                   \/ broken # {} /\ channel'[e] = channel[e]

LEMMA SendFacts ==
  ASSUME TypeOK, NEW from \in Nodes, NEW to \in Nodes, NEW m \in Messages, Send(from, to, m)
  PROVE  Sent(<<from, to>>, m) /\ channel' \in [Ends -> Seq(Messages)]
<1>1. channel \in [Ends -> Seq(Messages)]
  BY DEF TypeOK
<1>2. \A e \in Ends : Append(channel[e], m) \in Seq(Messages)
  BY <1>1
<1>3. CASE {from, to} \in broken
  BY <1>1, <1>3 DEF Send, Sent
<1>4. CASE {from, to} \notin broken
  <2>1. channel' = [channel EXCEPT ![<<from, to>>] = Append(channel[<<from, to>>], m)]
    BY <1>4 DEF Send
  <2> QED
    BY <1>1, <1>2, <2>1 DEF Sent
<1> QED
  BY <1>3, <1>4

LEMMA CallSame ==
  ASSUME TypeOK, NoHoles, UNCHANGED call
  PROVE  Used' = Used /\ Waiting' = Waiting /\ CallsKept /\ CallTypePrimed /\ NoHoles'
<1>1. Used' = Used /\ Waiting' = Waiting
  BY DEF Used, Waiting
<1>2. \A c \in Used : Out(c)' = Out(c) /\ Back(c)' = Back(c)
  BY DEF Out, Back
<1> QED
  BY <1>1, <1>2, CallFacts DEF CallsKept, CallTypePrimed, NoHoles

\* A call is made.
MakesCall(c, from, to, type) ==
  /\ c \in Calls /\ c \notin Used /\ Used' = Used \cup {c} /\ \A d \in Used : d < c
  /\ Out(c)' = <<from, to>> /\ Back(c)' = <<to, from>> /\ call'[c].type = type
  /\ Sent(<<from, to>>, Request(c)) /\ channel' \in [Ends -> Seq(Messages)]

LEMMA MakeFacts ==
  ASSUME TypeOK, NoHoles, NextCall \in Calls, NEW from \in Nodes, NEW to \in Nodes,
         NEW type \in Types, SendRPC(NextCall, from, to, type)
  PROVE  /\ \E c \in Calls : c = NextCall /\ MakesCall(c, from, to, type)
         /\ CallsKept /\ CallTypePrimed /\ NoHoles'
<1> DEFINE r == [st |-> "waiting", from |-> from, to |-> to, type |-> type]
<1>1. PICK k \in Nat : Used = 1 .. k
  BY DEF NoHoles
<1>2. PICK c \in Calls : c = NextCall
  OBVIOUS
<1>3. c = k + 1
  <2>1. Cardinality(1 .. k) = k
    BY FS_Interval, SMT
  <2> QED
    BY <1>1, <1>2, <2>1 DEF NextCall
<1>4. c \notin Used /\ (\A d \in Used : d < c) /\ Used \cup {c} = 1 .. k + 1
  BY <1>1, <1>3
<1>5. r \in CallRecords /\ r.from = from /\ r.to = to /\ r.type = type
  BY DEF CallRecords
<1>6. call' = [call EXCEPT ![c] = r]
  BY <1>2 DEF SendRPC
<1> HIDE DEF r
<1>7. call'[c] = r /\ CallTypePrimed /\ \A d \in Calls \ {c} : call'[d] = call[d]
  BY <1>5, <1>6, CallFacts DEF CallTypePrimed
<1>8. Used' = Used \cup {c}
  BY <1>5, <1>7, CallFacts DEF Used
<1>9. CallsKept
  <2>1. \A d \in Used : d \in Calls \ {c}
    BY <1>4, CallFacts
  <2> QED
    BY <1>7, <1>8, <2>1 DEF CallsKept, Out, Back, Waiting
<1>10. NoHoles'
  BY <1>4, <1>8, <1>3 DEF NoHoles
<1>11. Sent(<<from, to>>, Request(c)) /\ channel' \in [Ends -> Seq(Messages)]
  <2>1. Send(from, to, Request(c)) /\ Request(c) \in Messages
    BY <1>2, MessageFacts DEF SendRPC
  <2> QED
    BY <2>1, SendFacts
<1>12. Out(c)' = <<from, to>> /\ Back(c)' = <<to, from>> /\ call'[c].type = type
  BY <1>5, <1>7 DEF Out, Back
<1>13. MakesCall(c, from, to, type)
  BY <1>2, <1>4, <1>8, <1>11, <1>12 DEF MakesCall
<1> QED
  BY <1>2, <1>7, <1>9, <1>10, <1>13

\* A call ends.
LEMMA EndsFacts ==
  ASSUME TypeOK, NoHoles, NEW c \in Waiting, NEW s \in {"ok", "failed"},
         call' = [call EXCEPT ![c].st = s]
  PROVE  Used' = Used /\ Waiting' = Waiting \ {c} /\ CallsKept /\ CallTypePrimed /\ NoHoles'
<1> DEFINE r == [call[c] EXCEPT !.st = s]
<1>1. c \in Used /\ c \in Calls /\ call[c] \in CallRecords
  BY CallFacts
<1>2. /\ r \in CallRecords /\ r.st = s /\ r.from = call[c].from /\ r.to = call[c].to /\ r.type = call[c].type
  BY <1>1 DEF CallRecords
<1>3. call' = [call EXCEPT ![c] = r]
  OBVIOUS
<1> HIDE DEF r
<1>4. call'[c] = r /\ CallTypePrimed /\ \A d \in Calls \ {c} : call'[d] = call[d]
  BY <1>1, <1>2, <1>3, CallFacts DEF CallTypePrimed
<1>5. Used' = Used
  BY <1>1, <1>2, <1>4, CallFacts DEF Used
<1>6. Waiting' = Waiting \ {c}
  BY <1>1, <1>2, <1>4, <1>5, CallFacts DEF Waiting
<1>7. \A d \in Used : Out(d)' = Out(d) /\ Back(d)' = Back(d) /\ call'[d].type = call[d].type
  BY <1>2, <1>4, CallFacts DEF Out, Back
<1> QED
  BY <1>4, <1>5, <1>6, <1>7 DEF CallsKept, NoHoles

\* How a step leaves the calls: none is made, or one, whose request is written.
LEMMA PingCases ==
  ASSUME TypeOK, Domains, Belongs, NEW e \in Ends, ObserveFull(e)
  PROVE  \E lrs \in Nodes \ {e[1]} : \E p \in 0 .. MaxCalls :
           /\ callback[e] # Idle /\ callback[e].call \in Calls
           /\ callback' = [callback EXCEPT ![e] = Pinging(callback[e].call, p, lrs)]
           /\ \/ p = NoCall /\ UNCHANGED <<call, channel>>
              \/ p = NextCall /\ NextCall \in Calls /\ SendRPC(NextCall, e[1], lrs, "PING")
<1> DEFINE b == bucket[e[1]]
<1>1. callback[e] # Idle /\ callback[e].call \in Calls
  BY CallbackFacts DEF ObserveFull
<1>2. b \in Seq(Nodes \ {e[1]}) /\ Len(b) >= K
  BY EndFacts DEF ObserveFull, Domains
<1>3. Head(b) \in Nodes \ {e[1]}
  <2>1. b # <<>>
    BY <1>2, NumberFacts
  <2> HIDE DEF b
  <2> QED
    BY <1>2, <2>1, TailFacts
<1>4. \/ callback' = [callback EXCEPT ![e] = Pinging(callback[e].call, NoCall, Head(b))] /\ UNCHANGED <<call, channel>>
      \/ /\ callback' = [callback EXCEPT ![e] = Pinging(callback[e].call, NextCall, Head(b))]
         /\ NextCall \in Calls /\ SendRPC(NextCall, e[1], Head(b), "PING")
  BY DEF ObserveFull
<1> HIDE DEF b
<1> QED
  BY <1>1, <1>3, <1>4, NumberFacts

Makes ==
  \E c \in Calls, from \in Nodes, to \in Nodes, type \in Types :
    from # to /\ MakesCall(c, from, to, type)

LEMMA InvokeMakes ==
  ASSUME TypeOK, NoHoles, NEW from \in Nodes, NEW to \in Nodes, NEW type \in Types, Invoke(from, to, type)
  PROVE  Makes /\ CallsKept /\ CallTypePrimed /\ NoHoles'
<1>1. from # to
  BY NobodyCallsItself DEF Invoke
<1>2. NextCall \in Calls /\ SendRPC(NextCall, from, to, type)
  BY DEF Invoke
<1> QED
  BY <1>1, <1>2, MakeFacts DEF Makes

LEMMA StepOfCalls ==
  ASSUME TypeOK, Domains, NoHoles, Belongs, Next
  PROVE  CallsKept /\ CallTypePrimed /\ NoHoles' /\ (Used' = Used \/ Makes)
<1> DEFINE P == CallsKept /\ CallTypePrimed /\ NoHoles' /\ (Used' = Used \/ Makes)
<1>1. ASSUME UNCHANGED call PROVE P
  BY <1>1, CallSame
<1>2. ASSUME NEW n \in Nodes, NEW m \in Nodes, NEW type \in Types, Invoke(n, m, type) PROVE P
  BY <1>2, InvokeMakes
<1>3. ASSUME NEW c \in Calls, ReceiveAnswer(c) \/ Timeout(c) PROVE P
  BY <1>3, EndsFacts DEF ReceiveAnswer, Timeout
<1>4. ASSUME NEW e \in Ends, ObserveFull(e) PROVE P
  <2>1. PICK lrs \in Nodes \ {e[1]} :
          UNCHANGED call \/ (NextCall \in Calls /\ SendRPC(NextCall, e[1], lrs, "PING"))
    BY <1>4, PingCases
  <2>2. "PING" \in Types /\ e[1] \in Nodes
    BY EndFacts DEF Types
  <2>3. CASE NextCall \in Calls /\ SendRPC(NextCall, e[1], lrs, "PING")
    BY <2>2, <2>3, MakeFacts DEF Makes
  <2> QED
    BY <1>1, <2>1, <2>3
<1>5. ASSUME NEW c \in Calls, Fetched(c) PROVE UNCHANGED call
  BY <1>5 DEF Fetched
<1>6. ASSUME NEW e \in Ends, ReadAnswer(e) \/ ReadRequest(e) \/ ReadFetch(e) \/ Observe(e) \/ PingEnded(e) \/ Act(e)
      PROVE  UNCHANGED call
  BY <1>6 DEF ReadAnswer, ReadRequest, ReadFetch, Observe, PingEnded, Act
<1>7. ASSUME NEW n \in Nodes, NEW m \in Nodes, Break(n, m) PROVE UNCHANGED call
  BY <1>7 DEF Break
<1> HIDE DEF P
<1>8. P
  BY <1>1, <1>2, <1>3, <1>4, <1>5, <1>6, <1>7 DEF Next
<1> QED
  BY <1>8 DEF P

-----------------------------------------------------------------------------

\* What a step does to a channel.
Queued(e) ==
  \/ channel'[e] = channel[e]
  \/ \E c \in Calls : channel'[e] = Append(channel[e], Answer(c))
  \/ \E c \in Calls : /\ channel'[e] = Append(channel[e], Request(c))
                      /\ c \notin Used /\ c \in Used' /\ Out(c)' = e /\ \A d \in Used : d < c
  \/ channel[e] # <<>> /\ channel'[e] = Tail(channel[e])
  \/ channel'[e] = <<>>

QueueTypePrimed == channel' \in [Ends -> Seq(Messages)]

LEMMA MakesQueues ==
  ASSUME Makes
  PROVE  QueueTypePrimed /\ \A e \in Ends : Queued(e)
<1>1. PICK c \in Calls, from \in Nodes, to \in Nodes, type \in Types :
        from # to /\ MakesCall(c, from, to, type)
  BY DEF Makes
<1>2. /\ c \notin Used /\ c \in Used' /\ \A d \in Used : d < c
      /\ Out(c)' = <<from, to>> /\ Sent(<<from, to>>, Request(c)) /\ QueueTypePrimed
  BY <1>1 DEF MakesCall, QueueTypePrimed
<1> QED
  BY <1>2 DEF Sent, Queued

LEMMA AnswerQueues ==
  ASSUME TypeOK, NEW from \in Nodes, NEW to \in Nodes, NEW c \in Calls, Send(from, to, Answer(c))
  PROVE  QueueTypePrimed /\ (\A e \in Ends : Queued(e)) /\ Sent(<<from, to>>, Answer(c))
<1>1. Sent(<<from, to>>, Answer(c)) /\ QueueTypePrimed
  BY MessageFacts, SendFacts DEF QueueTypePrimed
<1> QED
  BY <1>1 DEF Sent, Queued

Taken(e) ==
  /\ e \in Ends /\ channel[e] # <<>> /\ channel'[e] = Tail(channel[e])
  /\ \A f \in Ends \ {e} : channel'[f] = channel[f]

LEMMA TakenFacts ==
  ASSUME TypeOK, NEW e \in Ends, channel[e] # <<>>, channel' = [channel EXCEPT ![e] = Tail(@)]
  PROVE  QueueTypePrimed /\ Taken(e) /\ \A f \in Ends : Queued(f)
<1>1. channel \in [Ends -> Seq(Messages)]
  BY DEF TypeOK
<1>2. Tail(channel[e]) \in Seq(Messages)
  BY <1>1, TailFacts
<1> QED
  BY <1>1, <1>2 DEF QueueTypePrimed, Taken, Queued

LEMMA ReadsTake ==
  ASSUME TypeOK, NEW e \in Ends, ReadAnswer(e) \/ ReadRequest(e) \/ ReadFetch(e)
  PROVE  QueueTypePrimed /\ Taken(Incoming(e)) /\ \A f \in Ends : Queued(f)
<1>1. /\ Incoming(e) \in Ends /\ channel[Incoming(e)] # <<>>
      /\ channel' = [channel EXCEPT ![Incoming(e)] = Tail(channel[Incoming(e)])]
  BY EndFacts DEF ReadAnswer, ReadRequest, Reads, ReadFetch, TypeOK
<1> QED
  BY <1>1, TakenFacts

LEMMA FetchedAnswers ==
  ASSUME TypeOK, Domains, Belongs, NEW c \in Calls, Fetched(c)
  PROVE  /\ c \in Used /\ QueueTypePrimed /\ \A e \in Ends : Queued(e)
         /\ \/ UNCHANGED channel /\ inbox' = [inbox EXCEPT ![c] = <<c>>] /\ c \in Waiting
            \/ Sent(Back(c), Answer(c)) /\ UNCHANGED inbox
<1>1. c \in Used /\ call[c].from \in Nodes /\ call[c].to \in Nodes
  BY CallFacts DEF Fetched, Belongs
<1>2. CASE UNCHANGED channel /\ inbox' = [inbox EXCEPT ![c] = <<c>>] /\ c \in Waiting
  BY <1>1, <1>2 DEF Queued, QueueTypePrimed, TypeOK
<1>3. CASE Send(call[c].to, call[c].from, Answer(c)) /\ UNCHANGED inbox
  BY <1>1, <1>3, AnswerQueues DEF Back
<1> QED
  BY <1>2, <1>3 DEF Fetched

LEMMA ActAnswers ==
  ASSUME TypeOK, Domains, NEW e \in Ends, Act(e)
  PROVE  /\ callback[e] # Idle /\ callback[e].call \in Calls
         /\ QueueTypePrimed /\ (\A f \in Ends : Queued(f)) /\ Sent(e, Answer(callback[e].call))
<1>1. callback[e] # Idle /\ callback[e].call \in Calls
  BY CallbackFacts DEF Act
<1>2. e[1] \in Nodes /\ e[2] \in Nodes /\ e = <<e[1], e[2]>>
  BY EndFacts
<1>3. Send(e[1], e[2], Answer(callback[e].call))
  BY DEF Act
<1> QED
  BY <1>1, <1>2, <1>3, AnswerQueues

LEMMA StepOfQueues ==
  ASSUME TypeOK, Domains, NoHoles, Belongs, Next
  PROVE  QueueTypePrimed /\ \A e \in Ends : Queued(e)
<1> DEFINE P == QueueTypePrimed /\ \A e \in Ends : Queued(e)
<1>1. ASSUME UNCHANGED channel PROVE P
  BY <1>1 DEF Queued, QueueTypePrimed, TypeOK
<1>2. ASSUME NEW n \in Nodes, NEW m \in Nodes, NEW type \in Types, Invoke(n, m, type) PROVE P
  BY <1>2, InvokeMakes, MakesQueues
<1>3. ASSUME NEW c \in Calls, Fetched(c) PROVE P
  BY <1>3, FetchedAnswers
<1>4. ASSUME NEW e \in Ends, ReadAnswer(e) \/ ReadRequest(e) \/ ReadFetch(e) PROVE P
  BY <1>4, ReadsTake
<1>5. ASSUME NEW e \in Ends, ObserveFull(e) PROVE P
  <2>1. PICK lrs \in Nodes \ {e[1]} :
          UNCHANGED channel \/ (NextCall \in Calls /\ SendRPC(NextCall, e[1], lrs, "PING"))
    BY <1>5, PingCases
  <2>2. "PING" \in Types /\ e[1] \in Nodes
    BY EndFacts DEF Types
  <2>3. CASE NextCall \in Calls /\ SendRPC(NextCall, e[1], lrs, "PING")
    <3>1. Makes
      BY <2>2, <2>3, MakeFacts DEF Makes
    <3> QED
      BY <3>1, MakesQueues
  <2> QED
    BY <1>1, <2>1, <2>3
<1>6. ASSUME NEW e \in Ends, Act(e) PROVE P
  BY <1>6, ActAnswers
<1>7. ASSUME NEW n \in Nodes, NEW m \in Nodes, Break(n, m) PROVE P
  <2>1. channel \in [Ends -> Seq(Messages)] /\ <<>> \in Seq(Messages)
    BY DEF TypeOK
  <2>2. channel' = [channel EXCEPT ![<<n, m>>] = <<>>, ![<<m, n>>] = <<>>]
    BY <1>7 DEF Break
  <2> QED
    BY <2>1, <2>2 DEF Queued, QueueTypePrimed
<1>8. ASSUME NEW c \in Calls, ReceiveAnswer(c) \/ Timeout(c) PROVE UNCHANGED channel
  BY <1>8 DEF ReceiveAnswer, Timeout
<1>9. ASSUME NEW e \in Ends, Observe(e) \/ PingEnded(e) PROVE UNCHANGED channel
  BY <1>9 DEF Observe, PingEnded
<1> HIDE DEF P
<1>10. P
  BY <1>1, <1>2, <1>3, <1>4, <1>5, <1>6, <1>7, <1>8, <1>9 DEF Next
<1> QED
  BY <1>10 DEF P

-----------------------------------------------------------------------------

\* What a step does to a callback.
CallbackStep(e) ==
  \/ callback'[e] = Idle
  \/ /\ callback[e] # Idle /\ callback'[e] # Idle /\ callback'[e].call = callback[e].call
     /\ callback'[e].st = "ping" => callback'[e].lrs # e[1]
  \/ /\ Reads(e) /\ channel[Incoming(e)] # <<>> /\ Taken(Incoming(e))
     /\ callback'[e] = Observing(Head(channel[Incoming(e)]).call)
     /\ Head(channel[Incoming(e)]).isReq
     /\ call[Head(channel[Incoming(e)]).call].type # "FETCH_BLOB"
  \/ callback'[e] = callback[e]

CallbackTypePrimed == callback' \in [Ends -> CallbackStates]

LEMMA SetsCallback ==
  ASSUME Domains, NEW e \in Ends, NEW s \in CallbackStates, callback' = [callback EXCEPT ![e] = s],
         (callback'[e] = s) => CallbackStep(e)
  PROVE  CallbackTypePrimed /\ \A f \in Ends : CallbackStep(f)
<1>1. callback \in [Ends -> CallbackStates]
  BY DEF Domains
<1>2. callback'[e] = s /\ CallbackTypePrimed /\ \A f \in Ends \ {e} : callback'[f] = callback[f]
  BY <1>1 DEF CallbackTypePrimed
<1> QED
  BY <1>2 DEF CallbackStep

LEMMA HeadFacts ==
  ASSUME TypeOK, NEW e \in Ends, channel[Incoming(e)] # <<>>
  PROVE  /\ Head(channel[Incoming(e)]) \in Messages /\ Head(channel[Incoming(e)]) = channel[Incoming(e)][1]
         /\ 1 \in DOMAIN channel[Incoming(e)] /\ Head(channel[Incoming(e)]).call \in Calls
         /\ Head(channel[Incoming(e)]).isReq \in BOOLEAN
<1>1. channel[Incoming(e)] \in Seq(Messages)
  BY EndFacts DEF TypeOK
<1>2. /\ Len(channel[Incoming(e)]) \in Nat \ {0} /\ DOMAIN channel[Incoming(e)] = 1 .. Len(channel[Incoming(e)])
      /\ Head(channel[Incoming(e)]) = channel[Incoming(e)][1] /\ Head(channel[Incoming(e)]) \in Messages
  BY <1>1, TailFacts
<1> QED
  BY <1>2, MessageFacts

LEMMA StepOfCallbacks ==
  ASSUME TypeOK, Domains, NoHoles, Belongs, Next
  PROVE  CallbackTypePrimed /\ \A e \in Ends : CallbackStep(e)
<1> DEFINE P == CallbackTypePrimed /\ \A e \in Ends : CallbackStep(e)
<1>1. ASSUME UNCHANGED callback PROVE P
  BY <1>1 DEF CallbackStep, CallbackTypePrimed, Domains
<1>2. ASSUME NEW e \in Ends, ReadRequest(e) PROVE P
  <2>1. Reads(e) /\ channel[Incoming(e)] # <<>> /\ Taken(Incoming(e))
    BY <1>2, ReadsTake DEF ReadRequest, Reads
  <2>2. PICK s \in CallbackStates : s = Observing(Head(channel[Incoming(e)]).call)
    BY <2>1, HeadFacts, StateFacts
  <2>3. callback' = [callback EXCEPT ![e] = s]
    BY <2>1, <2>2 DEF Reads
  <2>4. (callback'[e] = s) => CallbackStep(e)
    BY <2>1, <2>2 DEF CallbackStep, Reads
  <2> QED
    BY <2>3, <2>4, SetsCallback
<1>3. ASSUME NEW e \in Ends, Observe(e) \/ PingEnded(e) PROVE P
  <2>1. callback[e] # Idle /\ callback[e].call \in Calls
    BY <1>3, CallbackFacts DEF Observe, PingEnded, PingEnds
  <2>2. PICK s \in CallbackStates : s = Acting(callback[e].call) /\ s # Idle /\ s.call = callback[e].call /\ s.st = "act"
    BY <2>1, StateFacts
  <2>3. callback' = [callback EXCEPT ![e] = s]
    BY <1>3, <2>2 DEF Observe, PingEnded
  <2>4. (callback'[e] = s) => CallbackStep(e)
    BY <2>1, <2>2 DEF CallbackStep
  <2> QED
    BY <2>3, <2>4, SetsCallback
<1>4. ASSUME NEW e \in Ends, ObserveFull(e) PROVE P
  <2>1. PICK lrs \in Nodes \ {e[1]}, p \in 0 .. MaxCalls :
           /\ callback[e] # Idle /\ callback[e].call \in Calls
           /\ callback' = [callback EXCEPT ![e] = Pinging(callback[e].call, p, lrs)]
    BY <1>4, PingCases
  <2>2. PICK s \in CallbackStates : s = Pinging(callback[e].call, p, lrs) /\ s # Idle /\ s.call = callback[e].call
                                    /\ s.lrs = lrs
    BY <2>1, StateFacts
  <2>3. callback' = [callback EXCEPT ![e] = s]
    BY <2>1, <2>2
  <2>4. (callback'[e] = s) => CallbackStep(e)
    BY <2>1, <2>2 DEF CallbackStep
  <2> QED
    BY <2>3, <2>4, SetsCallback
<1>5. ASSUME NEW e \in Ends, Act(e) PROVE P
  <2>1. callback' = [callback EXCEPT ![e] = Idle] /\ Idle \in CallbackStates
    BY <1>5, StateFacts DEF Act
  <2>2. (callback'[e] = Idle) => CallbackStep(e)
    BY DEF CallbackStep
  <2> QED
    BY <2>1, <2>2, SetsCallback
<1>6. ASSUME NEW e \in Ends, ReadAnswer(e) \/ ReadFetch(e) PROVE UNCHANGED callback
  BY <1>6 DEF ReadAnswer, ReadFetch
<1>7. ASSUME NEW c \in Calls, ReceiveAnswer(c) \/ Timeout(c) \/ Fetched(c) PROVE UNCHANGED callback
  BY <1>7 DEF ReceiveAnswer, Timeout, Fetched
<1>8. ASSUME NEW n \in Nodes, NEW m \in Nodes, NEW type, Invoke(n, m, type) \/ Break(n, m) PROVE UNCHANGED callback
  BY <1>8 DEF Invoke, Break
<1> HIDE DEF P
<1>9. P
  BY <1>1, <1>2, <1>3, <1>4, <1>5, <1>6, <1>7, <1>8 DEF Next
<1> QED
  BY <1>9 DEF P

-----------------------------------------------------------------------------

\* Replace finds the first place of what it takes out.
LEMMA FirstPlace ==
  ASSUME NEW b, NEW old, Len(b) \in Nat, DOMAIN b = 1 .. Len(b), Contains(b, old)
  PROVE  (CHOOSE j \in DOMAIN b : b[j] = old /\ \A k \in 1 .. j - 1 : b[k] # old) \in 1 .. Len(b)
<1> DEFINE T == {j \in 1 .. Len(b) : b[j] = old}
<1>1. Len(b) \in Nat /\ DOMAIN b = 1 .. Len(b)
  OBVIOUS
<1>2. T \subseteq Nat /\ T # {}
  BY <1>1 DEF Contains
<1>3. \A j \in 1 .. Len(b) : j \in T <=> b[j] = old
  OBVIOUS
<1>4. T \subseteq 1 .. Len(b)
  OBVIOUS
<1> HIDE DEF T
<1>5. PICK m \in T : \A n \in T : ~ (<<n, m>> \in OpToRel(<, Nat))
  BY <1>2, NatLessThanWellFounded, WFMin
<1>6. m \in Nat /\ \A n \in T : n \in Nat /\ ~ (n < m)
  BY <1>2, <1>5 DEF OpToRel
<1>7. \A k \in 1 .. m - 1 : k \in 1 .. Len(b) /\ k < m
  <2>1. m \in 1 .. Len(b)
    BY <1>4
  <2> QED
    BY <1>1, <2>1
<1>8. b[m] = old /\ \A k \in 1 .. m - 1 : b[k] # old
  BY <1>3, <1>4, <1>5, <1>6, <1>7
<1> QED
  BY <1>1, <1>4, <1>5, <1>8

LEMMA ReplaceType ==
  ASSUME NEW S, NEW b \in Seq(S), NEW old, NEW new \in S
  PROVE  Replace(b, old, new) \in Seq(S)
<1>1. CASE Contains(b, old)
  <2> DEFINE i == CHOOSE j \in DOMAIN b : b[j] = old /\ \A k \in 1 .. j - 1 : b[k] # old
  <2>1. i \in 1 .. Len(b)
    <3>1. Len(b) \in Nat /\ DOMAIN b = 1 .. Len(b)
      BY LenProperties
    <3>2. (CHOOSE j \in DOMAIN b : b[j] = old /\ \A k \in 1 .. j - 1 : b[k] # old) \in 1 .. Len(b)
      BY <1>1, <3>1, FirstPlace, Zenon
    <3> QED
      BY <3>2
  <2> HIDE DEF i
  <2>2. SubSeq(b, 1, i - 1) \in Seq(S) /\ SubSeq(b, i + 1, Len(b)) \in Seq(S)
    BY <2>1, SubSeqProperties, ElementOfSeq
  <2>3. RemoveAt(b, i) \in Seq(S)
    BY <2>2 DEF RemoveAt
  <2>4. Replace(b, old, new) = Append(RemoveAt(b, i), new)
    BY <1>1 DEF Replace, i
  <2> QED
    BY <2>3, <2>4
<1> QED
  BY <1>1 DEF Replace

BucketTypePrimed == bucket' \in [Nodes -> Seq(Nodes)] /\ \A n \in Nodes : bucket'[n] \in Seq(Nodes \ {n})

LEMMA SetsBucket ==
  ASSUME TypeOK, Domains, NEW n \in Nodes, NEW b \in Seq(Nodes \ {n}), bucket' = [bucket EXCEPT ![n] = b]
  PROVE  BucketTypePrimed
<1>1. bucket \in [Nodes -> Seq(Nodes)] /\ \A m \in Nodes : bucket[m] \in Seq(Nodes \ {m})
  BY DEF TypeOK, Domains
<1>2. b \in Seq(Nodes)
  BY SeqDef
<1> QED
  BY <1>1, <1>2 DEF BucketTypePrimed

LEMMA StepOfBuckets ==
  ASSUME TypeOK, Domains, Next
  PROVE  BucketTypePrimed
<1>1. ASSUME NEW e \in Ends, Observe(e) PROVE BucketTypePrimed
  <2>1. e[1] \in Nodes /\ e[2] \in Nodes \ {e[1]} /\ bucket[e[1]] \in Seq(Nodes \ {e[1]})
    BY EndFacts DEF Domains
  <2>2. /\ Replace(bucket[e[1]], e[2], e[2]) \in Seq(Nodes \ {e[1]})
        /\ Append(bucket[e[1]], e[2]) \in Seq(Nodes \ {e[1]})
    BY <2>1, ReplaceType
  <2> QED
    BY <1>1, <2>1, <2>2, SetsBucket DEF Observe
<1>2. ASSUME NEW e \in Ends, PingEnded(e) PROVE BucketTypePrimed
  <2>1. e[1] \in Nodes /\ e[2] \in Nodes \ {e[1]} /\ bucket[e[1]] \in Seq(Nodes \ {e[1]})
    BY EndFacts DEF Domains
  <2>2. callback[e].st = "ping" /\ callback[e].lrs \in Nodes \ {e[1]}
    BY <1>2, CallbackFacts, StateFacts DEF PingEnded, PingEnds, Domains
  <2>3. \A new \in {callback[e].lrs, e[2]} : Replace(bucket[e[1]], callback[e].lrs, new) \in Seq(Nodes \ {e[1]})
    BY <2>1, <2>2, ReplaceType
  <2>4. PICK new \in {callback[e].lrs, e[2]} : bucket' = [bucket EXCEPT ![e[1]] = Replace(@, callback[e].lrs, new)]
    BY <1>2 DEF PingEnded
  <2>5. PICK b \in Seq(Nodes \ {e[1]}) : b = Replace(bucket[e[1]], callback[e].lrs, new)
    BY <2>3
  <2>6. bucket' = [bucket EXCEPT ![e[1]] = b]
    BY <2>4, <2>5
  <2> QED
    BY <2>1, <2>6, SetsBucket
<1>3. ASSUME \A e \in Ends : ~Observe(e) /\ ~PingEnded(e) PROVE UNCHANGED bucket
  BY <1>3 DEF Next, Invoke, ReceiveAnswer, Timeout, Fetched, ReadAnswer, ReadRequest, ReadFetch, ObserveFull, Act, Break
<1>4. ASSUME UNCHANGED bucket PROVE BucketTypePrimed
  BY <1>4 DEF BucketTypePrimed, TypeOK, Domains
<1> QED
  BY <1>1, <1>2, <1>3, <1>4

LEMMA StepOfInboxes ==
  ASSUME TypeOK, Domains, Belongs, Next
  PROVE  inbox' \in [Calls -> {<<>>} \cup {<<c>> : c \in Calls}] /\ \A c \in Calls : inbox'[c] \in {<<>>, <<c>>}
<1> DEFINE Boxes == {<<>>} \cup {<<c>> : c \in Calls}
           P == inbox' \in [Calls -> Boxes] /\ \A c \in Calls : inbox'[c] \in {<<>>, <<c>>}
<1>0. inbox \in [Calls -> Boxes] /\ \A c \in Calls : inbox[c] \in {<<>>, <<c>>}
  BY DEF TypeOK, Domains
<1>1. ASSUME NEW c \in Calls, NEW b \in {<<>>, <<c>>}, inbox' = [inbox EXCEPT ![c] = b] PROVE P
  <2>1. b \in Boxes
    OBVIOUS
  <2> HIDE DEF Boxes
  <2> QED
    BY <1>0, <1>1, <2>1
<1>2. ASSUME UNCHANGED inbox PROVE P
  BY <1>0, <1>2
<1>3. ASSUME NEW e \in Ends, ReadAnswer(e) PROVE P
  <2>1. PICK c : c = Head(channel[Incoming(e)]).call /\ c \in Calls
    BY <1>3, HeadFacts DEF ReadAnswer
  <2>2. inbox' = [inbox EXCEPT ![c] = <<c>>] \/ UNCHANGED inbox
    BY <1>3, <2>1 DEF ReadAnswer
  <2> QED
    BY <1>1, <1>2, <2>1, <2>2
<1>4. ASSUME NEW c \in Calls, ReceiveAnswer(c) \/ Timeout(c) \/ Fetched(c) PROVE P
  BY <1>1, <1>2, <1>4 DEF ReceiveAnswer, Timeout, Fetched
<1>5. ASSUME \A e \in Ends : ~ReadAnswer(e), \A c \in Calls : ~ReceiveAnswer(c) /\ ~Timeout(c) /\ ~Fetched(c)
      PROVE  UNCHANGED inbox
  BY <1>5 DEF Next, Invoke, ReadRequest, ReadFetch, Observe, ObserveFull, PingEnded, Act, Break
<1> HIDE DEF P
<1>6. P
  BY <1>2, <1>3, <1>4, <1>5
<1> QED
  BY <1>6 DEF P

-----------------------------------------------------------------------------

LEMMA FirstInQueue ==
  ASSUME TypeOK, Belongs, NEW e \in Ends, channel[Incoming(e)] # <<>>, Head(channel[Incoming(e)]).isReq
  PROVE  \E c \in Used : /\ c = Head(channel[Incoming(e)]).call /\ c \in Calls
                         /\ Out(c) = Incoming(e) /\ Back(c) = e
                         /\ Head(channel[Incoming(e)]) = Request(c)
<1>1. PICK c : c = Head(channel[Incoming(e)]).call
  OBVIOUS
<1>2. Head(channel[Incoming(e)]) \in Messages /\ channel[Incoming(e)][1] = Head(channel[Incoming(e)])
      /\ 1 \in DOMAIN channel[Incoming(e)]
  BY HeadFacts
<1>3. Incoming(e) \in Ends /\ Incoming(e) = <<e[2], e[1]>> /\ e = <<e[1], e[2]>>
  BY EndFacts
<1>4. c \in Used /\ Out(c) = Incoming(e)
  BY <1>1, <1>2, <1>3 DEF Belongs
<1>5. Back(c) = e
  BY <1>3, <1>4 DEF Out, Back
<1>6. c \in Calls
  BY <1>4, CallFacts
<1>7. Head(channel[Incoming(e)]) = Request(c)
  BY <1>1, <1>2, MessageFacts
<1> QED
  BY <1>1, <1>4, <1>5, <1>6, <1>7

LEMMA StepOfSets ==
  ASSUME TypeOK, Domains, Belongs, Next
  PROVE  /\ fetching' \subseteq Used /\ acted' \subseteq Used /\ acted \subseteq acted'
         /\ broken' \subseteq SUBSET Nodes /\ broken \subseteq broken'
<1> DEFINE P == /\ fetching' \subseteq Used /\ acted' \subseteq Used /\ acted \subseteq acted'
                /\ broken' \subseteq SUBSET Nodes /\ broken \subseteq broken'
<1>0. fetching \subseteq Used /\ acted \subseteq Used /\ broken \subseteq SUBSET Nodes
  BY DEF TypeOK, Belongs
<1>1. ASSUME UNCHANGED <<fetching, acted, broken>> PROVE P
  BY <1>0, <1>1
<1>2. ASSUME NEW e \in Ends, ReadFetch(e) PROVE P
  <2>1. channel[Incoming(e)] # <<>> /\ Head(channel[Incoming(e)]).isReq
        /\ fetching' = fetching \cup {Head(channel[Incoming(e)]).call} /\ UNCHANGED <<acted, broken>>
    BY <1>2 DEF ReadFetch
  <2>2. Head(channel[Incoming(e)]).call \in Used
    BY <2>1, FirstInQueue
  <2> QED
    BY <1>0, <2>1, <2>2
<1>3. ASSUME NEW c \in Calls, Fetched(c) PROVE P
  BY <1>0, <1>3 DEF Fetched
<1>4. ASSUME NEW e \in Ends, Act(e) PROVE P
  <2>1. callback[e].call \in Used
    BY <1>4, CallbackFacts DEF Act, Belongs
  <2> QED
    BY <1>0, <1>4, <2>1 DEF Act
<1>5. ASSUME NEW n \in Nodes, NEW m \in Nodes, Break(n, m) PROVE P
  BY <1>0, <1>5 DEF Break
<1>6. ASSUME NEW e \in Ends, ReadAnswer(e) \/ ReadRequest(e) \/ Observe(e) \/ ObserveFull(e) \/ PingEnded(e)
      PROVE  UNCHANGED <<fetching, acted, broken>>
  BY <1>6 DEF ReadAnswer, ReadRequest, Observe, ObserveFull, PingEnded
<1>7. ASSUME NEW c \in Calls, ReceiveAnswer(c) \/ Timeout(c) PROVE UNCHANGED <<fetching, acted, broken>>
  BY <1>7 DEF ReceiveAnswer, Timeout
<1>8. ASSUME NEW n \in Nodes, NEW m \in Nodes, NEW type, Invoke(n, m, type)
      PROVE  UNCHANGED <<fetching, acted, broken>>
  BY <1>8 DEF Invoke
<1> HIDE DEF P
<1>9. P
  BY <1>1, <1>2, <1>3, <1>4, <1>5, <1>6, <1>7, <1>8 DEF Next
<1> QED
  BY <1>9 DEF P

LEMMA TypePreserved ==
  ASSUME TypeOK, Domains, NoHoles, Belongs, Next
  PROVE  TypeOK' /\ Domains'
<1>1. CallTypePrimed
  BY StepOfCalls
<1>2. QueueTypePrimed
  BY StepOfQueues
<1>3. CallbackTypePrimed /\ \A e \in Ends : CallbackStep(e)
  BY StepOfCallbacks
<1>4. BucketTypePrimed
  BY StepOfBuckets
<1>5. inbox' \in [Calls -> {<<>>} \cup {<<c>> : c \in Calls}] /\ \A c \in Calls : inbox'[c] \in {<<>>, <<c>>}
  BY StepOfInboxes
<1>6. fetching' \subseteq Calls /\ acted' \subseteq Calls /\ broken' \subseteq SUBSET Nodes
  BY StepOfSets, CallFacts
<1>7. \A e \in Ends :
       \/ callback'[e] = Idle
       \/ callback'[e] \in [st : {"observe", "act"}, call : Calls]
       \/ callback'[e] \in [st : {"ping"}, call : Calls, ping : 0 .. MaxCalls, lrs : Nodes]
  BY <1>3 DEF CallbackTypePrimed, CallbackStates
<1>8. TypeOK'
  BY <1>1, <1>2, <1>4, <1>5, <1>6, <1>7 DEF TypeOK, CallTypePrimed, CallRecords, QueueTypePrimed, BucketTypePrimed
<1>9. \A e \in Ends : callback'[e].st = "ping" => callback'[e].lrs # e[1]
  <2> SUFFICES ASSUME NEW e \in Ends, callback'[e].st = "ping" PROVE callback'[e].lrs # e[1]
    OBVIOUS
  <2>1. callback'[e] # Idle
    BY StateFacts
  <2>2. ASSUME Reads(e), callback'[e] = Observing(Head(channel[Incoming(e)]).call) PROVE FALSE
    <3>1. Head(channel[Incoming(e)]).call \in Calls
      BY <2>2, HeadFacts DEF Reads
    <3> QED
      BY <2>2, <3>1, StateFacts
  <2> QED
    BY <1>3, <2>1, <2>2 DEF CallbackStep, Domains
<1>10. Domains'
  BY <1>3, <1>4, <1>5, <1>9 DEF Domains, CallbackTypePrimed, BucketTypePrimed
<1> QED
  BY <1>8, <1>10

-----------------------------------------------------------------------------

\* Requests of a queue are in order, and all behind call c.
Sorted(q) ==
  \A i, j \in DOMAIN q : (i < j /\ q[i].isReq /\ q[j].isReq) => q[i].call < q[j].call
Behind(c, q) == \A i \in DOMAIN q : q[i].isReq => c < q[i].call

LEMMA OrderIsSorted ==
  InOrder <=> /\ \A e \in Ends : Sorted(channel[e])
              /\ \A e \in Ends : callback[e] # Idle => Behind(callback[e].call, channel[Incoming(e)])
BY DEF InOrder, Sorted, Behind

LEMMA AppendSorted ==
  ASSUME NEW q \in Seq(Messages), NEW m \in Messages, Sorted(q),
         m.isReq => \A i \in DOMAIN q : q[i].isReq => q[i].call < m.call
  PROVE  Sorted(Append(q, m))
<1>1. /\ Len(q) \in Nat /\ DOMAIN q = 1 .. Len(q) /\ DOMAIN Append(q, m) = 1 .. Len(q) + 1
      /\ \A i \in 1 .. Len(q) : Append(q, m)[i] = q[i]
      /\ Append(q, m)[Len(q) + 1] = m
  BY AppendFacts
<1> SUFFICES ASSUME NEW i \in 1 .. Len(q) + 1, NEW j \in 1 .. Len(q) + 1, i < j,
                    Append(q, m)[i].isReq, Append(q, m)[j].isReq
             PROVE  Append(q, m)[i].call < Append(q, m)[j].call
  BY <1>1 DEF Sorted
<1>2. i \in 1 .. Len(q) /\ Append(q, m)[i] = q[i]
  BY <1>1
<1>3. CASE j \in 1 .. Len(q)
  BY <1>1, <1>2, <1>3 DEF Sorted
<1>4. CASE j = Len(q) + 1
  BY <1>1, <1>2, <1>4
<1> QED
  BY <1>1, <1>3, <1>4

LEMMA AppendBehind ==
  ASSUME NEW q \in Seq(Messages), NEW m \in Messages, NEW c, Behind(c, q), m.isReq => c < m.call
  PROVE  Behind(c, Append(q, m))
<1>1. /\ Len(q) \in Nat /\ DOMAIN q = 1 .. Len(q) /\ DOMAIN Append(q, m) = 1 .. Len(q) + 1
      /\ \A i \in 1 .. Len(q) : Append(q, m)[i] = q[i]
      /\ Append(q, m)[Len(q) + 1] = m
  BY AppendFacts
<1>2. \A i \in 1 .. Len(q) + 1 : i \in 1 .. Len(q) \/ i = Len(q) + 1
  BY <1>1
<1> QED
  BY <1>1, <1>2, Zenon DEF Behind

LEMMA TailSorted ==
  ASSUME NEW q \in Seq(Messages), q # <<>>, Sorted(q)
  PROVE  /\ Sorted(Tail(q)) /\ \A c : Behind(c, q) => Behind(c, Tail(q))
         /\ Head(q).isReq => Behind(Head(q).call, Tail(q))
<1>1. /\ Len(q) \in Nat \ {0} /\ DOMAIN q = 1 .. Len(q) /\ Head(q) = q[1]
      /\ DOMAIN Tail(q) = 1 .. Len(q) - 1 /\ \A i \in 1 .. Len(q) - 1 : Tail(q)[i] = q[i + 1]
  BY TailFacts
<1>2. \A i \in 1 .. Len(q) - 1 : i + 1 \in DOMAIN q /\ Tail(q)[i] = q[i + 1] /\ 1 < i + 1
  BY <1>1
<1>3. 1 \in DOMAIN q
  BY <1>1
<1>4. \A i, j \in 1 .. Len(q) - 1 : i < j => i + 1 < j + 1
  BY <1>1
<1>5. Sorted(Tail(q))
  BY <1>1, <1>2, <1>4, Zenon DEF Sorted
<1>6. \A c : Behind(c, q) => Behind(c, Tail(q))
  BY <1>1, <1>2, Zenon DEF Behind
<1>7. Head(q).isReq => Behind(Head(q).call, Tail(q))
  BY <1>1, <1>2, <1>3, Zenon DEF Sorted, Behind
<1> QED
  BY <1>5, <1>6, <1>7

LEMMA EmptySorted ==
  Sorted(<<>>) /\ \A c : Behind(c, <<>>)
BY DEF Sorted, Behind

LEMMA AppendElements ==
  ASSUME NEW q \in Seq(Messages), NEW m \in Messages, NEW i \in DOMAIN Append(q, m)
  PROVE  (\E j \in DOMAIN q : q[j] = Append(q, m)[i]) \/ Append(q, m)[i] = m
<1>1. /\ DOMAIN q = 1 .. Len(q) /\ DOMAIN Append(q, m) = 1 .. Len(q) + 1 /\ Len(q) \in Nat
      /\ \A k \in 1 .. Len(q) : Append(q, m)[k] = q[k]
      /\ Append(q, m)[Len(q) + 1] = m
  BY AppendFacts
<1>2. i \in 1 .. Len(q) \/ i = Len(q) + 1
  BY <1>1
<1> QED
  BY <1>1, <1>2

LEMMA TailElements ==
  ASSUME NEW q \in Seq(Messages), q # <<>>, NEW i \in DOMAIN Tail(q)
  PROVE  \E j \in DOMAIN q : q[j] = Tail(q)[i]
<1>1. /\ DOMAIN q = 1 .. Len(q) /\ DOMAIN Tail(q) = 1 .. Len(q) - 1 /\ Len(q) \in Nat
      /\ \A k \in 1 .. Len(q) - 1 : Tail(q)[k] = q[k + 1]
  BY TailFacts
<1>2. i \in 1 .. Len(q) - 1 /\ i + 1 \in DOMAIN q
  BY <1>1
<1> QED
  BY <1>1, <1>2

\* Where the requests of a channel come from.
LEMMA OriginOfRequests ==
  ASSUME TypeOK, NEW e \in Ends, Queued(e), NEW i \in DOMAIN channel'[e], channel'[e][i].isReq
  PROVE  \/ \E j \in DOMAIN channel[e] : channel[e][j] = channel'[e][i]
         \/ \E c \in Calls : channel'[e][i].call = c /\ c \notin Used /\ c \in Used' /\ Out(c)' = e
<1> DEFINE P == \/ \E j \in DOMAIN channel[e] : channel[e][j] = channel'[e][i]
                \/ \E c \in Calls : channel'[e][i].call = c /\ c \notin Used /\ c \in Used' /\ Out(c)' = e
<1>0. channel[e] \in Seq(Messages)
  BY QueueFacts
<1>1. CASE channel'[e] = channel[e]
  BY <1>1
<1>2. ASSUME NEW c \in Calls, channel'[e] = Append(channel[e], Answer(c)) PROVE P
  <2>1. Answer(c) \in Messages /\ ~Answer(c).isReq
    BY MessageFacts
  <2> QED
    BY <1>0, <1>2, <2>1, AppendElements
<1>3. ASSUME NEW c \in Calls, channel'[e] = Append(channel[e], Request(c)), c \notin Used, c \in Used', Out(c)' = e
      PROVE  P
  <2>1. Request(c) \in Messages /\ Request(c).call = c
    BY MessageFacts
  <2>2. (\E j \in DOMAIN channel[e] : channel[e][j] = channel'[e][i]) \/ channel'[e][i] = Request(c)
    BY <1>0, <1>3, <2>1, AppendElements
  <2> QED
    BY <1>3, <2>1, <2>2
<1>4. CASE channel[e] # <<>> /\ channel'[e] = Tail(channel[e])
  BY <1>0, <1>4, TailElements
<1>5. CASE channel'[e] = <<>>
  BY <1>5
<1> QED
  BY <1>1, <1>2, <1>3, <1>4, <1>5 DEF Queued

LEMMA FetchStarts ==
  ASSUME Next, NEW c \in fetching', c \notin fetching
  PROVE  call[c].type = "FETCH_BLOB"
<1>1. ASSUME NEW e \in Ends, ReadFetch(e) PROVE call[c].type = "FETCH_BLOB"
  BY <1>1 DEF ReadFetch
<1>2. ASSUME \A e \in Ends : ~ReadFetch(e) PROVE fetching' \subseteq fetching
  BY <1>2 DEF Next, Invoke, ReceiveAnswer, Timeout, Fetched, ReadAnswer, ReadRequest, Observe, ObserveFull, PingEnded,
     Act, Break
<1> QED
  BY <1>1, <1>2

LEMMA BelongsPreserved ==
  ASSUME TypeOK, Domains, NoHoles, Belongs, Next
  PROVE  Belongs'
<1>1. CallsKept /\ (Used' = Used \/ Makes)
  BY StepOfCalls
<1>2. \A c \in Used : c \in Used' /\ Out(c)' = Out(c) /\ Back(c)' = Back(c) /\ call'[c].type = call[c].type
  BY <1>1 DEF CallsKept
<1>3. \A c \in Used' : Out(c)' \in Ends
  <2>1. CASE Used' = Used
    BY <1>2, <2>1 DEF Belongs
  <2>2. CASE Makes
    <3>1. PICK c \in Calls, from \in Nodes, to \in Nodes :
            from # to /\ Used' = Used \cup {c} /\ Out(c)' = <<from, to>>
      BY <2>2 DEF Makes, MakesCall
    <3>2. Out(c)' \in Ends
      BY <3>1, EndFacts
    <3>3. \A d \in Used : Out(d)' \in Ends
      BY <1>2 DEF Belongs
    <3> QED
      BY <3>1, <3>2, <3>3
  <2> QED
    BY <1>1, <2>1, <2>2
<1>4. ASSUME NEW e \in Ends, NEW i \in DOMAIN channel'[e], channel'[e][i].isReq
      PROVE  \E c : c = channel'[e][i].call /\ c \in Used' /\ Out(c)' = e
  <2>1. CASE \E j \in DOMAIN channel[e] : channel[e][j] = channel'[e][i]
    <3>1. PICK c : c = channel'[e][i].call
      OBVIOUS
    <3>2. c \in Used /\ Out(c) = e
      BY <1>4, <2>1, <3>1 DEF Belongs
    <3> QED
      BY <1>2, <3>1, <3>2
  <2>2. Queued(e)
    BY StepOfQueues
  <2> QED
    BY <1>4, <2>1, <2>2, OriginOfRequests
<1>5. ASSUME NEW e \in Ends, callback'[e] # Idle
      PROVE  \E c : c = callback'[e].call /\ c \in Used' /\ Back(c)' = e /\ call'[c].type # "FETCH_BLOB"
  <2>1. CASE callback[e] # Idle /\ callback'[e].call = callback[e].call
    <3>1. PICK c : c = callback[e].call
      OBVIOUS
    <3>2. c \in Used /\ Back(c) = e /\ call[c].type # "FETCH_BLOB"
      BY <2>1, <3>1 DEF Belongs
    <3> QED
      BY <1>2, <2>1, <3>1, <3>2
  <2>2. CASE /\ channel[Incoming(e)] # <<>> /\ Head(channel[Incoming(e)]).isReq
             /\ callback'[e] = Observing(Head(channel[Incoming(e)]).call)
             /\ call[Head(channel[Incoming(e)]).call].type # "FETCH_BLOB"
    <3>1. PICK c \in Used : c = Head(channel[Incoming(e)]).call /\ c \in Calls /\ Back(c) = e
      BY <2>2, FirstInQueue
    <3>2. callback'[e].call = c
      BY <2>2, <3>1, StateFacts
    <3> QED
      BY <1>2, <2>2, <3>1, <3>2
  <2>3. CallbackStep(e)
    BY StepOfCallbacks
  <2> QED
    BY <1>5, <2>1, <2>2, <2>3 DEF CallbackStep
<1>6. \A e \in Ends : \A i \in DOMAIN channel'[e] :
       channel'[e][i].isReq => channel'[e][i].call \in Used' /\ Out(channel[e][i].call)' = e
  <2> SUFFICES ASSUME NEW e \in Ends, NEW i \in DOMAIN channel'[e], channel'[e][i].isReq
               PROVE  channel'[e][i].call \in Used' /\ Out(channel[e][i].call)' = e
    OBVIOUS
  <2>1. PICK c : c = channel'[e][i].call /\ c \in Used' /\ Out(c)' = e
    BY <1>4
  <2> QED
    BY <2>1 DEF Out
<1>7. \A e \in Ends : callback'[e] # Idle =>
       callback'[e].call \in Used' /\ Back(callback[e].call)' = e /\ call'[callback'[e].call].type # "FETCH_BLOB"
  <2> SUFFICES ASSUME NEW e \in Ends, callback'[e] # Idle
               PROVE  callback'[e].call \in Used' /\ Back(callback[e].call)' = e
                      /\ call'[callback'[e].call].type # "FETCH_BLOB"
    OBVIOUS
  <2>1. PICK c : c = callback'[e].call /\ c \in Used' /\ Back(c)' = e /\ call'[c].type # "FETCH_BLOB"
    BY <1>5
  <2> QED
    BY <2>1 DEF Back
<1>8. fetching' \subseteq Used' /\ acted' \subseteq Used'
  BY <1>2, StepOfSets
<1>9. \A c \in fetching' : call'[c].type = "FETCH_BLOB"
  <2> SUFFICES ASSUME NEW c \in fetching' PROVE c \in Used /\ call[c].type = "FETCH_BLOB"
    BY <1>2
  <2>1. c \in Used
    BY StepOfSets
  <2>2. ASSUME c \notin fetching PROVE call[c].type = "FETCH_BLOB"
    BY <2>2, FetchStarts
  <2> QED
    BY <2>1, <2>2 DEF Belongs
<1> QED
  BY <1>3, <1>6, <1>7, <1>8, <1>9 DEF Belongs

LEMMA OrderPreserved ==
  ASSUME TypeOK, Domains, NoHoles, Belongs, InOrder, Next
  PROVE  InOrder'
<1>1. /\ \A e \in Ends : Sorted(channel[e])
      /\ \A e \in Ends : callback[e] # Idle => Behind(callback[e].call, channel[Incoming(e)])
  BY OrderIsSorted
<1>2. \A e \in Ends : channel[e] \in Seq(Messages) /\ \A i \in DOMAIN channel[e] : channel[e][i].isReq => channel[e][i].call \in Used
  BY QueueFacts DEF Belongs
<1>3. ASSUME NEW e \in Ends PROVE Sorted(channel'[e])
  <2>1. ASSUME NEW c \in Calls, channel'[e] = Append(channel[e], Answer(c)) PROVE Sorted(channel'[e])
    BY <1>1, <1>2, <2>1, MessageFacts, AppendSorted
  <2>2. ASSUME NEW c \in Calls, channel'[e] = Append(channel[e], Request(c)), \A d \in Used : d < c
        PROVE  Sorted(channel'[e])
    BY <1>1, <1>2, <2>2, MessageFacts, AppendSorted
  <2>3. CASE channel[e] # <<>> /\ channel'[e] = Tail(channel[e])
    BY <1>1, <1>2, <2>3, TailSorted
  <2>4. Queued(e)
    BY StepOfQueues
  <2> QED
    BY <1>1, <2>1, <2>2, <2>3, <2>4, EmptySorted DEF Queued
<1>4. ASSUME NEW e \in Ends, callback'[e] # Idle
      PROVE  Behind(callback'[e].call, channel'[Incoming(e)])
  <2>0. PICK f \in Ends : f = Incoming(e)
    BY EndFacts
  <2>1. CASE callback[e] # Idle /\ callback'[e].call = callback[e].call
    <3>1. PICK d \in Used : d = callback[e].call /\ Behind(d, channel[f])
      BY <1>1, <2>0, <2>1 DEF Belongs
    <3>0. channel[f] \in Seq(Messages)
      BY <1>2
    <3>2. ASSUME NEW c \in Calls, channel'[f] = Append(channel[f], Answer(c)) PROVE Behind(d, channel'[f])
      <4>1. Answer(c) \in Messages /\ ~Answer(c).isReq
        BY MessageFacts
      <4>2. Behind(d, Append(channel[f], Answer(c)))
        BY <3>0, <3>1, <4>1, AppendBehind
      <4> QED
        BY <3>2, <4>2
    <3>3. ASSUME NEW c \in Calls, channel'[f] = Append(channel[f], Request(c)), \A b \in Used : b < c
          PROVE  Behind(d, channel'[f])
      <4>1. Request(c) \in Messages /\ Request(c).call = c
        BY MessageFacts
      <4>2. d < Request(c).call
        BY <3>1, <3>3, <4>1
      <4>3. Behind(d, Append(channel[f], Request(c)))
        BY <3>0, <3>1, <4>1, <4>2, AppendBehind
      <4> QED
        BY <3>3, <4>3
    <3>4. ASSUME channel[f] # <<>>, channel'[f] = Tail(channel[f]) PROVE Behind(d, channel'[f])
      <4>1. Sorted(channel[f])
        BY <1>1
      <4>2. \A c : Behind(c, channel[f]) => Behind(c, Tail(channel[f]))
        BY <3>0, <3>4, <4>1, TailSorted
      <4> QED
        BY <3>1, <3>4, <4>2
    <3>5. Queued(f)
      BY StepOfQueues
    <3>6. Behind(d, channel'[f])
      <4>1. CASE channel'[f] = channel[f]
        BY <3>1, <4>1
      <4>2. CASE channel'[f] = <<>>
        BY <4>2, EmptySorted
      <4> QED
        BY <3>2, <3>3, <3>4, <3>5, <4>1, <4>2 DEF Queued
    <3> QED
      BY <2>0, <2>1, <3>1, <3>6
  <2>2. CASE /\ channel[Incoming(e)] # <<>> /\ Head(channel[Incoming(e)]).isReq
             /\ Taken(Incoming(e))
             /\ callback'[e] = Observing(Head(channel[Incoming(e)]).call)
    <3>1. Head(channel[f]).call \in Calls
      BY <2>0, <2>2, HeadFacts
    <3>2. callback'[e].call = Head(channel[f]).call
      BY <2>0, <2>2, <3>1, StateFacts
    <3>3. channel'[f] = Tail(channel[f])
      BY <2>0, <2>2 DEF Taken
    <3>4. Behind(Head(channel[f]).call, Tail(channel[f]))
      BY <1>1, <1>2, <2>0, <2>2, TailSorted
    <3> QED
      BY <2>0, <3>2, <3>3, <3>4
  <2>3. CallbackStep(e)
    BY StepOfCallbacks
  <2> QED
    BY <1>4, <2>1, <2>2, <2>3 DEF CallbackStep
<1> QED
  BY <1>3, <1>4 DEF InOrder, Sorted, Behind

-----------------------------------------------------------------------------

LEMMA AppendHas ==
  ASSUME NEW q \in Seq(Messages), NEW m \in Messages
  PROVE  Has(Append(q, m), m) /\ \A n : Has(q, n) => Has(Append(q, m), n)
<1>1. /\ DOMAIN q = 1 .. Len(q) /\ DOMAIN Append(q, m) = 1 .. Len(q) + 1 /\ Len(q) \in Nat
      /\ \A k \in 1 .. Len(q) : Append(q, m)[k] = q[k]
      /\ Append(q, m)[Len(q) + 1] = m
  BY AppendFacts
<1>2. Len(q) + 1 \in 1 .. Len(q) + 1 /\ \A i \in 1 .. Len(q) : i \in 1 .. Len(q) + 1
  BY <1>1
<1> QED
  BY <1>1, <1>2, Zenon DEF Has

LEMMA TailHas ==
  ASSUME NEW q \in Seq(Messages), q # <<>>, NEW n, Has(q, n), n # Head(q)
  PROVE  Has(Tail(q), n)
<1>1. /\ DOMAIN q = 1 .. Len(q) /\ DOMAIN Tail(q) = 1 .. Len(q) - 1 /\ Len(q) \in Nat
      /\ Head(q) = q[1] /\ \A k \in 1 .. Len(q) - 1 : Tail(q)[k] = q[k + 1]
  BY TailFacts
<1>2. PICK i \in 1 .. Len(q) : q[i] = n
  BY <1>1 DEF Has
<1>3. i - 1 \in 1 .. Len(q) - 1 /\ (i - 1) + 1 = i
  BY <1>1, <1>2
<1> QED
  BY <1>1, <1>2, <1>3 DEF Has

\* While no connection is lost, only the head of a channel that is read leaves it.
LEMMA SentKeeps ==
  ASSUME TypeOK, broken = {}, NEW e \in Ends, NEW m \in Messages, Sent(e, m)
  PROVE  /\ Has(channel'[e], m)
         /\ \A f \in Ends : \A n : Has(channel[f], n) => Has(channel'[f], n)
<1>1. channel[e] \in Seq(Messages) /\ channel'[e] = Append(channel[e], m)
  BY QueueFacts DEF Sent
<1>2. Has(channel'[e], m) /\ \A n : Has(channel[e], n) => Has(channel'[e], n)
  BY <1>1, AppendHas
<1> QED
  BY <1>2 DEF Sent

LEMMA TakenKeeps ==
  ASSUME TypeOK, NEW e \in Ends, Taken(e)
  PROVE  \A f \in Ends : \A n : Has(channel[f], n) /\ ~(f = e /\ n = Head(channel[e])) => Has(channel'[f], n)
<1>1. channel[e] \in Seq(Messages) /\ channel[e] # <<>> /\ channel'[e] = Tail(channel[e])
  BY QueueFacts DEF Taken
<1>2. \A n : Has(channel[e], n) /\ n # Head(channel[e]) => Has(channel'[e], n)
  BY <1>1, TailHas
<1> QED
  BY <1>2 DEF Taken

\* What a step does to the request and to the answer of a call.
RequestKept(c) ==
  \/ c \in acted'
  \/ Has(channel'[Out(c)], Request(c))
  \/ call[c].type # "FETCH_BLOB" /\ callback'[Back(c)] # Idle /\ callback'[Back(c)].call = c
  \/ call[c].type = "FETCH_BLOB" /\ c \in fetching'

AnswerKept(c) ==
  c \in Waiting' \cap acted' => inbox'[c] # <<>> \/ Has(channel'[Back(c)], Answer(c))

LEMMA NothingLostNow ==
  ASSUME NothingLost, broken = {}, NEW c \in Used
  PROVE  /\ c \in acted \/ Requested(c)
         /\ c \in Waiting \cap acted => inbox[c] # <<>> \/ Has(channel[Back(c)], Answer(c))
BY DEF NothingLost

\* Nothing is lost by a step that keeps both, and sends what it calls.
LEMMA NothingLostKept ==
  ASSUME CallsKept, \A c \in Used : RequestKept(c) /\ AnswerKept(c),
         \A c \in Used' \ Used : c \notin acted' /\ \E e \in Ends : Out(c)' = e /\ Has(channel'[e], Request(c))
  PROVE  NothingLost'
<1>1. ASSUME NEW c \in Used
      PROVE  /\ c \in acted' \/ Requested(c)'
             /\ c \in Waiting' \cap acted' => inbox'[c] # <<>> \/ Has(channel'[Back(c)'], Answer(c))
  <2>1. Out(c)' = Out(c) /\ Back(c)' = Back(c) /\ call'[c].type = call[c].type
    BY DEF CallsKept
  <2>2. RequestKept(c) /\ AnswerKept(c)
    OBVIOUS
  <2> QED
    BY <2>1, <2>2 DEF RequestKept, AnswerKept, Requested, Handling, Has, Request
<1>2. ASSUME NEW c \in Used' \ Used
      PROVE  /\ c \in acted' \/ Requested(c)'
             /\ c \in Waiting' \cap acted' => inbox'[c] # <<>> \/ Has(channel'[Back(c)'], Answer(c))
  <2>1. c \notin acted' /\ \E e \in Ends : Out(c)' = e /\ Has(channel'[e], Request(c))
    BY <1>2
  <2> QED
    BY <2>1 DEF Requested, Has, Request
<1>3. \A c \in Used' :
        /\ c \in acted' \/ Requested(c)'
        /\ c \in Waiting' \cap acted' => inbox'[c] # <<>> \/ Has(channel'[Back(c)'], Answer(c))
  BY <1>1, <1>2
<1> QED
  BY <1>3 DEF NothingLost, Has, Answer

Kept == \A c \in Used : RequestKept(c) /\ AnswerKept(c)

\* What a step leaves alone that takes nothing out of a channel and ends no handler.
KeepsHandlers ==
  \A c \in Used : Handling(Back(c), c) => callback'[Back(c)] # Idle /\ callback'[Back(c)].call = c
KeepsAnswers == \A c \in Waiting' : inbox[c] # <<>> => inbox'[c] # <<>>
KeepsMessages == \A f \in Ends : \A n : Has(channel[f], n) => Has(channel'[f], n)

LEMMA UsedFacts ==
  ASSUME TypeOK, Belongs, NEW c \in Used
  PROVE  c \in Calls /\ Out(c) \in Ends /\ Back(c) \in Ends /\ Incoming(Back(c)) = Out(c)
         /\ Incoming(Out(c)) = Back(c)
<1>1. c \in Calls /\ Out(c) \in Ends
  BY CallFacts DEF Belongs
<1> QED
  BY <1>1, EndFacts DEF Out, Back, Incoming

LEMMA KeptUntouched ==
  ASSUME TypeOK, Belongs, NothingLost, broken = {}, CallsKept, acted' = acted, fetching \subseteq fetching',
         KeepsHandlers, KeepsAnswers, KeepsMessages
  PROVE  Kept
<1> SUFFICES ASSUME NEW c \in Used PROVE RequestKept(c) /\ AnswerKept(c)
  BY DEF Kept
<1>1. /\ c \in acted \/ Requested(c)
      /\ c \in Waiting \cap acted => inbox[c] # <<>> \/ Has(channel[Back(c)], Answer(c))
  BY NothingLostNow
<1>2. Out(c) \in Ends /\ Back(c) \in Ends
  BY UsedFacts
<1>3. c \in Waiting' => c \in Waiting
  BY DEF CallsKept
<1>4. RequestKept(c)
  BY <1>1, <1>2 DEF RequestKept, Requested, KeepsHandlers, KeepsMessages
<1>5. AnswerKept(c)
  BY <1>1, <1>2, <1>3 DEF AnswerKept, KeepsAnswers, KeepsMessages
<1> QED
  BY <1>4, <1>5

LEMMA SameHandlers ==
  ASSUME TypeOK, Belongs, UNCHANGED callback PROVE KeepsHandlers
BY UsedFacts DEF KeepsHandlers, Handling

LEMMA MakesKeep ==
  ASSUME TypeOK, broken = {}, Makes PROVE KeepsMessages
<1>1. PICK c \in Calls, from \in Nodes, to \in Nodes : from # to /\ Sent(<<from, to>>, Request(c))
  BY DEF Makes, MakesCall
<1>2. <<from, to>> \in Ends /\ Request(c) \in Messages
  BY <1>1, EndFacts, MessageFacts
<1> QED
  BY <1>1, <1>2, SentKeeps DEF KeepsMessages

LEMMA SetsHandler ==
  ASSUME TypeOK, Domains, Belongs, NEW e \in Ends, callback[e] # Idle,
         NEW s \in CallbackStates, s # Idle, s.call = callback[e].call, callback' = [callback EXCEPT ![e] = s]
  PROVE  KeepsHandlers
<1>1. callback'[e] = s /\ \A f \in Ends \ {e} : callback'[f] = callback[f]
  BY DEF Domains
<1> QED
  BY <1>1, UsedFacts DEF KeepsHandlers, Handling

LEMMA InvokeKeeps ==
  ASSUME TypeOK, Domains, NoHoles, Belongs, NothingLost, broken = {},
         NEW n \in Nodes, NEW m \in Nodes, NEW type \in Types, Invoke(n, m, type)
  PROVE  Kept
<1>1. CallsKept /\ Makes
  BY InvokeMakes
<1>2. UNCHANGED <<inbox, callback, fetching, acted>>
  BY DEF Invoke
<1>3. KeepsHandlers /\ KeepsMessages
  BY <1>1, <1>2, SameHandlers, MakesKeep
<1> QED
  BY <1>1, <1>2, <1>3, KeptUntouched DEF KeepsAnswers

LEMMA CallEndsKeeps ==
  ASSUME TypeOK, Domains, NoHoles, Belongs, NothingLost, broken = {},
         NEW c \in Calls, ReceiveAnswer(c) \/ Timeout(c)
  PROVE  Kept
<1>1. CallsKept /\ Waiting' = Waiting \ {c}
  BY EndsFacts DEF ReceiveAnswer, Timeout
<1>2. UNCHANGED <<channel, callback, fetching, acted>> /\ inbox' = [inbox EXCEPT ![c] = <<>>]
  BY DEF ReceiveAnswer, Timeout
<1>3. \A d \in Waiting' : inbox'[d] = inbox[d]
  <2>1. \A d \in Waiting' : d \in Calls \ {c}
    BY <1>1, CallFacts
  <2> QED
    BY <1>2, <2>1 DEF Domains
<1>4. KeepsHandlers
  BY <1>2, SameHandlers
<1>5. KeepsMessages
  BY <1>2 DEF KeepsMessages
<1> QED
  BY <1>1, <1>2, <1>3, <1>4, <1>5, KeptUntouched DEF KeepsAnswers

LEMMA ObservedKeeps ==
  ASSUME TypeOK, Domains, NoHoles, Belongs, NothingLost, broken = {},
         NEW e \in Ends, Observe(e) \/ PingEnded(e)
  PROVE  Kept
<1>1. UNCHANGED <<call, inbox, channel, fetching, acted>> /\ callback' = [callback EXCEPT ![e] = Acting(callback[e].call)]
  BY DEF Observe, PingEnded
<1>2. callback[e] # Idle /\ callback[e].call \in Calls
  BY CallbackFacts DEF Observe, PingEnded, PingEnds
<1>3. PICK s \in CallbackStates : s = Acting(callback[e].call) /\ s # Idle /\ s.call = callback[e].call
  BY <1>2, StateFacts
<1>4. KeepsHandlers
  BY <1>1, <1>2, <1>3, SetsHandler
<1>5. CallsKept
  BY <1>1, CallSame
<1>6. KeepsMessages /\ KeepsAnswers
  BY <1>1 DEF KeepsMessages, KeepsAnswers
<1> QED
  BY <1>1, <1>4, <1>5, <1>6, KeptUntouched

LEMMA ObserveFullKeeps ==
  ASSUME TypeOK, Domains, NoHoles, Belongs, NothingLost, broken = {}, NEW e \in Ends, ObserveFull(e)
  PROVE  Kept
<1>1. UNCHANGED <<inbox, fetching, acted>>
  BY DEF ObserveFull
<1>2. PICK lrs \in Nodes \ {e[1]}, p \in 0 .. MaxCalls :
        /\ callback[e] # Idle /\ callback[e].call \in Calls
        /\ callback' = [callback EXCEPT ![e] = Pinging(callback[e].call, p, lrs)]
        /\ \/ UNCHANGED <<call, channel>>
           \/ NextCall \in Calls /\ SendRPC(NextCall, e[1], lrs, "PING")
  BY PingCases
<1>3. PICK s \in CallbackStates : s = Pinging(callback[e].call, p, lrs) /\ s # Idle /\ s.call = callback[e].call
  BY <1>2, StateFacts
<1>4. KeepsHandlers
  BY <1>2, <1>3, SetsHandler
<1>5. CallsKept /\ KeepsMessages
  <2>1. CASE UNCHANGED <<call, channel>>
    BY <2>1, CallSame DEF KeepsMessages
  <2>2. CASE NextCall \in Calls /\ SendRPC(NextCall, e[1], lrs, "PING")
    <3>1. "PING" \in Types /\ e[1] \in Nodes
      BY EndFacts DEF Types
    <3>2. Makes /\ CallsKept
      BY <2>2, <3>1, MakeFacts DEF Makes
    <3> QED
      BY <3>2, MakesKeep
  <2> QED
    BY <1>2, <2>1, <2>2
<1>6. KeepsAnswers
  BY <1>1 DEF KeepsAnswers
<1> QED
  BY <1>1, <1>4, <1>5, <1>6, KeptUntouched

LEMMA ReadAnswerKeeps ==
  ASSUME TypeOK, Domains, NoHoles, Belongs, NothingLost, broken = {}, NEW e \in Ends, ReadAnswer(e)
  PROVE  Kept
<1>1. /\ UNCHANGED <<call, callback, fetching, acted>> /\ channel[Incoming(e)] # <<>>
      /\ ~Head(channel[Incoming(e)]).isReq
  BY DEF ReadAnswer
<1>2. Taken(Incoming(e)) /\ Incoming(e) \in Ends
  BY ReadsTake, EndFacts
<1>3. PICK d \in Calls : d = Head(channel[Incoming(e)]).call /\ Head(channel[Incoming(e)]) = Answer(d)
  BY <1>1, HeadFacts, MessageFacts
<1>4. CallsKept /\ Waiting' = Waiting
  BY <1>1, CallSame
<1>5. inbox' = IF d \in Waiting /\ inbox[d] = <<>> THEN [inbox EXCEPT ![d] = <<d>>] ELSE inbox
  BY <1>3 DEF ReadAnswer
<1>6. (\A c \in Calls : inbox[c] # <<>> => inbox'[c] # <<>>) /\ (d \in Waiting => inbox'[d] # <<>>)
  <2>1. <<d>> # <<>>
    OBVIOUS
  <2> QED
    BY <1>5, <2>1 DEF Domains
<1> SUFFICES ASSUME NEW c \in Used PROVE RequestKept(c) /\ AnswerKept(c)
  BY DEF Kept
<1>7. /\ c \in acted \/ Requested(c)
      /\ c \in Waiting \cap acted => inbox[c] # <<>> \/ Has(channel[Back(c)], Answer(c))
  BY NothingLostNow
<1>8. c \in Calls /\ Out(c) \in Ends /\ Back(c) \in Ends
  BY UsedFacts
<1>9. Request(c) # Answer(d) /\ (Answer(c) = Answer(d) => c = d)
  BY <1>3, <1>8, MessageFacts
<1>10. Has(channel[Out(c)], Request(c)) => Has(channel'[Out(c)], Request(c))
  BY <1>2, <1>3, <1>8, <1>9, TakenKeeps
<1>11. RequestKept(c)
  BY <1>1, <1>7, <1>10 DEF RequestKept, Requested, Handling
<1>12. Has(channel[Back(c)], Answer(c)) /\ c # d => Has(channel'[Back(c)], Answer(c))
  BY <1>2, <1>3, <1>8, <1>9, TakenKeeps
<1>13. AnswerKept(c)
  BY <1>1, <1>4, <1>6, <1>7, <1>8, <1>12 DEF AnswerKept
<1> QED
  BY <1>11, <1>13

LEMMA ReadRequestKeeps ==
  ASSUME TypeOK, Domains, NoHoles, Belongs, NothingLost, broken = {}, NEW e \in Ends,
         ReadRequest(e) \/ ReadFetch(e)
  PROVE  Kept
<1>1. /\ UNCHANGED <<call, inbox, acted>> /\ channel[Incoming(e)] # <<>>
      /\ Head(channel[Incoming(e)]).isReq /\ callback[e] = Idle
  BY DEF ReadRequest, Reads, ReadFetch
<1>2. Taken(Incoming(e)) /\ Incoming(e) \in Ends
  BY ReadsTake, EndFacts
<1>3. PICK d \in Used : /\ d = Head(channel[Incoming(e)]).call /\ d \in Calls /\ Out(d) = Incoming(e)
                        /\ Back(d) = e /\ Head(channel[Incoming(e)]) = Request(d)
  BY <1>1, FirstInQueue
<1>4. CallsKept /\ Waiting' = Waiting
  BY <1>1, CallSame
<1>5. /\ fetching \subseteq fetching'
      /\ \/ call[d].type # "FETCH_BLOB" /\ callback' = [callback EXCEPT ![e] = Observing(d)]
         \/ call[d].type = "FETCH_BLOB" /\ d \in fetching' /\ UNCHANGED callback
  BY <1>3 DEF ReadRequest, Reads, ReadFetch
<1>6. Observing(d) # Idle /\ Observing(d).call = d
  BY <1>3, StateFacts
<1>7. /\ \A f \in Ends : f # e => callback'[f] = callback[f]
      /\ call[d].type # "FETCH_BLOB" => callback'[e] # Idle /\ callback'[e].call = d
  BY <1>5, <1>6 DEF Domains
<1> SUFFICES ASSUME NEW c \in Used PROVE RequestKept(c) /\ AnswerKept(c)
  BY DEF Kept
<1>8. /\ c \in acted \/ Requested(c)
      /\ c \in Waiting \cap acted => inbox[c] # <<>> \/ Has(channel[Back(c)], Answer(c))
  BY NothingLostNow
<1>9. c \in Calls /\ Out(c) \in Ends /\ Back(c) \in Ends
  BY UsedFacts
<1>10. Answer(c) # Request(d) /\ (Request(c) = Request(d) => c = d)
  BY <1>3, <1>9, MessageFacts
<1>11. Has(channel[Out(c)], Request(c)) /\ c # d => Has(channel'[Out(c)], Request(c))
  BY <1>2, <1>3, <1>9, <1>10, TakenKeeps
<1>12. Handling(Back(c), c) => callback'[Back(c)] # Idle /\ callback'[Back(c)].call = c
  BY <1>1, <1>7, <1>9 DEF Handling
<1>13. RequestKept(d)
  BY <1>3, <1>5, <1>7 DEF RequestKept
<1>14. c # d => RequestKept(c)
  BY <1>1, <1>5, <1>8, <1>11, <1>12 DEF RequestKept, Requested
<1>15. AnswerKept(c)
  BY <1>1, <1>2, <1>3, <1>4, <1>8, <1>9, <1>10, TakenKeeps DEF AnswerKept
<1> QED
  BY <1>13, <1>14, <1>15

LEMMA FetchedKeeps ==
  ASSUME TypeOK, Domains, NoHoles, Belongs, NothingLost, broken = {}, NEW d \in Calls, Fetched(d)
  PROVE  Kept
<1>1. UNCHANGED <<call, callback>> /\ fetching' = fetching \ {d} /\ acted' = acted \cup {d}
  BY DEF Fetched
<1>2. /\ d \in Used
      /\ \/ UNCHANGED channel /\ inbox' = [inbox EXCEPT ![d] = <<d>>]
         \/ Sent(Back(d), Answer(d)) /\ UNCHANGED inbox
  BY FetchedAnswers
<1>3. CallsKept /\ Waiting' = Waiting
  BY <1>1, CallSame
<1>4. KeepsMessages
  <2>1. CASE UNCHANGED channel
    BY <2>1 DEF KeepsMessages
  <2>2. CASE Sent(Back(d), Answer(d))
    BY <1>2, <2>2, UsedFacts, MessageFacts, SentKeeps DEF KeepsMessages
  <2> QED
    BY <1>2, <2>1, <2>2
<1>5. inbox'[d] # <<>> \/ Has(channel'[Back(d)], Answer(d))
  <2>1. CASE inbox' = [inbox EXCEPT ![d] = <<d>>]
    <3>1. inbox'[d] = <<d>> /\ <<d>> # <<>>
      BY <2>1 DEF Domains
    <3> QED
      BY <3>1
  <2>2. CASE Sent(Back(d), Answer(d))
    BY <1>2, <2>2, UsedFacts, MessageFacts, SentKeeps
  <2> QED
    BY <1>2, <2>1, <2>2
<1>6. \A c \in Calls \ {d} : inbox'[c] = inbox[c]
  BY <1>2 DEF Domains
<1> SUFFICES ASSUME NEW c \in Used PROVE RequestKept(c) /\ AnswerKept(c)
  BY DEF Kept
<1>7. /\ c \in acted \/ Requested(c)
      /\ c \in Waiting \cap acted => inbox[c] # <<>> \/ Has(channel[Back(c)], Answer(c))
  BY NothingLostNow
<1>8. c \in Calls /\ Out(c) \in Ends /\ Back(c) \in Ends
  BY UsedFacts
<1>9. RequestKept(c)
  BY <1>1, <1>4, <1>7, <1>8 DEF RequestKept, Requested, Handling, KeepsMessages
<1>10. AnswerKept(c)
  BY <1>1, <1>3, <1>4, <1>5, <1>6, <1>7, <1>8 DEF AnswerKept, KeepsMessages
<1> QED
  BY <1>9, <1>10

LEMMA ActKeeps ==
  ASSUME TypeOK, Domains, NoHoles, Belongs, NothingLost, broken = {}, NEW e \in Ends, Act(e)
  PROVE  Kept
<1>1. /\ UNCHANGED <<call, inbox, fetching>> /\ callback' = [callback EXCEPT ![e] = Idle]
      /\ acted' = acted \cup {callback[e].call}
  BY DEF Act
<1>2. callback[e] # Idle /\ callback[e].call \in Calls /\ Sent(e, Answer(callback[e].call))
  BY ActAnswers
<1>3. PICK d \in Used : d = callback[e].call /\ Back(d) = e
  BY <1>2 DEF Belongs
<1>4. CallsKept /\ Waiting' = Waiting
  BY <1>1, CallSame
<1>5. Answer(d) \in Messages
  BY <1>2, <1>3, MessageFacts
<1>6. Has(channel'[Back(d)], Answer(d)) /\ KeepsMessages
  BY <1>2, <1>3, <1>5, SentKeeps DEF KeepsMessages
<1>7. \A f \in Ends \ {e} : callback'[f] = callback[f]
  BY <1>1 DEF Domains
<1> SUFFICES ASSUME NEW c \in Used PROVE RequestKept(c) /\ AnswerKept(c)
  BY DEF Kept
<1>8. /\ c \in acted \/ Requested(c)
      /\ c \in Waiting \cap acted => inbox[c] # <<>> \/ Has(channel[Back(c)], Answer(c))
  BY NothingLostNow
<1>9. c \in Calls /\ Out(c) \in Ends /\ Back(c) \in Ends
  BY UsedFacts
<1>10. Handling(Back(c), c) /\ c # d => callback'[Back(c)] # Idle /\ callback'[Back(c)].call = c
  BY <1>3, <1>7, <1>9 DEF Handling
<1>11. RequestKept(c)
  BY <1>1, <1>3, <1>6, <1>8, <1>9, <1>10 DEF RequestKept, Requested, KeepsMessages
<1>12. AnswerKept(c)
  BY <1>1, <1>3, <1>4, <1>6, <1>8, <1>9 DEF AnswerKept, KeepsMessages
<1> QED
  BY <1>11, <1>12

LEMMA NothingLostPreserved ==
  ASSUME TypeOK, Domains, NoHoles, Belongs, NothingLost, Next
  PROVE  NothingLost'
<1> SUFFICES ASSUME broken' = {} PROVE NothingLost'
  BY DEF NothingLost
<1>1. broken = {}
  BY StepOfSets
<1>2. CallsKept /\ (Used' = Used \/ Makes)
  BY StepOfCalls
<1>3. Kept
  <2>1. ASSUME NEW n \in Nodes, NEW m \in Nodes, Break(n, m) PROVE FALSE
    BY <2>1 DEF Break
  <2> QED
    BY <1>1, <2>1, InvokeKeeps, CallEndsKeeps, FetchedKeeps, ReadAnswerKeeps, ReadRequestKeeps, ObservedKeeps,
       ObserveFullKeeps, ActKeeps DEF Next
<1>4. \A c \in Used' \ Used : c \notin acted' /\ \E e \in Ends : Out(c)' = e /\ Has(channel'[e], Request(c))
  <2> SUFFICES ASSUME NEW c \in Used' \ Used
               PROVE  c \notin acted' /\ \E e \in Ends : Out(c)' = e /\ Has(channel'[e], Request(c))
    OBVIOUS
  <2>1. Makes
    BY <1>2
  <2>2. PICK d \in Calls, from \in Nodes, to \in Nodes :
          from # to /\ Used' = Used \cup {d} /\ Out(d)' = <<from, to>> /\ Sent(<<from, to>>, Request(d))
    BY <2>1 DEF Makes, MakesCall
  <2>3. c = d
    BY <2>2
  <2>4. <<from, to>> \in Ends /\ Request(d) \in Messages
    BY <2>2, EndFacts, MessageFacts
  <2>5. Has(channel'[<<from, to>>], Request(d))
    BY <1>1, <2>2, <2>4, SentKeeps
  <2>6. c \notin acted'
    BY StepOfSets
  <2> QED
    BY <2>2, <2>3, <2>4, <2>5, <2>6
<1> QED
  BY <1>2, <1>3, <1>4, NothingLostKept DEF Kept

-----------------------------------------------------------------------------

\* What a step adds to what was carried out: a request for a blob, or the call of a
\* handler that ends.
LEMMA WhatActs ==
  ASSUME TypeOK, Domains, Belongs, Next, NEW d \in acted', d \notin acted
  PROVE  \/ d \in Used /\ call[d].type = "FETCH_BLOB"
         \/ d \in Used /\ Handling(Back(d), d)
<1>1. ASSUME NEW e \in Ends, Act(e) PROVE d \in Used /\ Handling(Back(d), d)
  <2>1. callback[e] # Idle /\ d = callback[e].call
    BY <1>1, ActAnswers DEF Act
  <2> QED
    BY <2>1 DEF Belongs, Handling
<1>2. ASSUME NEW c \in Calls, Fetched(c) PROVE d \in Used /\ call[d].type = "FETCH_BLOB"
  BY <1>2 DEF Fetched, Belongs
<1>3. ASSUME \A e \in Ends : ~Act(e), \A c \in Calls : ~Fetched(c) PROVE UNCHANGED acted
  BY <1>3 DEF Next, Invoke, ReceiveAnswer, Timeout, ReadAnswer, ReadRequest, ReadFetch, Observe, ObserveFull,
     PingEnded, Break
<1> QED
  BY <1>1, <1>2, <1>3

\* When a call is carried out, so were the earlier ones of its pair: none of them is
\* in the channel behind it, and the callback handles one at a time.
LEMMA EarlierActed ==
  ASSUME TypeOK, Domains, Belongs, InOrder, NothingLost, broken = {}, NEW d \in Used, Handling(Back(d), d),
         NEW c \in Used, c < d, Out(c) = Out(d), call[c].type # "FETCH_BLOB"
  PROVE  c \in acted
<1>1. PICK e \in Ends : e = Back(d) /\ Incoming(e) = Out(d)
  BY UsedFacts
<1>2. c \in Calls /\ d \in Calls
  BY UsedFacts
<1>3. Back(c) = Back(d)
  BY DEF Out, Back
<1>4. ~Handling(Back(c), c)
  BY <1>2, <1>3, NumberFacts DEF Handling
<1>5. ~Has(channel[Out(c)], Request(c))
  <2>1. SUFFICES ASSUME NEW i \in DOMAIN channel[Incoming(e)], channel[Incoming(e)][i] = Request(c) PROVE FALSE
    BY <1>1 DEF Has
  <2>2. channel[Incoming(e)][i].isReq /\ channel[Incoming(e)][i].call = c
    BY <1>2, <2>1, MessageFacts
  <2>3. callback[e] # Idle /\ callback[e].call = d
    BY <1>1 DEF Handling
  <2>4. d < c
    BY <2>2, <2>3 DEF InOrder
  <2> QED
    BY <1>2, <2>4, NumberFacts
<1> QED
  BY <1>4, <1>5, NothingLostNow DEF Requested

LEMMA ActingOrderPreserved ==
  ASSUME TypeOK, Domains, NoHoles, Belongs, InOrder, NothingLost, HandledInOrder, Next
  PROVE  HandledInOrder'
<1>1. SUFFICES ASSUME NEW c \in Used', NEW d \in acted', c < d, call'[c].from = call'[d].from,
                      call'[c].to = call'[d].to, call'[c].type # "FETCH_BLOB", call'[d].type # "FETCH_BLOB",
                      broken' = {}
               PROVE  c \in acted'
  BY DEF HandledInOrder
<1>2. broken = {} /\ acted \subseteq acted' /\ d \in Used
  BY <1>1, StepOfSets
<1>3. CallsKept /\ (Used' = Used \/ Makes)
  BY StepOfCalls
<1>4. c \in Used
  <2>1. CASE Makes
    <3>1. PICK b \in Calls : Used' = Used \cup {b} /\ \A a \in Used : a < b
      BY <2>1 DEF Makes, MakesCall
    <3>2. c = b => d < c
      BY <1>2, <3>1
    <3>3. c \in Calls /\ d \in Calls
      BY <1>2, CallFacts DEF Used
    <3>4. c # b
      BY <1>1, <3>2, <3>3, NumberFacts
    <3> QED
      BY <3>1, <3>4
  <2> QED
    BY <1>3, <2>1
<1>5. /\ Out(c) = Out(d) /\ call[c].from = call[d].from /\ call[c].to = call[d].to
      /\ call[c].type # "FETCH_BLOB" /\ call[d].type # "FETCH_BLOB"
  <2>1. /\ Out(c)' = Out(c) /\ Out(d)' = Out(d) /\ call'[c].type = call[c].type /\ call'[d].type = call[d].type
    BY <1>2, <1>3, <1>4 DEF CallsKept
  <2>2. Out(c)' = Out(d)'
    BY <1>1 DEF Out
  <2> QED
    BY <1>1, <2>1, <2>2 DEF Out
<1>6. CASE d \in acted
  BY <1>1, <1>2, <1>4, <1>5, <1>6 DEF HandledInOrder
<1>7. CASE d \notin acted
  <2>1. Handling(Back(d), d)
    BY <1>5, <1>7, WhatActs
  <2> QED
    BY <1>1, <1>2, <1>4, <1>5, <2>1, EarlierActed
<1> QED
  BY <1>6, <1>7

-----------------------------------------------------------------------------

LEMMA StutterInvariant == IInv /\ UNCHANGED vars => IInv'
<1> SUFFICES ASSUME IInv, UNCHANGED vars PROVE IInv'
  OBVIOUS
<1>1. Used' = Used /\ Waiting' = Waiting
  BY DEF vars, Used, Waiting
<1> QED
  BY <1>1 DEF vars, IInv, TypeOK, Domains, NoHoles, Belongs, InOrder, NothingLost, HandledInOrder, Out, Back,
     Requested, Handling

LEMMA InitInvariant == Init => IInv
<1> SUFFICES ASSUME Init PROVE IInv
  OBVIOUS
<1>1. Used = {}
  BY DEF Init, Used
<1>2. NoHoles
  <2>1. 0 \in Nat /\ 1 .. 0 = {}
    OBVIOUS
  <2> QED
    BY <1>1, <2>1 DEF NoHoles
<1>3. \A e \in Ends : channel[e] = <<>> /\ callback[e] = Idle
  BY DEF Init
<1>4. bucket \in [Nodes -> Seq(Nodes)] /\ \A n \in Nodes : bucket[n] \in Seq(Nodes \ {n})
  BY NobodyCallsItself DEF Init
<1>5. Idle.st # "ping" /\ Idle \in CallbackStates
  BY StateFacts
<1>6. TypeOK /\ Domains
  <2>1. call \in [Calls -> CallRecords \cup {Unused}]
    BY DEF Init
  <2>2. channel \in [Ends -> Seq(Messages)] /\ callback \in [Ends -> CallbackStates]
    BY <1>5 DEF Init
  <2>3. inbox \in [Calls -> {<<>>} \cup {<<c>> : c \in Calls}] /\ \A c \in Calls : inbox[c] \in {<<>>, <<c>>}
    BY DEF Init
  <2>4. fetching = {} /\ broken = {} /\ acted = {}
    BY DEF Init
  <2>5. TypeOK
    BY <1>3, <1>4, <2>1, <2>2, <2>3, <2>4 DEF TypeOK, CallRecords
  <2>6. Domains
    BY <1>3, <1>4, <1>5, <2>2, <2>3 DEF Domains
  <2> QED
    BY <2>5, <2>6
<1>7. Belongs /\ InOrder
  <2>1. \A e \in Ends : DOMAIN channel[e] = {}
    BY <1>3
  <2> QED
    BY <1>1, <1>3, <2>1, EndFacts DEF Belongs, InOrder, Init
<1>8. NothingLost /\ HandledInOrder
  BY <1>1 DEF NothingLost, HandledInOrder
<1> QED
  BY <1>2, <1>6, <1>7, <1>8 DEF IInv

LEMMA StepInvariant == IInv /\ [Next]_vars => IInv'
<1> SUFFICES ASSUME IInv, Next PROVE IInv'
  BY StutterInvariant
<1>1. TypeOK /\ Domains /\ NoHoles /\ Belongs /\ InOrder /\ NothingLost /\ HandledInOrder
  BY DEF IInv
<1>2. TypeOK' /\ Domains' /\ NoHoles'
  BY <1>1, TypePreserved, StepOfCalls
<1>3. Belongs' /\ InOrder' /\ NothingLost' /\ HandledInOrder'
  BY <1>1, BelongsPreserved, OrderPreserved, NothingLostPreserved, ActingOrderPreserved
<1> QED
  BY <1>2, <1>3 DEF IInv

LEMMA InvariantHolds == Spec => []IInv
BY InitInvariant, StepInvariant, PTL DEF Spec

\* What a node asks of another is carried out in the order in which it was sent, also
\* when the callback waits for a ping in between (webrtc.go:339), as long as no
\* connection is lost; requests for blobs have goroutines of their own.
THEOREM CallsInOrder == Spec => []HandledInOrder
<1>1. IInv => HandledInOrder
  BY DEF IInv
<1> QED
  BY <1>1, InvariantHolds, PTL

\* While no connection is lost, a call that waits is held up by a callback: the one
\* that has its request, or that its request or its answer is queued up for.
LEMMA SomebodyHolds ==
  ASSUME IInv, broken = {}, ~CanMove, NEW w \in Waiting
  PROVE  \E e \in Ends : e \in Holding(w) /\ callback[e] # Idle
<1>0. TypeOK /\ Belongs /\ NothingLost /\ w \in Used
  BY CallFacts DEF IInv
<1>1. w \in Calls /\ Out(w) \in Ends /\ Back(w) \in Ends /\ Incoming(Back(w)) = Out(w) /\ Incoming(Out(w)) = Back(w)
  BY <1>0, UsedFacts
<1>2. /\ w \in acted \/ Requested(w)
      /\ w \in Waiting \cap acted => inbox[w] # <<>> \/ Has(channel[Back(w)], Answer(w))
  BY <1>0, NothingLostNow
<1>3. fetching = {} /\ inbox[w] = <<>> /\ \A e \in Ends : callback[e] = Idle => channel[Incoming(e)] = <<>>
  BY DEF CanMove
<1>4. ASSUME NEW e \in Ends, NEW m \in Messages, m.call = w, Has(channel[Incoming(e)], m)
      PROVE  e \in Holding(w) /\ callback[e] # Idle
  <2>1. PICK i \in DOMAIN channel[Incoming(e)] : channel[Incoming(e)][i] = m
    BY <1>4 DEF Has
  <2>2. channel[Incoming(e)] # <<>>
    BY <2>1
  <2> QED
    BY <1>3, <1>4, <2>1, <2>2 DEF Holding
<1>5. Request(w) \in Messages /\ Request(w).call = w /\ Answer(w) \in Messages /\ Answer(w).call = w
  BY <1>1, MessageFacts
<1>6. CASE w \in acted
  BY <1>1, <1>2, <1>3, <1>4, <1>5, <1>6
<1>7. CASE Has(channel[Out(w)], Request(w))
  BY <1>1, <1>4, <1>5, <1>7
<1>8. CASE Handling(Back(w), w)
  BY <1>1, <1>8 DEF Handling, Holding
<1> QED
  BY <1>2, <1>3, <1>6, <1>7, <1>8 DEF Requested

\* When nobody can move although a call waits and no connection is lost, callbacks that
\* wait for pings hold up each other's in a ring: those that are not idle, for any
\* number of nodes and any tables.
THEOREM StuckInRings == Spec => []ChannelInv
<1>1. ASSUME IInv PROVE ChannelInv
  <2>1. TypeOK /\ Domains
    BY <1>1 DEF IInv
  <2>2. SUFFICES ASSUME Waiting # {}, ~CanMove, broken = {} PROVE \E S \in SUBSET Ends : Ring(S)
    BY <2>1 DEF ChannelInv, StuckNeedsRing
  <2> DEFINE S == {e \in Ends : callback[e] # Idle}
  <2>3. ASSUME NEW w \in Waiting PROVE Holding(w) \cap S # {}
    BY <1>1, <2>2, <2>3, SomebodyHolds
  <2>4. ASSUME NEW e \in S PROVE callback[e].st = "ping" /\ callback[e].ping \in Waiting
    <3>1. callback[e].st \in {"observe", "act", "ping"}
      BY <2>1, <2>4, CallbackFacts
    <3>2. ~(callback[e].st \in {"observe", "act"}) /\ ~PingEnds(e)
      BY <2>2, <2>4 DEF CanMove
    <3> QED
      BY <3>1, <3>2 DEF PingEnds
  <2>5. S # {}
    BY <2>2, <2>3
  <2>6. Ring(S)
    BY <2>3, <2>4, <2>5 DEF Ring
  <2> QED
    BY <2>6
<1> QED
  BY <1>1, InvariantHolds, PTL
=============================================================================
