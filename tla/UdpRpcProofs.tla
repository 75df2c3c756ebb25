---------------------------- MODULE UdpRpcProofs ----------------------------
(***************************************************************************)
(* AnswersInv and NoStaleStore for every number of nodes, calls, copies,   *)
(* repeats and crashes.  The first lemmas say what any step does to one    *)
(* variable; the parts of the inductive invariant follow an answer from    *)
(* the handler that makes it, through the network and the channel of its   *)
(* call, to the call that it settles.                                      *)
(***************************************************************************)
EXTENDS UdpRpc, FiniteSetTheorems, SequenceTheorems, WellFoundedInduction, TLAPS

Copies == 1 .. MaxCopies

PingStates == [st : {"ping"}, ping : 0 .. MaxCalls, lrs : Nodes]

\* Calls are numbered in the order in which they are made.
NoHoles == \E k \in Nat : Used = 1 .. k

\* TypeOK with the domains that it leaves to Init.
Domains ==
  /\ handler \in [Calls \X Copies -> {NoHandler, Observing, Acting, HasReplied} \cup PingStates]
  /\ inbox \in [Calls -> {<<>>} \cup {<<v>> : v \in 0 .. MaxCalls}]

\* What came before a Store had ended, and what was done or is being handled was
\* called, on nodes that are still there for as long as there is a handler.
Lifecycle ==
  /\ \A c \in Used : call[c].after \subseteq Ended
  /\ executed \subseteq Used
  /\ \A c \in Calls : \A k \in Copies :
       handler[<<c, k>>] # NoHandler => c \in Used /\ call[c].to \notin down

\* v is what call c may return.
MayReturn(c, v) == call[c].type = "FIND_VALUE" => v \in window[c]

\* What the callee of a call that waits holds now, the call may return.
CalleeInWindow == \A c \in Waiting : call[c].to \notin down => MayReturn(c, storage[call[c].to])

\* An answer in the network, in a channel and in a call that has succeeded.
AnswersReal ==
  \A d \in net : d.call \in executed /\ (d.call \in Waiting => MayReturn(d.call, d.value))

InboxReal ==
  \A c \in Calls : inbox[c] # <<>> =>
    c \in Waiting /\ c \in executed /\ MayReturn(c, Head(inbox[c]))

Settled == \A c \in Used : call[c].st = "ok" => c \in executed /\ MayReturn(c, call[c].value)

\* A request that was delivered once has one handler, which has replied when the
\* call was carried out.
HandledOnce ==
  \A c \in Calls \ repeated :
    /\ \A k \in Copies : handler[<<c, k>>] # NoHandler => k = 1
    /\ (c \in executed /\ call[c].to \notin down) => handler[<<c, 1>>] = HasReplied

\* A Store that was carried out has replaced what succeeded before it began.
Overwrites ==
  \A c \in executed : \A s \in call[c].after \ repeated :
    (call[c].type = "STORE" /\ call[c].to \notin down /\ call[s].st = "ok")
      => storage[call[c].to] # s

IInv ==
  /\ TypeOK /\ Domains /\ NoHoles /\ Lifecycle
  /\ CalleeInWindow /\ AnswersReal /\ InboxReal /\ Settled
  /\ HandledOnce /\ Overwrites

-----------------------------------------------------------------------------

LEMMA Unlike ==
  /\ \A r \in CallRecords : r # Unused
  /\ \A p \in PingStates : p \notin {NoHandler, Observing, Acting, HasReplied}
  /\ NoHandler # Observing /\ NoHandler # Acting /\ NoHandler # HasReplied
  /\ Observing # Acting /\ Observing # HasReplied /\ Acting # HasReplied
<1>1. /\ \A r \in CallRecords : r.st # "unused"
      /\ \A p \in PingStates : p.st = "ping"
  BY DEF CallRecords, PingStates
<1>2. /\ Unused.st = "unused" /\ NoHandler.st = "none" /\ Observing.st = "observe"
      /\ Acting.st = "act" /\ HasReplied.st = "done"
  BY DEF Unused, NoHandler, Observing, Acting, HasReplied
<1> QED
  BY <1>1, <1>2

LEMMA CallType ==
  ASSUME TypeOK
  PROVE  /\ call \in [Calls -> CallRecords \cup {Unused}]
         /\ \A c \in Used : c \in Calls /\ call[c] \in CallRecords
         /\ \A c \in Calls \ Used : call[c] = Unused
         /\ \A c \in Calls : c \in Nat /\ c # 0 /\ c \in 0 .. MaxCalls
         /\ MaxCalls \in Nat /\ K \in Nat /\ K > 0
<1>1. MaxCalls \in Nat /\ K \in Nat /\ K > 0
  BY CallBounds
<1>2. \A c \in Calls : c \in Nat /\ c # 0 /\ c \in 0 .. MaxCalls
  BY <1>1 DEF Calls
<1> QED
  BY <1>1, <1>2 DEF TypeOK, Used

\* The number of a call that is made is free.
LEMMA NextIsFree ==
  ASSUME NoHoles
  PROVE  /\ NextCall \notin Used
         /\ \E k \in Nat : Used \cup {NextCall} = 1 .. k
<1>1. PICK k \in Nat : Used = 1 .. k
  BY DEF NoHoles
<1>2. Cardinality(Used) = k
  BY <1>1, FS_Interval
<1>3. NextCall = k + 1
  BY <1>2 DEF NextCall
<1>4. 1 .. k + 1 = (1 .. k) \cup {k + 1}
  OBVIOUS
<1> QED
  BY <1>1, <1>3, <1>4

\* The parts of a call that do not change, and those of one that has ended.
Keeps ==
  \A c \in Used :
    /\ c \in Used'
    /\ call'[c].from = call[c].from /\ call'[c].to = call[c].to
    /\ call'[c].type = call[c].type /\ call'[c].after = call[c].after
    /\ c \in Ended => c \in Ended' /\ call'[c] = call[c]

CallTypePrimed == call' \in [Calls -> CallRecords \cup {Unused}]

LEMMA KeepsIfSame ==
  ASSUME UNCHANGED call
  PROVE  Used' = Used /\ Waiting' = Waiting /\ Ended' = Ended /\ Keeps
BY DEF Keeps, Used, Waiting, Ended

\* A call is made.
LEMMA SendSteps ==
  ASSUME TypeOK, NoHoles, NextCall \in Calls, NEW from \in Nodes, NEW to \in Nodes,
         NEW type \in Types, SendReq(NextCall, from, to, type)
  PROVE  /\ NextCall \notin Used /\ Used' = Used \cup {NextCall}
         /\ Waiting' = Waiting \cup {NextCall} /\ Ended' = Ended
         /\ Keeps /\ NoHoles' /\ CallTypePrimed
         /\ \A c \in Used : call'[c] = call[c] /\ window'[c] = window[c]
         /\ call'[NextCall].st = "waiting" /\ call'[NextCall].to = to
         /\ call'[NextCall].type = type /\ call'[NextCall].after \subseteq Ended
         /\ window'[NextCall] = IF type = "FIND_VALUE" THEN {storage[to]} ELSE {}
         /\ window' \in [Calls -> SUBSET (0 .. MaxCalls)]
<1> DEFINE c == NextCall
           r == [st |-> "waiting", from |-> from, to |-> to, type |-> type, value |-> NoValue,
                 after |-> IF type = "STORE" THEN Ended ELSE {}]
<1>1. c \notin Used
  BY NextIsFree
<1>2. r \in CallRecords
  BY CallType DEF CallRecords, Ended, Used, NoValue
<1>3. call' = [call EXCEPT ![c] = r]
  BY DEF SendReq
<1>4. /\ r.st = "waiting" /\ r.to = to /\ r.type = type /\ r.after \subseteq Ended
  OBVIOUS
<1> HIDE DEF r
<1>5. /\ CallTypePrimed /\ call'[c] = r
      /\ \A d \in Calls \ {c} : call'[d] = call[d]
  BY <1>2, <1>3, CallType DEF CallTypePrimed
<1>6. Used' = Used \cup {c}
  BY <1>2, <1>5, Unlike DEF Used
<1>7. Waiting' = Waiting \cup {c} /\ Ended' = Ended
  BY <1>1, <1>4, <1>5, <1>6, CallType DEF Waiting, Ended
<1>8. NoHoles'
  <2>1. PICK k \in Nat : Used \cup {c} = 1 .. k
    BY NextIsFree
  <2> QED
    BY <1>6, <2>1 DEF NoHoles
<1>9. storage[to] \in 0 .. MaxCalls /\ window \in [Calls -> SUBSET (0 .. MaxCalls)]
  BY DEF TypeOK
<1>10. /\ window' \in [Calls -> SUBSET (0 .. MaxCalls)]
       /\ window'[c] = IF type = "FIND_VALUE" THEN {storage[to]} ELSE {}
       /\ \A d \in Calls \ {c} : window'[d] = window[d]
  BY <1>9 DEF SendReq
<1> QED
  BY <1>1, <1>4, <1>5, <1>6, <1>7, <1>8, <1>10, CallType DEF Keeps

\* A call ends.
LEMMA EndSteps ==
  ASSUME TypeOK, NEW c \in Waiting, NEW s \in {"ok", "failed"}, NEW v \in 0 .. MaxCalls,
         call' = [call EXCEPT ![c] = [@ EXCEPT !.st = s, !.value = v]]
  PROVE  /\ Used' = Used /\ Waiting' = Waiting \ {c} /\ Ended' = Ended \cup {c}
         /\ Keeps /\ CallTypePrimed
         /\ \A d \in Used \ {c} : call'[d] = call[d]
         /\ call'[c].st = s /\ call'[c].value = v
<1> DEFINE r == [call[c] EXCEPT !.st = s, !.value = v]
<1>1. c \in Used /\ call[c] \in CallRecords /\ call[c].st = "waiting"
  BY CallType DEF Waiting
<1>2. /\ r \in CallRecords /\ r.st = s /\ r.value = v /\ r.from = call[c].from
      /\ r.to = call[c].to /\ r.type = call[c].type /\ r.after = call[c].after
  BY <1>1 DEF CallRecords
<1>3. call' = [call EXCEPT ![c] = r]
  OBVIOUS
<1> HIDE DEF r
<1>4. /\ CallTypePrimed /\ call'[c] = r
      /\ \A d \in Calls \ {c} : call'[d] = call[d]
  BY <1>1, <1>2, <1>3, CallType DEF CallTypePrimed
<1>5. Used' = Used
  BY <1>1, <1>2, <1>4, Unlike, CallType DEF Used
<1>6. Waiting' = Waiting \ {c} /\ Ended' = Ended \cup {c}
  BY <1>1, <1>2, <1>4, <1>5, CallType DEF Waiting, Ended
<1> QED
  BY <1>1, <1>2, <1>4, <1>5, <1>6, CallType DEF Keeps, Ended

LEMMA ReceiveSteps ==
  ASSUME TypeOK, Domains, NEW c \in Calls, ReceiveAnswer(c)
  PROVE  /\ c \in Waiting /\ inbox[c] # <<>>
         /\ Used' = Used /\ Waiting' = Waiting \ {c} /\ Ended' = Ended \cup {c}
         /\ Keeps /\ CallTypePrimed
         /\ \A d \in Used \ {c} : call'[d] = call[d]
         /\ call'[c].st = "ok" /\ call'[c].value = Head(inbox[c])
<1>1. PICK v \in 0 .. MaxCalls : inbox[c] = <<v>>
  BY DEF Domains, ReceiveAnswer
<1>2. Head(inbox[c]) = v
  BY <1>1
<1>3. call' = [call EXCEPT ![c] = [@ EXCEPT !.st = "ok", !.value = v]]
      /\ c \in Waiting /\ inbox[c] # <<>>
  BY <1>2, CallType DEF ReceiveAnswer, Waiting
<1> QED
  BY <1>1, <1>2, <1>3, EndSteps

LEMMA TimeoutSteps ==
  ASSUME TypeOK, NEW c \in Calls, Timeout(c)
  PROVE  /\ c \in Waiting
         /\ Used' = Used /\ Waiting' = Waiting \ {c} /\ Ended' = Ended \cup {c}
         /\ Keeps /\ CallTypePrimed
         /\ \A d \in Used \ {c} : call'[d] = call[d]
         /\ call'[c].st = "failed"
<1>1. call[c] \in CallRecords /\ c \in Waiting
  BY CallType DEF Timeout, Waiting
<1>2. call[c].value \in 0 .. MaxCalls
  BY <1>1 DEF CallRecords
<1>3. call' = [call EXCEPT ![c] = [@ EXCEPT !.st = "failed", !.value = call[c].value]]
  BY <1>1, CallType DEF Timeout, CallRecords
<1> QED
  BY <1>1, <1>2, <1>3, EndSteps

LEMMA CrashSteps ==
  ASSUME TypeOK, NEW n \in Nodes, Crash(n)
  PROVE  /\ Used' = Used /\ Waiting' = {c \in Waiting : call[c].from # n}
         /\ Ended \subseteq Ended' /\ Keeps /\ CallTypePrimed
         /\ \A c \in Used : \/ call'[c] = call[c]
                            \/ c \in Waiting /\ call'[c].st = "failed"
<1> DEFINE r(c) == [call[c] EXCEPT !.st = "failed"]
<1>1. \A c \in Waiting : c \in Used /\ c \in Calls /\ call[c] \in CallRecords /\ call[c].st = "waiting"
  BY CallType DEF Waiting
<1>2. \A c \in Waiting : /\ r(c) \in CallRecords /\ r(c).st = "failed" /\ r(c).from = call[c].from
      /\ r(c).to = call[c].to /\ r(c).type = call[c].type /\ r(c).after = call[c].after
  BY <1>1 DEF CallRecords
<1>3. call' = [c \in Calls |-> IF c \in Waiting /\ call[c].from = n THEN r(c) ELSE call[c]]
  BY DEF Crash
<1> HIDE DEF r
<1>4. /\ CallTypePrimed
      /\ \A c \in Calls : call'[c] = IF c \in Waiting /\ call[c].from = n THEN r(c) ELSE call[c]
  BY <1>1, <1>2, <1>3, CallType DEF CallTypePrimed
<1>5. Used' = Used
  BY <1>1, <1>2, <1>4, Unlike, CallType DEF Used
<1>6. Waiting' = {c \in Waiting : call[c].from # n}
  BY <1>1, <1>2, <1>4, <1>5, CallType DEF Waiting
<1>7. \A c \in Ended : c \in Ended' /\ call'[c] = call[c]
  BY <1>1, <1>4, <1>5, <1>6, CallType DEF Ended
<1> QED
  BY <1>1, <1>2, <1>4, <1>5, <1>6, <1>7, CallType DEF Keeps

-----------------------------------------------------------------------------

\* A handler of a call: h stands for the k-th delivery of call c.
LEMMA HandlerType ==
  ASSUME Domains, NEW h \in Handlers
  PROVE  /\ h \in Calls \X Copies /\ h[1] \in Calls /\ h[2] \in Copies
         /\ h = <<h[1], h[2]>>
BY DEF Domains, Handlers

LEMMA ActiveHandler ==
  ASSUME TypeOK, Domains, Lifecycle, NEW h \in Handlers, handler[h] # NoHandler
  PROVE  /\ h[1] \in Used /\ Server(h) = call[h[1]].to /\ Server(h) \in Nodes
         /\ Sender(h) \in Nodes /\ Server(h) \notin down
<1>1. h[1] \in Used /\ call[h[1]].to \notin down
  BY HandlerType DEF Lifecycle
<1>2. call[h[1]] \in CallRecords
  BY <1>1, CallType
<1> QED
  BY <1>1, <1>2 DEF Server, Sender, CallRecords

\* Two cases of ObserveFull: the head of the bucket is pinged with a call, or
\* without one.
LEMMA PingSteps ==
  ASSUME TypeOK, Domains, Lifecycle, NEW h \in Handlers, ObserveFull(h)
  PROVE  \/ /\ NextCall \in Calls /\ Head(bucket[Server(h)]) \in Nodes /\ Server(h) \in Nodes
            /\ SendReq(NextCall, Server(h), Head(bucket[Server(h)]), "PING")
            /\ handler' = [handler EXCEPT ![h] = Pinging(NextCall, Head(bucket[Server(h)]))]
            /\ Pinging(NextCall, Head(bucket[Server(h)])) \in PingStates
         \/ /\ UNCHANGED <<call, window>>
            /\ handler' = [handler EXCEPT ![h] = Pinging(NoCall, Head(bucket[Server(h)]))]
            /\ Pinging(NoCall, Head(bucket[Server(h)])) \in PingStates
<1>1. handler[h] # NoHandler
  BY Unlike DEF ObserveFull
<1>2. Server(h) \in Nodes
  BY <1>1, ActiveHandler
<1>3. bucket[Server(h)] \in Seq(Nodes) /\ Len(bucket[Server(h)]) > 0
  <2>1. bucket[Server(h)] \in Seq(Nodes) /\ Len(bucket[Server(h)]) >= K
    BY <1>2 DEF TypeOK, ObserveFull
  <2> QED
    BY <2>1, CallType
<1>4. Head(bucket[Server(h)]) \in Nodes
  BY <1>3
<1>5. NextCall \in Calls => Pinging(NextCall, Head(bucket[Server(h)])) \in PingStates
  BY <1>4, CallType DEF Pinging, PingStates
<1>6. Pinging(NoCall, Head(bucket[Server(h)])) \in PingStates
  BY <1>4, CallType DEF Pinging, PingStates, NoCall
<1> QED
  BY <1>2, <1>4, <1>5, <1>6 DEF ObserveFull

\* What any step does to the calls.
LEMMA StepCalls ==
  ASSUME TypeOK, Domains, Lifecycle, NoHoles, [Next]_vars
  PROVE  /\ CallTypePrimed /\ NoHoles' /\ Keeps
         /\ \A c \in Used : c \in Waiting' => c \in Waiting
         /\ \A c \in Used : (call'[c].st = "ok" /\ c \in Waiting) =>
              inbox[c] # <<>> /\ call'[c].value = Head(inbox[c])
         /\ \A c \in Used' \ Used :
              /\ c \in Waiting' /\ call'[c].st = "waiting" /\ call'[c].after \subseteq Ended
              /\ UNCHANGED <<inbox, net, bucket, storage, down, executed, repeated>>
              /\ call'[c].type = "FIND_VALUE" => storage[call'[c].to] \in window'[c]
<1> DEFINE P ==
         /\ CallTypePrimed /\ NoHoles' /\ Keeps
         /\ \A c \in Used : c \in Waiting' => c \in Waiting
         /\ \A c \in Used : (call'[c].st = "ok" /\ c \in Waiting) =>
              inbox[c] # <<>> /\ call'[c].value = Head(inbox[c])
         /\ \A c \in Used' \ Used :
              /\ c \in Waiting' /\ call'[c].st = "waiting" /\ call'[c].after \subseteq Ended
              /\ UNCHANGED <<inbox, net, bucket, storage, down, executed, repeated>>
              /\ call'[c].type = "FIND_VALUE" => storage[call'[c].to] \in window'[c]
<1>1. \A c \in Waiting : c \in Used /\ c \in Calls /\ call[c].st = "waiting"
  BY CallType DEF Waiting
<1>2. ASSUME UNCHANGED call PROVE P
  BY <1>1, <1>2, KeepsIfSame, CallType DEF NoHoles, CallTypePrimed
<1>3. ASSUME NEW from \in Nodes, NEW to \in Nodes, NEW type \in Types, NextCall \in Calls,
             SendReq(NextCall, from, to, type),
             UNCHANGED <<inbox, net, bucket, storage, down, executed, repeated>>
      PROVE P
  <2>1. /\ NextCall \notin Used /\ Used' = Used \cup {NextCall}
        /\ Waiting' = Waiting \cup {NextCall} /\ Keeps /\ NoHoles' /\ CallTypePrimed
        /\ \A c \in Used : call'[c] = call[c]
    BY <1>3, SendSteps
  <2>2. /\ call'[NextCall].st = "waiting" /\ call'[NextCall].to = to
        /\ call'[NextCall].type = type /\ call'[NextCall].after \subseteq Ended
        /\ window'[NextCall] = IF type = "FIND_VALUE" THEN {storage[to]} ELSE {}
    BY <1>3, SendSteps
  <2>3. call'[NextCall].type = "FIND_VALUE" => storage[call'[NextCall].to] \in window'[NextCall]
    BY <2>2
  <2> QED
    BY <1>1, <1>3, <2>1, <2>2, <2>3
<1>4. ASSUME NEW from \in Nodes, NEW to \in Nodes, NEW type \in Types, Invoke(from, to, type)
      PROVE P
  BY <1>3, <1>4 DEF Invoke
<1>5. ASSUME NEW c \in Calls, ReceiveAnswer(c) PROVE P
  BY <1>1, <1>5, ReceiveSteps DEF NoHoles
<1>6. ASSUME NEW c \in Calls, Timeout(c) PROVE P
  <2>1. /\ Used' = Used /\ Waiting' = Waiting \ {c} /\ Keeps /\ CallTypePrimed
        /\ \A d \in Used \ {c} : call'[d] = call[d]
        /\ call'[c].st = "failed"
    BY <1>6, TimeoutSteps
  <2> QED
    BY <1>1, <2>1 DEF NoHoles
<1>7. ASSUME NEW h \in Handlers, ObserveFull(h) PROVE P
  <2>1. UNCHANGED <<inbox, net, bucket, storage, down, executed, repeated>>
    BY <1>7 DEF ObserveFull
  <2>2. "PING" \in Types
    BY DEF Types
  <2> QED
    BY <1>2, <1>3, <1>7, <2>1, <2>2, PingSteps
<1>8. ASSUME NEW n \in Nodes, Crash(n) PROVE P
  <2>1. /\ Used' = Used /\ Waiting' = {c \in Waiting : call[c].from # n}
        /\ Keeps /\ CallTypePrimed
        /\ \A c \in Used : \/ call'[c] = call[c]
                           \/ c \in Waiting /\ call'[c].st = "failed"
    BY <1>8, CrashSteps
  <2> QED
    BY <1>1, <2>1 DEF NoHoles
<1>9. ASSUME NEW h \in Handlers, Observe(h) \/ PingEnded(h) \/ Act(h) PROVE UNCHANGED call
  BY <1>9 DEF Observe, PingEnded, Act
<1>10. ASSUME NEW c \in Calls, NEW k \in Copies, DeliverRequest(c, k) PROVE UNCHANGED call
  BY <1>10 DEF DeliverRequest
<1>11. ASSUME NEW d \in net, DeliverAnswer(d) PROVE UNCHANGED call
  BY <1>11 DEF DeliverAnswer
<1> HIDE DEF P
<1>12. P
  BY <1>2, <1>4, <1>5, <1>6, <1>7, <1>8, <1>9, <1>10, <1>11 DEF Next, vars, Copies
<1> QED
  BY <1>12 DEF P

\* An answer of Act is one that the call may return.
LEMMA StepNet ==
  ASSUME [Next]_vars
  PROVE  /\ net \subseteq net'
         /\ \A d \in net' : d \in net \/ \E h \in Handlers : Act(h) /\ d.call = h[1]
              /\ d.value = IF call[h[1]].type = "FIND_VALUE" THEN storage[Server(h)] ELSE NoValue
<1>1. ASSUME NEW h \in Handlers, Act(h)
      PROVE  /\ net \subseteq net'
             /\ \A d \in net' : d \in net \/ (d.call = h[1]
                  /\ d.value = IF call[h[1]].type = "FIND_VALUE" THEN storage[Server(h)] ELSE NoValue)
  BY <1>1 DEF Act
<1>2. ASSUME \A h \in Handlers : ~Act(h) PROVE UNCHANGED net
  BY <1>2 DEF Next, vars, Invoke, ReceiveAnswer, Timeout, DeliverRequest, DeliverAnswer, Observe,
     ObserveFull, PingEnded, Crash
<1> QED
  BY <1>1, <1>2

\* What was done, delivered again or has crashed stays so; an answer to a program
\* stays possible while its call waits.
LEMMA StepHistory ==
  ASSUME TypeOK, Domains, Lifecycle, NoHoles, [Next]_vars
  PROVE  /\ executed \subseteq executed' /\ repeated \subseteq repeated' /\ down \subseteq down'
         /\ \A c \in Used : window[c] \subseteq window'[c]
         /\ \A c \in executed' : c \in executed \/ \E h \in Handlers : Act(h) /\ c = h[1]
<1> DEFINE P ==
         /\ executed \subseteq executed' /\ repeated \subseteq repeated' /\ down \subseteq down'
         /\ \A c \in Used : window[c] \subseteq window'[c]
         /\ \A c \in executed' : c \in executed \/ \E h \in Handlers : Act(h) /\ c = h[1]
<1>1. ASSUME UNCHANGED <<executed, repeated, down>>, \A c \in Used : window'[c] = window[c] PROVE P
  BY <1>1
<1>2. ASSUME NEW h \in Handlers, Act(h) PROVE P
  <2>1. executed' = executed \cup {h[1]} /\ UNCHANGED <<down, repeated>>
    BY <1>2 DEF Act
  <2>2. \A c \in Used : window[c] \subseteq window'[c]
    BY <1>2, CallType DEF Act
  <2> QED
    BY <1>2, <2>1, <2>2
<1>3. ASSUME NEW from \in Nodes, NEW to \in Nodes, NEW type \in Types, Invoke(from, to, type)
      PROVE  UNCHANGED <<executed, repeated, down>> /\ \A c \in Used : window'[c] = window[c]
  BY <1>3, SendSteps DEF Invoke
<1>4. ASSUME NEW h \in Handlers, ObserveFull(h)
      PROVE  UNCHANGED <<executed, repeated, down>> /\ \A c \in Used : window'[c] = window[c]
  <2>1. UNCHANGED <<executed, repeated, down>>
    BY <1>4 DEF ObserveFull
  <2>2. "PING" \in Types
    BY DEF Types
  <2> QED
    BY <1>4, <2>1, <2>2, PingSteps, SendSteps
<1>5. ASSUME NEW c \in Calls, ReceiveAnswer(c) \/ Timeout(c)
      PROVE  UNCHANGED <<executed, repeated, down, window>>
  BY <1>5 DEF ReceiveAnswer, Timeout
<1>6. ASSUME NEW c \in Calls, NEW k \in Copies, DeliverRequest(c, k)
      PROVE  UNCHANGED <<executed, down, window>> /\ repeated \subseteq repeated'
  BY <1>6 DEF DeliverRequest
<1>7. ASSUME NEW d \in net, DeliverAnswer(d) PROVE UNCHANGED <<executed, repeated, down, window>>
  BY <1>7 DEF DeliverAnswer
<1>8. ASSUME NEW h \in Handlers, Observe(h) \/ PingEnded(h)
      PROVE  UNCHANGED <<executed, repeated, down, window>>
  BY <1>8 DEF Observe, PingEnded
<1>9. ASSUME NEW n \in Nodes, Crash(n)
      PROVE  UNCHANGED <<executed, repeated, window>> /\ down \subseteq down'
  BY <1>9 DEF Crash
<1> HIDE DEF P
<1>10. ASSUME UNCHANGED <<executed, window>>, repeated \subseteq repeated', down \subseteq down' PROVE P
  BY <1>10 DEF P
<1>11. P
  BY <1>1, <1>2, <1>3, <1>4, <1>5, <1>6, <1>7, <1>8, <1>9, <1>10 DEF Next, vars, Copies
<1> QED
  BY <1>11 DEF P

\* What is in the channel of a call was there before, or comes from the network.
LEMMA StepInbox ==
  ASSUME TypeOK, Domains, Lifecycle, NoHoles, [Next]_vars
  PROVE  /\ inbox' \in [Calls -> {<<>>} \cup {<<v>> : v \in 0 .. MaxCalls}]
         /\ \A c \in Calls : inbox'[c] # <<>> =>
              \/ inbox'[c] = inbox[c] /\ (c \in Waiting => c \in Waiting')
              \/ /\ c \in Waiting /\ UNCHANGED <<call, executed, window>>
                 /\ \E d \in net : d.call = c /\ inbox'[c] = <<d.value>>
<1> DEFINE P ==
         /\ inbox' \in [Calls -> {<<>>} \cup {<<v>> : v \in 0 .. MaxCalls}]
         /\ \A c \in Calls : inbox'[c] # <<>> =>
              \/ inbox'[c] = inbox[c] /\ (c \in Waiting => c \in Waiting')
              \/ /\ c \in Waiting /\ UNCHANGED <<call, executed, window>>
                 /\ \E d \in net : d.call = c /\ inbox'[c] = <<d.value>>
<1>0. inbox \in [Calls -> {<<>>} \cup {<<v>> : v \in 0 .. MaxCalls}]
  BY DEF Domains
<1>1. ASSUME UNCHANGED inbox, Waiting \subseteq Waiting' PROVE P
  BY <1>0, <1>1
<1>2. ASSUME UNCHANGED <<call, inbox>> PROVE P
  BY <1>1, <1>2, KeepsIfSame
<1>3. ASSUME NEW c \in Calls, ReceiveAnswer(c) PROVE P
  <2>1. Waiting' = Waiting \ {c}
    BY <1>3, ReceiveSteps
  <2>2. inbox' = [inbox EXCEPT ![c] = <<>>]
    BY <1>3 DEF ReceiveAnswer
  <2> QED
    BY <1>0, <2>1, <2>2
<1>4. ASSUME NEW c \in Calls, Timeout(c) PROVE P
  <2>1. Waiting' = Waiting \ {c}
    BY <1>4, TimeoutSteps
  <2>2. inbox' = [inbox EXCEPT ![c] = <<>>]
    BY <1>4 DEF Timeout
  <2> QED
    BY <1>0, <2>1, <2>2
<1>5. ASSUME NEW d \in net, DeliverAnswer(d) PROVE P
  <2>1. d.value \in 0 .. MaxCalls /\ d.call \in Calls
    BY DEF TypeOK, Answers
  <2>2. /\ d.call \in Waiting /\ inbox' = [inbox EXCEPT ![d.call] = <<d.value>>]
        /\ UNCHANGED <<call, executed, window>>
    BY <1>5 DEF DeliverAnswer
  <2>3. Waiting' = Waiting
    BY <2>2, KeepsIfSame
  <2>4. inbox' \in [Calls -> {<<>>} \cup {<<v>> : v \in 0 .. MaxCalls}]
    BY <1>0, <2>1, <2>2
  <2>5. inbox'[d.call] = <<d.value>> /\ \A c \in Calls \ {d.call} : inbox'[c] = inbox[c]
    BY <1>0, <2>1, <2>2
  <2> QED
    BY <2>2, <2>3, <2>4, <2>5
<1>6. ASSUME NEW n \in Nodes, Crash(n) PROVE P
  <2>1. Waiting' = {c \in Waiting : call[c].from # n}
    BY <1>6, CrashSteps
  <2>2. inbox' = [c \in Calls |-> IF c \in Used /\ call[c].from = n THEN <<>> ELSE inbox[c]]
    BY <1>6 DEF Crash
  <2>3. Waiting \subseteq Used
    BY DEF Waiting
  <2>4. inbox' \in [Calls -> {<<>>} \cup {<<v>> : v \in 0 .. MaxCalls}]
    BY <1>0, <2>2
  <2>5. ASSUME NEW c \in Calls, inbox'[c] # <<>>
        PROVE  inbox'[c] = inbox[c] /\ (c \in Waiting => c \in Waiting')
    <3>1. inbox'[c] = inbox[c] /\ ~(c \in Used /\ call[c].from = n)
      BY <2>2, <2>5
    <3> QED
      BY <2>1, <2>3, <3>1
  <2> QED
    BY <2>4, <2>5
<1>7. ASSUME NEW from \in Nodes, NEW to \in Nodes, NEW type \in Types, Invoke(from, to, type) PROVE P
  BY <1>1, <1>7, SendSteps DEF Invoke
<1>8. ASSUME NEW h \in Handlers, ObserveFull(h) PROVE P
  <2>1. UNCHANGED inbox /\ "PING" \in Types
    BY <1>8 DEF ObserveFull, Types
  <2> QED
    BY <1>1, <1>2, <1>8, <2>1, PingSteps, SendSteps
<1>9. ASSUME NEW h \in Handlers, Observe(h) \/ PingEnded(h) \/ Act(h) PROVE UNCHANGED <<call, inbox>>
  BY <1>9 DEF Observe, PingEnded, Act
<1>10. ASSUME NEW c \in Calls, NEW k \in Copies, DeliverRequest(c, k) PROVE UNCHANGED <<call, inbox>>
  BY <1>10 DEF DeliverRequest
<1> HIDE DEF P
<1>11. P
  BY <1>2, <1>3, <1>4, <1>5, <1>6, <1>7, <1>8, <1>9, <1>10 DEF Next, vars, Copies
<1> QED
  BY <1>11 DEF P

\* What any step does to the value that a node which has not crashed holds.
LEMMA StepStorage ==
  ASSUME TypeOK, Domains, Lifecycle, NoHoles, [Next]_vars
  PROVE  /\ storage' \in [Nodes -> 0 .. MaxCalls]
         /\ \A n \in Nodes \ down' :
              \/ storage'[n] = storage[n]
              \/ \E h \in Handlers :
                   /\ Act(h) /\ n = Server(h) /\ call[h[1]].type = "STORE" /\ storage'[n] = h[1]
                   /\ \A c \in Waiting : (call[c].type = "FIND_VALUE" /\ call[c].to = n)
                        => h[1] \in window'[c]
<1> DEFINE P ==
         /\ storage' \in [Nodes -> 0 .. MaxCalls]
         /\ \A n \in Nodes \ down' :
              \/ storage'[n] = storage[n]
              \/ \E h \in Handlers :
                   /\ Act(h) /\ n = Server(h) /\ call[h[1]].type = "STORE" /\ storage'[n] = h[1]
                   /\ \A c \in Waiting : (call[c].type = "FIND_VALUE" /\ call[c].to = n)
                        => h[1] \in window'[c]
<1>0. storage \in [Nodes -> 0 .. MaxCalls]
  BY DEF TypeOK
<1>1. ASSUME UNCHANGED storage PROVE P
  BY <1>0, <1>1
<1>2. ASSUME NEW h \in Handlers, Act(h) PROVE P
  <2>1. CASE call[h[1]].type = "STORE"
    <3>1. storage' = [storage EXCEPT ![Server(h)] = h[1]]
      BY <1>2, <2>1 DEF Act, Put
    <3>2. h[1] \in 0 .. MaxCalls
      BY HandlerType, CallType
    <3>3. \A c \in Waiting : (call[c].type = "FIND_VALUE" /\ call[c].to = Server(h)) => h[1] \in window'[c]
      <4>1. \A c \in Waiting : c \in Calls
        BY CallType DEF Waiting
      <4> QED
        BY <1>2, <2>1, <4>1 DEF Act
    <3> QED
      BY <1>0, <1>2, <2>1, <3>1, <3>2, <3>3
  <2>2. CASE call[h[1]].type # "STORE"
    BY <1>1, <1>2, <2>2 DEF Act
  <2> QED
    BY <2>1, <2>2
<1>3. ASSUME NEW n \in Nodes, Crash(n) PROVE P
  <2>1. storage' = [storage EXCEPT ![n] = 0] /\ n \in down'
    BY <1>3 DEF Crash, NoValue
  <2> QED
    BY <1>0, <2>1, CallType
<1> HIDE DEF P
<1>4. ASSUME \A h \in Handlers : ~Act(h), \A n \in Nodes : ~Crash(n) PROVE UNCHANGED storage
  BY <1>4 DEF Next, vars, Invoke, ReceiveAnswer, Timeout, DeliverRequest, DeliverAnswer, Observe,
     ObserveFull, PingEnded
<1>5. P
  BY <1>1, <1>2, <1>3, <1>4
<1> QED
  BY <1>5 DEF P

\* What any step does to a handler: it begins, goes on, replies, or ends with
\* its node.
LEMMA StepHandlers ==
  ASSUME TypeOK, Domains, Lifecycle, NoHoles, [Next]_vars
  PROVE  /\ handler' \in [Calls \X Copies -> {NoHandler, Observing, Acting, HasReplied} \cup PingStates]
         /\ \A c \in Calls : \A k \in Copies :
              \/ handler'[<<c, k>>] = handler[<<c, k>>]
              \/ /\ handler[<<c, k>>] = NoHandler /\ handler'[<<c, k>>] # NoHandler
                 /\ c \in Used /\ call[c].to \notin down'
                 /\ k # 1 => c \in repeated'
              \/ handler[<<c, k>>] \notin {NoHandler, Acting, HasReplied}
              \/ handler[<<c, k>>] = Acting /\ handler'[<<c, k>>] = HasReplied
              \/ handler'[<<c, k>>] = NoHandler /\ c \in Used /\ call[c].to \in down'
         /\ \A c \in Calls : \A k \in Copies :
              (c \in Used /\ call[c].to \in down' \ down) => handler'[<<c, k>>] = NoHandler
<1> DEFINE States == {NoHandler, Observing, Acting, HasReplied} \cup PingStates
           P ==
         /\ handler' \in [Calls \X Copies -> States]
         /\ \A c \in Calls : \A k \in Copies :
              \/ handler'[<<c, k>>] = handler[<<c, k>>]
              \/ /\ handler[<<c, k>>] = NoHandler /\ handler'[<<c, k>>] # NoHandler
                 /\ c \in Used /\ call[c].to \notin down'
                 /\ k # 1 => c \in repeated'
              \/ handler[<<c, k>>] \notin {NoHandler, Acting, HasReplied}
              \/ handler[<<c, k>>] = Acting /\ handler'[<<c, k>>] = HasReplied
              \/ handler'[<<c, k>>] = NoHandler /\ c \in Used /\ call[c].to \in down'
         /\ \A c \in Calls : \A k \in Copies :
              (c \in Used /\ call[c].to \in down' \ down) => handler'[<<c, k>>] = NoHandler
<1>0. handler \in [Calls \X Copies -> States]
  BY DEF Domains
<1> HIDE DEF States
<1>1. ASSUME UNCHANGED <<handler, down>> PROVE P
  BY <1>0, <1>1
<1>2. ASSUME NEW h \in Handlers, NEW s \in States, handler[h] \notin {NoHandler, Acting, HasReplied},
             handler' = [handler EXCEPT ![h] = s], UNCHANGED down
      PROVE  P
  BY <1>0, <1>2, HandlerType
<1>3. ASSUME NEW h \in Handlers, Observe(h) PROVE P
  BY <1>2, <1>3, Unlike DEF Observe, States
<1>4. ASSUME NEW h \in Handlers, ObserveFull(h) PROVE P
  <2>1. UNCHANGED down /\ handler[h] \notin {NoHandler, Acting, HasReplied}
    BY <1>4, Unlike DEF ObserveFull
  <2>2. \A s \in PingStates : s \in States
    BY DEF States
  <2> QED
    BY <1>2, <1>4, <2>1, <2>2, PingSteps
<1>5. ASSUME NEW h \in Handlers, PingEnded(h) PROVE P
  <2>1. handler[h].st = "ping"
    BY <1>5 DEF PingEnded
  <2>2. handler[h] \notin {NoHandler, Acting, HasReplied}
    BY <2>1 DEF NoHandler, Acting, HasReplied
  <2> QED
    BY <1>2, <1>5, <2>2 DEF PingEnded, States
<1>6. ASSUME NEW h \in Handlers, Act(h) PROVE P
  <2>1. /\ handler[h] = Acting /\ handler' = [handler EXCEPT ![h] = HasReplied] /\ UNCHANGED down
        /\ HasReplied \in States
    BY <1>6 DEF Act, States
  <2> QED
    BY <1>0, <2>1, HandlerType
<1>7. ASSUME NEW c \in Calls, NEW k \in Copies, DeliverRequest(c, k) PROVE P
  <2>1. /\ handler[<<c, k>>] = NoHandler /\ handler' = [handler EXCEPT ![<<c, k>>] = Observing]
        /\ UNCHANGED down /\ Observing \in States /\ c \in Used /\ call[c].to \notin down
    BY <1>7 DEF DeliverRequest, States
  <2>2. k # 1 => c \in repeated'
    BY <1>7, CallBounds DEF DeliverRequest, Copies
  <2> QED
    BY <1>0, <2>1, <2>2, Unlike
<1>8. ASSUME NEW n \in Nodes, Crash(n) PROVE P
  <2>1. /\ handler' = [h \in Calls \X Copies |->
                         IF h[1] \in Used /\ call[h[1]].to = n THEN NoHandler ELSE handler[h]]
        /\ down' = down \cup {n} /\ NoHandler \in States
    BY <1>0, <1>8 DEF Crash, States
  <2> QED
    BY <1>0, <2>1
<1>9. ASSUME NEW from \in Nodes, NEW to \in Nodes, NEW type \in Types, Invoke(from, to, type)
      PROVE  UNCHANGED <<handler, down>>
  BY <1>9 DEF Invoke
<1>10. ASSUME NEW c \in Calls, ReceiveAnswer(c) \/ Timeout(c) PROVE UNCHANGED <<handler, down>>
  BY <1>10 DEF ReceiveAnswer, Timeout
<1>11. ASSUME NEW d \in net, DeliverAnswer(d) PROVE UNCHANGED <<handler, down>>
  BY <1>11 DEF DeliverAnswer
<1> HIDE DEF P
<1>12. P
  BY <1>1, <1>3, <1>4, <1>5, <1>6, <1>7, <1>8, <1>9, <1>10, <1>11 DEF Next, vars, Copies
<1> QED
  BY <1>12 DEF P, States

-----------------------------------------------------------------------------

\* The first place of a value in a sequence is one of its places.
LEMMA FirstPlace ==
  ASSUME NEW S, NEW b \in Seq(S), NEW old, Contains(b, old)
  PROVE  (CHOOSE j \in DOMAIN b : b[j] = old /\ \A k \in 1 .. j - 1 : b[k] # old) \in 1 .. Len(b)
<1> DEFINE T == {j \in 1 .. Len(b) : b[j] = old}
<1>1. Len(b) \in Nat /\ DOMAIN b = 1 .. Len(b)
  BY LenProperties
<1>2. T \subseteq Nat /\ T # {}
  BY <1>1 DEF Contains
<1>3. \A j \in 1 .. Len(b) : j \in T <=> b[j] = old
  OBVIOUS
<1>4. T \subseteq 1 .. Len(b)
  OBVIOUS
<1> HIDE DEF T
<1>5. PICK m \in T : \A n \in T : ~ (<<n, m>> \in OpToRel(<, Nat))
  BY <1>2, NatLessThanWellFounded, WFMin
<1>6. m \in Nat /\ \A n \in T : n \in Nat /\ ~ (n < m)
  BY <1>2, <1>5 DEF OpToRel
<1>7. \A k \in 1 .. m - 1 : k \in 1 .. Len(b) /\ k < m
  <2>1. m \in 1 .. Len(b)
    BY <1>4
  <2> QED
    BY <1>1, <2>1
<1>8. b[m] = old /\ \A k \in 1 .. m - 1 : b[k] # old
  BY <1>3, <1>4, <1>5, <1>6, <1>7
<1> QED
  BY <1>1, <1>4, <1>5, <1>8

LEMMA ReplaceType ==
  ASSUME NEW b \in Seq(Nodes), NEW old, NEW new \in Nodes
  PROVE  Replace(b, old, new) \in Seq(Nodes)
<1>1. CASE Contains(b, old)
  <2> DEFINE i == CHOOSE j \in DOMAIN b : b[j] = old /\ \A k \in 1 .. j - 1 : b[k] # old
  <2>1. i \in 1 .. Len(b)
    BY <1>1, FirstPlace
  <2> HIDE DEF i
  <2>2. SubSeq(b, 1, i - 1) \in Seq(Nodes) /\ SubSeq(b, i + 1, Len(b)) \in Seq(Nodes)
    BY <2>1, SubSeqProperties, ElementOfSeq
  <2>3. RemoveAt(b, i) \in Seq(Nodes)
    BY <2>2 DEF RemoveAt
  <2>4. Replace(b, old, new) = Append(RemoveAt(b, i), new)
    BY <1>1 DEF Replace, i
  <2> QED
    BY <2>3, <2>4
<1> QED
  BY <1>1 DEF Replace

LEMMA StepBuckets ==
  ASSUME TypeOK, Domains, Lifecycle, NoHoles, [Next]_vars
  PROVE  bucket' \in [Nodes -> Seq(Nodes)]
<1>0. bucket \in [Nodes -> Seq(Nodes)]
  BY DEF TypeOK
<1>1. ASSUME NEW h \in Handlers, Observe(h) PROVE bucket' \in [Nodes -> Seq(Nodes)]
  <2>1. Server(h) \in Nodes /\ Sender(h) \in Nodes
    BY <1>1, ActiveHandler, Unlike DEF Observe
  <2>2. bucket[Server(h)] \in Seq(Nodes)
    BY <1>0, <2>1
  <2>3. /\ Replace(bucket[Server(h)], Sender(h), Sender(h)) \in Seq(Nodes)
        /\ Append(bucket[Server(h)], Sender(h)) \in Seq(Nodes)
    BY <2>1, <2>2, ReplaceType
  <2> QED
    BY <1>0, <1>1, <2>3 DEF Observe
<1>2. ASSUME NEW h \in Handlers, PingEnded(h) PROVE bucket' \in [Nodes -> Seq(Nodes)]
  <2>1. handler[h].st = "ping"
    BY <1>2 DEF PingEnded
  <2>2. handler[h] \in PingStates
    BY <2>1, HandlerType DEF Domains, NoHandler, Observing, Acting, HasReplied
  <2>3. handler[h].lrs \in Nodes /\ handler[h] # NoHandler
    BY <2>2, Unlike DEF PingStates
  <2>4. Server(h) \in Nodes /\ Sender(h) \in Nodes
    BY <2>3, ActiveHandler
  <2>5. bucket[Server(h)] \in Seq(Nodes)
    BY <1>0, <2>4
  <2>6. \A new \in {handler[h].lrs, Sender(h)} :
          Replace(bucket[Server(h)], handler[h].lrs, new) \in Seq(Nodes)
    BY <2>3, <2>4, <2>5, ReplaceType
  <2> QED
    BY <1>0, <1>2, <2>6 DEF PingEnded
<1>3. ASSUME NEW n \in Nodes, Crash(n) PROVE bucket' \in [Nodes -> Seq(Nodes)]
  BY <1>0, <1>3 DEF Crash
<1>4. ASSUME \A h \in Handlers : ~Observe(h) /\ ~PingEnded(h), \A n \in Nodes : ~Crash(n)
      PROVE  UNCHANGED bucket
  BY <1>4 DEF Next, vars, Invoke, ReceiveAnswer, Timeout, DeliverRequest, DeliverAnswer, ObserveFull, Act
<1> QED
  BY <1>0, <1>1, <1>2, <1>3, <1>4

\* The windows and the sets of a state are of their types.
LEMMA StepSets ==
  ASSUME TypeOK, Domains, Lifecycle, NoHoles, [Next]_vars
  PROVE  /\ net' \subseteq Answers /\ down' \subseteq Nodes
         /\ executed' \subseteq Calls /\ repeated' \subseteq Calls
         /\ window' \in [Calls -> SUBSET (0 .. MaxCalls)]
<1>1. \A h \in Handlers : /\ h[1] \in Calls /\ h[1] \in 0 .. MaxCalls
                          /\ Act(h) => Server(h) \in Nodes
  BY HandlerType, ActiveHandler, CallType, Unlike DEF Act
<1>2. net' \subseteq Answers
  <2> SUFFICES ASSUME NEW d \in net' PROVE d \in Answers
    OBVIOUS
  <2>1. CASE d \in net
    BY <2>1 DEF TypeOK
  <2>2. CASE \E h \in Handlers : Act(h) /\ d \notin net
    <3>1. PICK h \in Handlers : Act(h) /\ d \notin net
      BY <2>2
    <3>2. d = [call |-> h[1], value |-> IF call[h[1]].type = "FIND_VALUE"
                                        THEN storage[Server(h)] ELSE NoValue]
      BY <3>1 DEF Act
    <3>3. (IF call[h[1]].type = "FIND_VALUE" THEN storage[Server(h)] ELSE NoValue) \in 0 .. MaxCalls
      BY <1>1, <3>1, CallType DEF TypeOK, NoValue
    <3> QED
      BY <1>1, <3>2, <3>3 DEF Answers
  <2> QED
    BY <2>1, <2>2, StepNet
<1>3. down' \subseteq Nodes
  BY DEF TypeOK, Next, vars, Invoke, ReceiveAnswer, Timeout, DeliverRequest, DeliverAnswer, Observe,
     ObserveFull, PingEnded, Act, Crash
<1>4. executed' \subseteq Calls
  BY <1>1, StepHistory DEF TypeOK
<1>5. repeated' \subseteq Calls
  BY DEF TypeOK, Next, vars, Invoke, ReceiveAnswer, Timeout, DeliverRequest, DeliverAnswer, Observe,
     ObserveFull, PingEnded, Act, Crash
<1>6. window' \in [Calls -> SUBSET (0 .. MaxCalls)]
  <2>0. window \in [Calls -> SUBSET (0 .. MaxCalls)]
    BY DEF TypeOK
  <2>1. ASSUME NEW from \in Nodes, NEW to \in Nodes, NEW type \in Types, Invoke(from, to, type)
        PROVE  window' \in [Calls -> SUBSET (0 .. MaxCalls)]
    BY <2>1, SendSteps DEF Invoke
  <2>2. ASSUME NEW h \in Handlers, ObserveFull(h) PROVE window' \in [Calls -> SUBSET (0 .. MaxCalls)]
    <3>1. "PING" \in Types
      BY DEF Types
    <3> QED
      BY <2>0, <2>2, <3>1, PingSteps, SendSteps
  <2>3. ASSUME NEW h \in Handlers, Act(h) PROVE window' \in [Calls -> SUBSET (0 .. MaxCalls)]
    BY <1>1, <2>0, <2>3 DEF Act
  <2>4. ASSUME \A from, to \in Nodes, type \in Types \ {"PING"} : ~Invoke(from, to, type),
               \A h \in Handlers : ~ObserveFull(h) /\ ~Act(h)
        PROVE  UNCHANGED window
    BY <2>4 DEF Next, vars, ReceiveAnswer, Timeout, DeliverRequest, DeliverAnswer, Observe, PingEnded, Crash
  <2> QED
    BY <2>0, <2>1, <2>2, <2>3, <2>4
<1> QED
  BY <1>2, <1>3, <1>4, <1>5, <1>6

LEMMA TypePreserved ==
  ASSUME TypeOK, Domains, Lifecycle, NoHoles, [Next]_vars
  PROVE  TypeOK' /\ Domains'
<1>1. Domains'
  BY StepHandlers, StepInbox DEF Domains
<1>2. \A c \in Calls : inbox'[c] \in {<<>>} \cup {<<v>> : v \in 0 .. MaxCalls}
  BY StepInbox
<1>3. \A h \in Handlers' : \/ handler'[h] \in {NoHandler, Observing, Acting, HasReplied}
                           \/ handler'[h] \in [st : {"ping"}, ping : 0 .. MaxCalls, lrs : Nodes]
  BY StepHandlers DEF Handlers, PingStates
<1> QED
  BY <1>1, <1>2, <1>3, StepCalls, StepSets, StepBuckets, StepStorage DEF TypeOK, CallTypePrimed

-----------------------------------------------------------------------------

LEMMA LifecyclePreserved ==
  ASSUME TypeOK, Domains, Lifecycle, NoHoles, [Next]_vars
  PROVE  Lifecycle'
<1>1. ASSUME NEW c \in Used' PROVE call'[c].after \subseteq Ended'
  <2>1. CASE c \in Used
    BY <2>1, StepCalls DEF Lifecycle, Keeps, Ended
  <2>2. CASE c \notin Used
    BY <2>2, <1>1, StepCalls DEF Keeps, Ended
  <2> QED
    BY <2>1, <2>2
<1>2. executed' \subseteq Used'
  <2>1. \A h \in Handlers : Act(h) => h[1] \in Used
    BY ActiveHandler, Unlike DEF Act
  <2> QED
    BY <2>1, StepHistory, StepCalls DEF Lifecycle, Keeps
<1>3. ASSUME NEW c \in Calls, NEW k \in Copies, handler'[<<c, k>>] # NoHandler
      PROVE  c \in Used' /\ call'[c].to \notin down'
  <2>1. c \in Used => c \in Used' /\ call'[c].to = call[c].to
    BY StepCalls DEF Keeps
  <2>2. CASE handler[<<c, k>>] = NoHandler
    BY <1>3, <2>1, <2>2, StepHandlers, Unlike
  <2>3. CASE handler[<<c, k>>] # NoHandler
    <3>1. c \in Used /\ call[c].to \notin down
      BY <2>3 DEF Lifecycle
    <3>2. call[c].to \notin down'
      BY <1>3, <3>1, StepHandlers
    <3> QED
      BY <2>1, <3>1, <3>2
  <2> QED
    BY <2>2, <2>3
<1> QED
  BY <1>1, <1>2, <1>3 DEF Lifecycle

\* What a call may return, it may return later.
LEMMA MayReturnStays ==
  ASSUME TypeOK, Domains, Lifecycle, NoHoles, [Next]_vars, NEW c \in Used, NEW v, MayReturn(c, v)
  PROVE  MayReturn(c, v)'
BY StepCalls, StepHistory DEF MayReturn, Keeps

LEMMA WindowPreserved ==
  ASSUME TypeOK, Domains, Lifecycle, NoHoles, CalleeInWindow, [Next]_vars
  PROVE  CalleeInWindow'
<1> SUFFICES ASSUME NEW c \in Waiting', call'[c].to \notin down', call'[c].type = "FIND_VALUE"
             PROVE  storage'[call'[c].to] \in window'[c]
  BY DEF CalleeInWindow, MayReturn
<1>1. c \in Used' /\ Waiting \subseteq Used
  BY DEF Waiting
<1>2. CASE c \in Used
  <2>1. c \in Waiting /\ call'[c].to = call[c].to /\ call[c].type = "FIND_VALUE"
    BY <1>2, StepCalls DEF Keeps
  <2>2. call[c].to \in Nodes
    BY <1>2, CallType DEF CallRecords
  <2>3. storage[call[c].to] \in window[c] /\ call[c].to \notin down'
    BY <2>1, StepHistory DEF CalleeInWindow, MayReturn
  <2>4. window[c] \subseteq window'[c]
    BY <1>2, StepHistory
  <2>5. \/ storage'[call[c].to] = storage[call[c].to]
        \/ storage'[call[c].to] \in window'[c]
    BY <2>1, <2>2, <2>3, StepStorage
  <2> QED
    BY <2>1, <2>3, <2>4, <2>5
<1>3. CASE c \notin Used
  BY <1>1, <1>3, StepCalls
<1> QED
  BY <1>2, <1>3

\* A handler answers a call that waits with something that the call may return.
LEMMA AnswerMayReturn ==
  ASSUME TypeOK, Domains, Lifecycle, CalleeInWindow, NEW h \in Handlers, Act(h), h[1] \in Waiting
  PROVE  MayReturn(h[1], IF call[h[1]].type = "FIND_VALUE" THEN storage[Server(h)] ELSE NoValue)
<1>1. Server(h) = call[h[1]].to /\ Server(h) \notin down
  BY ActiveHandler, Unlike DEF Act
<1> QED
  BY <1>1 DEF CalleeInWindow, MayReturn

LEMMA AnswersPreserved ==
  ASSUME TypeOK, Domains, Lifecycle, NoHoles, CalleeInWindow, AnswersReal, [Next]_vars
  PROVE  AnswersReal'
<1> SUFFICES ASSUME NEW d \in net'
             PROVE  d.call \in executed' /\ (d.call \in Waiting' => MayReturn(d.call, d.value)')
  BY DEF AnswersReal, MayReturn
<1>1. CASE d \in net
  <2>1. d.call \in executed /\ d.call \in executed' /\ d.call \in Used
    BY <1>1, StepHistory DEF AnswersReal, Lifecycle
  <2>2. ASSUME d.call \in Waiting' PROVE MayReturn(d.call, d.value)'
    <3>1. d.call \in Waiting
      BY <2>1, <2>2, StepCalls
    <3>2. MayReturn(d.call, d.value)
      BY <1>1, <3>1 DEF AnswersReal
    <3> QED
      BY <2>1, <3>2, MayReturnStays
  <2> QED
    BY <2>1, <2>2
<1>2. CASE d \notin net
  <2>1. PICK h \in Handlers : /\ Act(h) /\ d.call = h[1]
             /\ d.value = IF call[h[1]].type = "FIND_VALUE" THEN storage[Server(h)] ELSE NoValue
    BY <1>2, StepNet
  <2>2. d.call \in executed' /\ d.call \in Used
    BY <2>1, ActiveHandler, Unlike DEF Act
  <2>3. ASSUME d.call \in Waiting' PROVE MayReturn(d.call, d.value)'
    <3>1. d.call \in Waiting
      BY <2>2, <2>3, StepCalls
    <3>2. MayReturn(d.call, d.value)
      BY <2>1, <3>1, AnswerMayReturn
    <3> QED
      BY <2>2, <3>2, MayReturnStays
  <2> QED
    BY <2>2, <2>3
<1> QED
  BY <1>1, <1>2

LEMMA InboxPreserved ==
  ASSUME TypeOK, Domains, Lifecycle, NoHoles, AnswersReal, InboxReal, [Next]_vars
  PROVE  InboxReal'
<1> SUFFICES ASSUME NEW c \in Calls, inbox'[c] # <<>>
             PROVE  c \in Waiting' /\ c \in executed' /\ \E v \in {Head(inbox'[c])} : MayReturn(c, v)'
  BY DEF InboxReal, MayReturn
<1>1. CASE inbox'[c] = inbox[c] /\ (c \in Waiting => c \in Waiting')
  <2>1. c \in Waiting /\ c \in executed /\ \E v \in {Head(inbox[c])} : MayReturn(c, v)
    BY <1>1 DEF InboxReal
  <2>2. c \in Used
    BY <2>1 DEF Waiting
  <2>3. PICK v \in {Head(inbox[c])} : MayReturn(c, v)
    BY <2>1
  <2>4. MayReturn(c, v)'
    BY <2>2, <2>3, MayReturnStays
  <2> QED
    BY <1>1, <2>1, <2>3, <2>4, StepHistory
<1>2. CASE /\ c \in Waiting /\ UNCHANGED <<call, executed, window>>
           /\ \E d \in net : d.call = c /\ inbox'[c] = <<d.value>>
  <2>1. PICK d \in net : d.call = c /\ inbox'[c] = <<d.value>>
    BY <1>2
  <2>2. c \in executed /\ MayReturn(c, d.value) /\ Head(inbox'[c]) = d.value
    BY <1>2, <2>1 DEF AnswersReal
  <2>3. Waiting' = Waiting
    BY <1>2, KeepsIfSame
  <2>4. PICK v \in {Head(inbox'[c])} : MayReturn(c, v)
    BY <2>2
  <2>5. MayReturn(c, v)'
    BY <1>2, <2>4 DEF MayReturn
  <2> QED
    BY <1>2, <2>2, <2>3, <2>4, <2>5
<1> QED
  BY <1>1, <1>2, StepInbox

LEMMA SettledPreserved ==
  ASSUME TypeOK, Domains, Lifecycle, NoHoles, InboxReal, Settled, [Next]_vars
  PROVE  Settled'
<1> SUFFICES ASSUME NEW c \in Used', call'[c].st = "ok"
             PROVE  c \in executed' /\ \E v \in {call'[c].value} : MayReturn(c, v)'
  BY DEF Settled, MayReturn
<1>1. CASE c \in Ended
  <2>1. call'[c] = call[c] /\ c \in Used
    BY <1>1, StepCalls DEF Keeps, Ended
  <2>2. c \in executed /\ \E v \in {call[c].value} : MayReturn(c, v)
    BY <2>1 DEF Settled
  <2>3. PICK v \in {call[c].value} : MayReturn(c, v)
    BY <2>2
  <2>4. MayReturn(c, v)'
    BY <2>1, <2>3, MayReturnStays
  <2> QED
    BY <2>1, <2>2, <2>3, <2>4, StepHistory
<1>2. CASE c \in Waiting
  <2>1. c \in Used /\ c \in Calls
    BY <1>2, CallType DEF Waiting
  <2>2. inbox[c] # <<>> /\ call'[c].value = Head(inbox[c])
    BY <1>2, <2>1, StepCalls
  <2>3. c \in executed /\ \E v \in {Head(inbox[c])} : MayReturn(c, v)
    BY <2>1, <2>2 DEF InboxReal
  <2>4. PICK v \in {Head(inbox[c])} : MayReturn(c, v)
    BY <2>3
  <2>5. MayReturn(c, v)'
    BY <2>1, <2>4, MayReturnStays
  <2> QED
    BY <2>2, <2>3, <2>4, <2>5, StepHistory
<1>3. CASE c \notin Used
  BY <1>3, StepCalls
<1> QED
  BY <1>1, <1>2, <1>3 DEF Ended

LEMMA HandledPreserved ==
  ASSUME TypeOK, Domains, Lifecycle, NoHoles, HandledOnce, [Next]_vars
  PROVE  HandledOnce'
<1> SUFFICES ASSUME NEW c \in Calls \ repeated'
             PROVE  /\ \A k \in Copies : handler'[<<c, k>>] # NoHandler => k = 1
                    /\ (c \in executed' /\ call'[c].to \notin down') => handler'[<<c, 1>>] = HasReplied
  BY DEF HandledOnce
<1>0. c \in Calls \ repeated /\ 1 \in Copies
  BY StepHistory, CallBounds DEF Copies
<1>1. \A k \in Copies : handler[<<c, k>>] # NoHandler => k = 1
  BY <1>0 DEF HandledOnce
<1>2. ASSUME NEW k \in Copies, handler'[<<c, k>>] # NoHandler PROVE k = 1
  <2>1. CASE handler[<<c, k>>] = NoHandler
    <3>1. k # 1 => c \in repeated'
      BY <1>2, <2>1, StepHandlers, Unlike
    <3> QED
      BY <3>1
  <2> QED
    BY <1>1, <2>1
<1>3. ASSUME c \in executed', call'[c].to \notin down' PROVE handler'[<<c, 1>>] = HasReplied
  <2>1. CASE c \in executed
    <3>1. c \in Used /\ call'[c].to = call[c].to
      BY <2>1, StepCalls DEF Lifecycle, Keeps
    <3>2. handler[<<c, 1>>] = HasReplied
      BY <1>0, <1>3, <2>1, <3>1, StepHistory DEF HandledOnce
    <3> QED
      BY <1>0, <1>3, <3>1, <3>2, StepHandlers, Unlike
  <2>2. CASE c \notin executed
    <3>1. PICK h \in Handlers : Act(h) /\ c = h[1]
      BY <1>3, <2>2, StepHistory
    <3>2. h = <<c, h[2]>> /\ h[2] \in Copies /\ handler[h] # NoHandler
      BY <3>1, HandlerType, Unlike DEF Act
    <3>3. h = <<c, 1>>
      BY <1>1, <3>2
    <3> QED
      BY <1>0, <3>1, <3>3 DEF Act, Domains
  <2> QED
    BY <2>1, <2>2
<1> QED
  BY <1>2, <1>3

LEMMA OverwritesPreserved ==
  ASSUME TypeOK, Domains, Lifecycle, NoHoles, Settled, HandledOnce, Overwrites, [Next]_vars
  PROVE  Overwrites'
<1> SUFFICES ASSUME NEW c \in executed', NEW s \in call'[c].after \ repeated',
                    call'[c].type = "STORE", call'[c].to \notin down', call'[s].st = "ok"
             PROVE  storage'[call'[c].to] # s
  BY DEF Overwrites
<1>1. c \in Used
  <2>1. \A h \in Handlers : Act(h) => h[1] \in Used
    BY ActiveHandler, Unlike DEF Act
  <2> QED
    BY <2>1, StepHistory DEF Lifecycle
<1>2. /\ s \in call[c].after /\ s \notin repeated /\ call[c].type = "STORE"
      /\ call'[c].to = call[c].to /\ call[c].to \notin down
  BY <1>1, StepCalls, StepHistory DEF Keeps
<1>3. s \in Ended /\ s \in Used /\ s \in Calls
  BY <1>1, <1>2, CallType DEF Lifecycle, Ended
<1>4. call[s].st = "ok" /\ s \in executed
  BY <1>3, StepCalls DEF Keeps, Settled
<1>5. call[c].to \in Nodes
  BY <1>1, CallType DEF CallRecords
\* The only handler of s has replied already, so it is not the one that acts.
<1>6. ASSUME NEW h \in Handlers, Act(h), Server(h) = call[c].to PROVE h[1] # s
  <2> SUFFICES ASSUME h[1] = s PROVE FALSE
    OBVIOUS
  <2>1. h = <<s, h[2]>> /\ h[2] \in Copies /\ handler[h] = Acting /\ call[s].to \notin down
    BY <1>6, HandlerType, ActiveHandler, Unlike DEF Act
  <2>2. s \in Calls \ repeated /\ handler[<<s, h[2]>>] # NoHandler
    BY <1>2, <1>3, <2>1, Unlike
  <2>3. h[2] = 1
    BY <2>1, <2>2 DEF HandledOnce
  <2>4. handler[<<s, 1>>] = HasReplied
    BY <1>4, <2>1, <2>2 DEF HandledOnce
  <2> QED
    BY <2>1, <2>3, <2>4, Unlike
<1>7. CASE storage'[call[c].to] # storage[call[c].to]
  BY <1>2, <1>5, <1>6, <1>7, StepStorage
<1>8. CASE storage'[call[c].to] = storage[call[c].to] /\ c \in executed
  BY <1>2, <1>4, <1>8 DEF Overwrites
<1>9. CASE c \notin executed
  <2>1. PICK h \in Handlers : Act(h) /\ c = h[1]
    BY <1>9, StepHistory
  <2>2. storage' = [storage EXCEPT ![call[c].to] = c]
    BY <1>2, <2>1 DEF Act, Put, Server
  <2>3. s # c
    BY <1>1, <1>3, <1>4, <1>9
  <2> QED
    BY <1>2, <1>5, <2>2, <2>3 DEF TypeOK
<1> QED
  BY <1>2, <1>7, <1>8, <1>9

-----------------------------------------------------------------------------

LEMMA InitInvariant ==
  ASSUME Init
  PROVE  IInv
<1>1. Used = {}
  BY DEF Init, Used
<1>2. TypeOK /\ Domains
  <2>1. /\ call \in [Calls -> CallRecords \cup {Unused}]
        /\ inbox \in [Calls -> {<<>>} \cup {<<v>> : v \in 0 .. MaxCalls}]
        /\ handler \in [Calls \X Copies -> {NoHandler, Observing, Acting, HasReplied} \cup PingStates]
        /\ \A h \in Handlers : handler[h] = NoHandler
    BY DEF Init, Copies, Handlers
  <2>2. /\ net \subseteq Answers /\ bucket \in [Nodes -> Seq(Nodes)] /\ down \subseteq Nodes
        /\ executed \subseteq Calls /\ repeated \subseteq Calls
        /\ window \in [Calls -> SUBSET (0 .. MaxCalls)]
    BY TablesType DEF Init
  <2>3. storage \in [Nodes -> 0 .. MaxCalls]
    BY CallBounds DEF Init, NoValue
  <2> QED
    BY <2>1, <2>2, <2>3 DEF TypeOK, Domains
<1>3. NoHoles
  <2>1. {} = 1 .. 0
    OBVIOUS
  <2> QED
    BY <1>1, <2>1 DEF NoHoles
<1>4. Lifecycle
  BY <1>1 DEF Init, Lifecycle, Copies
<1>5. Waiting = {}
  BY <1>1 DEF Waiting
<1>6. CalleeInWindow /\ AnswersReal /\ Settled
  BY <1>1, <1>5 DEF Init, CalleeInWindow, AnswersReal, Settled
<1>7. InboxReal
  BY DEF Init, InboxReal
<1>8. HandledOnce /\ Overwrites
  BY DEF Init, HandledOnce, Overwrites, Copies
<1> QED
  BY <1>2, <1>3, <1>4, <1>6, <1>7, <1>8 DEF IInv

LEMMA StepInvariant ==
  ASSUME IInv, [Next]_vars
  PROVE  IInv'
BY TypePreserved, StepCalls, LifecyclePreserved, WindowPreserved, AnswersPreserved, InboxPreserved,
   SettledPreserved, HandledPreserved, OverwritesPreserved DEF IInv

LEMMA InvariantHolds == Spec => []IInv
BY InitInvariant, StepInvariant, PTL DEF Spec

\* A call of sendReq (udp.go:217) that succeeds was carried out by its callee,
\* and a FindValue returns what the callee held during the call, however the
\* network repeats, delays and reorders requests and answers.
THEOREM AnswersAreReal == Spec => []AnswersInv
<1>1. IInv => AnswersInv
  BY DEF IInv, AnswersInv, Settled, SuccessWasExecuted, ReadsDuringCall, MayReturn
<1> QED
  BY <1>1, InvariantHolds, PTL

\* OnStore (node.go:97) puts back a value that was replaced only when its
\* datagram was delivered again, or its own call had failed.
THEOREM StaleStoreNeedsRepeat == Spec => []NoStaleStore
<1>1. IInv => NoStaleStore
  BY DEF IInv, NoStaleStore, Settled, Overwrites
<1> QED
  BY <1>1, InvariantHolds, PTL
=============================================================================
