-------------------------- MODULE DhtSignalingProofs --------------------------
(***************************************************************************)
(* DhtInv and HandledTwicePerStore for every number of callers, replicas,  *)
(* calls and faults.  HandledTwicePerStore counts what is still to come: a *)
(* Store of a ring that lands gives the callee two handlings to make, one  *)
(* of which waits in the bell until a goroutine that will clear it there   *)
(* is about the caller, the other as long as the bell names the caller or  *)
(* a turn of the loop has read it.                                         *)
(***************************************************************************)
EXTENDS DhtSignaling, FiniteSetTheorems, SequenceTheorems, TLAPS

\* Calls are numbered in the order of their beginning.
NoHoles == \E k \in Nat : Used = 1 .. k

\* A goroutine has handled offer v of caller c.
Handled(c, v) ==
  \E h \in DOMAIN handler :
    handler[h].offer = v /\ handler[h].caller = c /\ handler[h].st # "handle"

\* What an answer key holds was stored by a goroutine that handled an offer, and
\* a goroutine stores nothing before.
AnswersStored ==
  /\ \A c \in Callers, r \in PairNodes : answerKey[c][r] # Missing => Handled(c, answerKey[c][r])
  /\ \A h, r : Store("answer", h, r) \in sent => handler[h].st # "handle"

\* A call rings when it has stored its offer, and each Store of the ring lands once.
RungOnce ==
  /\ \A i, r : <<i, r>> \in rung \/ Store("bell", i, r) \in sent => i \in Used /\ offer[i].st # "offer"
  /\ \A i, r : <<i, r>> \in rung => Store("bell", i, r) \notin sent

\* Callers that some replica of the bell names, or that a turn of the loop is about.
Ringers == {c \in Callers : \E r \in BellNodes : bell[r] = c}
Turn == IF loop.st \in {"mark", "offer"} THEN {loop.caller} ELSE {}

\* Goroutine h is about caller c, and has yet to clear the bell at r.
Covers(h, c, r) ==
  /\ handler[h].caller = c
  /\ \/ handler[h].st \in {"handle", "answer"}
     \/ handler[h].st = "clear" /\ Store("clear", h, r) \in sent

\* Callers that a replica names without a goroutine that will clear it.
Pending == {c \in Callers : \E r \in BellNodes : bell[r] = c /\ \A h \in DOMAIN handler : ~Covers(h, c, r)}

\* The handlings that were made, and those that are still to come of the Stores
\* of rings that have landed.
Balance == Len(handler) + Cardinality(Ringers \cup Turn) + Cardinality(Pending) <= 2 * Cardinality(rung) + faults

StoresCounted ==
  /\ IsFiniteSet(Ringers) /\ IsFiniteSet(rung)
  /\ holds \/ (bell[Own] = NoRing /\ Balance)

IInv ==
  /\ TypeOK /\ NoHoles /\ AnswersStored /\ MarksMatch /\ AnswersOfCaller /\ RungOnce /\ StoresCounted

-----------------------------------------------------------------------------

CallRecords ==
  [st : {"offer", "bell", "poll", "ok", "failed"}, caller : Callers, got : Offers \cup {Missing}]

HandlerRecords ==
  [caller : Callers, offer : Offers, st : {"handle", "answer", "clear", "done"}]

StoreRecords ==
  [what : {"offer"}, of : Used, at : PairNodes]
    \cup [what : {"bell"}, of : Used, at : places]
    \cup [what : {"answer"}, of : DOMAIN handler, at : PairNodes]
    \cup [what : {"clear"}, of : DOMAIN handler, at : BellNodes]

LEMMA ConstantFacts ==
  /\ MaxEvents \in Nat /\ Offers \subseteq Nat /\ Missing \notin Offers
  /\ NoRing \notin Callers /\ Cleared \notin Callers
BY DhtBounds DEF Offers, Missing, NoRing, Cleared

LEMMA CallFacts ==
  ASSUME TypeOK
  PROVE  /\ offer \in [Offers -> {Unused} \cup CallRecords]
         /\ Used \subseteq Offers
         /\ \A i \in Used : offer[i] \in CallRecords /\ offer[i].caller \in Callers
         /\ \A r \in CallRecords : r # Unused
         /\ \A st : InState(st) \subseteq Used
<1>1. offer \in [Offers -> {Unused} \cup CallRecords]
  BY DEF TypeOK, CallRecords
<1>2. \A r \in CallRecords : r # Unused /\ r.caller \in Callers
  <2>1. \A r \in CallRecords : r.st \in {"offer", "bell", "poll", "ok", "failed"} /\ r.caller \in Callers
    BY DEF CallRecords
  <2>2. Unused.st = "unused"
    BY DEF Unused
  <2> QED
    BY <2>1, <2>2
<1> QED
  BY <1>1, <1>2 DEF Used, InState

LEMMA HandlerFacts ==
  ASSUME TypeOK
  PROVE  /\ handler \in Seq(HandlerRecords) /\ Len(handler) \in Nat /\ DOMAIN handler = 1 .. Len(handler)
         /\ \A h \in DOMAIN handler : /\ handler[h] \in HandlerRecords
                                      /\ handler[h].caller \in Callers /\ handler[h].offer \in Offers
                                      /\ handler[h].st \in {"handle", "answer", "clear", "done"}
<1>1. handler \in Seq(HandlerRecords)
  BY DEF TypeOK, HandlerRecords
<1>2. Len(handler) \in Nat /\ DOMAIN handler = 1 .. Len(handler) /\ \A h \in DOMAIN handler : handler[h] \in HandlerRecords
  BY <1>1, LenProperties, ElementOfSeq
<1> QED
  BY <1>1, <1>2 DEF HandlerRecords

\* The Stores under way are of calls that have begun and of goroutines.
LEMMA SentFacts ==
  ASSUME TypeOK
  PROVE  /\ sent \subseteq StoreRecords
         /\ \A i, r : Store("offer", i, r) \in sent => i \in Used /\ r \in PairNodes
         /\ \A i, r : Store("bell", i, r) \in sent => i \in Used /\ r \in places
         /\ \A h, r : Store("answer", h, r) \in sent => h \in DOMAIN handler /\ r \in PairNodes
         /\ \A h, r : Store("clear", h, r) \in sent => h \in DOMAIN handler /\ r \in BellNodes
<1>1. sent \subseteq StoreRecords
  BY DEF TypeOK, StoreRecords
<1>2. \A what, n, r : Store(what, n, r).what = what /\ Store(what, n, r).of = n /\ Store(what, n, r).at = r
  BY DEF Store
<1>3. \A s \in StoreRecords : /\ s.what \in {"offer", "bell", "answer", "clear"}
                              /\ s.what = "offer" => s.of \in Used /\ s.at \in PairNodes
                              /\ s.what = "bell" => s.of \in Used /\ s.at \in places
                              /\ s.what = "answer" => s.of \in DOMAIN handler /\ s.at \in PairNodes
                              /\ s.what = "clear" => s.of \in DOMAIN handler /\ s.at \in BellNodes
  BY DEF StoreRecords
<1> QED
  BY <1>1, <1>2, <1>3

\* A Store is what it says.
LEMMA StoreIs ==
  ASSUME NEW what, NEW n, NEW r, NEW what2, NEW n2, NEW r2, Store(what, n, r) = Store(what2, n2, r2)
  PROVE  what = what2 /\ n = n2 /\ r = r2
<1>1. Store(what, n, r).what = what /\ Store(what, n, r).of = n /\ Store(what, n, r).at = r
  BY DEF Store
<1>2. Store(what2, n2, r2).what = what2 /\ Store(what2, n2, r2).of = n2 /\ Store(what2, n2, r2).at = r2
  BY DEF Store
<1> QED
  BY <1>1, <1>2

LEMMA StoresAre ==
  ASSUME NEW what, NEW n, NEW S, NEW what2, NEW n2, NEW r2
  PROVE  Store(what2, n2, r2) \in Stores(what, n, S) <=> what = what2 /\ n = n2 /\ r2 \in S
BY StoreIs DEF Stores

LEMMA LoopFacts ==
  /\ TypeOK => /\ loop.st \in {"bell", "returned", "mark", "offer"}
               /\ loop.st \in {"mark", "offer"} => loop.caller \in Callers
  /\ AtBell.st = "bell" /\ Returned.st = "returned"
  /\ \A c \in Callers : /\ Marking(c).st = "mark" /\ Marking(c).caller = c
                        /\ Reading(c).st = "offer" /\ Reading(c).caller = c
                        /\ Marking(c) \in [st : {"mark", "offer"}, caller : Callers]
                        /\ Reading(c) \in [st : {"mark", "offer"}, caller : Callers]
<1>1. AtBell.st = "bell" /\ Returned.st = "returned"
  BY DEF AtBell, Returned
<1>2. \A l \in [st : {"mark", "offer"}, caller : Callers] : l.st \in {"mark", "offer"} /\ l.caller \in Callers
  OBVIOUS
<1>3. TypeOK => loop \in {AtBell, Returned} \cup [st : {"mark", "offer"}, caller : Callers]
  BY DEF TypeOK
<1>4. \A c \in Callers : /\ Marking(c).st = "mark" /\ Marking(c).caller = c
                         /\ Reading(c).st = "offer" /\ Reading(c).caller = c
                         /\ Marking(c) \in [st : {"mark", "offer"}, caller : Callers]
                         /\ Reading(c) \in [st : {"mark", "offer"}, caller : Callers]
  BY DEF Marking, Reading
<1>5. TypeOK => /\ loop.st \in {"bell", "returned", "mark", "offer"}
                /\ loop.st \in {"mark", "offer"} => loop.caller \in Callers
  BY <1>1, <1>2, <1>3
<1> QED
  BY <1>1, <1>4, <1>5

\* A step of goroutine h, which moves it on to st.
Moves(h, st) ==
  /\ h \in DOMAIN handler
  /\ handler' \in Seq(HandlerRecords) /\ Len(handler') = Len(handler) /\ DOMAIN handler' = DOMAIN handler
  /\ \A g \in DOMAIN handler \ {h} : handler'[g] = handler[g]
  /\ handler'[h].caller = handler[h].caller /\ handler'[h].offer = handler[h].offer
  /\ handler'[h].st = st

LEMMA GoesMoves ==
  ASSUME TypeOK, NEW h \in DOMAIN handler, NEW st \in {"answer", "clear", "done"}, Goes(h, st)
  PROVE  Moves(h, st)
<1> DEFINE r == [handler[h] EXCEPT !.st = st]
<1>1. handler[h] \in HandlerRecords
  BY HandlerFacts
<1>2. r \in HandlerRecords /\ r.caller = handler[h].caller /\ r.offer = handler[h].offer /\ r.st = st
  BY <1>1 DEF HandlerRecords
<1>3. handler' = [handler EXCEPT ![h] = r]
  BY DEF Goes
<1> HIDE DEF r
<1>4. handler' \in Seq(HandlerRecords) /\ Len(handler') = Len(handler)
  BY <1>2, <1>3, HandlerFacts, ExceptSeq
<1>5. DOMAIN handler' = DOMAIN handler /\ handler'[h] = r /\ \A g \in DOMAIN handler \ {h} : handler'[g] = handler[g]
  BY <1>3
<1> QED
  BY <1>2, <1>4, <1>5 DEF Moves

\* A goroutine is started.
Starts(c) ==
  /\ handler' \in Seq(HandlerRecords) /\ Len(handler') = Len(handler) + 1
  /\ DOMAIN handler' = DOMAIN handler \cup {Len(handler) + 1} /\ Len(handler) + 1 \notin DOMAIN handler
  /\ \A g \in DOMAIN handler : handler'[g] = handler[g]
  /\ handler'[Len(handler) + 1].caller = c /\ handler'[Len(handler) + 1].st = "handle"

LEMMA AppendStarts ==
  ASSUME TypeOK, NEW c \in Callers, NEW i \in Offers,
         handler' = Append(handler, [caller |-> c, offer |-> i, st |-> "handle"])
  PROVE  Starts(c)
<1> DEFINE r == [caller |-> c, offer |-> i, st |-> "handle"]
<1>1. r \in HandlerRecords /\ r.caller = c /\ r.st = "handle"
  BY DEF HandlerRecords
<1> HIDE DEF r
<1>2. /\ handler' \in Seq(HandlerRecords) /\ Len(handler') = Len(handler) + 1
      /\ \A g \in 1 .. Len(handler) : handler'[g] = handler[g]
      /\ handler'[Len(handler) + 1] = r
  BY <1>1, HandlerFacts, AppendProperties DEF r
<1>3. DOMAIN handler' = 1 .. Len(handler) + 1
  BY <1>2, HandlerFacts, LenProperties
<1> QED
  BY <1>1, <1>2, <1>3, HandlerFacts DEF Starts

-----------------------------------------------------------------------------

\* A call of SendOffer begins.
Begins(i, c) ==
  /\ i \in Offers \ Used /\ Used' = Used \cup {i}
  /\ offer' \in [Offers -> {Unused} \cup CallRecords]
  /\ offer'[i].st = "offer" /\ offer'[i].caller = c
  /\ sent' = sent \cup Stores("offer", i, PairNodes)
  /\ \A j \in Offers \ {i} : offer'[j] = offer[j]

LEMMA SendOfferBegins ==
  ASSUME TypeOK, NoHoles, NEW c \in Callers, SendOffer(c)
  PROVE  (\E i \in Offers : Begins(i, c)) /\ NoHoles'
<1> DEFINE i == Cardinality(Used) + 1
           r == [st |-> "offer", caller |-> c, got |-> Missing]
<1>1. PICK k \in Nat : Used = 1 .. k
  BY DEF NoHoles
<1>2. i = k + 1 /\ i \notin Used /\ Used \cup {i} = 1 .. k + 1
  <2>1. Cardinality(1 .. k) = k
    BY FS_Interval, SMT
  <2> QED
    BY <1>1, <2>1
<1>3. i \in Offers /\ offer' = [offer EXCEPT ![i] = r] /\ sent' = sent \cup Stores("offer", i, PairNodes)
  <2>1. Cardinality(Used) + faults + (IF closed THEN 1 ELSE 0) < MaxEvents
    BY DEF SendOffer, Room
  <2>2. PICK x \in {0, 1} : x = IF closed THEN 1 ELSE 0
    OBVIOUS
  <2>3. Cardinality(Used) = k /\ i = k + 1 /\ k \in Nat /\ faults \in Nat /\ MaxEvents \in Nat
    <3>1. Cardinality(Used) = k
      <4>1. Cardinality(1 .. k) = k
        BY FS_Interval, SMT
      <4> QED
        BY <1>1, <4>1
    <3>2. faults \in Nat
      BY DEF TypeOK
    <3> QED
      BY <1>2, <3>1, <3>2, ConstantFacts
  <2>4. k + faults + x < MaxEvents
    <3>1. Cardinality(Used) + faults + x < MaxEvents
      BY <2>1, <2>2, Zenon
    <3> QED
      BY <3>1, <2>3, Zenon
  <2>5. k + 1 \in 1 .. MaxEvents
    BY <2>3, <2>4
  <2>6. i \in Offers
    BY <2>3, <2>5 DEF Offers
  <2> QED
    BY <2>6 DEF SendOffer
<1>4. r \in CallRecords /\ r.st = "offer" /\ r.caller = c
  BY DEF CallRecords
<1> HIDE DEF i, r
<1>5. /\ offer' \in [Offers -> {Unused} \cup CallRecords] /\ offer'[i] = r
      /\ \A j \in Offers \ {i} : offer'[j] = offer[j]
  BY <1>3, <1>4, CallFacts
<1>6. Used' = Used \cup {i}
  BY <1>3, <1>4, <1>5, CallFacts DEF Used, Unused
<1> QED
  BY <1>1, <1>2, <1>3, <1>4, <1>5, <1>6 DEF Begins, NoHoles

\* A call goes on to st.
Changes(i, st) ==
  /\ i \in Used /\ Used' = Used
  /\ offer' \in [Offers -> {Unused} \cup CallRecords]
  /\ offer'[i].st = st /\ offer'[i].caller = offer[i].caller
  /\ \A j \in Offers \ {i} : offer'[j] = offer[j]

LEMMA RecordChanges ==
  ASSUME TypeOK, NEW i \in Used, NEW r \in CallRecords, r.caller = offer[i].caller, offer' = [offer EXCEPT ![i] = r]
  PROVE  Changes(i, r.st) /\ offer'[i] = r
<1>1. /\ offer' \in [Offers -> {Unused} \cup CallRecords] /\ offer'[i] = r
      /\ \A j \in Offers \ {i} : offer'[j] = offer[j]
  BY CallFacts
<1>2. Used' = Used
  BY <1>1, CallFacts DEF Used, Unused
<1> QED
  BY <1>1, <1>2 DEF Changes

LEMMA BecomesChanges ==
  ASSUME TypeOK, NEW i \in Used, NEW st \in {"bell", "poll", "failed"}, Becomes(i, st)
  PROVE  Changes(i, st)
<1> DEFINE r == [offer[i] EXCEPT !.st = st]
<1>1. r \in CallRecords /\ r.caller = offer[i].caller /\ r.st = st
  BY CallFacts DEF CallRecords
<1>2. offer' = [offer EXCEPT ![i] = r]
  BY DEF Becomes
<1> HIDE DEF r
<1> QED
  BY <1>1, <1>2, RecordChanges

LEMMA AnswerChanges ==
  ASSUME TypeOK, NEW i \in Used, NEW v \in Offers, offer' = [offer EXCEPT ![i].st = "ok", ![i].got = v]
  PROVE  Changes(i, "ok") /\ offer'[i].got = v
<1> DEFINE r == [offer[i] EXCEPT !.st = "ok", !.got = v]
<1>1. r \in CallRecords /\ r.caller = offer[i].caller /\ r.st = "ok" /\ r.got = v
  BY CallFacts DEF CallRecords
<1>2. offer' = [offer EXCEPT ![i] = r]
  OBVIOUS
<1> HIDE DEF r
<1> QED
  BY <1>1, <1>2, RecordChanges

-----------------------------------------------------------------------------

\* What each action does to the calls.
LEMMA CallerChanges ==
  ASSUME TypeOK, NEW i \in Offers
  PROVE  /\ OfferStored(i) => i \in Used /\ offer[i].st = "offer" /\ Changes(i, "bell")
         /\ NobodyToRing(i) => i \in Used /\ offer[i].st = "offer" /\ Changes(i, "failed")
         /\ BellRung(i) => i \in Used /\ offer[i].st = "bell" /\ Changes(i, "poll")
         /\ GivesUp(i) => i \in Used /\ offer[i].st = "poll" /\ Changes(i, "failed")
<1>1. \A st : i \in InState(st) => i \in Used /\ offer[i].st = st
  BY DEF InState
<1>2. ASSUME OfferStored(i)
      PROVE  i \in Used /\ offer[i].st = "offer" /\ Changes(i, "bell")
  BY <1>1, <1>2, BecomesChanges DEF OfferStored
<1>3. ASSUME NobodyToRing(i)
      PROVE  i \in Used /\ offer[i].st = "offer" /\ Changes(i, "failed")
  BY <1>1, <1>3, BecomesChanges DEF NobodyToRing
<1>4. ASSUME BellRung(i)
      PROVE  i \in Used /\ offer[i].st = "bell" /\ Changes(i, "poll")
  BY <1>1, <1>4, BecomesChanges DEF BellRung
<1>5. ASSUME GivesUp(i)
      PROVE  i \in Used /\ offer[i].st = "poll" /\ Changes(i, "failed")
  BY <1>1, <1>5, BecomesChanges DEF GivesUp
<1> QED
  BY <1>2, <1>3, <1>4, <1>5

LEMMA TakeAnswerChanges ==
  ASSUME TypeOK, NEW i \in Offers, TakeAnswer(i)
  PROVE  /\ i \in Used /\ offer[i].st = "poll" /\ offer[i].caller \in Callers /\ Changes(i, "ok")
         /\ \E r \in PairNodes : /\ answerKey[offer[i].caller][r] # Missing
                                 /\ offer'[i].got = answerKey[offer[i].caller][r]
<1>1. i \in Used /\ offer[i].st = "poll" /\ offer[i].caller \in Callers
  BY CallFacts DEF TakeAnswer, InState
<1>2. PICK r \in PairNodes : /\ answerKey[offer[i].caller][r] # Missing
                             /\ offer' = [offer EXCEPT ![i].st = "ok", ![i].got = answerKey[offer[i].caller][r]]
  BY DEF TakeAnswer
<1>3. answerKey[offer[i].caller][r] \in Offers
  BY <1>1, <1>2 DEF TypeOK
<1> QED
  BY <1>1, <1>2, <1>3, AnswerChanges

\* The goroutines.
LEMMA HandlerMoves ==
  ASSUME TypeOK, NEW h
  PROVE  /\ Handles(h) => h \in DOMAIN handler /\ handler[h].st = "handle" /\ Moves(h, "answer")
         /\ HandlerFails(h) => h \in DOMAIN handler /\ handler[h].st = "handle" /\ Moves(h, "done")
         /\ AnswerStored(h) => h \in DOMAIN handler /\ handler[h].st = "answer" /\ Moves(h, "clear")
         /\ HandlerEnds(h) => h \in DOMAIN handler /\ handler[h].st = "clear" /\ Moves(h, "done")
<1>1. ASSUME Handles(h)
      PROVE  h \in DOMAIN handler /\ handler[h].st = "handle" /\ Moves(h, "answer")
  BY <1>1, GoesMoves DEF Handles, Handler
<1>2. ASSUME HandlerFails(h)
      PROVE  h \in DOMAIN handler /\ handler[h].st = "handle" /\ Moves(h, "done")
  BY <1>2, GoesMoves DEF HandlerFails, Handler
<1>3. ASSUME AnswerStored(h)
      PROVE  h \in DOMAIN handler /\ handler[h].st = "answer" /\ Moves(h, "clear")
  BY <1>3, GoesMoves DEF AnswerStored, Handler
<1>4. ASSUME HandlerEnds(h)
      PROVE  h \in DOMAIN handler /\ handler[h].st = "clear" /\ Moves(h, "done")
  BY <1>4, GoesMoves DEF HandlerEnds, Handler
<1> QED
  BY <1>1, <1>2, <1>3, <1>4

LEMMA ReadOfferStarts ==
  ASSUME TypeOK, ReadOffer
  PROVE  /\ loop.st = "offer" /\ loop.caller \in Callers
         /\ \E c \in Callers : c = loop.caller /\ Starts(c)
<1>1. loop.st = "offer" /\ loop.caller \in Callers
  BY LoopFacts DEF ReadOffer
<1>2. PICK i \in Readable(loop.caller) :
        handler' = Append(handler, [caller |-> loop.caller, offer |-> i, st |-> "handle"])
  BY DEF ReadOffer
<1>3. i \in Offers
  BY <1>1, <1>2 DEF TypeOK, Readable
<1> QED
  BY <1>1, <1>2, <1>3, AppendStarts

-----------------------------------------------------------------------------

\* The other variables in each group of actions.
StoringSteps ==
  \/ \E i \in Offers, r \in PairNodes : StoreOffer(i, r)
  \/ \E i \in Offers, r \in places : RingBell(i, r)
  \/ \E h \in Goroutines, r \in PairNodes : StoreAnswer(h, r)
  \/ \E h \in Goroutines, r \in BellNodes : ClearBell(h, r)
  \/ \E s \in sent : StoreIsLost(s)

CallSteps ==
  \/ \E c \in Callers : SendOffer(c)
  \/ \E i \in Offers : OfferStored(i) \/ NobodyToRing(i) \/ BellRung(i) \/ TakeAnswer(i) \/ GivesUp(i)

LoopSteps == ReadBell \/ Mark \/ SkipOffer \/ LoopReturns

GoroutineSteps == \E h \in Goroutines : Handles(h) \/ HandlerFails(h) \/ AnswerStored(h) \/ HandlerEnds(h)

LEMMA StepKinds ==
  ASSUME Next
  PROVE  StoringSteps \/ CallSteps \/ LoopSteps \/ ReadOffer \/ GoroutineSteps \/ Close
BY DEF Next, StoringSteps, CallSteps, LoopSteps, GoroutineSteps

LEMMA StepFrames ==
  /\ StoringSteps => UNCHANGED <<offer, places, closed, loop, processing, handler>>
  /\ CallSteps => UNCHANGED <<offerKey, answerKey, bell, places, closed, loop, processing, handler, rung>>
  /\ LoopSteps => UNCHANGED <<offer, sent, offerKey, answerKey, bell, places, closed, handler, rung>>
  /\ ReadOffer => UNCHANGED <<offer, sent, offerKey, answerKey, bell, places, closed, processing, faults, rung>>
  /\ GoroutineSteps => UNCHANGED <<offer, offerKey, answerKey, bell, places, closed, loop, rung>>
  /\ Close => UNCHANGED <<offer, sent, offerKey, answerKey, bell, places, loop, processing, handler, faults, rung>>
<1> USE DEF keys, callee
<1>1. StoringSteps => UNCHANGED <<offer, places, closed, loop, processing, handler>>
  BY DEF StoringSteps, StoreOffer, RingBell, StoreAnswer, ClearBell, StoreIsLost
<1>2. CallSteps => UNCHANGED <<offerKey, answerKey, bell, places, closed, loop, processing, handler, rung>>
  BY DEF CallSteps, SendOffer, OfferStored, NobodyToRing, BellRung, TakeAnswer, GivesUp
<1>3. LoopSteps => UNCHANGED <<offer, sent, offerKey, answerKey, bell, places, closed, handler, rung>>
  BY DEF LoopSteps, ReadBell, Mark, SkipOffer, LoopReturns
<1>4. ReadOffer => UNCHANGED <<offer, sent, offerKey, answerKey, bell, places, closed, processing, faults, rung>>
  BY DEF ReadOffer
<1>5. GoroutineSteps => UNCHANGED <<offer, offerKey, answerKey, bell, places, closed, loop, rung>>
  BY DEF GoroutineSteps, Handles, HandlerFails, AnswerStored, HandlerEnds
<1>6. Close => UNCHANGED <<offer, sent, offerKey, answerKey, bell, places, loop, processing, handler, faults, rung>>
  BY DEF Close
<1> QED
  BY <1>1, <1>2, <1>3, <1>4, <1>5, <1>6

\* A fault is counted, and none is forgotten.
LEMMA FaultsGrow ==
  ASSUME faults \in Nat, Next
  PROVE  faults' \in Nat /\ faults <= faults'
<1>1. Fault => faults' = faults + 1
  BY DEF Fault
<1>2. \A what, n : StoreReturns(what, n) => faults' = faults \/ faults' = faults + 1
  BY <1>1 DEF StoreReturns
<1>3. faults' = faults \/ faults' = faults + 1
  BY <1>1, <1>2 DEF Next, StoreIsLost, SendOffer, StoreOffer, OfferStored, NobodyToRing, RingBell, BellRung, TakeAnswer,
    GivesUp, ReadBell, Mark, ReadOffer, SkipOffer, Handles, HandlerFails, StoreAnswer, AnswerStored, ClearBell,
    HandlerEnds, Close, LoopReturns
<1> QED
  BY <1>3

-----------------------------------------------------------------------------

\* Type correctness.
CallsOK == offer \in [Offers -> {Unused} \cup CallRecords]
SentOK == sent \subseteq StoreRecords
KeysOK ==
  /\ offerKey \in [Callers -> [PairNodes -> Offers \cup {Missing}]]
  /\ answerKey \in [Callers -> [PairNodes -> Offers \cup {Missing}]]
BellOK ==
  /\ bell \in [BellNodes \cup {Own} -> Callers \cup {NoRing, Cleared}]
  /\ rung \subseteq Used \X places
LoopOK ==
  /\ loop \in {AtBell, Returned} \cup [st : {"mark", "offer"}, caller : Callers]
  /\ processing \subseteq Callers
OthersOK ==
  /\ handler \in Seq(HandlerRecords)
  /\ places \in BellSets /\ closed \in BOOLEAN /\ faults \in Nat

LEMMA TypeParts == TypeOK <=> CallsOK /\ SentOK /\ KeysOK /\ BellOK /\ LoopOK /\ OthersOK
BY DEF TypeOK, CallsOK, SentOK, KeysOK, BellOK, LoopOK, OthersOK, CallRecords, HandlerRecords, StoreRecords

LEMMA CallsPreserved ==
  ASSUME TypeOK, NoHoles, Next
  PROVE  CallsOK' /\ NoHoles' /\ Used \subseteq Used'
<1>0. CallsOK
  BY TypeParts
<1>1. CASE offer' = offer
  BY <1>0, <1>1 DEF CallsOK, NoHoles, Used
<1>2. ASSUME NEW c \in Callers, SendOffer(c)
      PROVE  CallsOK' /\ NoHoles' /\ Used \subseteq Used'
  BY <1>2, SendOfferBegins DEF Begins, CallsOK
<1>3. ASSUME NEW i, NEW st, Changes(i, st)
      PROVE  CallsOK' /\ NoHoles' /\ Used \subseteq Used'
  BY <1>3 DEF Changes, CallsOK, NoHoles
<1>4. ASSUME NEW i \in Offers, OfferStored(i) \/ NobodyToRing(i) \/ BellRung(i) \/ TakeAnswer(i) \/ GivesUp(i)
      PROVE  CallsOK' /\ NoHoles' /\ Used \subseteq Used'
  BY <1>3, <1>4, CallerChanges, TakeAnswerChanges
<1>5. offer' = offer \/ CallSteps
  BY StepKinds, StepFrames
<1> QED
  BY <1>1, <1>2, <1>4, <1>5 DEF CallSteps

LEMMA HandlersPreserved ==
  ASSUME TypeOK, Next
  PROVE  /\ handler' \in Seq(HandlerRecords) /\ DOMAIN handler \subseteq DOMAIN handler'
         /\ places \in BellSets /\ places' = places /\ closed' \in BOOLEAN /\ faults' \in Nat
<1>0. OthersOK
  BY TypeParts
<1>1. handler' \in Seq(HandlerRecords) /\ DOMAIN handler \subseteq DOMAIN handler'
  <2>1. CASE handler' = handler
    BY <1>0, <2>1 DEF OthersOK
  <2>2. CASE ReadOffer
    BY <2>2, ReadOfferStarts DEF Starts
  <2>3. ASSUME NEW h, NEW st, Moves(h, st)
        PROVE  handler' \in Seq(HandlerRecords) /\ DOMAIN handler \subseteq DOMAIN handler'
    BY <2>3 DEF Moves
  <2>4. ASSUME NEW h, Handles(h) \/ HandlerFails(h) \/ AnswerStored(h) \/ HandlerEnds(h)
        PROVE  handler' \in Seq(HandlerRecords) /\ DOMAIN handler \subseteq DOMAIN handler'
    BY <2>3, <2>4, HandlerMoves
  <2>5. handler' = handler \/ ReadOffer \/ GoroutineSteps
    BY StepKinds, StepFrames
  <2> QED
    BY <2>1, <2>2, <2>4, <2>5 DEF GoroutineSteps
<1>2. places' = places
  BY StepKinds, StepFrames
<1>3. closed' \in BOOLEAN
  <2>1. closed' = closed \/ Close
    BY StepKinds, StepFrames
  <2> QED
    BY <1>0, <2>1 DEF Close, OthersOK
<1>4. faults' \in Nat
  BY <1>0, FaultsGrow DEF OthersOK
<1> QED
  BY <1>0, <1>1, <1>2, <1>3, <1>4 DEF OthersOK

LEMMA SentPreserved ==
  ASSUME TypeOK, NoHoles, Next
  PROVE  SentOK'
<1>1. StoreRecords \subseteq StoreRecords'
  BY CallsPreserved, HandlersPreserved DEF StoreRecords
<1>2. sent \subseteq StoreRecords'
  BY <1>1, SentFacts
<1>3. CASE sent' \subseteq sent
  BY <1>2, <1>3 DEF SentOK
<1>4. ASSUME NEW c \in Callers, SendOffer(c)
      PROVE  SentOK'
  <2>1. PICK i \in Offers : Begins(i, c)
    BY <1>4, SendOfferBegins
  <2>2. i \in Used' /\ sent' = sent \cup Stores("offer", i, PairNodes)
    BY <2>1 DEF Begins
  <2>3. Stores("offer", i, PairNodes) \subseteq StoreRecords'
    BY <2>2 DEF Stores, Store, StoreRecords
  <2> QED
    BY <1>2, <2>2, <2>3 DEF SentOK
<1>5. ASSUME NEW i \in Offers, OfferStored(i)
      PROVE  SentOK'
  <2>1. i \in Used' /\ places' = places /\ sent' = sent \cup Stores("bell", i, places)
    BY <1>5, CallerChanges, CallsPreserved, HandlersPreserved DEF OfferStored
  <2>2. Stores("bell", i, places) \subseteq StoreRecords'
    BY <2>1 DEF Stores, Store, StoreRecords
  <2> QED
    BY <1>2, <2>1, <2>2 DEF SentOK
<1>6. ASSUME NEW h, Handles(h)
      PROVE  SentOK'
  <2>1. h \in DOMAIN handler' /\ sent' = sent \cup Stores("answer", h, PairNodes)
    BY <1>6, HandlerMoves, HandlersPreserved DEF Handles
  <2>2. Stores("answer", h, PairNodes) \subseteq StoreRecords'
    BY <2>1 DEF Stores, Store, StoreRecords
  <2> QED
    BY <1>2, <2>1, <2>2 DEF SentOK
<1>7. ASSUME NEW h, AnswerStored(h)
      PROVE  SentOK'
  <2>1. h \in DOMAIN handler' /\ sent' = sent \cup Stores("clear", h, BellNodes)
    BY <1>7, HandlerMoves, HandlersPreserved DEF AnswerStored
  <2>2. Stores("clear", h, BellNodes) \subseteq StoreRecords'
    BY <2>1 DEF Stores, Store, StoreRecords
  <2> QED
    BY <1>2, <2>1, <2>2 DEF SentOK
<1>8. StoringSteps => sent' \subseteq sent
  BY DEF StoringSteps, StoreOffer, RingBell, StoreAnswer, ClearBell, StoreIsLost, Lands
<1>9. CallSteps => sent' \subseteq sent \/ (\E c \in Callers : SendOffer(c)) \/ \E i \in Offers : OfferStored(i)
  BY DEF CallSteps, NobodyToRing, BellRung, TakeAnswer, GivesUp
<1>10. GoroutineSteps => sent' \subseteq sent \/ \E h \in Goroutines : Handles(h) \/ AnswerStored(h)
  BY DEF GoroutineSteps, HandlerFails, HandlerEnds
<1> QED
  BY <1>3, <1>4, <1>5, <1>6, <1>7, <1>8, <1>9, <1>10, StepKinds, StepFrames

LEMMA KeysPreserved ==
  ASSUME TypeOK, NoHoles, Next
  PROVE  KeysOK'
<1>0. KeysOK
  BY TypeParts
<1>1. ASSUME NEW i \in Offers, NEW r \in PairNodes, StoreOffer(i, r)
      PROVE  KeysOK'
  <2>1. i \in Used /\ offer[i].caller \in Callers
    BY <1>1, SentFacts, CallFacts DEF StoreOffer, Lands
  <2>2. offerKey' = [offerKey EXCEPT ![offer[i].caller][r] = i] /\ answerKey' = answerKey
    BY <1>1 DEF StoreOffer
  <2> QED
    BY <1>0, <2>1, <2>2 DEF KeysOK
<1>2. ASSUME NEW h, NEW r \in PairNodes, StoreAnswer(h, r)
      PROVE  KeysOK'
  <2>1. handler[h].offer \in Offers /\ handler[h].caller \in Callers
    BY <1>2, SentFacts, HandlerFacts DEF StoreAnswer, Lands
  <2>2. answerKey' = [answerKey EXCEPT ![handler[h].caller][r] = handler[h].offer] /\ offerKey' = offerKey
    BY <1>2 DEF StoreAnswer
  <2> QED
    BY <1>0, <2>1, <2>2 DEF KeysOK
<1>3. StoringSteps => \/ UNCHANGED <<offerKey, answerKey>>
                      \/ \E i \in Offers, r \in PairNodes : StoreOffer(i, r)
                      \/ \E h \in Goroutines, r \in PairNodes : StoreAnswer(h, r)
  BY DEF StoringSteps, RingBell, ClearBell, StoreIsLost, keys
<1>4. CASE UNCHANGED <<offerKey, answerKey>>
  BY <1>0, <1>4 DEF KeysOK
<1> QED
  BY <1>1, <1>2, <1>3, <1>4, StepKinds, StepFrames

LEMMA BellPreserved ==
  ASSUME TypeOK, NoHoles, Next
  PROVE  BellOK'
<1>0. BellOK /\ Used \subseteq Used' /\ places' = places
  BY TypeParts, CallsPreserved, HandlersPreserved
<1>1. ASSUME NEW i \in Offers, NEW r \in places, RingBell(i, r)
      PROVE  BellOK'
  <2>1. i \in Used /\ offer[i].caller \in Callers
    BY <1>1, SentFacts, CallFacts DEF RingBell, Lands
  <2>2. bell' = [bell EXCEPT ![r] = offer[i].caller] /\ rung' = rung \cup {<<i, r>>}
    BY <1>1 DEF RingBell
  <2>3. bell' \in [BellNodes \cup {Own} -> Callers \cup {NoRing, Cleared}]
    BY <1>0, <2>1, <2>2 DEF BellOK
  <2>4. <<i, r>> \in Used' \X places'
    BY <1>0, <2>1
  <2>5. rung \subseteq Used' \X places'
    BY <1>0 DEF BellOK
  <2> QED
    BY <2>2, <2>3, <2>4, <2>5 DEF BellOK
<1>2. ASSUME NEW h, NEW r \in BellNodes, ClearBell(h, r)
      PROVE  BellOK'
  <2>1. bell' = [bell EXCEPT ![r] = Cleared] /\ rung' = rung
    BY <1>2 DEF ClearBell
  <2> QED
    BY <1>0, <2>1 DEF BellOK
<1>3. StoringSteps => \/ UNCHANGED <<bell, rung>>
                      \/ \E i \in Offers, r \in places : RingBell(i, r)
                      \/ \E h \in Goroutines, r \in BellNodes : ClearBell(h, r)
  BY DEF StoringSteps, StoreOffer, StoreAnswer, StoreIsLost, keys
<1>4. CASE UNCHANGED <<bell, rung>>
  BY <1>0, <1>4 DEF BellOK
<1> QED
  BY <1>1, <1>2, <1>3, <1>4, StepKinds, StepFrames

LEMMA LoopPreserved ==
  ASSUME TypeOK, Next
  PROVE  LoopOK'
<1>0. LoopOK
  BY TypeParts
<1>1. CASE LoopSteps
  <2>1. loop' \in {AtBell, Returned} \cup [st : {"mark", "offer"}, caller : Callers]
    BY <1>1, LoopFacts DEF LoopSteps, ReadBell, Mark, SkipOffer, LoopReturns
  <2>2. processing' \subseteq Callers
    BY <1>0, <1>1, LoopFacts DEF LoopSteps, ReadBell, Mark, SkipOffer, LoopReturns, NoLonger, LoopOK
  <2> QED
    BY <2>1, <2>2 DEF LoopOK
<1>2. CASE ReadOffer
  BY <1>0, <1>2 DEF ReadOffer, LoopOK
<1>3. CASE GoroutineSteps
  <2>1. processing' \subseteq processing /\ loop' = loop
    BY <1>3, StepFrames DEF GoroutineSteps, Handles, HandlerFails, AnswerStored, HandlerEnds, NoLonger
  <2> QED
    BY <1>0, <2>1 DEF LoopOK
<1>4. CASE UNCHANGED <<loop, processing>>
  BY <1>0, <1>4 DEF LoopOK
<1> QED
  BY <1>1, <1>2, <1>3, <1>4, StepKinds, StepFrames

LEMMA TypePreserved ==
  ASSUME TypeOK, NoHoles, Next
  PROVE  TypeOK'
<1>1. OthersOK'
  BY HandlersPreserved DEF OthersOK
<1>2. (CallsOK /\ SentOK /\ KeysOK /\ BellOK /\ LoopOK /\ OthersOK)'
  BY <1>1, CallsPreserved, SentPreserved, KeysPreserved, BellPreserved, LoopPreserved
<1> QED
  BY <1>2, TypeParts DEF TypeOK, CallsOK, SentOK, KeysOK, BellOK, LoopOK, OthersOK, CallRecords, HandlerRecords, StoreRecords

-----------------------------------------------------------------------------

\* The callee's loop and goroutines change together in these ways only.
CalleeStep ==
  \/ UNCHANGED callee
  \/ /\ loop.st = "bell" /\ loop'.st \in {"mark", "returned"}
     /\ UNCHANGED <<processing, handler>>
  \/ Mark \/ ReadOffer \/ SkipOffer
  \/ \E h \in DOMAIN handler :
       /\ \/ handler[h].st = "handle" /\ Moves(h, "answer")
          \/ handler[h].st = "answer" /\ Moves(h, "clear")
       /\ UNCHANGED <<loop, processing>>
  \/ \E h \in DOMAIN handler :
       /\ handler[h].st \in {"handle", "clear"} /\ Moves(h, "done")
       /\ loop' = loop /\ processing' = processing \ {handler[h].caller}

LEMMA StepOfCallee ==
  ASSUME TypeOK, Next
  PROVE  CalleeStep
<1>1. CASE ReadBell \/ LoopReturns
  BY <1>1, LoopFacts DEF ReadBell, LoopReturns, CalleeStep, TypeOK
<1>2. ASSUME NEW h, Handles(h) \/ AnswerStored(h)
      PROVE  CalleeStep
  <2>1. h \in DOMAIN handler /\ UNCHANGED <<loop, processing>>
    BY <1>2 DEF Handles, AnswerStored, Handler
  <2> QED
    BY <1>2, <2>1, HandlerMoves DEF CalleeStep
<1>3. ASSUME NEW h, HandlerFails(h) \/ HandlerEnds(h)
      PROVE  CalleeStep
  <2>1. h \in DOMAIN handler /\ loop' = loop /\ processing' = processing \ {handler[h].caller}
    BY <1>3 DEF HandlerFails, HandlerEnds, Handler, NoLonger
  <2> QED
    BY <1>3, <2>1, HandlerMoves DEF CalleeStep
<1>4. CASE StoringSteps \/ CallSteps \/ Close
  BY <1>4, StepFrames DEF CalleeStep, callee
<1> QED
  BY <1>1, <1>2, <1>3, <1>4, StepKinds DEF LoopSteps, GoroutineSteps, CalleeStep

LEMMA MarksPreserved ==
  ASSUME TypeOK, MarksMatch, CalleeStep
  PROVE  MarksMatch'
<1> USE DEF MarksMatch
<1>1. ASSUME UNCHANGED callee
      PROVE  MarksMatch'
  BY <1>1 DEF callee, Running
<1>2. ASSUME loop.st = "bell", loop'.st \in {"mark", "returned"}, UNCHANGED <<processing, handler>>
      PROVE  MarksMatch'
  BY <1>2 DEF Running
<1>3. ASSUME Mark
      PROVE  MarksMatch'
  <2>1. /\ loop.st = "mark" /\ loop.caller \in Callers /\ handler' = handler /\ Running' = Running
        /\ processing' = processing \cup {loop.caller}
    BY <1>3, LoopFacts DEF Mark, Running
  <2>2. CASE loop.caller \in processing
    <3>1. loop'.st = "bell" /\ processing' = processing
      BY <1>3, <2>1, <2>2, LoopFacts DEF Mark
    <3> QED
      BY <2>1, <3>1
  <2>3. CASE loop.caller \notin processing
    <3>1. loop'.st = "offer" /\ loop'.caller = loop.caller
      BY <1>3, <2>1, <2>3, LoopFacts DEF Mark
    <3>2. \A h \in Running : handler[h].caller # loop.caller
      BY <2>3
    <3> QED
      BY <2>1, <3>1, <3>2
  <2> QED
    BY <2>2, <2>3
<1>4. ASSUME ReadOffer
      PROVE  MarksMatch'
  <2>1. PICK c \in Callers : c = loop.caller /\ Starts(c)
    BY <1>4, ReadOfferStarts
  <2> DEFINE n == Len(handler) + 1
  <2>2. loop.st = "offer" /\ loop'.st = "bell" /\ processing' = processing
    BY <1>4, LoopFacts DEF ReadOffer
  <2>3. /\ n \notin Running /\ handler'[n].caller = c /\ Running' = Running \cup {n}
        /\ \A h \in Running : handler'[h] = handler[h]
    BY <2>1 DEF Running, Starts
  <2> HIDE DEF n
  <2>4. processing = {handler[h].caller : h \in Running} \cup {c} /\ \A h \in Running : handler[h].caller # c
    BY <2>1, <2>2
  <2>5. {handler'[h].caller : h \in Running'} = {handler[h].caller : h \in Running} \cup {c}
    BY <2>3
  <2> QED
    BY <2>2, <2>3, <2>4, <2>5
<1>5. ASSUME SkipOffer
      PROVE  MarksMatch'
  <2>1. /\ loop.st = "offer" /\ loop'.st = "bell" /\ processing' = processing \ {loop.caller}
        /\ handler' = handler /\ Running' = Running
    BY <1>5, LoopFacts DEF SkipOffer, NoLonger, Running
  <2>2. processing = {handler[h].caller : h \in Running} \cup {loop.caller} /\ \A h \in Running : handler[h].caller # loop.caller
    BY <2>1
  <2> QED
    BY <2>1, <2>2
<1>6. ASSUME NEW h \in DOMAIN handler, NEW st, st # "done", handler[h].st # "done", Moves(h, st),
             UNCHANGED <<loop, processing>>
      PROVE  MarksMatch'
  <2>1. Running' = Running /\ \A g \in Running : handler'[g].caller = handler[g].caller
    BY <1>6 DEF Running, Moves
  <2>2. {handler'[g].caller : g \in Running'} = {handler[g].caller : g \in Running}
    BY <2>1
  <2> QED
    BY <1>6, <2>1, <2>2
<1>7. ASSUME NEW h \in DOMAIN handler, handler[h].st \in {"handle", "clear"}, Moves(h, "done"),
             loop' = loop, processing' = processing \ {handler[h].caller}
      PROVE  MarksMatch'
  <2>1. h \in Running /\ Running' = Running \ {h} /\ \A g \in Running \ {h} : handler'[g].caller = handler[g].caller
    BY <1>7 DEF Running, Moves
  <2>2. {handler'[g].caller : g \in Running'} = {handler[g].caller : g \in Running} \ {handler[h].caller}
    BY <2>1
  <2>3. loop.st = "offer" => loop.caller # handler[h].caller
    BY <2>1
  <2> QED
    BY <1>7, <2>1, <2>2, <2>3
<1>8. ASSUME NEW h \in DOMAIN handler,
             \/ handler[h].st = "handle" /\ Moves(h, "answer")
             \/ handler[h].st = "answer" /\ Moves(h, "clear"),
             UNCHANGED <<loop, processing>>
      PROVE  MarksMatch'
  BY <1>6, <1>8
<1> QED
  BY <1>1, <1>2, <1>3, <1>4, <1>5, <1>7, <1>8 DEF CalleeStep

-----------------------------------------------------------------------------

LEMMA StaysHandled ==
  ASSUME TypeOK, CalleeStep, NEW c, NEW v, Handled(c, v)
  PROVE  Handled(c, v)'
<1> USE DEF Handled
<1>1. CASE handler' = handler
  BY <1>1
<1>2. CASE ReadOffer
  BY <1>2, ReadOfferStarts DEF Starts
<1>3. ASSUME NEW h \in DOMAIN handler, NEW st, Moves(h, st), st # "handle"
      PROVE  Handled(c, v)'
  BY <1>3 DEF Moves
<1> QED
  BY <1>1, <1>2, <1>3 DEF CalleeStep, callee, Mark, SkipOffer

\* A goroutine that has handled its offer goes on to other things.
LEMMA StaysBeyond ==
  ASSUME TypeOK, CalleeStep, NEW h \in DOMAIN handler, handler[h].st # "handle"
  PROVE  h \in DOMAIN handler' /\ handler'[h].st # "handle"
<1>1. CASE handler' = handler
  BY <1>1
<1>2. CASE ReadOffer
  BY <1>2, ReadOfferStarts DEF Starts
<1>3. ASSUME NEW g \in DOMAIN handler, NEW st, Moves(g, st), st # "handle"
      PROVE  h \in DOMAIN handler' /\ handler'[h].st # "handle"
  BY <1>3 DEF Moves
<1> QED
  BY <1>1, <1>2, <1>3 DEF CalleeStep, callee, Mark, SkipOffer

\* Which Stores a step adds.
LEMMA SentGrows ==
  ASSUME Next
  PROVE  /\ \A h, r : Store("answer", h, r) \in sent' => Store("answer", h, r) \in sent \/ Handles(h)
         /\ \A i, r : Store("bell", i, r) \in sent' => Store("bell", i, r) \in sent \/ OfferStored(i)
<1>1. CASE sent' \subseteq sent
  BY <1>1
<1>2. ASSUME NEW c \in Callers, SendOffer(c)
      PROVE  \E i : sent' = sent \cup Stores("offer", i, PairNodes)
  BY <1>2 DEF SendOffer
<1>3. ASSUME NEW i \in Offers, OfferStored(i)
      PROVE  sent' = sent \cup Stores("bell", i, places)
  BY <1>3 DEF OfferStored
<1>4. ASSUME NEW h, Handles(h)
      PROVE  sent' = sent \cup Stores("answer", h, PairNodes)
  BY <1>4 DEF Handles
<1>5. ASSUME NEW h, AnswerStored(h)
      PROVE  sent' = sent \cup Stores("clear", h, BellNodes)
  BY <1>5 DEF AnswerStored
<1>6. StoringSteps => sent' \subseteq sent
  BY DEF StoringSteps, StoreOffer, RingBell, StoreAnswer, ClearBell, StoreIsLost, Lands
<1>7. CallSteps => sent' \subseteq sent \/ (\E c \in Callers : SendOffer(c)) \/ \E i \in Offers : OfferStored(i)
  BY DEF CallSteps, NobodyToRing, BellRung, TakeAnswer, GivesUp
<1>8. GoroutineSteps => sent' \subseteq sent \/ \E h \in Goroutines : Handles(h) \/ AnswerStored(h)
  BY DEF GoroutineSteps, HandlerFails, HandlerEnds
<1>9. \/ sent' \subseteq sent
      \/ \E i : sent' = sent \cup Stores("offer", i, PairNodes)
      \/ \E i \in Offers : OfferStored(i) /\ sent' = sent \cup Stores("bell", i, places)
      \/ \E h : Handles(h) /\ sent' = sent \cup Stores("answer", h, PairNodes)
      \/ \E h : sent' = sent \cup Stores("clear", h, BellNodes)
  BY <1>2, <1>3, <1>4, <1>5, <1>6, <1>7, <1>8, StepKinds, StepFrames
<1> QED
  BY <1>1, <1>9, StoresAre

LEMMA AnswersStoredPreserved ==
  ASSUME TypeOK, AnswersStored, Next
  PROVE  AnswersStored'
<1>1. \A c, v : Handled(c, v) => Handled(c, v)'
  BY StepOfCallee, StaysHandled
<1>2. ASSUME NEW h, NEW r, Store("answer", h, r) \in sent'
      PROVE  handler'[h].st # "handle"
  <2>1. CASE Handles(h)
    BY <2>1, HandlerMoves DEF Moves
  <2>2. CASE Store("answer", h, r) \in sent
    <3>1. h \in DOMAIN handler /\ handler[h].st # "handle"
      BY <2>2, SentFacts DEF AnswersStored
    <3> QED
      BY <3>1, StepOfCallee, StaysBeyond
  <2> QED
    BY <1>2, <2>1, <2>2, SentGrows
<1>3. CASE answerKey' = answerKey
  BY <1>1, <1>2, <1>3 DEF AnswersStored
<1>4. ASSUME NEW h, NEW r \in PairNodes, StoreAnswer(h, r)
      PROVE  AnswersStored'
  <2>1. h \in DOMAIN handler /\ handler[h].st # "handle" /\ handler[h].caller \in Callers
    BY <1>4, SentFacts, HandlerFacts DEF StoreAnswer, Lands, AnswersStored
  <2>2. Handled(handler[h].caller, handler[h].offer)
    BY <2>1 DEF Handled
  <2>3. answerKey' = [answerKey EXCEPT ![handler[h].caller][r] = handler[h].offer]
    BY <1>4 DEF StoreAnswer
  <2>4. answerKey \in [Callers -> [PairNodes -> Offers \cup {Missing}]]
    BY DEF TypeOK
  <2>5. \A c \in Callers, q \in PairNodes :
          \/ answerKey'[c][q] = answerKey[c][q]
          \/ c = handler[h].caller /\ answerKey'[c][q] = handler[h].offer
    <3>1. ASSUME NEW c \in Callers, NEW q \in PairNodes
          PROVE  \/ answerKey'[c][q] = answerKey[c][q]
                 \/ c = handler[h].caller /\ answerKey'[c][q] = handler[h].offer
      <4>1. CASE c # handler[h].caller
        BY <2>3, <2>4, <4>1
      <4>2. CASE c = handler[h].caller
        <5>1. answerKey'[c] = [answerKey[c] EXCEPT ![r] = handler[h].offer]
          BY <2>3, <2>4, <4>2
        <5>2. answerKey[c] \in [PairNodes -> Offers \cup {Missing}]
          BY <2>4
        <5> QED
          BY <4>2, <5>1, <5>2
      <4> QED
        BY <4>1, <4>2
    <3> QED
      BY <3>1
  <2>6. \A c \in Callers, q \in PairNodes : answerKey'[c][q] # Missing => Handled(c, answerKey'[c][q])
    BY <2>2, <2>5 DEF AnswersStored
  <2>7. \A c \in Callers, q \in PairNodes : answerKey'[c][q] # Missing =>
          \E v : v = answerKey'[c][q] /\ Handled(c, v)'
    BY <1>1, <2>6
  <2>8. \A c \in Callers, q \in PairNodes : answerKey'[c][q] # Missing =>
          \E g \in DOMAIN handler' :
            handler'[g].offer = answerKey'[c][q] /\ handler'[g].caller = c /\ handler'[g].st # "handle"
    BY <2>7 DEF Handled
  <2> QED
    BY <1>2, <2>8 DEF AnswersStored, Handled
<1>5. StoringSteps => answerKey' = answerKey \/ \E h \in Goroutines, r \in PairNodes : StoreAnswer(h, r)
  BY DEF StoringSteps, StoreOffer, RingBell, ClearBell, StoreIsLost, keys
<1> QED
  BY <1>3, <1>4, <1>5, StepKinds, StepFrames

\* The other calls stay what they are.
LEMMA OthersStay ==
  ASSUME TypeOK, NEW i, NEW st, Changes(i, st)
  PROVE  /\ \A s : \A j \in InState(s)' : (j = i /\ s = st) \/ (j \in InState(s) /\ offer'[j] = offer[j])
         /\ \A j \in Used : offer'[j].st = st \/ offer'[j] = offer[j]
<1>1. Used' = Used /\ Used \subseteq Offers /\ offer'[i].st = st
  BY CallFacts DEF Changes
<1>2. \A j \in Used : j = i \/ offer'[j] = offer[j]
  BY <1>1 DEF Changes
<1>3. ASSUME NEW s, NEW j \in InState(s)'
      PROVE  (j = i /\ s = st) \/ (j \in InState(s) /\ offer'[j] = offer[j])
  <2>1. j \in Used /\ offer'[j].st = s
    BY <1>1, <1>3 DEF InState
  <2> QED
    BY <1>1, <1>2, <2>1 DEF InState
<1> QED
  BY <1>1, <1>2, <1>3

LEMMA AnswersOfCallerPreserved ==
  ASSUME TypeOK, NoHoles, AnswersStored, AnswersOfCaller, Next
  PROVE  AnswersOfCaller'
<1>1. \A i \in InState("ok") : i \in Used /\ Handled(offer[i].caller, offer[i].got)
  BY CallFacts DEF AnswersOfCaller, Handled
<1>2. \A c, v : Handled(c, v) => Handled(c, v)'
  BY StepOfCallee, StaysHandled
<1>3. ASSUME \A i \in InState("ok")' : /\ offer'[i].caller = offer[i].caller
                                       /\ Handled(offer[i].caller, offer'[i].got)
      PROVE  AnswersOfCaller'
  <2> SUFFICES ASSUME NEW i \in InState("ok")'
               PROVE  \E h \in DOMAIN handler' :
                        /\ handler'[h].offer = offer'[i].got /\ handler'[h].caller = offer'[i].caller
                        /\ handler'[h].st # "handle"
    BY DEF AnswersOfCaller
  <2>1. \E c, v : c = offer'[i].caller /\ v = offer'[i].got /\ Handled(c, v)'
    BY <1>2, <1>3
  <2> QED
    BY <2>1 DEF Handled
<1>4. ASSUME NEW i \in Used, NEW st \in {"bell", "poll", "failed"}, Changes(i, st)
      PROVE  AnswersOfCaller'
  <2>1. \A j \in InState("ok")' : j \in InState("ok") /\ offer'[j] = offer[j]
    BY <1>4, OthersStay
  <2> QED
    BY <1>1, <1>3, <2>1
<1>5. ASSUME NEW i \in Offers, TakeAnswer(i)
      PROVE  AnswersOfCaller'
  <2>1. Changes(i, "ok") /\ offer[i].caller \in Callers
    BY <1>5, TakeAnswerChanges
  <2>2. Handled(offer[i].caller, offer'[i].got)
    BY <1>5, TakeAnswerChanges DEF AnswersStored
  <2>3. \A j \in InState("ok")' : j = i \/ (j \in InState("ok") /\ offer'[j] = offer[j])
    BY <2>1, OthersStay
  <2> QED
    BY <1>1, <1>3, <2>1, <2>2, <2>3 DEF Changes
<1>6. ASSUME NEW c \in Callers, SendOffer(c)
      PROVE  AnswersOfCaller'
  <2>1. \A j \in InState("ok")' : j \in InState("ok") /\ offer'[j] = offer[j]
    BY <1>6, SendOfferBegins, CallFacts DEF Begins, InState
  <2> QED
    BY <1>1, <1>3, <2>1
<1>7. CASE offer' = offer
  <2>1. InState("ok")' = InState("ok")
    BY <1>7 DEF InState, Used
  <2> QED
    BY <1>1, <1>3, <1>7, <2>1
<1>8. ASSUME NEW i \in Offers, OfferStored(i) \/ NobodyToRing(i) \/ BellRung(i) \/ GivesUp(i)
      PROVE  AnswersOfCaller'
  BY <1>4, <1>8, CallerChanges
<1>9. offer' = offer \/ CallSteps
  BY StepKinds, StepFrames
<1> QED
  BY <1>5, <1>6, <1>7, <1>8, <1>9 DEF CallSteps

\* A call that rings has stored its offer, and goes on.
LEMMA StaysStored ==
  ASSUME TypeOK, NoHoles, Next, NEW i \in Used, offer[i].st # "offer"
  PROVE  i \in Used' /\ offer'[i].st # "offer"
<1>1. i \in Used'
  BY CallsPreserved
<1>2. ASSUME offer' = offer
      PROVE  offer'[i].st # "offer"
  BY <1>2
<1>3. ASSUME NEW c \in Callers, SendOffer(c)
      PROVE  offer'[i].st # "offer"
  BY <1>3, SendOfferBegins, CallFacts DEF Begins
<1>4. ASSUME NEW j, NEW st \in {"bell", "poll", "ok", "failed"}, Changes(j, st)
      PROVE  offer'[i].st # "offer"
  BY <1>4, OthersStay
<1>5. ASSUME NEW j \in Offers, OfferStored(j) \/ NobodyToRing(j) \/ BellRung(j) \/ TakeAnswer(j) \/ GivesUp(j)
      PROVE  offer'[i].st # "offer"
  BY <1>4, <1>5, CallerChanges, TakeAnswerChanges
<1>6. offer' = offer \/ CallSteps
  BY StepKinds, StepFrames
<1> QED
  BY <1>1, <1>2, <1>3, <1>5, <1>6 DEF CallSteps

\* What a step adds to the Stores of rings that have landed.
LEMMA RungGrows ==
  ASSUME Next
  PROVE  rung' = rung \/ \E i \in Offers, r \in places : RingBell(i, r) /\ rung' = rung \cup {<<i, r>>}
<1>1. \A i \in Offers, r \in places : RingBell(i, r) => rung' = rung \cup {<<i, r>>}
  BY DEF RingBell
<1>2. StoringSteps => rung' = rung \/ \E i \in Offers, r \in places : RingBell(i, r)
  BY DEF StoringSteps, StoreOffer, StoreAnswer, ClearBell, StoreIsLost
<1> QED
  BY <1>1, <1>2, StepKinds, StepFrames

LEMMA RungOncePreserved ==
  ASSUME TypeOK, NoHoles, RungOnce, Next
  PROVE  RungOnce'
<1>1. ASSUME NEW i, NEW r, <<i, r>> \in rung' \/ Store("bell", i, r) \in sent'
      PROVE  i \in Used' /\ offer'[i].st # "offer"
  <2>1. CASE <<i, r>> \in rung \/ Store("bell", i, r) \in sent
    <3>1. i \in Used /\ offer[i].st # "offer"
      BY <2>1, SentFacts DEF RungOnce
    <3> QED
      BY <3>1, StaysStored
  <2>2. CASE <<i, r>> \in rung' /\ <<i, r>> \notin rung
    <3>1. RingBell(i, r)
      BY <2>2, RungGrows
    <3> QED
      BY <2>1, <3>1 DEF RingBell, Lands
  <2>3. CASE Store("bell", i, r) \in sent' /\ Store("bell", i, r) \notin sent
    <3>1. OfferStored(i)
      BY <2>3, SentGrows
    <3>2. i \in InState("offer") /\ InState("offer") \subseteq Used /\ Used \subseteq Offers
      BY <3>1, CallFacts DEF OfferStored
    <3>3. Changes(i, "bell")
      BY <3>1, <3>2, CallerChanges
    <3> QED
      BY <3>3 DEF Changes
  <2> QED
    BY <1>1, <2>1, <2>2, <2>3
<1>2. ASSUME NEW i, NEW r, <<i, r>> \in rung'
      PROVE  Store("bell", i, r) \notin sent'
  <2>1. CASE <<i, r>> \in rung
    <3>1. offer[i].st # "offer" /\ Store("bell", i, r) \notin sent
      BY <2>1 DEF RungOnce
    <3>2. ~OfferStored(i)
      BY <3>1 DEF OfferStored, InState
    <3> QED
      BY <3>1, <3>2, SentGrows
  <2>2. CASE <<i, r>> \notin rung
    <3>1. RingBell(i, r)
      BY <1>2, <2>2, RungGrows
    <3> QED
      BY <3>1 DEF RingBell, Lands
  <2> QED
    BY <2>1, <2>2
<1> QED
  BY <1>1, <1>2 DEF RungOnce

-----------------------------------------------------------------------------

\* Counting.
LEMMA Fewer ==
  ASSUME NEW S, IsFiniteSet(S), NEW T, T \subseteq S
  PROVE  IsFiniteSet(T) /\ Cardinality(T) \in Nat /\ Cardinality(S) \in Nat /\ Cardinality(T) <= Cardinality(S)
BY FS_Subset, FS_CardinalityType

LEMMA OneMore ==
  ASSUME NEW S, IsFiniteSet(S), NEW T, NEW x, T \subseteq S \cup {x}
  PROVE  IsFiniteSet(T) /\ Cardinality(T) \in Nat /\ Cardinality(S) \in Nat /\ Cardinality(T) <= Cardinality(S) + 1
<1>1. IsFiniteSet(S \cup {x}) /\ Cardinality(S \cup {x}) <= Cardinality(S) + 1 /\ Cardinality(S) \in Nat
  BY FS_AddElement, FS_CardinalityType
<1>2. IsFiniteSet(T) /\ Cardinality(T) \in Nat /\ Cardinality(T) <= Cardinality(S \cup {x}) /\ Cardinality(S \cup {x}) \in Nat
  BY <1>1, Fewer
<1> QED
  BY <1>1, <1>2

LEMMA OneLess ==
  ASSUME NEW S, IsFiniteSet(S), NEW x \in S, NEW T, T \subseteq S \ {x}
  PROVE  Cardinality(T) \in Nat /\ Cardinality(S) \in Nat /\ Cardinality(T) + 1 <= Cardinality(S)
<1>1. IsFiniteSet(S \ {x}) /\ Cardinality(S \ {x}) = Cardinality(S) - 1 /\ Cardinality(S) \in Nat
  BY FS_RemoveElement, FS_CardinalityType
<1>2. Cardinality(T) \in Nat /\ Cardinality(T) <= Cardinality(S \ {x})
  BY <1>1, Fewer
<1> QED
  BY <1>1, <1>2

LEMMA RingFacts ==
  ASSUME TypeOK, StoresCounted
  PROVE  /\ IsFiniteSet(Ringers) /\ IsFiniteSet(Ringers \cup Turn) /\ IsFiniteSet(Pending) /\ IsFiniteSet(rung)
         /\ Cardinality(Ringers \cup Turn) \in Nat /\ Cardinality(Pending) \in Nat /\ Cardinality(rung) \in Nat
         /\ Len(handler) \in Nat /\ faults \in Nat
<1>1. IsFiniteSet(Ringers) /\ IsFiniteSet(rung)
  BY DEF StoresCounted
<1>2. IsFiniteSet(Ringers \cup Turn)
  <2>1. Turn = {} \/ Turn = {loop.caller}
    BY DEF Turn
  <2> QED
    BY <1>1, <2>1, FS_AddElement
<1>3. Pending \subseteq Ringers
  BY DEF Pending, Ringers
<1>4. Len(handler) \in Nat /\ faults \in Nat
  BY HandlerFacts DEF TypeOK
<1> QED
  BY <1>1, <1>2, <1>3, <1>4, Fewer, FS_CardinalityType

\* A step that hands out no more than the faults that it adds keeps the balance.
LEMMA KeepsBalance ==
  ASSUME TypeOK, StoresCounted, Balance,
         NEW n \in Nat, NEW s \in Nat, NEW p \in Nat, NEW k \in Nat, NEW f \in Nat,
         n + s + p + 2 * Cardinality(rung) + faults
           <= Len(handler) + Cardinality(Ringers \cup Turn) + Cardinality(Pending) + 2 * k + f
  PROVE  n + s + p <= 2 * k + f
<1>1. PICK n1 \in Nat, s1 \in Nat, p1 \in Nat, k1 \in Nat, f1 \in Nat :
        /\ n1 = Len(handler) /\ s1 = Cardinality(Ringers \cup Turn) /\ p1 = Cardinality(Pending)
        /\ k1 = Cardinality(rung) /\ f1 = faults
  BY RingFacts, Zenon
<1>2. n1 + s1 + p1 <= 2 * k1 + f1 /\ n + s + p + 2 * k1 + f1 <= n1 + s1 + p1 + 2 * k + f
  BY <1>1, Zenon DEF Balance
<1>3. n + s + p <= 2 * k + f
  BY <1>2
<1> QED
  BY <1>3

LEMMA Sums ==
  ASSUME NEW l \in Nat, NEW g \in Nat, NEW d \in Nat, NEW d1 \in Nat, NEW p \in Nat, NEW p1 \in Nat,
         NEW f \in Nat, NEW f1 \in Nat, d1 <= d, p1 + f <= p + f1
  PROVE  l + d1 + p1 + 2 * g + f <= l + d + p + 2 * g + f1
BY SMT

\* The steps that ring nothing: callers that are due are due before, unless for a
\* fault, and a handling that is made was due.
LEMMA QuietBalanced ==
  ASSUME TypeOK, StoresCounted, Balance, rung' = rung, faults \in Nat, faults' \in Nat, faults <= faults',
         (Ringers \cup Turn)' \subseteq Ringers \cup Turn, Len(handler') = Len(handler),
         \/ Pending' \subseteq Pending
         \/ faults' = faults + 1 /\ \E c : Pending' \subseteq Pending \cup {c}
  PROVE  Balance'
<1>1. /\ Cardinality((Ringers \cup Turn)') \in Nat
      /\ Cardinality((Ringers \cup Turn)') <= Cardinality(Ringers \cup Turn)
  BY RingFacts, Fewer
<1>2. Cardinality(Pending') \in Nat /\ Cardinality(Pending') + faults <= Cardinality(Pending) + faults'
  <2>1. CASE Pending' \subseteq Pending
    <3>1. Cardinality(Pending') \in Nat /\ Cardinality(Pending') <= Cardinality(Pending)
      BY <2>1, RingFacts, Fewer
    <3> QED
      BY <3>1, RingFacts
  <2>2. CASE faults' = faults + 1 /\ \E c : Pending' \subseteq Pending \cup {c}
    <3>1. Cardinality(Pending') \in Nat /\ Cardinality(Pending') <= Cardinality(Pending) + 1
      BY <2>2, RingFacts, OneMore
    <3> QED
      BY <2>2, <3>1, RingFacts
  <2> QED
    BY <2>1, <2>2
<1>3. /\ Len(handler) \in Nat /\ Cardinality(rung) \in Nat /\ Cardinality(Pending) \in Nat
      /\ Cardinality(Ringers \cup Turn) \in Nat
  BY RingFacts
<1>4. Len(handler) + Cardinality((Ringers \cup Turn)') + Cardinality(Pending') + 2 * Cardinality(rung) + faults
        <= Len(handler) + Cardinality(Ringers \cup Turn) + Cardinality(Pending) + 2 * Cardinality(rung) + faults'
  BY <1>1, <1>2, <1>3, Sums
<1>5. Len(handler) + Cardinality((Ringers \cup Turn)') + Cardinality(Pending') <= 2 * Cardinality(rung) + faults'
  BY <1>1, <1>2, <1>3, <1>4, KeepsBalance
<1> QED
  BY <1>5 DEF Balance

\* Who is due depends on the bell, the goroutines and the Stores that will clear it.
LEMMA PendingStays ==
  ASSUME bell' = bell, DOMAIN handler \subseteq DOMAIN handler',
         \A h \in DOMAIN handler, c \in Callers, r \in BellNodes : Covers(h, c, r) => Covers(h, c, r)'
  PROVE  Ringers' = Ringers /\ Pending' \subseteq Pending
BY DEF Ringers, Pending

\* The Stores that will clear the bell: a step may start them, and only their
\* landing or their loss ends them.
LEMMA ClearsStay ==
  ASSUME Next
  PROVE  \A h, r : Store("clear", h, r) \in sent =>
           \/ Store("clear", h, r) \in sent'
           \/ h \in Goroutines /\ r \in BellNodes /\ ClearBell(h, r)
           \/ StoreIsLost(Store("clear", h, r))
<1> SUFFICES ASSUME NEW h, NEW r, Store("clear", h, r) \in sent, Store("clear", h, r) \notin sent'
             PROVE  (h \in Goroutines /\ r \in BellNodes /\ ClearBell(h, r)) \/ StoreIsLost(Store("clear", h, r))
  OBVIOUS
<1>1. StoringSteps
  <2>1. CallSteps => sent \subseteq sent'
    BY DEF CallSteps, SendOffer, OfferStored, NobodyToRing, BellRung, TakeAnswer, GivesUp
  <2>2. GoroutineSteps => sent \subseteq sent'
    BY DEF GoroutineSteps, Handles, HandlerFails, AnswerStored, HandlerEnds
  <2> QED
    BY <2>1, <2>2, StepKinds, StepFrames
<1>2. ASSUME NEW what, NEW n, NEW q, Lands(what, n, q)
      PROVE  what = "clear" /\ n = h /\ q = r
  <2>1. Store("clear", h, r) = Store(what, n, q)
    BY <1>2 DEF Lands
  <2> QED
    BY <2>1, StoreIs
<1>3. ASSUME NEW s \in sent, StoreIsLost(s)
      PROVE  StoreIsLost(Store("clear", h, r))
  <2>1. s = Store("clear", h, r)
    BY <1>3 DEF StoreIsLost
  <2> QED
    BY <1>3, <2>1
<1>4. /\ \A i, q : StoreOffer(i, q) => Lands("offer", i, q)
      /\ \A i, q : RingBell(i, q) => Lands("bell", i, q)
      /\ \A g, q : StoreAnswer(g, q) => Lands("answer", g, q)
      /\ \A g, q : ClearBell(g, q) => Lands("clear", g, q)
  BY DEF StoreOffer, RingBell, StoreAnswer, ClearBell
<1> QED
  BY <1>1, <1>2, <1>3, <1>4 DEF StoringSteps

\* Steps after which the callee is where it was.
LEMMA OthersBalanced ==
  ASSUME TypeOK, StoresCounted, Balance, Next, UNCHANGED <<bell, handler, loop, rung>>,
         \A h, r : Store("clear", h, r) \in sent => Store("clear", h, r) \in sent'
  PROVE  Balance'
<1>1. \A h \in DOMAIN handler, c \in Callers, r \in BellNodes : Covers(h, c, r) => Covers(h, c, r)'
  BY DEF Covers
<1>2. Ringers' = Ringers /\ Pending' \subseteq Pending
  BY <1>1, PendingStays
<1>3. (Ringers \cup Turn)' = Ringers \cup Turn
  BY <1>2 DEF Turn
<1>4. faults \in Nat /\ faults' \in Nat /\ faults <= faults'
  BY RingFacts, FaultsGrow
<1> QED
  BY <1>2, <1>3, <1>4, QuietBalanced

\* A Store that would have cleared the bell of its caller is lost.
LEMMA LossBalanced ==
  ASSUME TypeOK, StoresCounted, Balance, Next, NEW h, NEW r, StoreIsLost(Store("clear", h, r))
  PROVE  Balance'
<1>1. UNCHANGED <<bell, handler, loop, rung>> /\ faults' = faults + 1 /\ sent' = sent \ {Store("clear", h, r)}
  BY DEF StoreIsLost, Fault, keys, callee
<1>2. \A g, q : Store("clear", g, q) \in sent /\ (g # h \/ q # r) => Store("clear", g, q) \in sent'
  BY <1>1, StoreIs
<1>3. \A g \in DOMAIN handler, c \in Callers, q \in BellNodes :
        Covers(g, c, q) /\ c # handler[h].caller => Covers(g, c, q)'
  BY <1>1, <1>2 DEF Covers
<1>4. Pending' \subseteq Pending \cup {handler[h].caller}
  BY <1>1, <1>3 DEF Pending
<1>5. (Ringers \cup Turn)' = Ringers \cup Turn
  BY <1>1 DEF Ringers, Turn
<1>6. faults \in Nat /\ faults' \in Nat /\ faults <= faults'
  BY RingFacts, FaultsGrow
<1>7. Len(handler') = Len(handler)
  BY <1>1
<1> QED
  BY <1>1, <1>4, <1>5, <1>6, <1>7, QuietBalanced

\* A turn of the loop is about a caller that the bell names, as long as it does.
LEMMA TurnsBalanced ==
  ASSUME TypeOK, StoresCounted, Balance, ~holds, Next, LoopSteps
  PROVE  Balance'
<1>1. UNCHANGED <<bell, handler, sent, rung>>
  BY StepFrames
<1>2. Ringers' = Ringers /\ Pending' = Pending
  BY <1>1 DEF Ringers, Pending, Covers
<1>3. Turn' \subseteq Ringers \cup Turn
  <2>1. CASE ReadBell
    <3>1. PICK r \in BellNodes : bell[r] \in Callers /\ loop' = Marking(bell[r])
      BY <2>1 DEF ReadBell, ReadAt, StoresCounted
    <3>2. bell[r] \in Ringers
      BY <3>1 DEF Ringers
    <3> QED
      BY <3>1, <3>2, LoopFacts DEF Turn
  <2>2. CASE Mark
    BY <2>2, LoopFacts DEF Mark, Turn
  <2>3. CASE SkipOffer \/ LoopReturns
    BY <2>3, LoopFacts DEF SkipOffer, LoopReturns, Turn
  <2> QED
    BY <2>1, <2>2, <2>3 DEF LoopSteps
<1>4. (Ringers \cup Turn)' \subseteq Ringers \cup Turn
  BY <1>2, <1>3
<1>5. faults \in Nat /\ faults' \in Nat /\ faults <= faults'
  BY RingFacts, FaultsGrow
<1>6. Len(handler') = Len(handler)
  BY <1>1
<1> QED
  BY <1>1, <1>2, <1>4, <1>5, <1>6, QuietBalanced

\* A turn hands its handling over to a goroutine, which will clear the bell.
LEMMA StartBalanced ==
  ASSUME TypeOK, MarksMatch, StoresCounted, Balance, Next, ReadOffer
  PROVE  Balance'
<1>1. PICK c \in Callers : c = loop.caller /\ Starts(c)
  BY ReadOfferStarts
<1>2. loop.st = "offer" /\ loop'.st = "bell" /\ UNCHANGED <<bell, sent, rung, faults>>
  BY LoopFacts, StepFrames DEF ReadOffer
<1>3. \A h \in DOMAIN handler, r \in BellNodes : ~Covers(h, c, r)
  <2>1. \A h \in Running : handler[h].caller # c
    BY <1>1, <1>2 DEF MarksMatch
  <2> QED
    BY <2>1 DEF Covers, Running
<1>4. \A h \in DOMAIN handler, d \in Callers, r \in BellNodes : Covers(h, d, r) => Covers(h, d, r)'
  BY <1>1, <1>2 DEF Covers, Starts
<1>5. \E h \in DOMAIN handler' : \A r \in BellNodes : Covers(h, c, r)'
  BY <1>1 DEF Covers, Starts
<1>6. Ringers' = Ringers /\ Pending' \subseteq Pending
  BY <1>1, <1>2, <1>4, PendingStays DEF Starts
<1>7. c \notin Pending'
  BY <1>5 DEF Pending
<1>8. Turn = {c} /\ Turn' = {}
  BY <1>1, <1>2 DEF Turn
<1>9. Len(handler') = Len(handler) + 1
  BY <1>1 DEF Starts
<1>10. /\ Cardinality((Ringers \cup Turn)') \in Nat /\ Cardinality(Pending') \in Nat
       /\ Cardinality((Ringers \cup Turn)') + Cardinality(Pending') + 1
            <= Cardinality(Ringers \cup Turn) + Cardinality(Pending)
  <2>1. (Ringers \cup Turn)' \subseteq Ringers \cup Turn
    BY <1>6, <1>8
  <2>2. /\ Cardinality((Ringers \cup Turn)') \in Nat
        /\ Cardinality((Ringers \cup Turn)') <= Cardinality(Ringers \cup Turn)
    BY <2>1, RingFacts, Fewer
  <2>3. Cardinality(Pending') \in Nat /\ Cardinality(Pending') <= Cardinality(Pending)
    BY <1>6, RingFacts, Fewer
  <2>4. CASE c \in Ringers
    <3>1. c \in Pending /\ Pending' \subseteq Pending \ {c}
      BY <1>3, <1>6, <1>7, <2>4 DEF Pending, Ringers
    <3>2. Cardinality(Pending') + 1 <= Cardinality(Pending)
      BY <3>1, RingFacts, OneLess
    <3> QED
      BY <2>2, <2>3, <3>2, RingFacts
  <2>5. CASE c \notin Ringers
    <3>1. c \in Ringers \cup Turn /\ (Ringers \cup Turn)' \subseteq (Ringers \cup Turn) \ {c}
      BY <1>6, <1>8, <2>5
    <3>2. Cardinality((Ringers \cup Turn)') + 1 <= Cardinality(Ringers \cup Turn)
      BY <3>1, RingFacts, OneLess
    <3> QED
      BY <2>2, <2>3, <3>2, RingFacts
  <2> QED
    BY <2>4, <2>5
<1>11. Len(handler) \in Nat /\ Cardinality(rung) \in Nat /\ faults \in Nat
  BY RingFacts
<1>12. Len(handler) + 1 + Cardinality((Ringers \cup Turn)') + Cardinality(Pending') + 2 * Cardinality(rung) + faults
         <= Len(handler) + Cardinality(Ringers \cup Turn) + Cardinality(Pending) + 2 * Cardinality(rung) + faults
  BY <1>10, <1>11, RingFacts
<1>13. Len(handler) + 1 + Cardinality((Ringers \cup Turn)') + Cardinality(Pending') <= 2 * Cardinality(rung) + faults
  <2>1. Len(handler) + 1 \in Nat
    BY <1>11
  <2> QED
    BY <1>10, <1>11, <1>12, <2>1, KeepsBalance
<1> QED
  BY <1>2, <1>9, <1>13 DEF Balance

\* A goroutine that goes on still covers the bell; one that ends does so no more
\* when it has failed, or returned before its Stores had landed.
LEMMA GoroutinesBalanced ==
  ASSUME TypeOK, StoresCounted, Balance, Next, GoroutineSteps
  PROVE  Balance'
<1>1. UNCHANGED <<bell, loop, rung>>
  BY StepFrames
<1>2. faults \in Nat /\ faults' \in Nat /\ faults <= faults'
  BY RingFacts, FaultsGrow
<1>3. \A g, q : Store("clear", g, q) \in sent => Store("clear", g, q) \in sent'
  BY DEF GoroutineSteps, Handles, HandlerFails, AnswerStored, HandlerEnds
<1>4. ASSUME NEW h \in DOMAIN handler, NEW st, Moves(h, st),
             \/ \A c \in Callers, q \in BellNodes : Covers(h, c, q) => Covers(h, c, q)'
             \/ faults' = faults + 1
      PROVE  Balance'
  <2>1. Len(handler') = Len(handler) /\ DOMAIN handler' = DOMAIN handler
    BY <1>4 DEF Moves
  <2>2. \A g \in DOMAIN handler \ {h}, c \in Callers, q \in BellNodes : Covers(g, c, q) => Covers(g, c, q)'
    BY <1>3, <1>4 DEF Covers, Moves
  <2>3. \A c \in Callers, q \in BellNodes : Covers(h, c, q) => c = handler[h].caller
    BY DEF Covers
  <2>4. Ringers' = Ringers /\ (Ringers \cup Turn)' = Ringers \cup Turn
    BY <1>1 DEF Ringers, Turn
  <2>5. CASE \A c \in Callers, q \in BellNodes : Covers(h, c, q) => Covers(h, c, q)'
    <3>1. Pending' \subseteq Pending
      BY <1>1, <2>1, <2>2, <2>5, PendingStays
    <3> QED
      BY <1>1, <1>2, <2>1, <2>4, <3>1, QuietBalanced
  <2>6. CASE faults' = faults + 1
    <3>1. Pending' \subseteq Pending \cup {handler[h].caller}
      BY <1>1, <2>1, <2>2, <2>3 DEF Pending
    <3> QED
      BY <1>1, <1>2, <2>1, <2>4, <2>6, <3>1, QuietBalanced
  <2> QED
    BY <1>4, <2>5, <2>6
<1>5. ASSUME NEW h, Handles(h)
      PROVE  Balance'
  <2>1. h \in DOMAIN handler /\ Moves(h, "answer")
    BY <1>5, HandlerMoves
  <2>2. \A c \in Callers, q \in BellNodes : Covers(h, c, q) => Covers(h, c, q)'
    BY <2>1 DEF Covers, Moves
  <2> QED
    BY <1>4, <2>1, <2>2
<1>6. ASSUME NEW h, AnswerStored(h)
      PROVE  Balance'
  <2>1. h \in DOMAIN handler /\ Moves(h, "clear") /\ sent' = sent \cup Stores("clear", h, BellNodes)
    BY <1>6, HandlerMoves DEF AnswerStored
  <2>2. \A q \in BellNodes : Store("clear", h, q) \in sent'
    BY <2>1 DEF Stores
  <2>3. \A c \in Callers, q \in BellNodes : Covers(h, c, q) => Covers(h, c, q)'
    BY <2>1, <2>2 DEF Covers, Moves
  <2> QED
    BY <1>4, <2>1, <2>3
<1>7. ASSUME NEW h, HandlerFails(h)
      PROVE  Balance'
  <2>1. h \in DOMAIN handler /\ Moves(h, "done") /\ faults' = faults + 1
    BY <1>7, HandlerMoves DEF HandlerFails, Fault
  <2> QED
    BY <1>4, <2>1
<1>8. ASSUME NEW h, HandlerEnds(h)
      PROVE  Balance'
  <2>1. h \in DOMAIN handler /\ handler[h].st = "clear" /\ Moves(h, "done") /\ StoreReturns("clear", h)
    BY <1>8, HandlerMoves DEF HandlerEnds
  <2>2. CASE faults' = faults + 1
    BY <1>4, <2>1, <2>2
  <2>3. CASE ~\E s \in sent : s.what = "clear" /\ s.of = h
    <3>1. \A q : Store("clear", h, q) \notin sent
      <4>1. \A q : Store("clear", h, q).what = "clear" /\ Store("clear", h, q).of = h
        BY DEF Store
      <4> QED
        BY <2>3, <4>1
    <3>2. \A c \in Callers, q \in BellNodes : ~Covers(h, c, q)
      BY <2>1, <3>1 DEF Covers
    <3> QED
      BY <1>4, <2>1, <3>2
  <2> QED
    BY <2>1, <2>2, <2>3 DEF StoreReturns, Fault
<1> QED
  BY <1>5, <1>6, <1>7, <1>8 DEF GoroutineSteps

\* When a replica of the bell is cleared, nobody is due there.
LEMMA ClearBalanced ==
  ASSUME TypeOK, StoresCounted, Balance, Next, NEW h, NEW r \in BellNodes, ClearBell(h, r)
  PROVE  Balance'
<1>1. /\ bell' = [bell EXCEPT ![r] = Cleared] /\ sent' = sent \ {Store("clear", h, r)}
      /\ UNCHANGED <<handler, loop, rung, faults>>
  BY DEF ClearBell, Lands, callee
<1>2. \A q \in BellNodes : bell'[q] = IF q = r THEN Cleared ELSE bell[q]
  BY <1>1 DEF TypeOK
<1>3. \A c \in Callers, q \in BellNodes : bell'[q] = c => q # r /\ bell[q] = c
  BY <1>2, ConstantFacts
<1>4. \A g, q : Store("clear", g, q) \in sent /\ q # r => Store("clear", g, q) \in sent'
  BY <1>1, StoreIs
<1>5. \A g \in DOMAIN handler, c \in Callers, q \in BellNodes : q # r /\ Covers(g, c, q) => Covers(g, c, q)'
  BY <1>1, <1>4 DEF Covers
<1>6. Pending' \subseteq Pending
  BY <1>1, <1>3, <1>5 DEF Pending
<1>7. Ringers' \subseteq Ringers /\ Turn' = Turn
  BY <1>1, <1>3 DEF Ringers, Turn
<1>8. (Ringers \cup Turn)' \subseteq Ringers \cup Turn
  BY <1>7
<1>9. faults \in Nat /\ faults' \in Nat /\ faults <= faults' /\ Len(handler') = Len(handler)
  BY <1>1, RingFacts, FaultsGrow
<1> QED
  BY <1>1, <1>6, <1>8, <1>9, QuietBalanced

LEMMA TwoMore ==
  ASSUME NEW n \in Nat, NEW s \in Nat, NEW p \in Nat, NEW k \in Nat, NEW f \in Nat,
         NEW s1 \in Nat, NEW p1 \in Nat, s1 <= s + 1, p1 <= p + 1
  PROVE  n + s1 + p1 + 2 * k + f <= n + s + p + 2 * (k + 1) + f
OBVIOUS

\* A Store of a ring that lands adds its caller to those that the bell names, and
\* to those that are due.
LEMMA RingBalanced ==
  ASSUME TypeOK, RungOnce, StoresCounted, Balance, ~holds, Next, NEW i \in Offers, NEW r \in places, RingBell(i, r)
  PROVE  Balance'
<1> DEFINE c == offer[i].caller
<1>1. /\ bell' = [bell EXCEPT ![r] = c] /\ sent' = sent \ {Store("bell", i, r)} /\ rung' = rung \cup {<<i, r>>}
      /\ Store("bell", i, r) \in sent /\ UNCHANGED <<handler, loop, faults>>
  BY DEF RingBell, Lands, callee
<1>2. i \in Used /\ c \in Callers /\ r \in BellNodes
  BY <1>1, SentFacts, CallFacts, DhtBounds DEF holds, TypeOK
<1>3. <<i, r>> \notin rung
  BY <1>1 DEF RungOnce
<1> HIDE DEF c
<1>4. \A q \in BellNodes : bell'[q] = IF q = r THEN c ELSE bell[q]
  BY <1>1 DEF TypeOK
<1>5. \A g, q : Store("clear", g, q) \in sent => Store("clear", g, q) \in sent'
  BY <1>1, StoreIs
<1>6. \A g \in DOMAIN handler, d \in Callers, q \in BellNodes : Covers(g, d, q) => Covers(g, d, q)'
  BY <1>1, <1>5 DEF Covers
<1>7. \A d \in Callers, q \in BellNodes : bell'[q] = d => d = c \/ bell[q] = d
  BY <1>4
<1>8. Ringers' \subseteq Ringers \cup {c} /\ Turn' = Turn /\ Pending' \subseteq Pending \cup {c}
  <2>1. Ringers' \subseteq Ringers \cup {c}
    BY <1>7 DEF Ringers
  <2>2. Pending' \subseteq Pending \cup {c}
    BY <1>1, <1>6, <1>7 DEF Pending
  <2> QED
    BY <1>1, <2>1, <2>2 DEF Turn
<1>9. /\ Cardinality((Ringers \cup Turn)') \in Nat
      /\ Cardinality((Ringers \cup Turn)') <= Cardinality(Ringers \cup Turn) + 1
  <2>1. (Ringers \cup Turn)' \subseteq (Ringers \cup Turn) \cup {c}
    BY <1>8
  <2> QED
    BY <2>1, RingFacts, OneMore
<1>10. Cardinality(Pending') \in Nat /\ Cardinality(Pending') <= Cardinality(Pending) + 1
  BY <1>8, RingFacts, OneMore
<1>11. Cardinality(rung') = Cardinality(rung) + 1
  BY <1>1, <1>3, RingFacts, FS_AddElement
<1>12. /\ Len(handler) \in Nat /\ Cardinality(rung) \in Nat /\ faults \in Nat /\ Cardinality(Pending) \in Nat
       /\ Cardinality(Ringers \cup Turn) \in Nat
  BY RingFacts
<1>13. Len(handler) + Cardinality((Ringers \cup Turn)') + Cardinality(Pending') + 2 * Cardinality(rung) + faults
         <= Len(handler) + Cardinality(Ringers \cup Turn) + Cardinality(Pending) + 2 * (Cardinality(rung) + 1) + faults
  BY <1>9, <1>10, <1>12, TwoMore
<1>14. Cardinality(rung) + 1 \in Nat
  BY <1>12
<1>15. Len(handler) + Cardinality((Ringers \cup Turn)') + Cardinality(Pending') <= 2 * (Cardinality(rung) + 1) + faults
  BY <1>9, <1>10, <1>12, <1>13, <1>14, KeepsBalance
<1> QED
  BY <1>1, <1>11, <1>15 DEF Balance

LEMMA StoresCountedPreserved ==
  ASSUME IInv, Next
  PROVE  StoresCounted'
<1>0. TypeOK /\ NoHoles /\ MarksMatch /\ RungOnce /\ StoresCounted
  BY DEF IInv
<1>1. IsFiniteSet(rung')
  <2>1. rung' = rung \/ \E x : rung' = rung \cup {x}
    BY RungGrows
  <2> QED
    BY <1>0, <2>1, RingFacts, FS_AddElement
<1>2. bell' = bell \/ (\E i \in Offers, r \in places : RingBell(i, r)) \/ (\E h \in Goroutines, r \in BellNodes : ClearBell(h, r))
  <2>1. StoringSteps => \/ bell' = bell
                        \/ \E i \in Offers, r \in places : RingBell(i, r)
                        \/ \E h \in Goroutines, r \in BellNodes : ClearBell(h, r)
    BY DEF StoringSteps, StoreOffer, StoreAnswer, StoreIsLost, keys
  <2> QED
    BY <2>1, StepKinds, StepFrames
<1>3. bell' = bell \/ \E r \in places \cup BellNodes : \E v : bell' = [bell EXCEPT ![r] = v]
  BY <1>2 DEF RingBell, ClearBell
<1>4. IsFiniteSet(Ringers')
  <2>1. \E v : Ringers' \subseteq Ringers \cup {v}
    <3>1. CASE bell' = bell
      BY <3>1 DEF Ringers
    <3>2. ASSUME NEW r \in places \cup BellNodes, NEW v, bell' = [bell EXCEPT ![r] = v]
          PROVE  Ringers' \subseteq Ringers \cup {v}
      <4>1. \A q \in BellNodes : bell'[q] = v \/ bell'[q] = bell[q]
        BY <1>0, <3>2 DEF TypeOK
      <4> QED
        BY <4>1 DEF Ringers
    <3> QED
      BY <1>3, <3>1, <3>2
  <2> QED
    BY <1>0, <2>1, RingFacts, OneMore
<1>5. places' = places /\ holds' = holds
  BY <1>0, HandlersPreserved DEF holds
<1>6. CASE holds
  BY <1>1, <1>4, <1>5, <1>6 DEF StoresCounted
<1>7. CASE ~holds
  <2>1. bell[Own] = NoRing /\ Balance
    BY <1>0, <1>7 DEF StoresCounted
  <2>2. bell'[Own] = NoRing
    <3>1. Own \notin places /\ Own \notin BellNodes
      BY <1>7, DhtBounds DEF holds
    <3> QED
      BY <1>0, <1>3, <2>1, <3>1 DEF TypeOK
  <2>3. Balance'
    <3>1. CASE StoringSteps
      <4>1. CASE \E i \in Offers, r \in places : RingBell(i, r)
        BY <1>0, <1>7, <2>1, <4>1, RingBalanced
      <4>2. CASE \E h \in Goroutines, r \in BellNodes : ClearBell(h, r)
        BY <1>0, <2>1, <4>2, ClearBalanced
      <4>3. CASE \E h, r : StoreIsLost(Store("clear", h, r))
        BY <1>0, <2>1, <4>3, LossBalanced
      <4>4. CASE /\ ~\E i \in Offers, r \in places : RingBell(i, r)
                 /\ ~\E h \in Goroutines, r \in BellNodes : ClearBell(h, r)
                 /\ ~\E h, r : StoreIsLost(Store("clear", h, r))
        <5>1. UNCHANGED <<bell, handler, loop, rung>>
          BY <1>2, <3>1, <4>4, RungGrows, StepFrames
        <5>2. \A h, r : Store("clear", h, r) \in sent => Store("clear", h, r) \in sent'
          BY <4>4, ClearsStay
        <5> QED
          BY <1>0, <2>1, <5>1, <5>2, OthersBalanced
      <4> QED
        BY <4>1, <4>2, <4>3, <4>4
    <3>2. CASE CallSteps \/ Close
      <4>1. UNCHANGED <<bell, handler, loop, rung>>
        BY <3>2, StepFrames
      <4>2. sent \subseteq sent'
        BY <3>2 DEF CallSteps, SendOffer, OfferStored, NobodyToRing, BellRung, TakeAnswer, GivesUp, Close
      <4> QED
        BY <1>0, <2>1, <4>1, <4>2, OthersBalanced
    <3> QED
      BY <1>0, <1>7, <2>1, <3>1, <3>2, TurnsBalanced, StartBalanced, GoroutinesBalanced, StepKinds
  <2> QED
    BY <1>1, <1>4, <1>7, <2>2, <2>3 DEF StoresCounted
<1> QED
  BY <1>6, <1>7


-----------------------------------------------------------------------------

LEMMA InitIInv == Init => IInv
<1> SUFFICES ASSUME Init
             PROVE  IInv
  OBVIOUS
<1>1. /\ Used = {} /\ sent = {} /\ rung = {} /\ handler = <<>> /\ faults = 0 /\ processing = {}
      /\ loop = AtBell /\ DOMAIN handler = {} /\ Len(handler) = 0
  BY DEF Init, Used
<1>2. TypeOK
  <2>1. <<>> \in Seq(HandlerRecords)
    OBVIOUS
  <2>2. CallsOK /\ SentOK
    BY <1>1 DEF Init, CallsOK, SentOK
  <2>3. KeysOK /\ BellOK
    BY DEF Init, KeysOK, BellOK
  <2>4. LoopOK
    BY <1>1 DEF LoopOK
  <2>5. places \in BellSets /\ closed \in BOOLEAN
    BY Zenon DEF Init
  <2>6. OthersOK
    BY <1>1, <2>1, <2>5 DEF OthersOK
  <2> QED
    BY <2>2, <2>3, <2>4, <2>6, TypeParts
<1>3. NoHoles
  <2>1. {} = 1 .. 0 /\ 0 \in Nat
    OBVIOUS
  <2> QED
    BY <1>1, <2>1 DEF NoHoles
<1>4. AnswersStored /\ AnswersOfCaller
  BY <1>1 DEF Init, AnswersStored, AnswersOfCaller, InState
<1>5. MarksMatch
  BY <1>1, LoopFacts DEF MarksMatch, Running
<1>6. RungOnce
  BY <1>1 DEF RungOnce
<1>7. StoresCounted
  <2>1. bell[Own] = NoRing /\ \A r \in BellNodes : bell[r] = NoRing
    BY DEF Init
  <2>2. Ringers = {} /\ Pending = {} /\ Turn = {}
    BY <1>1, <2>1, ConstantFacts, LoopFacts DEF Ringers, Pending, Turn
  <2>3. Cardinality(Ringers \cup Turn) = 0 /\ Cardinality(Pending) = 0 /\ Cardinality(rung) = 0
    BY <1>1, <2>2, FS_EmptySet
  <2>4. IsFiniteSet(Ringers) /\ IsFiniteSet(rung)
    BY <1>1, <2>2, FS_EmptySet
  <2>5. Balance
    BY <1>1, <2>3 DEF Balance
  <2> QED
    BY <2>1, <2>4, <2>5 DEF StoresCounted
<1> QED
  BY <1>2, <1>3, <1>4, <1>5, <1>6, <1>7 DEF IInv

LEMMA StepIInv ==
  ASSUME IInv, [Next]_vars
  PROVE  IInv'
<1>1. CASE UNCHANGED vars
  <2>1. /\ UNCHANGED <<offer, sent, offerKey, answerKey, bell, places>>
        /\ UNCHANGED <<loop, processing, handler, closed, faults, rung>>
    BY <1>1 DEF vars, keys, callee
  <2>2. Used' = Used /\ Running' = Running /\ InState("ok")' = InState("ok") /\ holds' = holds
    BY <2>1 DEF Used, Running, InState, holds
  <2>3. TypeOK'
    BY <2>1, <2>2 DEF IInv, TypeOK
  <2>4. NoHoles' /\ AnswersStored' /\ MarksMatch' /\ AnswersOfCaller' /\ RungOnce'
    BY <2>1, <2>2 DEF IInv, NoHoles, AnswersStored, Handled, MarksMatch, AnswersOfCaller, RungOnce
  <2>5. Ringers' = Ringers /\ Pending' = Pending /\ Turn' = Turn
    BY <2>1 DEF Ringers, Pending, Covers, Turn
  <2>6. StoresCounted'
    BY <2>1, <2>2, <2>5 DEF IInv, StoresCounted, Balance
  <2> QED
    BY <2>3, <2>4, <2>6 DEF IInv
<1>2. CASE Next
  <2>1. TypeOK' /\ NoHoles'
    BY <1>2, TypePreserved, CallsPreserved DEF IInv
  <2>2. AnswersStored' /\ AnswersOfCaller'
    BY <1>2, AnswersStoredPreserved, AnswersOfCallerPreserved DEF IInv
  <2>3. MarksMatch'
    BY <1>2, StepOfCallee, MarksPreserved DEF IInv
  <2>4. RungOnce' /\ StoresCounted'
    BY <1>2, RungOncePreserved, StoresCountedPreserved DEF IInv
  <2> QED
    BY <2>1, <2>2, <2>3, <2>4 DEF IInv
<1> QED
  BY <1>1, <1>2

LEMMA IInvInv == Spec => []IInv
<1>1. Init => IInv
  BY InitIInv
<1>2. IInv /\ [Next]_vars => IInv'
  BY StepIInv
<1> QED
  BY <1>1, <1>2, PTL DEF Spec

\* processing is exactly the callers that a goroutine of pollOffers is about,
\* or the loop, one of them per caller; an answer that a caller gets was made by
\* a goroutine that handled an offer of that caller.
THEOREM OneGoroutinePerCaller == Spec => []DhtInv
<1>1. IInv => DhtInv
  BY DEF IInv, DhtInv
<1> QED
  BY <1>1, IInvInv, PTL

\* However the Stores of rings, offers, answers and clearings land, late, lost or
\* interleaved with turns of the loop and with each other, the callee handles an
\* offer at most twice for each Store of a ring that has landed and once for each
\* fault, unless it holds a replica of its bell itself.
THEOREM TwicePerStore == Spec => []HandledTwicePerStore
<1>1. IInv => HandledTwicePerStore
  <2> SUFFICES ASSUME IInv, ~holds
               PROVE  Len(handler) <= 2 * Cardinality(rung) + faults
    BY DEF HandledTwicePerStore
  <2>1. TypeOK /\ StoresCounted /\ Balance
    BY DEF IInv, StoresCounted
  <2>2. Len(handler) + Cardinality(Ringers \cup Turn) + Cardinality(Pending) <= 2 * Cardinality(rung) + faults
    BY <2>1 DEF Balance
  <2>3. /\ Cardinality(Ringers \cup Turn) \in Nat /\ Cardinality(Pending) \in Nat
        /\ Cardinality(rung) \in Nat /\ Len(handler) \in Nat /\ faults \in Nat
    BY <2>1, RingFacts
  <2> QED
    BY <2>2, <2>3
<1> QED
  BY <1>1, IInvInv, PTL
=============================================================================
