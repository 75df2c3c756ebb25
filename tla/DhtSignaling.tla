---------------------------- MODULE DhtSignaling -----------------------------
(***************************************************************************)
(* DHTSignaler of transport/webrtc/signaling.go: several callers and one   *)
(* callee that signal through values in the DHT.  A caller stores its      *)
(* offer under a key of the pair, rings by storing its id under the bell   *)
(* of the callee, and reads the answer key of the pair until there is a    *)
(* value.  The callee reads its bell every 10 ms, handles the offer of the *)
(* caller in a goroutine, and clears the bell.                             *)
(*                                                                         *)
(* StoreValue sends one Store to each replica, from goroutines of its own, *)
(* and waits for all of them: each Store lands when it lands, so replicas  *)
(* differ as long as one is under way, or for good when StoreValues        *)
(* overlap.  A read returns what one of the replicas holds.  FindValue     *)
(* looks into the node's own storage first, and StoreValue stores at other *)
(* nodes only: a callee that holds a replica of its bell, Own, reads it    *)
(* and never clears it.                                                    *)
(***************************************************************************)
EXTENDS Integers, Sequences, FiniteSets, SequencesExt

CONSTANTS
  Callers,
  PairNodes,   \* nodes at which offers and answers are stored
  BellNodes,   \* nodes other than the callee at which its bell is stored
  BellSets,    \* the sets of nodes at which callers may store the bell
  First,       \* bound: who may make the first call (callers are interchangeable)
  MaxEvents,   \* bound: calls of SendOffer, faults and Close together
  MaxHandled   \* bound: goroutines that handle an offer

Own == "own"

ASSUME DhtBounds ==
  /\ {MaxEvents, MaxHandled} \subseteq Nat \ {0}
  /\ Callers \cap {"missing", "cleared"} = {}  \* an empty bell names no caller
  /\ IsFiniteSet(PairNodes) /\ IsFiniteSet(BellNodes) /\ Own \notin BellNodes
  /\ \A S \in BellSets : S \subseteq BellNodes \cup {Own}

VARIABLES
  offer,       \* the calls of SendOffer
  sent,        \* the Stores that are under way
  offerKey,    \* per caller and replica: the value of dhtOfferKey
  answerKey,   \* per caller and replica: the value of dhtAnswerKey
  bell,        \* per replica and in the callee's storage: the value of dhtDoorbellKey
  places,      \* the nodes at which callers store the bell
  loop,        \* where pollOffers is
  processing,  \* callers whose offer is being handled
  handler,     \* goroutines of line 397, in the order of their start
  closed,      \* Close was called
  faults,      \* history: number of faults
  rung         \* history: the Stores of rings that have landed

keys == <<offerKey, answerKey, bell>>
callee == <<loop, processing, handler>>
vars == <<offer, sent, keys, places, callee, closed, faults, rung>>

Offers == 1 .. MaxEvents
Missing == 0
NoRing == "missing"
Cleared == "cleared"

\* The callee holds a replica of its bell.
holds == Own \in places

Unused == [st |-> "unused"]
Used == {i \in Offers : offer[i] # Unused}
InState(st) == {i \in Used : offer[i].st = st}
Heard(i) == \E h \in DOMAIN handler : handler[h].offer = i

AtBell == [st |-> "bell"]
Marking(c) == [st |-> "mark", caller |-> c]
Reading(c) == [st |-> "offer", caller |-> c]
Returned == [st |-> "returned"]

Init ==
  /\ offer = [i \in Offers |-> Unused] /\ sent = {}
  /\ offerKey = [c \in Callers |-> [r \in PairNodes |-> Missing]]
  /\ answerKey = [c \in Callers |-> [r \in PairNodes |-> Missing]]
  /\ bell = [r \in BellNodes \cup {Own} |-> NoRing]
  /\ places \in BellSets
  /\ loop = AtBell /\ processing = {} /\ handler = <<>>
  /\ closed = FALSE /\ faults = 0 /\ rung = {}

Room == Cardinality(Used) + faults + (IF closed THEN 1 ELSE 0) < MaxEvents
Fault == Room /\ faults' = faults + 1

\* The Stores of a StoreValue of offer or goroutine n, to the nodes of at.
Store(what, n, r) == [what |-> what, of |-> n, at |-> r]
Stores(what, n, at) == {Store(what, n, r) : r \in at}
Lands(what, n, r) == Store(what, n, r) \in sent /\ sent' = sent \ {Store(what, n, r)}

\* StoreValue returns when its Stores have ended, with or without success; a
\* Store that has timed out may still land.
StoreReturns(what, n) ==
  IF \E s \in sent : s.what = what /\ s.of = n THEN Fault ELSE UNCHANGED faults

\* A Store does not land: its error is dropped.
StoreIsLost(s) ==
  /\ s \in sent /\ sent' = sent \ {s}
  /\ Fault
  /\ UNCHANGED <<offer, keys, places, callee, closed, rung>>

Becomes(i, st) == offer' = [offer EXCEPT ![i].st = st]

\* A call that finds nobody at whom to store its offer changes nothing.
SendOffer(c) ==
  LET i == Cardinality(Used) + 1 IN
  /\ Room /\ (Used = {} => c \in First)
  /\ offer' = [offer EXCEPT ![i] = [st |-> "offer", caller |-> c, got |-> Missing]]
  /\ sent' = sent \cup Stores("offer", i, PairNodes)
  /\ UNCHANGED <<keys, places, callee, closed, faults, rung>>

\* At this replica the offer takes the place of that of another call of the caller.
StoreOffer(i, r) ==
  /\ Lands("offer", i, r)
  /\ offerKey' = [offerKey EXCEPT ![offer[i].caller][r] = i]
  /\ UNCHANGED <<offer, answerKey, bell, places, callee, closed, faults, rung>>

OfferStored(i) ==
  /\ i \in InState("offer")
  /\ StoreReturns("offer", i)
  /\ Becomes(i, "bell")
  /\ sent' = sent \cup Stores("bell", i, places)
  /\ UNCHANGED <<keys, places, callee, closed, rung>>

\* The lookup finds nobody at whom to ring: SendOffer fails.
NobodyToRing(i) ==
  /\ i \in InState("offer")
  /\ Fault
  /\ Becomes(i, "failed")
  /\ UNCHANGED <<sent, keys, places, callee, closed, rung>>

\* At this replica the ring takes the place of whatever the bell had.
RingBell(i, r) ==
  /\ Lands("bell", i, r)
  /\ bell' = [bell EXCEPT ![r] = offer[i].caller]
  /\ rung' = rung \cup {<<i, r>>}
  /\ UNCHANGED <<offer, offerKey, answerKey, places, callee, closed, faults>>

BellRung(i) ==
  /\ i \in InState("bell")
  /\ StoreReturns("bell", i)
  /\ Becomes(i, "poll")
  /\ UNCHANGED <<sent, keys, places, callee, closed, rung>>

\* A value under the answer key ends the call, whichever offer it answers.
TakeAnswer(i) ==
  /\ i \in InState("poll")
  /\ \E r \in PairNodes :
       LET v == answerKey[offer[i].caller][r] IN
       v # Missing /\ offer' = [offer EXCEPT ![i].st = "ok", ![i].got = v]
  /\ UNCHANGED <<sent, keys, places, callee, closed, faults, rung>>

\* The context of the caller ends.
GivesUp(i) ==
  /\ i \in InState("poll")
  /\ Becomes(i, "failed")
  /\ UNCHANGED <<sent, keys, places, callee, closed, faults, rung>>

-----------------------------------------------------------------------------

\* FindValue of the bell: the own replica, or one of the others'.
ReadAt == IF bell[Own] # NoRing THEN {Own} ELSE BellNodes

ReadBell ==
  /\ loop = AtBell
  /\ \E r \in ReadAt : bell[r] \in Callers /\ loop' = Marking(bell[r])
  /\ UNCHANGED <<offer, sent, keys, places, processing, handler, closed, faults, rung>>

\* Mutant of Mark: a caller that is being processed is not left alone.
MarkAnyway ==
  /\ loop.st = "mark"
  /\ loop' = Reading(loop.caller)
  /\ processing' = processing \cup {loop.caller}
  /\ UNCHANGED <<offer, sent, keys, places, handler, closed, faults, rung>>

\* Under procMu: a caller that is being processed is left alone.
Mark ==
  /\ loop.st = "mark"
  /\ loop' = IF loop.caller \in processing THEN AtBell ELSE Reading(loop.caller)
  /\ processing' = processing \cup {loop.caller}
  /\ UNCHANGED <<offer, sent, keys, places, handler, closed, faults, rung>>

\* The offers that a read may find; there is none when no replica has one.
Readable(c) == {offerKey[c][r] : r \in PairNodes} \ {Missing}

\* The offer is older than 30 s, as long as its caller waits (clocks agree).
TooOld(i) == offer[i].st \in {"ok", "failed"}

ReadOffer ==
  /\ loop.st = "offer"
  /\ Len(handler) < MaxHandled
  /\ \E i \in Readable(loop.caller) :
       handler' = Append(handler, [caller |-> loop.caller, offer |-> i, st |-> "handle"])
  /\ loop' = AtBell
  /\ UNCHANGED <<offer, sent, keys, places, processing, closed, faults, rung>>

\* Mutant of NoLonger: the caller stays marked.
StillProcessed(c) == processing

NoLonger(c) == processing \ {c}

\* There is no offer, it is too old, or it cannot be read.
SkipOffer ==
  /\ loop.st = "offer"
  /\ \/ /\ \/ Readable(loop.caller) = {}
           \/ \E i \in Readable(loop.caller) : TooOld(i)
           \/ closed
        /\ UNCHANGED faults
     \/ Fault
  /\ loop' = AtBell
  /\ processing' = NoLonger(loop.caller)
  /\ UNCHANGED <<offer, sent, keys, places, handler, closed, rung>>

Handler(h, st) == h \in DOMAIN handler /\ handler[h].st = st
Goes(h, st) == handler' = [handler EXCEPT ![h].st = st]

Handles(h) ==
  /\ Handler(h, "handle")
  /\ Goes(h, "answer")
  /\ sent' = sent \cup Stores("answer", h, PairNodes)
  /\ UNCHANGED <<offer, keys, places, loop, processing, closed, faults, rung>>

\* The handler fails: the bell is not cleared.
HandlerFails(h) ==
  /\ Handler(h, "handle")
  /\ Fault
  /\ Goes(h, "done")
  /\ processing' = NoLonger(handler[h].caller)
  /\ UNCHANGED <<offer, sent, keys, places, loop, closed, rung>>

StoreAnswer(h, r) ==
  /\ Lands("answer", h, r)
  /\ answerKey' = [answerKey EXCEPT ![handler[h].caller][r] = handler[h].offer]
  /\ UNCHANGED <<offer, offerKey, bell, places, callee, closed, faults, rung>>

AnswerStored(h) ==
  /\ Handler(h, "answer")
  /\ StoreReturns("answer", h)
  /\ Goes(h, "clear")
  /\ sent' = sent \cup Stores("clear", h, BellNodes)
  /\ UNCHANGED <<offer, keys, places, loop, processing, closed, rung>>

\* Mutant of ClearBell: the bell is left as it is.
LeaveBell(h, r) ==
  /\ Lands("clear", h, r)
  /\ UNCHANGED <<offer, keys, places, callee, closed, faults, rung>>

\* This replica of the bell is cleared, whoever has rung it.
ClearBell(h, r) ==
  /\ Lands("clear", h, r)
  /\ bell' = [bell EXCEPT ![r] = Cleared]
  /\ UNCHANGED <<offer, offerKey, answerKey, places, callee, closed, faults, rung>>

\* The bell is cleared, and the deferred function removes the mark.
HandlerEnds(h) ==
  /\ Handler(h, "clear")
  /\ StoreReturns("clear", h)
  /\ Goes(h, "done")
  /\ processing' = NoLonger(handler[h].caller)
  /\ UNCHANGED <<offer, sent, keys, places, loop, closed, rung>>

Close ==
  /\ ~closed /\ Room /\ closed' = TRUE
  /\ UNCHANGED <<offer, sent, keys, places, callee, faults, rung>>

\* The loop sees the end of its context, at once or after some more turns.
LoopReturns ==
  /\ closed /\ loop = AtBell
  /\ loop' = Returned
  /\ UNCHANGED <<offer, sent, keys, places, processing, handler, closed, faults, rung>>

Goroutines == 1 .. MaxHandled

CallerSteps(i) ==
  \/ \E r \in PairNodes : StoreOffer(i, r)
  \/ \E r \in places : RingBell(i, r)
  \/ OfferStored(i) \/ BellRung(i) \/ TakeAnswer(i)

HandlerSteps(h) ==
  \/ \E r \in PairNodes : StoreAnswer(h, r)
  \/ \E r \in BellNodes : ClearBell(h, r)
  \/ Handles(h) \/ AnswerStored(h) \/ HandlerEnds(h)

Next ==
  \/ \E s \in sent : StoreIsLost(s)
  \/ \E c \in Callers : SendOffer(c)
  \/ \E i \in Offers, r \in PairNodes : StoreOffer(i, r)
  \/ \E i \in Offers : OfferStored(i)
  \/ \E i \in Offers : NobodyToRing(i)
  \/ \E i \in Offers, r \in places : RingBell(i, r)
  \/ \E i \in Offers : BellRung(i)
  \/ \E i \in Offers : TakeAnswer(i)
  \/ \E i \in Offers : GivesUp(i)
  \/ ReadBell
  \/ Mark
  \/ ReadOffer
  \/ SkipOffer
  \/ \E h \in Goroutines : Handles(h)
  \/ \E h \in Goroutines : HandlerFails(h)
  \/ \E h \in Goroutines, r \in PairNodes : StoreAnswer(h, r)
  \/ \E h \in Goroutines : AnswerStored(h)
  \/ \E h \in Goroutines, r \in BellNodes : ClearBell(h, r)
  \/ \E h \in Goroutines : HandlerEnds(h)
  \/ Close
  \/ LoopReturns

\* The loops of callers and callee, the goroutines and their Stores go on; a
\* context need not end.
Fairness ==
  /\ WF_vars(\E i \in Offers : CallerSteps(i))
  /\ WF_vars(ReadBell \/ Mark \/ ReadOffer \/ SkipOffer)
  /\ WF_vars(\E h \in Goroutines : HandlerSteps(h))

Spec == Init /\ [][Next]_vars /\ Fairness

-----------------------------------------------------------------------------

TypeOK ==
  /\ offer \in [Offers -> {Unused} \cup
       [st : {"offer", "bell", "poll", "ok", "failed"}, caller : Callers,
        got : Offers \cup {Missing}]]
  /\ sent \subseteq [what : {"offer"}, of : Used, at : PairNodes]
               \cup [what : {"bell"}, of : Used, at : places]
               \cup [what : {"answer"}, of : DOMAIN handler, at : PairNodes]
               \cup [what : {"clear"}, of : DOMAIN handler, at : BellNodes]
  /\ offerKey \in [Callers -> [PairNodes -> Offers \cup {Missing}]]
  /\ answerKey \in [Callers -> [PairNodes -> Offers \cup {Missing}]]
  /\ bell \in [BellNodes \cup {Own} -> Callers \cup {NoRing, Cleared}]
  /\ places \in BellSets /\ closed \in BOOLEAN
  /\ loop \in {AtBell, Returned} \cup [st : {"mark", "offer"}, caller : Callers]
  /\ processing \subseteq Callers
  /\ handler \in Seq([caller : Callers, offer : Offers,
                      st : {"handle", "answer", "clear", "done"}])
  /\ faults \in Nat
  /\ rung \subseteq Used \X places

Running == {h \in DOMAIN handler : handler[h].st # "done"}

\* processing is exactly the callers that the loop or a goroutine is about, and
\* there is one of them per caller: a mark neither leaks nor is taken twice.
MarksMatch ==
  /\ processing = {handler[h].caller : h \in Running}
                  \cup (IF loop.st = "offer" THEN {loop.caller} ELSE {})
  /\ \A h \in Running : /\ loop.st = "offer" => loop.caller # handler[h].caller
                        /\ \A g \in Running \ {h} : handler[g].caller # handler[h].caller

\* An answer that a caller gets is to an offer of its own that was handled,
\* though not always the one that it has sent.
AnswersOfCaller ==
  \A i \in InState("ok") :
    \E h \in DOMAIN handler :
      /\ handler[h].offer = offer[i].got /\ handler[h].caller = offer[i].caller
      /\ handler[h].st # "handle"

\* The callee keeps to one goroutine per caller, whose answers go to it.
DhtInv == TypeOK /\ MarksMatch /\ AnswersOfCaller

\* Each Store of a ring that lands makes the callee handle an offer at most
\* twice, the second time when the loop had read the bell before it was cleared
\* there; a fault adds one.  The Stores of one ring count one by one: a Store
\* that lands after the others were read and cleared rings again.  A callee that
\* holds a replica of its bell goes on until the offer is too old.
HandledTwicePerStore == holds \/ Len(handler) <= 2 * Cardinality(rung) + faults

\* Wherever the callee may read them there are the ring and the offer of the
\* call: no other caller has rung over it, no end of a handler has cleared it and
\* no other call of the caller has replaced the offer.
InPlace(i) == /\ \A r \in ReadAt : bell[r] = offer[i].caller
              /\ \A r \in PairNodes : offerKey[offer[i].caller][r] = i

\* A call that goes on waiting gets an answer when the callee has heard its
\* offer, or when its ring and its offer stay in place.
OffersSucceed ==
  []<>(\A i \in InState("poll") :
         Heard(i) \/ InPlace(i) => faults > 0 \/ closed \/ Len(handler) = MaxHandled)
=============================================================================
