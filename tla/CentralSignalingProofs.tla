------------------------ MODULE CentralSignalingProofs ------------------------
(***************************************************************************)
(* The two ends of a call over the central server, and the benchmark that  *)
(* has pairs of agents make such calls.                                    *)
(*                                                                         *)
(* PlacesInv, AnswersMatch and EntryLostToSameNode for every number of     *)
(* nodes, websockets, offers and losses.  The inductive invariant follows  *)
(* an offer and its answer: there is one copy of the two, in a queue, in a *)
(* goroutine of the server or of the callee, or in the channel of a call.  *)
(*                                                                         *)
(* PairsInv and AllMeansAll for every number of pairs, agents and faults.  *)
(* That inductive invariant, PairIInv, charges each lost pair and each     *)
(* repeated run of a role to a fault.                                      *)
(***************************************************************************)
EXTENDS CentralSignaling, PairBenchmark, FiniteSetTheorems, FunctionTheorems, SequenceTheorems, TLAPS

Opened == {s \in Sessions : owner[s] # None}

\* Websockets and offers are numbered in the order of their beginning.
NoHoles ==
  /\ \E k \in Nat : Opened = 1 .. k
  /\ \E k \in Nat : UsedOffers = 1 .. k

\* The server knows websockets that were opened, and each registers once, with
\* its first message.
SessionsInv ==
  /\ serving \subseteq Opened /\ registered \subseteq Opened
  /\ \A s \in Sessions : \A i \in DOMAIN up[s] :
       up[s][i] = Register => s \in Opened \ registered /\ i = 1

\* Where an offer or the answer to it can be.
InQueue(q, o) == \E s \in Sessions : \E i \in DOMAIN q[s] : q[s][i].offer = o
Forwarded(o) == \E f \in forwards : f.msg.offer = o
InChannel(o) == \E p \in Offers : channel[p] = o

\* What is on its way is about offers that were sent.
Mentioned ==
  /\ ~InQueue(down, None) /\ ~Forwarded(None)
  /\ \A o \in Offers :
       (InQueue(up, o) \/ InQueue(down, o) \/ Forwarded(o) \/ o \in answering \/ InChannel(o))
         => o \in UsedOffers

\* Calls of one pair that wait at the same time have overlapped.
Overlaps == \A o, p \in Waiting : (o # p /\ SamePair(o, p)) => o \in overlapped

\* A place is held by the latest call of its pair.
PlaceIsLatest ==
  \A n, m \in Nodes : pending[n][m] # None =>
    \A o \in UsedOffers : (offer[o].from = n /\ offer[o].to = m) => o <= pending[n][m]

\* What is in a channel answers an offer of the pair, no later one.
ChannelsMatch ==
  /\ \A p \in Offers : channel[p] # None =>
       /\ p \in UsedOffers /\ channel[p] \in UsedOffers
       /\ channel[p] <= p /\ SamePair(p, channel[p])
  /\ \A p \in Answered : offer[p].got = channel[p] /\ channel[p] # None

OneCopy(q) ==
  \A s, t \in Sessions : \A i \in DOMAIN q[s], j \in DOMAIN q[t] :
    (q[s][i].offer = q[t][j].offer /\ q[s][i].offer # None) => s = t /\ i = j

\* An offer and its answer are in one place only.
OnePlace(o) ==
  /\ InQueue(up, o) => ~InQueue(down, o) /\ ~Forwarded(o) /\ o \notin answering /\ ~InChannel(o)
  /\ InQueue(down, o) => ~Forwarded(o) /\ o \notin answering /\ ~InChannel(o)
  /\ Forwarded(o) => o \notin answering /\ ~InChannel(o)
  /\ o \in answering => ~InChannel(o)

Single ==
  /\ OneCopy(up) /\ OneCopy(down)
  /\ \A f, g \in forwards : f.msg.offer = g.msg.offer => f = g
  /\ \A p, q \in Offers : (channel[p] = channel[q] /\ channel[p] # None) => p = q
  /\ \A o \in Offers : OnePlace(o)

IInv ==
  /\ TypeOK /\ NoHoles /\ SessionsInv /\ Mentioned
  /\ NoEndedEntry /\ PlaceIsWaiting /\ WaitingHasPlace /\ Overlaps /\ PlaceIsLatest
  /\ ChannelsMatch /\ Single

-----------------------------------------------------------------------------

LEMMA AppendFacts ==
  ASSUME NEW S, NEW q \in Seq(S), NEW e \in S
  PROVE  /\ Append(q, e) \in Seq(S) /\ Len(q) \in Nat
         /\ DOMAIN q = 1 .. Len(q) /\ DOMAIN Append(q, e) = 1 .. Len(q) + 1
         /\ \A i \in 1 .. Len(q) : Append(q, e)[i] = q[i]
         /\ Append(q, e)[Len(q) + 1] = e
BY AppendProperties, LenProperties

LEMMA TailFacts ==
  ASSUME NEW S, NEW q \in Seq(S), q # <<>>
  PROVE  /\ Len(q) \in Nat \ {0} /\ DOMAIN q = 1 .. Len(q)
         /\ Head(q) = q[1] /\ Head(q) \in S
         /\ Tail(q) \in Seq(S) /\ DOMAIN Tail(q) = 1 .. Len(q) - 1
         /\ \A i \in 1 .. Len(q) - 1 : Tail(q)[i] = q[i + 1]
BY HeadTailProperties, LenProperties, EmptySeq

LEMMA ConstantFacts ==
  /\ MaxSessions \in Nat \ {0} /\ MaxOffers \in Nat \ {0} /\ None \notin Nodes
  /\ None \notin Offers /\ None \notin Sessions
  /\ Offers \subseteq Nat /\ Sessions \subseteq Nat
BY SignalingBounds DEF None, Offers, Sessions

LEMMA MessageFacts ==
  /\ \A m \in Messages : /\ m.offer \in Offers \cup {None}
                         /\ m.type \in {"register", "offer", "answer"}
                         /\ m = Register <=> m.offer = None
                         /\ m.type \in {"offer", "answer"} => m.offer \in Offers
  /\ Register \in Messages /\ Register.offer = None
  /\ \A o \in Offers : /\ OfferMsg(o) \in Messages /\ AnswerMsg(o) \in Messages
                       /\ OfferMsg(o).offer = o /\ AnswerMsg(o).offer = o
<1>1. \A m \in Messages : m = Register \/ \E o \in Offers : m = OfferMsg(o) \/ m = AnswerMsg(o)
  BY DEF Messages
<1>2. /\ Register.type = "register" /\ Register.offer = None
      /\ \A o \in Offers : /\ OfferMsg(o).type = "offer" /\ AnswerMsg(o).type = "answer"
                           /\ OfferMsg(o).offer = o /\ AnswerMsg(o).offer = o
  BY DEF Register, OfferMsg, AnswerMsg
<1>3. Register \in Messages /\ \A o \in Offers : OfferMsg(o) \in Messages /\ AnswerMsg(o) \in Messages
  BY DEF Messages
<1> QED
  BY <1>1, <1>2, <1>3, ConstantFacts

\* Calls of SendOffer: the records of the used ones.
LEMMA OfferFacts ==
  ASSUME TypeOK
  PROVE  /\ offer \in [Offers -> OfferRecords \cup {Unused}]
         /\ UsedOffers \subseteq Offers /\ Waiting \subseteq UsedOffers /\ Answered \subseteq UsedOffers
         /\ \A o \in UsedOffers : /\ offer[o] \in OfferRecords
                                  /\ offer[o].from \in Nodes /\ offer[o].to \in Nodes
                                  /\ offer[o].got \in Offers \cup {None}
         /\ \A o \in Offers \ UsedOffers : offer[o] = Unused
         /\ \A o \in Offers : offer[o] \in OfferRecords => o \in UsedOffers
         /\ \A r \in OfferRecords : r # Unused
<1>1. offer \in [Offers -> OfferRecords \cup {Unused}]
  BY DEF TypeOK
<1>2. \A r \in OfferRecords : /\ r.st \in {"waiting", "answered", "failed"}
                              /\ r.from \in Nodes /\ r.to \in Nodes /\ r.got \in Offers \cup {None}
  BY DEF OfferRecords
<1>3. Unused.st = "unused"
  BY DEF Unused
<1>4. \A r \in OfferRecords : r # Unused
  BY <1>2, <1>3
<1> QED
  BY <1>1, <1>2, <1>4 DEF UsedOffers, Waiting, Answered

\* The next number, of a websocket or of an offer, was not given before.
LEMMA NextNumber ==
  ASSUME NEW k \in Nat, NEW S, S = 1 .. k
  PROVE  /\ Cardinality(S) + 1 = k + 1 /\ k + 1 \notin S
         /\ \A i \in S : i < k + 1
         /\ S \cup {k + 1} = 1 .. k + 1
<1>1. Cardinality(1 .. k) = k
  BY FS_Interval, SMT
<1> QED
  BY <1>1

-----------------------------------------------------------------------------

\* What happens to the queues of the websockets: a message is written to the
\* one of s, is read from it, or the queue is lost.
Adds(q, r, m) ==
  /\ r \in [Sessions -> Seq(Messages)]
  /\ \E s \in Sessions :
       /\ \A t \in Sessions \ {s} : r[t] = q[t]
       /\ r[s] = Append(q[s], m)

Reads(q, r, s) ==
  /\ q[s] # <<>> /\ r \in [Sessions -> Seq(Messages)]
  /\ \A t \in Sessions \ {s} : r[t] = q[t]
  /\ r[s] = Tail(q[s])

Loses(q, r, s) ==
  /\ r \in [Sessions -> Seq(Messages)]
  /\ \A t \in Sessions \ {s} : r[t] = q[t]
  /\ r[s] = <<>>

LEMMA WrittenAdds ==
  ASSUME TypeOK, NEW q \in [Sessions -> Seq(Messages)], NEW s, NEW m \in Messages
  PROVE  Written(q, s, m) = q \/ Adds(q, Written(q, s, m), m)
<1>1. CASE s \notin alive
  BY <1>1 DEF Written
<1>2. CASE s \in alive
  <2>1. s \in Sessions
    BY <1>2 DEF TypeOK
  <2>2. q[s] \in Seq(Messages)
    BY <2>1
  <2>3. Append(q[s], m) \in Seq(Messages)
    BY <2>2, AppendFacts
  <2> QED
    BY <1>2, <2>1, <2>3 DEF Written, Adds
<1> QED
  BY <1>1, <1>2

LEMMA AddsFacts ==
  ASSUME NEW q \in [Sessions -> Seq(Messages)], NEW r, NEW m \in Messages, Adds(q, r, m)
  PROVE  /\ \A o \in Offers \cup {None} : InQueue(r, o) => InQueue(q, o) \/ o = m.offer
         /\ (OneCopy(q) /\ ~InQueue(q, m.offer)) => OneCopy(r)
<1>1. PICK s \in Sessions :
        (\A t \in Sessions \ {s} : r[t] = q[t]) /\ r[s] = Append(q[s], m)
  BY DEF Adds
<1>2. /\ Len(q[s]) \in Nat /\ DOMAIN q[s] = 1 .. Len(q[s]) /\ DOMAIN r[s] = 1 .. Len(q[s]) + 1
      /\ \A i \in 1 .. Len(q[s]) : r[s][i] = q[s][i]
      /\ r[s][Len(q[s]) + 1] = m
  <2>1. q[s] \in Seq(Messages)
    OBVIOUS
  <2> QED
    BY <1>1, <2>1, AppendFacts
<1>3. \A t \in Sessions : \A i \in DOMAIN r[t] :
        \/ i \in DOMAIN q[t] /\ r[t][i] = q[t][i]
        \/ t = s /\ i = Len(q[s]) + 1 /\ r[t][i] = m
  BY <1>1, <1>2
<1>4. \A o \in Offers \cup {None} : InQueue(r, o) => InQueue(q, o) \/ o = m.offer
  BY <1>3 DEF InQueue
<1>5. ASSUME OneCopy(q), ~InQueue(q, m.offer)
      PROVE  OneCopy(r)
  <2>1. \A t \in Sessions : \A i \in DOMAIN q[t] : q[t][i].offer # m.offer
    BY <1>5 DEF InQueue
  <2> SUFFICES ASSUME NEW t \in Sessions, NEW u \in Sessions, NEW i \in DOMAIN r[t], NEW j \in DOMAIN r[u],
                      r[t][i].offer = r[u][j].offer, r[t][i].offer # None
               PROVE  t = u /\ i = j
    BY DEF OneCopy
  <2>2. CASE i \in DOMAIN q[t] /\ r[t][i] = q[t][i] /\ j \in DOMAIN q[u] /\ r[u][j] = q[u][j]
    BY <2>2, <1>5 DEF OneCopy
  <2>3. CASE r[t][i] = m \/ r[u][j] = m
    <3>1. r[t][i].offer = m.offer /\ r[u][j].offer = m.offer
      BY <2>3
    <3> QED
      BY <3>1, <2>1, <1>3
  <2> QED
    BY <2>2, <2>3, <1>3
<1> QED
  BY <1>4, <1>5

LEMMA ReadsFacts ==
  ASSUME NEW q \in [Sessions -> Seq(Messages)], NEW s \in Sessions, NEW r, Reads(q, r, s)
  PROVE  /\ Head(q[s]) \in Messages /\ InQueue(q, Head(q[s]).offer)
         /\ \A o \in Offers \cup {None} : InQueue(r, o) => InQueue(q, o)
         /\ OneCopy(q) => OneCopy(r)
         /\ (OneCopy(q) /\ Head(q[s]).offer # None) => ~InQueue(r, Head(q[s]).offer)
         /\ \A i \in DOMAIN r[s] : i \in Nat \ {0} /\ i + 1 \in DOMAIN q[s] /\ r[s][i] = q[s][i + 1]
         /\ 1 \in DOMAIN q[s] /\ Head(q[s]) = q[s][1]
<1> DEFINE h == Head(q[s])
<1>1. q[s] \in Seq(Messages) /\ q[s] # <<>>
  BY DEF Reads
<1>2. /\ Len(q[s]) \in Nat \ {0} /\ DOMAIN q[s] = 1 .. Len(q[s]) /\ DOMAIN r[s] = 1 .. Len(q[s]) - 1
      /\ \A i \in 1 .. Len(q[s]) - 1 : r[s][i] = q[s][i + 1]
      /\ h = q[s][1] /\ h \in Messages
  BY <1>1, TailFacts DEF Reads
<1> HIDE DEF h
<1>3. /\ \A i \in DOMAIN r[s] : i \in Nat \ {0} /\ i + 1 \in DOMAIN q[s] /\ r[s][i] = q[s][i + 1]
      /\ 1 \in DOMAIN q[s]
  BY <1>2
<1>4. \A t \in Sessions \ {s} : r[t] = q[t]
  BY DEF Reads
<1>5. InQueue(q, h.offer)
  BY <1>2, <1>3 DEF InQueue
<1>6. \A o \in Offers \cup {None} : InQueue(r, o) => InQueue(q, o)
  BY <1>3, <1>4 DEF InQueue
<1>7. ASSUME OneCopy(q)
      PROVE  OneCopy(r)
  <2> SUFFICES ASSUME NEW t \in Sessions, NEW u \in Sessions, NEW i \in DOMAIN r[t], NEW j \in DOMAIN r[u],
                      r[t][i].offer = r[u][j].offer, r[t][i].offer # None
               PROVE  t = u /\ i = j
    BY DEF OneCopy
  <2>1. CASE t = s /\ u = s
    <3>1. /\ i \in Nat /\ i + 1 \in DOMAIN q[s] /\ q[s][i + 1] = r[s][i]
          /\ j \in Nat /\ j + 1 \in DOMAIN q[s] /\ q[s][j + 1] = r[s][j]
      BY <2>1, <1>3
    <3>2. i + 1 = j + 1
      BY <2>1, <3>1, <1>7 DEF OneCopy
    <3> QED
      BY <2>1, <3>1, <3>2
  <2>2. CASE t # s /\ u = s
    <3>1. j + 1 \in DOMAIN q[s] /\ q[s][j + 1] = r[s][j] /\ i \in DOMAIN q[t] /\ r[t][i] = q[t][i]
      BY <2>2, <1>3, <1>4
    <3> QED
      BY <2>2, <3>1, <1>7 DEF OneCopy
  <2>3. CASE t = s /\ u # s
    <3>1. i + 1 \in DOMAIN q[s] /\ q[s][i + 1] = r[s][i] /\ j \in DOMAIN q[u] /\ r[u][j] = q[u][j]
      BY <2>3, <1>3, <1>4
    <3> QED
      BY <2>3, <3>1, <1>7 DEF OneCopy
  <2>4. CASE t # s /\ u # s
    BY <2>4, <1>4, <1>7 DEF OneCopy
  <2> QED
    BY <2>1, <2>2, <2>3, <2>4
<1>8. ASSUME OneCopy(q), h.offer # None
      PROVE  ~InQueue(r, h.offer)
  <2> SUFFICES ASSUME NEW t \in Sessions, NEW i \in DOMAIN r[t], r[t][i].offer = h.offer
               PROVE  FALSE
    BY DEF InQueue
  <2>1. CASE t = s
    <3>1. i \in Nat \ {0} /\ i + 1 \in DOMAIN q[s] /\ q[s][i + 1].offer = q[s][1].offer
      BY <2>1, <1>2, <1>3
    <3>2. i + 1 = 1
      BY <3>1, <1>2, <1>3, <1>8 DEF OneCopy
    <3> QED
      BY <3>1, <3>2
  <2>2. CASE t # s
    BY <2>2, <1>2, <1>3, <1>4, <1>8 DEF OneCopy
  <2> QED
    BY <2>1, <2>2
<1> QED
  BY <1>2, <1>3, <1>5, <1>6, <1>7, <1>8 DEF h

LEMMA LosesFacts ==
  ASSUME NEW q \in [Sessions -> Seq(Messages)], NEW s \in Sessions, NEW r, Loses(q, r, s)
  PROVE  /\ \A o \in Offers \cup {None} : InQueue(r, o) => InQueue(q, o)
         /\ OneCopy(q) => OneCopy(r)
<1>1. DOMAIN r[s] = {}
  BY DEF Loses
<1>2. \A t \in Sessions \ {s} : r[t] = q[t]
  BY DEF Loses
<1>3. \A t \in Sessions : \A i \in DOMAIN r[t] : i \in DOMAIN q[t] /\ r[t][i] = q[t][i]
  <2> SUFFICES ASSUME NEW t \in Sessions, NEW i \in DOMAIN r[t]
               PROVE  i \in DOMAIN q[t] /\ r[t][i] = q[t][i]
    OBVIOUS
  <2>1. t # s
    BY <1>1
  <2> QED
    BY <1>2, <2>1
<1>4. ASSUME NEW o \in Offers \cup {None}, InQueue(r, o) PROVE InQueue(q, o)
  BY <1>3, <1>4 DEF InQueue
<1>5. ASSUME OneCopy(q) PROVE OneCopy(r)
  <2> SUFFICES ASSUME NEW t \in Sessions, NEW u \in Sessions, NEW i \in DOMAIN r[t], NEW j \in DOMAIN r[u],
                      r[t][i].offer = r[u][j].offer, r[t][i].offer # None
               PROVE  t = u /\ i = j
    BY DEF OneCopy
  <2>1. i \in DOMAIN q[t] /\ r[t][i] = q[t][i] /\ j \in DOMAIN q[u] /\ r[u][j] = q[u][j]
    BY <1>3
  <2> QED
    BY <1>5, <2>1 DEF OneCopy
<1> QED
  BY <1>4, <1>5

-----------------------------------------------------------------------------

\* What each step does to the part of the state that a conjunct is about.

\* A websocket is opened, with a number of its own.
Opens(s, n) ==
  /\ s \in Sessions \ Opened /\ n \in Nodes
  /\ Opened' = Opened \cup {s}
  /\ owner' \in [Sessions -> Nodes \cup {None}]
  /\ owner'[s] = n /\ \A t \in Sessions \ {s} : owner'[t] = owner[t]
  /\ Loses(up, [up EXCEPT ![s] = <<>>], s)
  /\ up' \in [Sessions -> Seq(Messages)] /\ up'[s] = <<Register>>
  /\ \A t \in Sessions \ {s} : up'[t] = up[t]
  /\ serving' = serving \cup {s}

LEMMA ListenOffersOpens ==
  ASSUME TypeOK, NoHoles, NEW n \in Nodes, ListenOffers(n)
  PROVE  /\ \E s \in Sessions : Opens(s, n)
         /\ \E k \in Nat : Opened' = 1 .. k
         /\ UNCHANGED <<down, registered, peers, forwards, calls, answering>>
<1> DEFINE s == Cardinality(Opened) + 1
<1>1. PICK k \in Nat : Opened = 1 .. k
  BY DEF NoHoles
<1>2. s = k + 1 /\ s \notin Opened /\ Opened \cup {s} = 1 .. k + 1
  BY <1>1, NextNumber
<1>3. /\ s \in Sessions
      /\ owner' = [owner EXCEPT ![s] = n] /\ up' = [up EXCEPT ![s] = <<Register>>]
      /\ serving' = serving \cup {s}
      /\ UNCHANGED <<down, registered, peers, forwards, calls, answering>>
  BY DEF ListenOffers, Opened
<1> HIDE DEF s
<1>4. owner \in [Sessions -> Nodes \cup {None}] /\ up \in [Sessions -> Seq(Messages)]
  BY DEF TypeOK
<1>5. /\ owner' \in [Sessions -> Nodes \cup {None}]
      /\ owner'[s] = n /\ \A t \in Sessions \ {s} : owner'[t] = owner[t]
  BY <1>3, <1>4
<1>6. <<Register>> \in Seq(Messages) /\ <<>> \in Seq(Messages)
  BY MessageFacts
<1>7. /\ up' \in [Sessions -> Seq(Messages)] /\ up'[s] = <<Register>>
      /\ \A t \in Sessions \ {s} : up'[t] = up[t]
      /\ Loses(up, [up EXCEPT ![s] = <<>>], s)
  BY <1>3, <1>4, <1>6 DEF Loses
<1>8. Opened' = Opened \cup {s}
  BY <1>3, <1>5, ConstantFacts DEF Opened
<1>9. Opens(s, n)
  BY <1>2, <1>3, <1>5, <1>7, <1>8 DEF Opens
<1> QED
  BY <1>1, <1>2, <1>3, <1>8, <1>9

\* A call of SendOffer begins, and waits or has failed.
Begins(o, n, m) ==
  /\ o \in Offers \ UsedOffers /\ n \in Nodes /\ m \in Nodes
  /\ \A p \in UsedOffers : p < o
  /\ UsedOffers' = UsedOffers \cup {o}
  /\ offer' \in [Offers -> OfferRecords \cup {Unused}]
  /\ offer'[o].from = n /\ offer'[o].to = m /\ offer'[o].st \in {"waiting", "failed"}
  /\ \A p \in Offers \ {o} : offer'[p] = offer[p]
  /\ pending' \in [Nodes -> [Nodes -> Offers \cup {None}]]
  /\ pending'[n][m] = IF offer'[o].st = "waiting" THEN o ELSE None
  /\ \A i, j \in Nodes : <<i, j>> # <<n, m>> => pending'[i][j] = pending[i][j]
  /\ up' = up \/ Adds(up, up', OfferMsg(o))

LEMMA PendingChanges ==
  ASSUME TypeOK, NEW n \in Nodes, NEW m \in Nodes, NEW o \in Offers \cup {None},
         pending' = [pending EXCEPT ![n][m] = o]
  PROVE  /\ pending' \in [Nodes -> [Nodes -> Offers \cup {None}]]
         /\ pending'[n][m] = o
         /\ \A i, j \in Nodes : <<i, j>> # <<n, m>> => pending'[i][j] = pending[i][j]
<1>1. pending \in [Nodes -> [Nodes -> Offers \cup {None}]]
  BY DEF TypeOK
<1> QED
  BY <1>1

WaitingOf(n, m) == {p \in Waiting : offer[p].from = n /\ offer[p].to = m}

Overlap(o, n, m) ==
  overlapped' = IF WaitingOf(n, m) = {} THEN overlapped ELSE overlapped \cup WaitingOf(n, m) \cup {o}

LEMMA SendOfferBegins ==
  ASSUME TypeOK, NoHoles, NEW n \in Nodes, NEW m \in Nodes, SendOffer(n, m)
  PROVE  /\ \E o \in Offers : Begins(o, n, m) /\ Overlap(o, n, m)
         /\ \E k \in Nat : UsedOffers' = 1 .. k
         /\ UNCHANGED <<client, down, server, channel, answering>>
<1> DEFINE o == Cardinality(UsedOffers) + 1
           Record(st) == [st |-> st, from |-> n, to |-> m, got |-> None]
<1>1. PICK k \in Nat : UsedOffers = 1 .. k
  BY DEF NoHoles
<1>2. o = k + 1 /\ o \notin UsedOffers /\ UsedOffers \cup {o} = 1 .. k + 1 /\ \A p \in UsedOffers : p < o
  BY <1>1, NextNumber
<1>3. /\ o \in Offers
      /\ \/ /\ offer' = [offer EXCEPT ![o] = Record("waiting")]
            /\ pending' = [pending EXCEPT ![n][m] = o]
            /\ up' = Written(up, conn[n], OfferMsg(o))
         \/ /\ offer' = [offer EXCEPT ![o] = Record("failed")]
            /\ pending' = [pending EXCEPT ![n][m] = None]
            /\ UNCHANGED up
      /\ Overlap(o, n, m)
      /\ UNCHANGED <<client, down, server, channel, answering>>
  BY DEF SendOffer, Place, Overlap, WaitingOf
<1> HIDE DEF o
<1>4. \A st \in {"waiting", "failed"} : Record(st) \in OfferRecords
  BY DEF OfferRecords
<1>5. \A st \in {"waiting", "failed"} : /\ Record(st).from = n /\ Record(st).to = m /\ Record(st).st = st
  OBVIOUS
<1> HIDE DEF Record
<1>6. /\ offer' \in [Offers -> OfferRecords \cup {Unused}]
      /\ \A p \in Offers \ {o} : offer'[p] = offer[p]
      /\ \/ offer'[o] = Record("waiting") /\ pending' = [pending EXCEPT ![n][m] = o]
         \/ offer'[o] = Record("failed") /\ pending' = [pending EXCEPT ![n][m] = None]
  BY <1>3, <1>4, OfferFacts
<1>7. UsedOffers' = UsedOffers \cup {o}
  <2>1. offer'[o] # Unused
    BY <1>4, <1>6, OfferFacts
  <2> QED
    BY <2>1, <1>3, <1>6 DEF UsedOffers, Unused
<1>8. /\ pending' \in [Nodes -> [Nodes -> Offers \cup {None}]]
      /\ pending'[n][m] = IF offer'[o].st = "waiting" THEN o ELSE None
      /\ \A i, j \in Nodes : <<i, j>> # <<n, m>> => pending'[i][j] = pending[i][j]
  BY <1>3, <1>5, <1>6, PendingChanges
<1>9. up' = up \/ Adds(up, up', OfferMsg(o))
  <2>1. OfferMsg(o) \in Messages /\ up \in [Sessions -> Seq(Messages)]
    BY <1>3, MessageFacts DEF TypeOK
  <2> QED
    BY <1>3, <2>1, WrittenAdds
<1>10. Begins(o, n, m)
  BY <1>2, <1>3, <1>5, <1>6, <1>7, <1>8, <1>9 DEF Begins
<1>11. o \in Offers /\ Overlap(o, n, m) /\ UNCHANGED <<client, down, server, channel, answering>>
  BY <1>3
<1>12. UsedOffers' = 1 .. k + 1 /\ k + 1 \in Nat
  BY <1>2, <1>7
<1> QED
  BY <1>10, <1>11, <1>12

\* A call that waits ends, and gives the place of its callee back.
Ends(o) ==
  /\ o \in Waiting
  /\ UsedOffers' = UsedOffers
  /\ offer' \in [Offers -> OfferRecords \cup {Unused}]
  /\ offer'[o].from = offer[o].from /\ offer'[o].to = offer[o].to
  /\ \/ offer'[o].st = "failed"
     \/ offer'[o].st = "answered" /\ channel[o] # None /\ offer'[o].got = channel[o]
  /\ \A p \in Offers \ {o} : offer'[p] = offer[p]
  /\ pending' \in [Nodes -> [Nodes -> Offers \cup {None}]]
  /\ pending'[offer[o].from][offer[o].to] = None
  /\ \A i, j \in Nodes : <<i, j>> # <<offer[o].from, offer[o].to>> => pending'[i][j] = pending[i][j]
  /\ UNCHANGED <<client, up, down, server, channel, overlapped, answering>>

LEMMA CallEnds ==
  ASSUME TypeOK, NEW o \in Offers, TakeAnswer(o) \/ TimesOut(o)
  PROVE  Ends(o)
<1> DEFINE r == IF TakeAnswer(o) THEN [offer[o] EXCEPT !.st = "answered", !.got = channel[o]]
                ELSE [offer[o] EXCEPT !.st = "failed"]
<1>1. o \in Waiting /\ offer[o] \in OfferRecords /\ offer[o].from \in Nodes /\ offer[o].to \in Nodes
  BY OfferFacts DEF TakeAnswer, TimesOut
<1>2. channel[o] \in Offers \cup {None}
  BY DEF TypeOK
<1>3. /\ r \in OfferRecords
      /\ r.from = offer[o].from /\ r.to = offer[o].to
      /\ \/ r.st = "failed"
         \/ r.st = "answered" /\ channel[o] # None /\ r.got = channel[o]
  <2>1. CASE TakeAnswer(o)
    BY <2>1, <1>1, <1>2 DEF OfferRecords, TakeAnswer
  <2>2. CASE ~TakeAnswer(o)
    BY <2>2, <1>1 DEF OfferRecords
  <2> QED
    BY <2>1, <2>2
<1>4. offer' = [offer EXCEPT ![o] = r]
  BY DEF TakeAnswer, TimesOut
<1> HIDE DEF r
<1>5. /\ offer' \in [Offers -> OfferRecords \cup {Unused}] /\ offer'[o] = r
      /\ \A p \in Offers \ {o} : offer'[p] = offer[p]
  BY <1>3, <1>4, OfferFacts
<1>6. UsedOffers' = UsedOffers
  <2>1. offer'[o] # Unused /\ offer[o] # Unused
    BY <1>1, <1>3, <1>5, OfferFacts
  <2> QED
    BY <2>1, <1>5 DEF UsedOffers, Unused
<1>7. /\ pending' \in [Nodes -> [Nodes -> Offers \cup {None}]]
      /\ pending'[offer[o].from][offer[o].to] = None
      /\ \A i, j \in Nodes : <<i, j>> # <<offer[o].from, offer[o].to>> => pending'[i][j] = pending[i][j]
  BY <1>1, PendingChanges DEF TakeAnswer, TimesOut, Unpend
<1>8. UNCHANGED <<client, up, down, server, channel, overlapped, answering>>
  BY DEF TakeAnswer, TimesOut
<1> QED
  BY <1>1, <1>3, <1>5, <1>6, <1>7, <1>8 DEF Ends

-----------------------------------------------------------------------------

\* What happens to the messages of the other steps.  Everything else that the
\* invariant mentions stays as it is.
ReadsOffer(s) ==
  /\ Reads(down, down', s) /\ Head(down[s]).offer \in Offers
  /\ answering' = answering \cup {Head(down[s]).offer}
  /\ UNCHANGED <<client, up, server, calls>>

Answers(o) ==
  /\ o \in answering /\ answering' = answering \ {o}
  /\ up' = up \/ Adds(up, up', AnswerMsg(o))
  /\ UNCHANGED <<client, down, server, calls>>

ReadsAnswer(s) ==
  LET o == Head(down[s]).offer
      p == pending[offer[o].from][offer[o].to]
  IN
  /\ Reads(down, down', s) /\ o \in Offers
  /\ \/ channel' = channel
     \/ /\ p # None /\ channel[p] = None
        /\ channel' = [channel EXCEPT ![p] = o]
  /\ UNCHANGED <<client, up, server, offer, pending, overlapped, answering>>

ServerRegisters(s) ==
  /\ s \in serving /\ Reads(up, up', s) /\ Head(up[s]) = Register
  /\ registered' = registered \cup {s}
  /\ peers' = [peers EXCEPT ![owner[s]] = s]
  /\ UNCHANGED <<client, down, serving, forwards, calls, answering>>

ServerTakes(s) ==
  /\ s \in serving /\ Reads(up, up', s) /\ Head(up[s]).offer \in Offers
  /\ forwards' = forwards \cup {[msg |-> Head(up[s]), entry |-> None]}
  /\ UNCHANGED <<client, down, serving, registered, peers, calls, answering>>

LEMMA QueueTypes ==
  ASSUME TypeOK
  PROVE  /\ up \in [Sessions -> Seq(Messages)] /\ down \in [Sessions -> Seq(Messages)]
         /\ <<>> \in Seq(Messages)
         /\ \A s \in Sessions : up[s] \in Seq(Messages) /\ down[s] \in Seq(Messages)
         /\ \A f \in forwards : f.msg \in Messages /\ f.entry \in Sessions \cup {None}
BY DEF TypeOK

LEMMA ReadsTail ==
  ASSUME NEW q \in [Sessions -> Seq(Messages)], NEW s \in Sessions, q[s] # <<>>
  PROVE  Reads(q, [q EXCEPT ![s] = Tail(@)], s) /\ Head(q[s]) \in Messages
<1>1. q[s] \in Seq(Messages)
  OBVIOUS
<1>2. Tail(q[s]) \in Seq(Messages) /\ Head(q[s]) \in Messages
  BY <1>1, TailFacts
<1> QED
  BY <1>2 DEF Reads

LEMMA ReadOfferReads ==
  ASSUME TypeOK, NEW s \in Sessions, ReadOffer(s)
  PROVE  ReadsOffer(s)
<1>1. Reads(down, down', s) /\ Head(down[s]) \in Messages
  BY QueueTypes, ReadsTail DEF ReadOffer
<1> QED
  BY <1>1, MessageFacts DEF ReadOffer, ReadsOffer

LEMMA HandlerAnswers ==
  ASSUME TypeOK, NEW o \in Offers, HandlerEnds(o)
  PROVE  Answers(o)
<1>1. up' = up \/ Adds(up, up', AnswerMsg(o))
  BY QueueTypes, MessageFacts, WrittenAdds DEF HandlerEnds
<1> QED
  BY <1>1 DEF HandlerEnds, Answers

LEMMA ReadAnswerReads ==
  ASSUME TypeOK, NEW s \in Sessions, ReadAnswer(s)
  PROVE  ReadsAnswer(s)
<1>1. Reads(down, down', s) /\ Head(down[s]) \in Messages
  BY QueueTypes, ReadsTail DEF ReadAnswer
<1>2. Head(down[s]).offer \in Offers
  BY <1>1, MessageFacts DEF ReadAnswer
<1> QED
  BY <1>1, <1>2 DEF ReadAnswer, ReadsAnswer

LEMMA ServerReadsCases ==
  ASSUME TypeOK, NEW s \in Sessions, ServerReads(s)
  PROVE  ServerRegisters(s) \/ ServerTakes(s)
<1>1. Reads(up, up', s) /\ Head(up[s]) \in Messages
  BY QueueTypes, ReadsTail DEF ServerReads
<1>2. CASE Head(up[s]) = Register
  BY <1>1, <1>2 DEF ServerReads, ServerRegisters
<1>3. CASE Head(up[s]) # Register
  BY <1>1, <1>3, MessageFacts DEF ServerReads, ServerTakes
<1> QED
  BY <1>2, <1>3

Ended(s) ==
  /\ Loses(up, up', s) /\ serving' = serving \ {s} /\ peers' = Forgotten(s)
  /\ UNCHANGED <<client, down, registered, forwards, calls, answering>>

LEMMA ServerEndsEnded ==
  ASSUME TypeOK, NEW s \in Sessions, ServerEnds(s)
  PROVE  s \in serving /\ Ended(s)
<1>1. Loses(up, up', s)
  BY QueueTypes DEF ServerEnds, Loses
<1> QED
  BY <1>1 DEF ServerEnds, Ended

LoopEnds(s) ==
  /\ Loses(down, down', s)
  /\ UNCHANGED <<owner, alive, conn, up, server, calls, answering>>

LEMMA ReadLoopLoses ==
  ASSUME TypeOK, NEW s \in Sessions, ReadLoopEnds(s)
  PROVE  LoopEnds(s)
<1>1. Loses(down, down', s)
  BY QueueTypes DEF ReadLoopEnds, Loses
<1> QED
  BY <1>1 DEF ReadLoopEnds, LoopEnds

\* A goroutine of the server, which has looked its target up or has not.
FindsEntry(f) ==
  /\ f \in forwards
  /\ \/ forwards' = forwards \ {f}
     \/ \E g \in [msg : Messages, entry : Sessions] : g.msg = f.msg /\ forwards' = (forwards \ {f}) \cup {g}
  /\ UNCHANGED <<client, up, down, serving, registered, peers, calls, answering>>

Delivers(f) ==
  /\ f \in forwards /\ forwards' = forwards \ {f}
  /\ down' = down \/ Adds(down, down', f.msg)
  /\ UNCHANGED <<client, up, serving, registered, peers, calls, answering>>

LEMMA LooksUpFinds ==
  ASSUME TypeOK, Mentioned, NEW f \in forwards, LooksUp(f)
  PROVE  FindsEntry(f)
<1>1. f.msg \in Messages /\ f.msg.offer # None
  BY QueueTypes DEF Mentioned, Forwarded
<1>2. f.msg.offer \in UsedOffers
  <2>1. f.msg.offer \in Offers
    BY <1>1, MessageFacts
  <2> QED
    BY <2>1 DEF Mentioned, Forwarded
<1>3. Target(f.msg) \in Nodes
  BY <1>2, OfferFacts DEF Target
<1>4. peers[Target(f.msg)] \in Sessions \cup {None}
  BY <1>3 DEF TypeOK
<1>5. f \in [msg : Messages, entry : Sessions \cup {None}]
  BY DEF TypeOK
<1>6. ASSUME NEW s \in Sessions
      PROVE  [f EXCEPT !.entry = s] \in [msg : Messages, entry : Sessions] /\ [f EXCEPT !.entry = s].msg = f.msg
  <2>1. [f EXCEPT !.entry = s] = [msg |-> f.msg, entry |-> s]
    BY <1>5
  <2> QED
    BY <1>5, <2>1
<1>7. CASE peers[Target(f.msg)] = None
  BY <1>7 DEF LooksUp, FindsEntry
<1>8. CASE peers[Target(f.msg)] # None
  <2> DEFINE g == [f EXCEPT !.entry = peers[Target(f.msg)]]
  <2>1. forwards' = (forwards \ {f}) \cup {g}
    BY <1>8 DEF LooksUp
  <2>2. g \in [msg : Messages, entry : Sessions] /\ g.msg = f.msg
    BY <1>4, <1>6, <1>8
  <2> HIDE DEF g
  <2> QED
    BY <2>1, <2>2 DEF LooksUp, FindsEntry
<1> QED
  BY <1>7, <1>8

LEMMA ForwardsDelivers ==
  ASSUME TypeOK, NEW f \in forwards, Forwards(f)
  PROVE  Delivers(f)
<1>1. down' = down \/ Adds(down, down', f.msg)
  BY QueueTypes, WrittenAdds DEF Forwards
<1> QED
  BY <1>1 DEF Forwards, Delivers

-----------------------------------------------------------------------------

\* Every step is one of these.
Opening(n) ==
  /\ \E s \in Sessions : Opens(s, n)
  /\ \E k \in Nat : Opened' = 1 .. k
  /\ UNCHANGED <<down, registered, peers, forwards, calls, answering>>

Sending(n, m) ==
  /\ \E o \in Offers : Begins(o, n, m) /\ Overlap(o, n, m)
  /\ \E k \in Nat : UsedOffers' = 1 .. k
  /\ UNCHANGED <<client, down, server, channel, answering>>

Quiet == UNCHANGED <<owner, up, down, server, calls, answering>>

ClientStep ==
  \/ Quiet
  \/ \E n \in Nodes : Opening(n)
  \/ \E s \in Sessions : LoopEnds(s) \/ ReadsOffer(s) \/ ReadsAnswer(s)
  \/ \E n, m \in Nodes : Sending(n, m)
  \/ \E o \in Offers : Ends(o) \/ Answers(o)

ServerStep ==
  \/ \E s \in Sessions : ServerRegisters(s) \/ ServerTakes(s) \/ (s \in serving /\ Ended(s))
  \/ \E f \in forwards : FindsEntry(f) \/ Delivers(f)

Step == ClientStep \/ ServerStep

LEMMA NextIsStep ==
  ASSUME TypeOK, NoHoles, Mentioned, Next
  PROVE  Step
<1>1. ASSUME NEW n \in Nodes, ListenOffers(n)
      PROVE  Step
  BY <1>1, ListenOffersOpens DEF Step, ClientStep, Opening
<1>2. ASSUME NEW s \in Sessions, ReadLoopEnds(s) \/ ReadOffer(s) \/ ReadAnswer(s)
      PROVE  Step
  BY <1>2, ReadLoopLoses, ReadOfferReads, ReadAnswerReads DEF Step, ClientStep
<1>3. ASSUME NEW n \in Nodes, NEW m \in Nodes, SendOffer(n, m)
      PROVE  Step
  BY <1>3, SendOfferBegins DEF Step, ClientStep, Sending
<1>4. ASSUME NEW o \in Offers, TakeAnswer(o) \/ TimesOut(o) \/ HandlerEnds(o)
      PROVE  Step
  BY <1>4, CallEnds, HandlerAnswers DEF Step, ClientStep
<1>5. ASSUME NEW s \in Sessions, ServerReads(s) \/ ServerEnds(s)
      PROVE  Step
  BY <1>5, ServerReadsCases, ServerEndsEnded DEF Step, ServerStep
<1>6. ASSUME NEW f \in forwards, LooksUp(f) \/ Forwards(f)
      PROVE  Step
  BY <1>6, LooksUpFinds, ForwardsDelivers DEF Step, ServerStep
<1>7. ASSUME NEW n \in Nodes, Close(n)
      PROVE  Step
  BY <1>7 DEF Close, Step, ClientStep, Quiet
<1>8. ASSUME NEW s \in Sessions, Break(s)
      PROVE  Step
  BY <1>8 DEF Break, Step, ClientStep, Quiet
<1> QED
  BY <1>1, <1>2, <1>3, <1>4, <1>5, <1>6, <1>7, <1>8 DEF Next

-----------------------------------------------------------------------------

ClientOK ==
  /\ owner \in [Sessions -> Nodes \cup {None}]
  /\ alive \subseteq Sessions /\ reading \subseteq Sessions
  /\ conn \in [Nodes -> Sessions \cup {None}]

LEMMA ClientPreserved ==
  ASSUME TypeOK, NoHoles, Next
  PROVE  ClientOK'
<1>1. ClientOK
  BY DEF TypeOK, ClientOK
<1>2. ASSUME NEW n \in Nodes, ListenOffers(n)
      PROVE  ClientOK'
  <2>1. /\ Cardinality(Opened) + 1 \in Sessions
        /\ owner' = [owner EXCEPT ![Cardinality(Opened) + 1] = n]
        /\ alive' = alive \cup {Cardinality(Opened) + 1}
        /\ conn' = [conn EXCEPT ![n] = Cardinality(Opened) + 1]
        /\ reading' = reading \cup {Cardinality(Opened) + 1}
    BY <1>2 DEF ListenOffers, Opened
  <2> QED
    BY <1>1, <2>1 DEF ClientOK
<1>3. ASSUME NEW n \in Nodes, Close(n)
      PROVE  ClientOK'
  BY <1>1, <1>3 DEF Close, ClientOK
<1>4. ASSUME NEW s \in Sessions, Break(s) \/ ReadLoopEnds(s)
      PROVE  ClientOK'
  BY <1>1, <1>4 DEF Break, ReadLoopEnds, ClientOK
<1>5. CASE UNCHANGED client
  BY <1>1, <1>5 DEF client, ClientOK
<1>6. \/ \E n \in Nodes : ListenOffers(n) \/ Close(n)
      \/ \E s \in Sessions : Break(s) \/ ReadLoopEnds(s)
      \/ UNCHANGED client
  BY DEF Next, SendOffer, TakeAnswer, TimesOut, ReadOffer, HandlerEnds, ReadAnswer, ServerReads, ServerEnds,
         LooksUp, Forwards
<1> QED
  BY <1>2, <1>3, <1>4, <1>5, <1>6

QueuesOK == up \in [Sessions -> Seq(Messages)] /\ down \in [Sessions -> Seq(Messages)]

LEMMA QueuesPreserved ==
  ASSUME TypeOK, Step
  PROVE  QueuesOK'
<1>1. QueuesOK
  BY DEF TypeOK, QueuesOK
<1>2. /\ up' = up \/ up' \in [Sessions -> Seq(Messages)]
      /\ down' = down \/ down' \in [Sessions -> Seq(Messages)]
  <2>1. CASE ClientStep
    BY <2>1 DEF ClientStep, Quiet, Opening, Opens, LoopEnds, ReadsOffer, ReadsAnswer, Sending, Begins, Ends, Answers,
                Adds, Reads, Loses
  <2>2. CASE ServerStep
    BY <2>2 DEF ServerStep, ServerRegisters, ServerTakes, Ended, FindsEntry, Delivers, Adds, Reads, Loses
  <2> QED
    BY <2>1, <2>2 DEF Step
<1> QED
  BY <1>1, <1>2 DEF QueuesOK

ServerOK ==
  /\ serving \subseteq Sessions /\ registered \subseteq Sessions
  /\ peers \in [Nodes -> Sessions \cup {None}]
  /\ forwards \subseteq [msg : Messages, entry : Sessions \cup {None}]

LEMMA ServerPreserved ==
  ASSUME TypeOK, Step
  PROVE  ServerOK'
<1>1. ServerOK
  BY DEF TypeOK, ServerOK
<1>2. CASE UNCHANGED server
  BY <1>1, <1>2 DEF server, ServerOK
<1>3. ASSUME NEW n \in Nodes, Opening(n)
      PROVE  ServerOK'
  BY <1>1, <1>3 DEF Opening, Opens, ServerOK
<1>4. ASSUME NEW s \in Sessions, ServerRegisters(s)
      PROVE  ServerOK'
  BY <1>1, <1>4 DEF ServerRegisters, ServerOK
<1>5. ASSUME NEW s \in Sessions, ServerTakes(s)
      PROVE  ServerOK'
  <2>1. Head(up[s]) \in Messages
    BY <1>5, QueueTypes, TailFacts DEF ServerTakes, Reads
  <2> QED
    BY <1>1, <1>5, <2>1 DEF ServerTakes, ServerOK
<1>6. ASSUME NEW s \in Sessions, Ended(s)
      PROVE  ServerOK'
  BY <1>1, <1>6 DEF Ended, Forgotten, ServerOK
<1>7. ASSUME NEW f \in forwards, FindsEntry(f) \/ Delivers(f)
      PROVE  ServerOK'
  BY <1>1, <1>7 DEF FindsEntry, Delivers, ServerOK
<1>8. ClientStep => UNCHANGED server \/ \E n \in Nodes : Opening(n)
  BY DEF ClientStep, Quiet, LoopEnds, ReadsOffer, ReadsAnswer, Sending, Ends, Answers
<1> QED
  BY <1>2, <1>3, <1>4, <1>5, <1>6, <1>7, <1>8 DEF Step, ServerStep

CallsOK ==
  /\ offer \in [Offers -> OfferRecords \cup {Unused}]
  /\ pending \in [Nodes -> [Nodes -> Offers \cup {None}]]
  /\ channel \in [Offers -> Offers \cup {None}]
  /\ answering \subseteq Offers /\ overlapped \subseteq Offers

LEMMA CallsPreserved ==
  ASSUME TypeOK, Step
  PROVE  CallsOK'
<1>1. CallsOK
  BY DEF TypeOK, CallsOK
<1>2. CASE UNCHANGED calls /\ answering' = answering
  BY <1>1, <1>2 DEF calls, CallsOK
<1>3. ASSUME NEW s \in Sessions, ReadsOffer(s)
      PROVE  CallsOK'
  BY <1>1, <1>3 DEF ReadsOffer, calls, CallsOK
<1>4. ASSUME NEW s \in Sessions, ReadsAnswer(s)
      PROVE  CallsOK'
  BY <1>1, <1>4 DEF ReadsAnswer, CallsOK
<1>5. ASSUME NEW n \in Nodes, NEW m \in Nodes, Sending(n, m)
      PROVE  CallsOK'
  <2>1. PICK o \in Offers : Begins(o, n, m) /\ Overlap(o, n, m)
    BY <1>5 DEF Sending
  <2>2. overlapped' \subseteq Offers
    BY <1>1, <2>1, OfferFacts DEF Overlap, WaitingOf, CallsOK
  <2>3. UNCHANGED <<channel, answering>>
    BY <1>5 DEF Sending
  <2> QED
    BY <1>1, <2>1, <2>2, <2>3 DEF Begins, CallsOK
<1>6. ASSUME NEW o \in Offers, Ends(o)
      PROVE  CallsOK'
  BY <1>1, <1>6 DEF Ends, CallsOK
<1>7. ASSUME NEW o \in Offers, Answers(o)
      PROVE  CallsOK'
  BY <1>1, <1>7 DEF Answers, calls, CallsOK
<1>8. ServerStep => UNCHANGED calls /\ answering' = answering
  BY DEF ServerStep, ServerRegisters, ServerTakes, Ended, FindsEntry, Delivers
<1>9. (Quiet \/ (\E n \in Nodes : Opening(n)) \/ (\E s \in Sessions : LoopEnds(s)))
        => UNCHANGED calls /\ answering' = answering
  BY DEF Quiet, Opening, LoopEnds
<1> QED
  BY <1>2, <1>3, <1>4, <1>5, <1>6, <1>7, <1>8, <1>9 DEF Step, ClientStep

LEMMA TypePreserved ==
  ASSUME TypeOK, NoHoles, Mentioned, Next
  PROVE  TypeOK'
<1>1. Step /\ ClientOK'
  BY NextIsStep, ClientPreserved
<1>2. QueuesOK' /\ ServerOK' /\ CallsOK'
  BY <1>1, QueuesPreserved, ServerPreserved, CallsPreserved
<1> QED
  BY <1>1, <1>2 DEF TypeOK, ClientOK, QueuesOK, ServerOK, CallsOK

-----------------------------------------------------------------------------

\* The websockets, the queues to the server and the server's maps change
\* together in these ways only.
SocketStep ==
  \/ UNCHANGED <<owner, up, serving, registered, peers>>
  \/ \E n \in Nodes : (\E s \in Sessions : Opens(s, n)) /\ UNCHANGED <<registered, peers>>
  \/ \E m \in Messages : m # Register /\ Adds(up, up', m) /\ UNCHANGED <<owner, serving, registered, peers>>
  \/ \E s \in serving : ServerRegisters(s) \/ ServerTakes(s) \/ Ended(s)

LEMMA StepOfSockets ==
  ASSUME TypeOK, Step
  PROVE  SocketStep
<1>1. ASSUME NEW o \in Offers
      PROVE  OfferMsg(o) \in Messages \ {Register} /\ AnswerMsg(o) \in Messages \ {Register}
  BY MessageFacts, ConstantFacts
<1>2. ASSUME NEW n \in Nodes, NEW m \in Nodes, Sending(n, m)
      PROVE  SocketStep
  <2>1. PICK o \in Offers : up' = up \/ Adds(up, up', OfferMsg(o))
    BY <1>2 DEF Sending, Begins
  <2>2. UNCHANGED <<owner, serving, registered, peers>>
    BY <1>2 DEF Sending, client, server
  <2> QED
    BY <1>1, <2>1, <2>2 DEF SocketStep
<1>3. ASSUME NEW o \in Offers, Answers(o)
      PROVE  SocketStep
  <2>1. UNCHANGED <<owner, serving, registered, peers>> /\ (up' = up \/ Adds(up, up', AnswerMsg(o)))
    BY <1>3 DEF Answers, client, server
  <2> QED
    BY <1>1, <2>1 DEF SocketStep
<1>4. ASSUME NEW n \in Nodes, Opening(n)
      PROVE  SocketStep
  BY <1>4 DEF Opening, SocketStep
<1>5. ASSUME NEW s \in Sessions, LoopEnds(s) \/ ReadsOffer(s) \/ ReadsAnswer(s)
      PROVE  SocketStep
  BY <1>5 DEF LoopEnds, ReadsOffer, ReadsAnswer, SocketStep, client, server
<1>6. ASSUME NEW o \in Offers, Ends(o)
      PROVE  SocketStep
  BY <1>6 DEF Ends, SocketStep, client, server
<1>7. ASSUME NEW f \in forwards, FindsEntry(f) \/ Delivers(f)
      PROVE  SocketStep
  BY <1>7 DEF FindsEntry, Delivers, SocketStep, client
<1>8. CASE Quiet
  BY <1>8 DEF Quiet, SocketStep, server
<1>9. ASSUME NEW s \in Sessions, ServerRegisters(s) \/ ServerTakes(s) \/ (s \in serving /\ Ended(s))
      PROVE  SocketStep
  BY <1>9 DEF ServerRegisters, ServerTakes, SocketStep
<1> QED
  BY <1>2, <1>3, <1>4, <1>5, <1>6, <1>7, <1>8, <1>9 DEF Step, ClientStep, ServerStep

LEMMA SocketFacts ==
  ASSUME TypeOK, SessionsInv
  PROVE  /\ \A s \in serving \cup registered : s \in Sessions /\ owner[s] \in Nodes
         /\ \A s \in Opened : s \in Sessions
         /\ \A s \in Sessions : \A i \in DOMAIN up[s] : i \in Nat \ {0} /\ up[s][i] \in Messages
<1>1. \A s \in Sessions : DOMAIN up[s] = 1 .. Len(up[s]) /\ Len(up[s]) \in Nat /\ \A i \in DOMAIN up[s] : up[s][i] \in Messages
  BY QueueTypes, LenProperties, ElementOfSeq
<1> QED
  BY <1>1 DEF TypeOK, SessionsInv, Opened

LEMMA SessionsPreserved ==
  ASSUME TypeOK, SessionsInv, SocketStep
  PROVE  SessionsInv'
<1> USE DEF SessionsInv
<1>1. CASE UNCHANGED <<owner, up, serving, registered, peers>>
  BY <1>1 DEF Opened
<1>2. ASSUME NEW n \in Nodes, NEW s \in Sessions, Opens(s, n), UNCHANGED <<registered, peers>>
      PROVE  SessionsInv'
  <2>1. /\ Opened' = Opened \cup {s} /\ s \notin Opened
        /\ serving' = serving \cup {s} /\ registered' = registered
        /\ up'[s] = <<Register>> /\ \A t \in Sessions \ {s} : up'[t] = up[t]
    BY <1>2 DEF Opens
  <2>2. \A i \in DOMAIN up'[s] : i = 1
    BY <2>1
  <2>3. s \notin registered
    BY <2>1
  <2> QED
    BY <2>1, <2>2, <2>3
<1>3. ASSUME NEW m \in Messages, m # Register, Adds(up, up', m), UNCHANGED <<owner, serving, registered, peers>>
      PROVE  SessionsInv'
  <2>1. PICK s \in Sessions : (\A t \in Sessions \ {s} : up'[t] = up[t]) /\ up'[s] = Append(up[s], m)
    BY <1>3 DEF Adds
  <2>2. \A i \in DOMAIN up'[s] : (i \in DOMAIN up[s] /\ up'[s][i] = up[s][i]) \/ up'[s][i] = m
    <3>1. /\ Len(up[s]) \in Nat /\ DOMAIN up[s] = 1 .. Len(up[s]) /\ DOMAIN up'[s] = 1 .. Len(up[s]) + 1
          /\ \A i \in 1 .. Len(up[s]) : up'[s][i] = up[s][i]
          /\ up'[s][Len(up[s]) + 1] = m
      BY <2>1, QueueTypes, AppendFacts
    <3> QED
      BY <3>1
  <2>3. Opened' = Opened /\ serving' = serving /\ registered' = registered
    BY <1>3 DEF Opened
  <2> QED
    BY <1>3, <2>1, <2>2, <2>3
<1>4. ASSUME NEW s \in serving, Reads(up, up', s), owner' = owner, serving' = serving,
             registered' = registered \/ (Head(up[s]) = Register /\ registered' = registered \cup {s})
      PROVE  SessionsInv'
  <2>1. s \in Sessions /\ Opened' = Opened
    BY <1>4, SocketFacts DEF Opened
  <2>2. /\ \A i \in DOMAIN up'[s] : i \in Nat \ {0} /\ i + 1 \in DOMAIN up[s] /\ up'[s][i] = up[s][i + 1]
    BY <1>4, <2>1, QueueTypes, ReadsFacts
  <2>3. \A i \in DOMAIN up'[s] : up'[s][i] # Register
    BY <2>1, <2>2
  <2>4. \A t \in Sessions \ {s} : up'[t] = up[t]
    BY <1>4 DEF Reads
  <2> QED
    BY <1>4, <2>1, <2>3, <2>4
<1>5. ASSUME NEW s \in serving, Ended(s)
      PROVE  SessionsInv'
  <2>1. /\ Opened' = Opened /\ serving' = serving \ {s} /\ registered' = registered
        /\ up'[s] = <<>> /\ \A t \in Sessions \ {s} : up'[t] = up[t]
    BY <1>5 DEF Ended, Loses, Opened, client
  <2>2. DOMAIN up'[s] = {}
    BY <2>1
  <2> QED
    BY <2>1, <2>2
<1>6. ASSUME NEW s \in serving, ServerRegisters(s) \/ ServerTakes(s)
      PROVE  SessionsInv'
  BY <1>4, <1>6 DEF ServerRegisters, ServerTakes, client
<1> QED
  BY <1>1, <1>2, <1>3, <1>5, <1>6 DEF SocketStep

\* A websocket whose registration is read was not registered before.
LEMMA RegistersOnce ==
  ASSUME TypeOK, SessionsInv, NEW s \in serving, ServerRegisters(s)
  PROVE  s \in Sessions \ registered /\ owner[s] \in Nodes
<1>1. s \in Sessions /\ owner[s] \in Nodes
  BY SocketFacts
<1>2. 1 \in DOMAIN up[s] /\ up[s][1] = Register
  BY <1>1, QueueTypes, ReadsFacts DEF ServerRegisters
<1> QED
  BY <1>1, <1>2 DEF SessionsInv

LEMMA EntriesPreserved ==
  ASSUME TypeOK, SessionsInv, NoEndedEntry, SocketStep
  PROVE  NoEndedEntry'
<1> USE DEF NoEndedEntry
<1>1. peers \in [Nodes -> Sessions \cup {None}]
  BY DEF TypeOK
<1>2. CASE UNCHANGED <<owner, serving, registered, peers>>
  BY <1>2
<1>3. ASSUME NEW n \in Nodes, NEW s \in Sessions, Opens(s, n), UNCHANGED <<registered, peers>>
      PROVE  NoEndedEntry'
  <2>1. s \notin registered /\ serving' = serving \cup {s} /\ \A t \in Sessions \ {s} : owner'[t] = owner[t]
    BY <1>3 DEF Opens, SessionsInv
  <2> QED
    BY <1>1, <1>3, <2>1
<1>4. ASSUME NEW s \in serving, ServerRegisters(s)
      PROVE  NoEndedEntry'
  <2>1. s \in Sessions /\ owner[s] \in Nodes
    BY <1>4, RegistersOnce
  <2>2. /\ peers' = [peers EXCEPT ![owner[s]] = s] /\ registered' = registered \cup {s}
        /\ serving' = serving /\ owner' = owner
    BY <1>4 DEF ServerRegisters, client
  <2> QED
    BY <1>1, <2>1, <2>2
<1>5. ASSUME NEW s \in serving, ServerTakes(s)
      PROVE  NoEndedEntry'
  BY <1>2, <1>5 DEF ServerTakes, client
<1>6. ASSUME NEW s \in serving, Ended(s)
      PROVE  NoEndedEntry'
  <2>1. peers' = Forgotten(s) /\ serving' = serving \ {s} /\ registered' = registered /\ owner' = owner
    BY <1>6 DEF Ended, client
  <2>2. \A n \in Nodes : peers'[n] # None => peers'[n] = peers[n] /\ (s \in registered => n # owner[s])
    BY <1>1, <2>1, SocketFacts DEF Forgotten
  <2> QED
    BY <2>1, <2>2
<1> QED
  BY <1>2, <1>3, <1>4, <1>5, <1>6 DEF SocketStep

EntryLost ==
  \A s \in registered \cap serving :
    (Reachable(s) /\ ~Reachable(s)' /\ s \in serving')
      => \E t \in Sessions \ {s} :
           /\ owner[t] = owner[s]
           /\ t \in registered' \ registered \/ t \in serving \ serving'

\* What the maps say of a websocket changes when another one of its node
\* registers, which it does once, or ends.
LEMMA EntryLostInStep ==
  ASSUME TypeOK, SessionsInv, NoEndedEntry, SocketStep
  PROVE  EntryLost
<1> SUFFICES ASSUME NEW s \in registered \cap serving, peers[owner[s]] = s, peers'[owner'[s]] # s, s \in serving'
             PROVE  \E t \in Sessions \ {s} :
                      /\ owner[t] = owner[s]
                      /\ t \in registered' \ registered \/ t \in serving \ serving'
  BY DEF EntryLost, Reachable
<1>1. s \in Sessions /\ owner[s] \in Nodes /\ peers \in [Nodes -> Sessions \cup {None}]
  BY SocketFacts DEF TypeOK
<1>2. CASE UNCHANGED <<owner, peers>>
  BY <1>2
<1>3. ASSUME NEW n \in Nodes, NEW t \in Sessions, Opens(t, n), UNCHANGED <<registered, peers>>
      PROVE  FALSE
  BY <1>1, <1>3 DEF Opens, SessionsInv
<1>4. ASSUME NEW t \in serving, ServerRegisters(t)
      PROVE  t \in Sessions \ {s} /\ owner[t] = owner[s] /\ t \in registered' \ registered
  <2>1. t \in Sessions \ registered /\ owner[t] \in Nodes
    BY <1>4, RegistersOnce
  <2>2. peers' = [peers EXCEPT ![owner[t]] = t] /\ registered' = registered \cup {t} /\ owner' = owner
    BY <1>4 DEF ServerRegisters, client
  <2> QED
    BY <1>1, <2>1, <2>2
<1>5. ASSUME NEW t \in serving, Ended(t)
      PROVE  t \in Sessions \ {s} /\ owner[t] = owner[s] /\ t \in serving \ serving'
  <2>1. peers' = Forgotten(t) /\ serving' = serving \ {t} /\ owner' = owner
    BY <1>5 DEF Ended, client
  <2>2. t \in Sessions /\ owner[t] \in Nodes /\ t # s
    BY <2>1, SocketFacts
  <2> QED
    BY <1>1, <2>1, <2>2 DEF Forgotten
<1>6. ASSUME NEW t \in serving, ServerTakes(t)
      PROVE  UNCHANGED <<owner, peers>>
  BY <1>6 DEF ServerTakes, client
<1> QED
  BY <1>2, <1>3, <1>4, <1>5, <1>6 DEF SocketStep

-----------------------------------------------------------------------------

\* The calls, their places and the overlaps change together.
CallStep ==
  \/ UNCHANGED <<offer, pending, overlapped>>
  \/ \E n, m \in Nodes : \E o \in Offers : Begins(o, n, m) /\ Overlap(o, n, m) /\ channel' = channel
  \/ \E o \in Offers : Ends(o)

LEMMA StepOfCalls ==
  ASSUME Step
  PROVE  CallStep
<1>1. CASE ServerStep
  BY <1>1 DEF ServerStep, ServerRegisters, ServerTakes, Ended, FindsEntry, Delivers, CallStep, calls
<1>2. ASSUME NEW n \in Nodes, NEW m \in Nodes, Sending(n, m)
      PROVE  CallStep
  BY <1>2 DEF Sending, CallStep
<1>3. ASSUME NEW o \in Offers, Ends(o)
      PROVE  CallStep
  BY <1>3 DEF CallStep
<1>4. Quiet \/ (\E n \in Nodes : Opening(n)) \/ (\E s \in Sessions : LoopEnds(s) \/ ReadsOffer(s) \/ ReadsAnswer(s))
        \/ (\E o \in Offers : Answers(o))
        => CallStep
  BY DEF Quiet, Opening, LoopEnds, ReadsOffer, ReadsAnswer, Answers, CallStep, calls
<1> QED
  BY <1>1, <1>2, <1>3, <1>4 DEF Step, ClientStep

LEMMA SameCalls ==
  ASSUME offer' = offer
  PROVE  /\ UsedOffers' = UsedOffers /\ Waiting' = Waiting /\ Answered' = Answered
         /\ \A o, p \in Offers : SamePair(o, p)' <=> SamePair(o, p)
BY DEF UsedOffers, Waiting, Answered, SamePair

LEMMA BeginsFacts ==
  ASSUME TypeOK, NEW o \in Offers, NEW n \in Nodes, NEW m \in Nodes, Begins(o, n, m)
  PROVE  /\ o \notin UsedOffers /\ o \notin Waiting
         /\ Waiting' = Waiting \cup (IF offer'[o].st = "waiting" THEN {o} ELSE {})
         /\ Answered' = Answered
         /\ \A p \in UsedOffers : offer'[p] = offer[p] /\ p # o
<1>1. /\ o \notin UsedOffers /\ UsedOffers' = UsedOffers \cup {o}
      /\ \A p \in UsedOffers : offer'[p] = offer[p] /\ p # o
      /\ offer'[o].st # "answered"
  BY OfferFacts DEF Begins
<1> QED
  BY <1>1 DEF Waiting, Answered

LEMMA EndsFacts ==
  ASSUME TypeOK, NEW o \in Offers, Ends(o)
  PROVE  /\ o \in UsedOffers /\ UsedOffers' = UsedOffers
         /\ offer[o].from \in Nodes /\ offer[o].to \in Nodes
         /\ Waiting' = Waiting \ {o}
         /\ Answered' = Answered \/ (Answered' = Answered \cup {o} /\ channel[o] # None /\ offer'[o].got = channel[o])
         /\ \A p \in UsedOffers : /\ offer'[p].from = offer[p].from /\ offer'[p].to = offer[p].to
                                  /\ p # o => offer'[p] = offer[p]
         /\ o \notin Answered
<1>1. /\ o \in UsedOffers /\ offer[o].st = "waiting" /\ UsedOffers' = UsedOffers
      /\ offer[o].from \in Nodes /\ offer[o].to \in Nodes
  BY OfferFacts DEF Ends, Waiting
<1>2. \A p \in UsedOffers : p # o => offer'[p] = offer[p]
  BY OfferFacts DEF Ends
<1>3. offer'[o].st \in {"answered", "failed"}
  BY DEF Ends
<1>4. Waiting' = Waiting \ {o}
  BY <1>1, <1>2, <1>3 DEF Waiting
<1>5. Answered' = Answered \/ (Answered' = Answered \cup {o} /\ channel[o] # None /\ offer'[o].got = channel[o])
  <2>1. CASE offer'[o].st = "failed"
    BY <1>1, <1>2, <2>1 DEF Answered
  <2>2. CASE offer'[o].st = "answered"
    BY <1>1, <1>2, <2>2 DEF Answered, Ends
  <2> QED
    BY <1>3, <2>1, <2>2
<1>6. o \notin Answered
  BY <1>1 DEF Answered
<1> QED
  BY <1>1, <1>2, <1>4, <1>5, <1>6 DEF Ends

LEMMA PlaceIsWaitingPreserved ==
  ASSUME TypeOK, PlaceIsWaiting, CallStep
  PROVE  PlaceIsWaiting'
<1> USE DEF PlaceIsWaiting
<1>1. CASE UNCHANGED <<offer, pending, overlapped>>
  BY <1>1, SameCalls
<1>2. ASSUME NEW n \in Nodes, NEW m \in Nodes, NEW o \in Offers, Begins(o, n, m)
      PROVE  PlaceIsWaiting'
  <2> SUFFICES ASSUME NEW i \in Nodes, NEW j \in Nodes, pending'[i][j] # None
               PROVE  /\ pending'[i][j] \in Waiting'
                      /\ offer'[pending'[i][j]].from = i /\ offer'[pending'[i][j]].to = j
    OBVIOUS
  <2>1. CASE i = n /\ j = m
    BY <1>2, <2>1, BeginsFacts DEF Begins
  <2>2. CASE <<i, j>> # <<n, m>>
    <3>1. pending'[i][j] = pending[i][j]
      BY <1>2, <2>2 DEF Begins
    <3> QED
      BY <1>2, <3>1, BeginsFacts, OfferFacts
  <2> QED
    BY <2>1, <2>2
<1>3. ASSUME NEW o \in Offers, Ends(o)
      PROVE  PlaceIsWaiting'
  <2> SUFFICES ASSUME NEW i \in Nodes, NEW j \in Nodes, pending'[i][j] # None
               PROVE  /\ pending'[i][j] \in Waiting'
                      /\ offer'[pending'[i][j]].from = i /\ offer'[pending'[i][j]].to = j
    OBVIOUS
  <2>1. <<i, j>> # <<offer[o].from, offer[o].to>>
    BY <1>3 DEF Ends
  <2>2. pending'[i][j] = pending[i][j]
    BY <1>3, <2>1 DEF Ends
  <2>3. pending[i][j] \in Waiting \ {o}
    BY <2>1, <2>2
  <2> QED
    BY <1>3, <2>2, <2>3, EndsFacts, OfferFacts
<1> QED
  BY <1>1, <1>2, <1>3 DEF CallStep

LEMMA OverlapsPreserved ==
  ASSUME TypeOK, Overlaps, CallStep
  PROVE  Overlaps'
<1>1. CASE UNCHANGED <<offer, pending, overlapped>>
  BY <1>1, SameCalls, OfferFacts DEF Overlaps
<1>2. ASSUME NEW n \in Nodes, NEW m \in Nodes, NEW o \in Offers, Begins(o, n, m), Overlap(o, n, m)
      PROVE  Overlaps'
  <2> SUFFICES ASSUME NEW p \in Waiting', NEW q \in Waiting', p # q, SamePair(p, q)'
               PROVE  p \in overlapped'
    BY DEF Overlaps
  <2>1. offer'[o].from = n /\ offer'[o].to = m
    BY <1>2 DEF Begins
  <2>2. offer'[p].from = offer'[q].from /\ offer'[p].to = offer'[q].to
    BY DEF SamePair
  <2>3. CASE p \in Waiting /\ q \in Waiting
    BY <1>2, <2>2, <2>3, BeginsFacts, OfferFacts DEF Overlaps, SamePair, Overlap
  <2>4. CASE p = o /\ q \in Waiting
    <3>1. q \in WaitingOf(n, m)
      BY <1>2, <2>1, <2>2, <2>4, BeginsFacts, OfferFacts DEF WaitingOf
    <3> QED
      BY <1>2, <2>4, <3>1 DEF Overlap
  <2>5. CASE q = o /\ p \in Waiting
    <3>1. p \in WaitingOf(n, m)
      BY <1>2, <2>1, <2>2, <2>5, BeginsFacts, OfferFacts DEF WaitingOf
    <3> QED
      BY <1>2, <2>5, <3>1 DEF Overlap
  <2> QED
    BY <1>2, <2>3, <2>4, <2>5, BeginsFacts
<1>3. ASSUME NEW o \in Offers, Ends(o)
      PROVE  Overlaps'
  <2>1. overlapped' = overlapped
    BY <1>3 DEF Ends
  <2> QED
    BY <1>3, <2>1, EndsFacts, OfferFacts DEF Overlaps, SamePair
<1> QED
  BY <1>1, <1>2, <1>3 DEF CallStep

LEMMA WaitingHasPlacePreserved ==
  ASSUME TypeOK, WaitingHasPlace, Overlaps, CallStep
  PROVE  WaitingHasPlace'
<1> USE DEF WaitingHasPlace
<1>1. CASE UNCHANGED <<offer, pending, overlapped>>
  BY <1>1, SameCalls
<1>2. ASSUME NEW n \in Nodes, NEW m \in Nodes, NEW o \in Offers, Begins(o, n, m), Overlap(o, n, m)
      PROVE  WaitingHasPlace'
  <2> SUFFICES ASSUME NEW p \in Waiting' \ overlapped'
               PROVE  pending'[offer'[p].from][offer'[p].to] = p
    OBVIOUS
  <2>1. CASE p = o
    BY <1>2, <2>1, BeginsFacts DEF Begins
  <2>2. CASE p # o
    <3>1. p \in Waiting \ overlapped /\ p \notin WaitingOf(n, m) /\ p \in UsedOffers
      BY <1>2, <2>2, BeginsFacts, OfferFacts DEF Overlap
    <3>2. offer'[p] = offer[p] /\ offer[p].from \in Nodes /\ offer[p].to \in Nodes
      BY <1>2, <3>1, BeginsFacts, OfferFacts
    <3>3. <<offer[p].from, offer[p].to>> # <<n, m>>
      BY <3>1 DEF WaitingOf
    <3>4. pending'[offer[p].from][offer[p].to] = pending[offer[p].from][offer[p].to]
      BY <1>2, <3>2, <3>3 DEF Begins
    <3> QED
      BY <3>1, <3>2, <3>4
  <2> QED
    BY <2>1, <2>2
<1>3. ASSUME NEW o \in Offers, Ends(o)
      PROVE  WaitingHasPlace'
  <2> SUFFICES ASSUME NEW p \in Waiting' \ overlapped'
               PROVE  pending'[offer'[p].from][offer'[p].to] = p
    OBVIOUS
  <2>1. p \in Waiting \ overlapped /\ p # o /\ p \in UsedOffers
    BY <1>3, EndsFacts, OfferFacts DEF Ends
  <2>2. offer'[p] = offer[p] /\ offer[p].from \in Nodes /\ offer[p].to \in Nodes
    BY <1>3, <2>1, EndsFacts, OfferFacts
  <2>3. ~SamePair(p, o)
    BY <1>3, <2>1 DEF Overlaps, Ends
  <2>4. pending'[offer[p].from][offer[p].to] = pending[offer[p].from][offer[p].to]
    BY <1>3, <2>2, <2>3 DEF SamePair, Ends
  <2> QED
    BY <2>1, <2>2, <2>4
<1> QED
  BY <1>1, <1>2, <1>3 DEF CallStep

LEMMA PlaceIsLatestPreserved ==
  ASSUME TypeOK, PlaceIsLatest, CallStep
  PROVE  PlaceIsLatest'
<1> USE DEF PlaceIsLatest
<1>1. CASE UNCHANGED <<offer, pending, overlapped>>
  BY <1>1, SameCalls
<1>2. ASSUME NEW n \in Nodes, NEW m \in Nodes, NEW o \in Offers, Begins(o, n, m)
      PROVE  PlaceIsLatest'
  <2> SUFFICES ASSUME NEW i \in Nodes, NEW j \in Nodes, pending'[i][j] # None,
                      NEW p \in UsedOffers', offer'[p].from = i, offer'[p].to = j
               PROVE  p <= pending'[i][j]
    OBVIOUS
  <2>1. UsedOffers' = UsedOffers \cup {o} /\ o \in Nat /\ \A q \in UsedOffers : q < o /\ q \in Nat
    BY <1>2, OfferFacts, ConstantFacts DEF Begins
  <2>2. CASE i = n /\ j = m
    BY <1>2, <2>1, <2>2 DEF Begins
  <2>3. CASE <<i, j>> # <<n, m>>
    <3>1. pending'[i][j] = pending[i][j]
      BY <1>2, <2>3 DEF Begins
    <3>2. p # o
      BY <1>2, <2>3 DEF Begins
    <3> QED
      BY <1>2, <2>1, <3>1, <3>2, BeginsFacts
  <2> QED
    BY <2>2, <2>3
<1>3. ASSUME NEW o \in Offers, Ends(o)
      PROVE  PlaceIsLatest'
  <2> SUFFICES ASSUME NEW i \in Nodes, NEW j \in Nodes, pending'[i][j] # None,
                      NEW p \in UsedOffers', offer'[p].from = i, offer'[p].to = j
               PROVE  p <= pending'[i][j]
    OBVIOUS
  <2>1. <<i, j>> # <<offer[o].from, offer[o].to>>
    BY <1>3 DEF Ends
  <2>2. pending'[i][j] = pending[i][j]
    BY <1>3, <2>1 DEF Ends
  <2> QED
    BY <1>3, <2>2, EndsFacts
<1> QED
  BY <1>1, <1>2, <1>3 DEF CallStep

LEMMA NumbersPreserved ==
  ASSUME TypeOK, NoHoles, Step
  PROVE  NoHoles'
<1>1. \E k \in Nat : Opened' = 1 .. k
  <2>1. CASE owner' = owner
    BY <2>1 DEF NoHoles, Opened
  <2>2. owner' = owner \/ \E n \in Nodes : Opening(n)
    BY DEF Step, ClientStep, ServerStep, Quiet, LoopEnds, ReadsOffer, ReadsAnswer, Sending, Ends, Answers,
           ServerRegisters, ServerTakes, Ended, FindsEntry, Delivers, client
  <2> QED
    BY <2>1, <2>2 DEF Opening
<1>2. \E k \in Nat : UsedOffers' = 1 .. k
  <2>1. CASE offer' = offer
    BY <2>1, SameCalls DEF NoHoles
  <2>2. ASSUME NEW o \in Offers, Ends(o)
        PROVE  \E k \in Nat : UsedOffers' = 1 .. k
    BY <2>2 DEF NoHoles, Ends
  <2>3. offer' = offer \/ (\E n, m \in Nodes : Sending(n, m)) \/ \E o \in Offers : Ends(o)
    BY DEF Step, ClientStep, ServerStep, Quiet, Opening, LoopEnds, ReadsOffer, ReadsAnswer, Answers,
           ServerRegisters, ServerTakes, Ended, FindsEntry, Delivers, calls
  <2> QED
    BY <2>1, <2>2, <2>3 DEF Sending
<1> QED
  BY <1>1, <1>2 DEF NoHoles

-----------------------------------------------------------------------------

LEMMA StepOfChannels ==
  ASSUME Step
  PROVE  (CallStep /\ channel' = channel) \/ \E s \in Sessions : ReadsAnswer(s)
<1>1. channel' = channel \/ \E s \in Sessions : ReadsAnswer(s)
  <2>1. CASE ServerStep
    BY <2>1 DEF ServerStep, ServerRegisters, ServerTakes, Ended, FindsEntry, Delivers, calls
  <2>2. CASE ClientStep
    BY <2>2 DEF ClientStep, Quiet, Opening, LoopEnds, ReadsOffer, Sending, Ends, Answers, calls
  <2> QED
    BY <2>1, <2>2 DEF Step
<1> QED
  BY <1>1, StepOfCalls

\* The call that has the place for the answers of m to n.
LEMMA PlaceHolder ==
  ASSUME PlaceIsWaiting, PlaceIsLatest, NEW n \in Nodes, NEW m \in Nodes, NEW p, p = pending[n][m], p # None
  PROVE  /\ p \in Waiting /\ offer[p].from = n /\ offer[p].to = m
         /\ \A o \in UsedOffers : (offer[o].from = n /\ offer[o].to = m) => o <= p
BY DEF PlaceIsWaiting, PlaceIsLatest

LEMMA ChannelsPreserved ==
  ASSUME TypeOK, Mentioned, PlaceIsWaiting, PlaceIsLatest, ChannelsMatch, Step
  PROVE  ChannelsMatch'
<1> USE DEF ChannelsMatch
<1>1. channel \in [Offers -> Offers \cup {None}]
  BY DEF TypeOK
<1>2. CASE offer' = offer /\ channel' = channel
  BY <1>1, <1>2, SameCalls, OfferFacts
<1>3. ASSUME NEW n \in Nodes, NEW m \in Nodes, NEW o \in Offers, Begins(o, n, m), channel' = channel
      PROVE  ChannelsMatch'
  <2>1. UsedOffers' = UsedOffers \cup {o} /\ Answered' = Answered /\ \A p \in UsedOffers : offer'[p] = offer[p]
    BY <1>3, BeginsFacts DEF Begins
  <2>2. \A p, q \in UsedOffers : SamePair(p, q)' <=> SamePair(p, q)
    BY <2>1 DEF SamePair
  <2> QED
    BY <1>3, <2>1, <2>2, OfferFacts
<1>4. ASSUME NEW o \in Offers, Ends(o)
      PROVE  ChannelsMatch'
  <2>1. channel' = channel
    BY <1>4 DEF Ends
  <2>2. \A p, q \in UsedOffers : SamePair(p, q) => offer'[p].from = offer'[q].from /\ offer'[p].to = offer'[q].to
    BY <1>4, EndsFacts DEF SamePair
  <2>3. \A p \in Offers : channel[p] # None =>
          /\ p \in UsedOffers' /\ channel[p] \in UsedOffers' /\ channel[p] <= p
          /\ offer'[p].from = offer'[channel[p]].from /\ offer'[p].to = offer'[channel[p]].to
    BY <1>4, <2>2, EndsFacts
  <2>4. \A p \in Answered' : offer'[p].got = channel[p] /\ channel[p] # None
    BY <1>4, EndsFacts, OfferFacts
  <2> QED
    BY <2>1, <2>3, <2>4 DEF SamePair
<1>5. ASSUME NEW s \in Sessions, ReadsAnswer(s), channel' # channel
      PROVE  ChannelsMatch'
  <2> DEFINE o == Head(down[s]).offer
             p == pending[offer[o].from][offer[o].to]
  <2>1. /\ Reads(down, down', s) /\ o \in Offers /\ offer' = offer
        /\ p # None /\ channel[p] = None /\ channel' = [channel EXCEPT ![p] = o]
    BY <1>5 DEF ReadsAnswer
  <2>2. o \in UsedOffers
    BY <2>1, QueueTypes, ReadsFacts DEF Mentioned
  <2>3. offer[o].from \in Nodes /\ offer[o].to \in Nodes
    BY <2>2, OfferFacts
  <2>4. p \in Waiting /\ o <= p /\ SamePair(p, o)
    <3> HIDE DEF o
    <3>1. /\ p \in Waiting /\ offer[p].from = offer[o].from /\ offer[p].to = offer[o].to
          /\ \A q \in UsedOffers : (offer[q].from = offer[o].from /\ offer[q].to = offer[o].to) => q <= p
      BY <2>1, <2>3, PlaceHolder
    <3> QED
      BY <3>1, <2>2 DEF SamePair
  <2>5. p \in UsedOffers /\ p \notin Answered
    BY <2>4, OfferFacts DEF Waiting, Answered
  <2> HIDE DEF o, p
  <2>6. \A q \in Offers : channel'[q] = IF q = p THEN o ELSE channel[q]
    BY <1>1, <2>1, <2>5, OfferFacts
  <2>7. UsedOffers' = UsedOffers /\ Answered' = Answered /\ \A i, j \in Offers : SamePair(i, j)' <=> SamePair(i, j)
    BY <2>1, SameCalls
  <2>8. \A q \in Answered : offer'[q].got = channel'[q] /\ channel'[q] # None
    BY <2>1, <2>5, <2>6, OfferFacts
  <2>9. ASSUME NEW q \in Offers, channel'[q] # None
        PROVE  /\ q \in UsedOffers /\ channel'[q] \in UsedOffers
               /\ channel'[q] <= q /\ SamePair(q, channel'[q])
    <3>1. CASE q = p
      BY <2>2, <2>4, <2>5, <2>6, <3>1
    <3>2. CASE q # p
      BY <2>6, <2>9, <3>2
    <3> QED
      BY <3>1, <3>2
  <2>10. ASSUME NEW q \in Offers, channel'[q] # None
         PROVE  offer'[q].from = offer'[channel'[q]].from /\ offer'[q].to = offer'[channel'[q]].to
    BY <2>1, <2>9, <2>10 DEF SamePair
  <2> QED
    BY <2>7, <2>8, <2>9, <2>10 DEF SamePair
<1>6. CASE UNCHANGED <<offer, pending, overlapped>> /\ channel' = channel
  BY <1>2, <1>6
<1>7. ASSUME NEW s \in Sessions, ReadsAnswer(s), channel' = channel
      PROVE  ChannelsMatch'
  BY <1>2, <1>7 DEF ReadsAnswer
<1> QED
  BY <1>3, <1>4, <1>5, <1>6, <1>7, StepOfChannels DEF CallStep

-----------------------------------------------------------------------------

OneForward == \A f, g \in forwards : f.msg.offer = g.msg.offer => f = g
OneChannel == \A p, q \in Offers : (channel[p] = channel[q] /\ channel[p] # None) => p = q
Somewhere(o) == InQueue(up, o) \/ InQueue(down, o) \/ Forwarded(o) \/ o \in answering \/ InChannel(o)

LEMMA PlacesNext ==
  ASSUME OneCopy(up'), OneCopy(down'), OneForward', OneChannel',
         ~InQueue(down', None), ~Forwarded(None)',
         \A o \in Offers : OnePlace(o)' /\ (Somewhere(o)' => o \in UsedOffers')
  PROVE  (Mentioned /\ Single)'
<1>1. OneCopy(up)' /\ OneCopy(down)' /\ ~InQueue(down, None)'
  BY DEF OneCopy, InQueue
<1> QED
  BY <1>1 DEF Mentioned, Single, OneForward, OneChannel, Somewhere

\* A message stays where it is, or disappears.
Kept(o) ==
  /\ InQueue(up', o) => InQueue(up, o)
  /\ InQueue(down', o) => InQueue(down, o)
  /\ Forwarded(o)' => Forwarded(o)
  /\ o \in answering' => o \in answering
  /\ InChannel(o)' => InChannel(o)

\* What an offer or its answer is in by itself after a step.
Apart(o) ==
  /\ InQueue(up', o) => ~InQueue(down', o) /\ ~Forwarded(o)' /\ o \notin answering' /\ ~InChannel(o)'
  /\ InQueue(down', o) => ~Forwarded(o)' /\ o \notin answering' /\ ~InChannel(o)'
  /\ Forwarded(o)' => o \notin answering' /\ ~InChannel(o)'
  /\ o \in answering' => ~InChannel(o)'

LEMMA NextPlace ==
  ASSUME NEW o
  PROVE  /\ (InQueue(up, o)' <=> InQueue(up', o)) /\ (InQueue(down, o)' <=> InQueue(down', o))
         /\ OnePlace(o)' <=> Apart(o)
<1>1. (InQueue(up, o)' <=> InQueue(up', o)) /\ (InQueue(down, o)' <=> InQueue(down', o))
  BY DEF InQueue
<1> QED
  BY <1>1 DEF OnePlace, Apart

LEMMA KeptPlace ==
  ASSUME NEW o, OnePlace(o), Kept(o)
  PROVE  OnePlace(o)'
BY NextPlace DEF OnePlace, Apart, Kept

LEMMA KeptSomewhere ==
  ASSUME NEW o, Kept(o), Somewhere(o)'
  PROVE  Somewhere(o)
BY NextPlace DEF Kept, Somewhere

\* A step that keeps every message but one, which it moves.
LEMMA MovesOne ==
  ASSUME TypeOK, Mentioned, Single, UsedOffers \subseteq UsedOffers',
         OneCopy(up'), OneCopy(down'), OneForward', OneChannel',
         ~InQueue(down', None), ~Forwarded(None)',
         NEW h, h \in Offers => h \in UsedOffers', Apart(h),
         \A o \in Offers : o = h \/ Kept(o)
  PROVE  (Mentioned /\ Single)'
<1>1. ASSUME NEW o \in Offers
      PROVE  OnePlace(o)' /\ (Somewhere(o)' => o \in UsedOffers')
  <2>1. CASE o = h
    BY <2>1, NextPlace
  <2>2. CASE Kept(o)
    BY <2>2, KeptPlace, KeptSomewhere DEF Mentioned, Single, Somewhere
  <2> QED
    BY <2>1, <2>2
<1> QED
  BY <1>1, PlacesNext

LEMMA KeepsAll ==
  ASSUME TypeOK, Mentioned, Single, UsedOffers \subseteq UsedOffers',
         OneCopy(up'), OneCopy(down'), OneForward', OneChannel',
         ~InQueue(down', None), ~Forwarded(None)',
         \A o \in Offers : Kept(o)
  PROVE  (Mentioned /\ Single)'
<1>1. ASSUME NEW o \in Offers
      PROVE  OnePlace(o)' /\ (Somewhere(o)' => o \in UsedOffers')
  BY KeptPlace, KeptSomewhere DEF Mentioned, Single, Somewhere
<1> QED
  BY <1>1, PlacesNext

-----------------------------------------------------------------------------

\* Where the messages are after each step.
LEMMA SingleFacts ==
  ASSUME TypeOK, Mentioned, Single
  PROVE  /\ OneCopy(up) /\ OneCopy(down) /\ OneForward /\ OneChannel
         /\ ~InQueue(down, None) /\ ~Forwarded(None)
         /\ \A o \in Offers : OnePlace(o) /\ (Somewhere(o) => o \in UsedOffers)
BY DEF Single, Mentioned, OneForward, OneChannel, Somewhere

LEMMA SameForwards ==
  ASSUME forwards' = forwards
  PROVE  (OneForward' <=> OneForward) /\ \A o : Forwarded(o)' <=> Forwarded(o)
BY DEF OneForward, Forwarded

LEMMA SameChannels ==
  ASSUME channel' = channel
  PROVE  (OneChannel' <=> OneChannel) /\ \A o : InChannel(o)' <=> InChannel(o)
BY DEF OneChannel, InChannel

LEMMA SingleWhenOpening ==
  ASSUME TypeOK, Mentioned, Single, NEW n \in Nodes, Opening(n)
  PROVE  (Mentioned /\ Single)'
<1>1. PICK s \in Sessions : Opens(s, n)
  BY DEF Opening
<1>2. down' = down /\ forwards' = forwards /\ channel' = channel /\ answering' = answering /\ offer' = offer
  BY DEF Opening, calls
<1>3. \A t \in Sessions : \A i \in DOMAIN up'[t] :
        \/ i \in DOMAIN up[t] /\ up'[t][i] = up[t][i]
        \/ t = s /\ i = 1 /\ up'[t][i] = Register
  BY <1>1 DEF Opens
<1>4. \A o \in Offers : InQueue(up', o) => InQueue(up, o)
  BY <1>3, MessageFacts, ConstantFacts DEF InQueue
<1>5. OneCopy(up')
  BY <1>3, MessageFacts, SingleFacts DEF OneCopy
<1> QED
  BY <1>2, <1>4, <1>5, SingleFacts, SameForwards, SameChannels, SameCalls, KeepsAll DEF Kept

LEMMA SingleWhenLoopEnds ==
  ASSUME TypeOK, Mentioned, Single, NEW s \in Sessions, LoopEnds(s)
  PROVE  (Mentioned /\ Single)'
<1>1. up' = up /\ forwards' = forwards /\ channel' = channel /\ answering' = answering /\ offer' = offer
  BY DEF LoopEnds, calls, server
<1>2. /\ \A o \in Offers \cup {None} : InQueue(down', o) => InQueue(down, o)
      /\ OneCopy(down')
  BY QueueTypes, LosesFacts, SingleFacts DEF LoopEnds
<1> QED
  BY <1>1, <1>2, SingleFacts, SameForwards, SameChannels, SameCalls, KeepsAll DEF Kept

LEMMA SingleWhenEnded ==
  ASSUME TypeOK, Mentioned, Single, NEW s \in Sessions, Ended(s)
  PROVE  (Mentioned /\ Single)'
<1>1. down' = down /\ forwards' = forwards /\ channel' = channel /\ answering' = answering /\ offer' = offer
  BY DEF Ended, calls
<1>2. /\ \A o \in Offers \cup {None} : InQueue(up', o) => InQueue(up, o)
      /\ OneCopy(up')
  BY QueueTypes, LosesFacts, SingleFacts DEF Ended
<1> QED
  BY <1>1, <1>2, SingleFacts, SameForwards, SameChannels, SameCalls, KeepsAll DEF Kept

LEMMA SingleWhenQuiet ==
  ASSUME TypeOK, Mentioned, Single,
         Quiet \/ (\E s \in Sessions : ServerRegisters(s)) \/ (\E o \in Offers : Ends(o))
  PROVE  (Mentioned /\ Single)'
<1>1. down' = down /\ forwards' = forwards /\ channel' = channel /\ answering' = answering /\ UsedOffers' = UsedOffers
  BY SameCalls DEF Quiet, ServerRegisters, Ends, calls, server
<1>2. /\ \A o \in Offers \cup {None} : InQueue(up', o) => InQueue(up, o)
      /\ OneCopy(up')
  <2>1. CASE up' = up
    BY <2>1, SingleFacts
  <2>2. ASSUME NEW s \in Sessions, ServerRegisters(s)
        PROVE  <1>2!1 /\ <1>2!2
    BY <2>2, QueueTypes, ReadsFacts, SingleFacts DEF ServerRegisters
  <2> QED
    BY <2>1, <2>2 DEF Quiet, Ends
<1> QED
  BY <1>1, <1>2, SingleFacts, SameForwards, SameChannels, KeepsAll DEF Kept

LEMMA SingleWhenSending ==
  ASSUME TypeOK, Mentioned, Single, NEW n \in Nodes, NEW m \in Nodes, Sending(n, m)
  PROVE  (Mentioned /\ Single)'
<1>1. PICK o \in Offers : Begins(o, n, m)
  BY DEF Sending
<1>2. down' = down /\ forwards' = forwards /\ channel' = channel /\ answering' = answering
  BY DEF Sending, server
<1>3. o \notin UsedOffers /\ UsedOffers' = UsedOffers \cup {o}
  BY <1>1 DEF Begins
<1>4. ~Somewhere(o)
  BY <1>3, SingleFacts
<1>5. /\ \A p \in Offers \cup {None} : InQueue(up', p) => InQueue(up, p) \/ p = o
      /\ OneCopy(up')
  <2>1. OfferMsg(o) \in Messages /\ OfferMsg(o).offer = o
    BY MessageFacts
  <2>2. CASE up' = up
    BY <2>2, SingleFacts
  <2>3. CASE Adds(up, up', OfferMsg(o))
    BY <2>1, <2>3, <1>4, QueueTypes, AddsFacts, SingleFacts DEF Somewhere
  <2> QED
    BY <1>1, <2>2, <2>3 DEF Begins
<1>6. Apart(o)
  BY <1>2, <1>4, SameForwards, SameChannels DEF Apart, Somewhere
<1>7. \A p \in Offers : p = o \/ Kept(p)
  BY <1>2, <1>5, SameForwards, SameChannels DEF Kept
<1> QED
  BY <1>2, <1>3, <1>5, <1>6, <1>7, SingleFacts, SameForwards, SameChannels, MovesOne

LEMMA SingleWhenReadsOffer ==
  ASSUME TypeOK, Mentioned, Single, NEW s \in Sessions, ReadsOffer(s)
  PROVE  (Mentioned /\ Single)'
<1>1. PICK h \in Offers : h = Head(down[s]).offer
  BY DEF ReadsOffer
<1>2. /\ up' = up /\ forwards' = forwards /\ channel' = channel /\ offer' = offer
      /\ answering' = answering \cup {h} /\ h \in Offers
  BY <1>1 DEF ReadsOffer, calls, server
<1>3. /\ InQueue(down, h) /\ ~InQueue(down', h)
      /\ \A o \in Offers \cup {None} : InQueue(down', o) => InQueue(down, o)
      /\ OneCopy(down')
  BY <1>1, QueueTypes, ReadsFacts, SingleFacts, ConstantFacts DEF ReadsOffer
<1>4. h \in UsedOffers /\ OnePlace(h)
  BY <1>2, <1>3, SingleFacts DEF Somewhere
<1>5. Apart(h)
  BY <1>2, <1>3, <1>4, SameForwards, SameChannels DEF Apart, OnePlace
<1>6. \A o \in Offers : o = h \/ Kept(o)
  BY <1>2, <1>3, SameForwards, SameChannels DEF Kept
<1> QED
  BY <1>2, <1>3, <1>4, <1>5, <1>6, SingleFacts, SameForwards, SameChannels, SameCalls, MovesOne

LEMMA SingleWhenAnswers ==
  ASSUME TypeOK, Mentioned, Single, NEW o \in Offers, Answers(o)
  PROVE  (Mentioned /\ Single)'
<1>1. /\ down' = down /\ forwards' = forwards /\ channel' = channel /\ offer' = offer
      /\ o \in answering /\ answering' = answering \ {o}
  BY DEF Answers, calls, server
<1>2. o \in UsedOffers /\ OnePlace(o)
  BY <1>1, SingleFacts DEF Somewhere
<1>3. /\ \A p \in Offers \cup {None} : InQueue(up', p) => InQueue(up, p) \/ p = o
      /\ OneCopy(up')
  <2>1. AnswerMsg(o) \in Messages /\ AnswerMsg(o).offer = o
    BY MessageFacts
  <2>2. CASE up' = up
    BY <2>2, SingleFacts
  <2>3. CASE Adds(up, up', AnswerMsg(o))
    BY <2>1, <2>3, <1>1, <1>2, QueueTypes, AddsFacts, SingleFacts DEF OnePlace
  <2> QED
    BY <2>2, <2>3 DEF Answers
<1>4. Apart(o)
  BY <1>1, <1>2, SameForwards, SameChannels DEF Apart, OnePlace
<1>5. \A p \in Offers : p = o \/ Kept(p)
  BY <1>1, <1>3, SameForwards, SameChannels DEF Kept
<1> QED
  BY <1>1, <1>2, <1>3, <1>4, <1>5, SingleFacts, SameForwards, SameChannels, SameCalls, MovesOne

LEMMA SingleWhenReadsAnswer ==
  ASSUME TypeOK, Mentioned, Single, PlaceIsWaiting, NEW s \in Sessions, ReadsAnswer(s)
  PROVE  (Mentioned /\ Single)'
<1>1. PICK h \in Offers : h = Head(down[s]).offer
  BY DEF ReadsAnswer
<1> DEFINE p == pending[offer[h].from][offer[h].to]
<1>2. /\ up' = up /\ forwards' = forwards /\ answering' = answering /\ offer' = offer /\ h \in Offers
      /\ channel' = channel \/ (p # None /\ channel[p] = None /\ channel' = [channel EXCEPT ![p] = h])
  BY <1>1 DEF ReadsAnswer, server
<1>3. /\ InQueue(down, h) /\ ~InQueue(down', h)
      /\ \A o \in Offers \cup {None} : InQueue(down', o) => InQueue(down, o)
      /\ OneCopy(down')
  BY <1>1, QueueTypes, ReadsFacts, SingleFacts, ConstantFacts DEF ReadsAnswer
<1> HIDE DEF p
<1>4. h \in UsedOffers /\ OnePlace(h) /\ ~InChannel(h)
  BY <1>2, <1>3, SingleFacts DEF Somewhere, OnePlace
<1>5. /\ \A q \in Offers : channel'[q] # channel[q] => channel'[q] = h
      /\ \A q, r \in Offers : (channel'[q] = h /\ channel'[r] = h) => q = r
  BY <1>2, <1>4 DEF InChannel, TypeOK
<1>6. OneChannel' /\ \A o \in Offers : o # h /\ InChannel(o)' => InChannel(o)
  BY <1>4, <1>5, SingleFacts DEF OneChannel, InChannel
<1>7. Apart(h)
  BY <1>2, <1>3, <1>4, SameForwards DEF Apart, OnePlace
<1>8. \A o \in Offers : o = h \/ Kept(o)
  BY <1>2, <1>3, <1>6, SameForwards DEF Kept
<1> QED
  BY <1>2, <1>3, <1>4, <1>6, <1>7, <1>8, SingleFacts, SameForwards, SameCalls, MovesOne

LEMMA SingleWhenTakes ==
  ASSUME TypeOK, Mentioned, Single, NEW s \in Sessions, ServerTakes(s)
  PROVE  (Mentioned /\ Single)'
<1>1. PICK m \in Messages : m = Head(up[s])
  BY QueueTypes, ReadsFacts DEF ServerTakes
<1>2. /\ down' = down /\ channel' = channel /\ answering' = answering /\ offer' = offer
      /\ forwards' = forwards \cup {[msg |-> m, entry |-> None]} /\ m.offer \in Offers
  BY <1>1 DEF ServerTakes, calls
<1>3. /\ InQueue(up, m.offer) /\ ~InQueue(up', m.offer)
      /\ \A o \in Offers \cup {None} : InQueue(up', o) => InQueue(up, o)
      /\ OneCopy(up')
  BY <1>1, <1>2, QueueTypes, ReadsFacts, SingleFacts, ConstantFacts DEF ServerTakes
<1>4. m.offer \in UsedOffers /\ OnePlace(m.offer) /\ ~Forwarded(m.offer)
  BY <1>2, <1>3, SingleFacts DEF Somewhere, OnePlace
<1>5. \A o : Forwarded(o)' => Forwarded(o) \/ o = m.offer
  BY <1>2 DEF Forwarded
<1>6. OneForward'
  BY <1>2, <1>4, SingleFacts DEF OneForward, Forwarded
<1>7. Apart(m.offer)
  BY <1>2, <1>3, <1>4, SameChannels DEF Apart, OnePlace
<1>8. \A o \in Offers : o = m.offer \/ Kept(o)
  BY <1>2, <1>3, <1>5, SameChannels DEF Kept
<1>9. ~Forwarded(None)'
  BY <1>2, <1>5, SingleFacts, ConstantFacts
<1> QED
  BY <1>2, <1>3, <1>4, <1>6, <1>7, <1>8, <1>9, SingleFacts, SameChannels, SameCalls, MovesOne

LEMMA SingleWhenFinds ==
  ASSUME TypeOK, Mentioned, Single, NEW f \in forwards, FindsEntry(f)
  PROVE  (Mentioned /\ Single)'
<1>1. up' = up /\ down' = down /\ channel' = channel /\ answering' = answering /\ offer' = offer
  BY DEF FindsEntry, calls
<1>2. \A g \in forwards' : (g \in forwards /\ g # f) \/ g.msg = f.msg
  BY DEF FindsEntry
<1>3. \A g, h \in forwards' : (g.msg = f.msg /\ h.msg = f.msg /\ g \notin forwards \ {f} /\ h \notin forwards \ {f}) => g = h
  BY DEF FindsEntry
<1>4. \A o : Forwarded(o)' => Forwarded(o)
  BY <1>2 DEF Forwarded
<1>5. OneForward'
  <2> SUFFICES ASSUME NEW g \in forwards', NEW h \in forwards', g.msg.offer = h.msg.offer
               PROVE  g = h
    BY DEF OneForward
  <2>1. CASE g \in forwards \ {f} /\ h \in forwards \ {f}
    BY <2>1, SingleFacts DEF OneForward
  <2>2. CASE g \in forwards \ {f} /\ h \notin forwards \ {f}
    <3>1. g.msg.offer = f.msg.offer
      BY <1>2, <2>2
    <3> QED
      BY <2>2, <3>1, SingleFacts DEF OneForward
  <2>3. CASE g \notin forwards \ {f} /\ h \in forwards \ {f}
    <3>1. h.msg.offer = f.msg.offer
      BY <1>2, <2>3
    <3> QED
      BY <2>3, <3>1, SingleFacts DEF OneForward
  <2>4. CASE g \notin forwards \ {f} /\ h \notin forwards \ {f}
    BY <1>2, <1>3, <2>4
  <2> QED
    BY <2>1, <2>2, <2>3, <2>4
<1> QED
  BY <1>1, <1>4, <1>5, SingleFacts, SameChannels, SameCalls, KeepsAll DEF Kept

LEMMA SingleWhenDelivers ==
  ASSUME TypeOK, Mentioned, Single, NEW f \in forwards, Delivers(f)
  PROVE  (Mentioned /\ Single)'
<1> DEFINE m == f.msg
<1>1. /\ up' = up /\ channel' = channel /\ answering' = answering /\ offer' = offer
      /\ forwards' = forwards \ {f} /\ m \in Messages
  BY QueueTypes DEF Delivers, calls
<1>2. m.offer # None /\ Forwarded(m.offer)
  BY SingleFacts DEF Forwarded
<1> HIDE DEF m
<1>3. m.offer \in UsedOffers /\ OnePlace(m.offer) /\ ~InQueue(down, m.offer)
  BY <1>1, <1>2, MessageFacts, SingleFacts DEF Somewhere, OnePlace
<1>4. /\ \A o \in Offers \cup {None} : InQueue(down', o) => InQueue(down, o) \/ o = m.offer
      /\ OneCopy(down')
  <2>1. CASE down' = down
    BY <2>1, SingleFacts
  <2>2. CASE Adds(down, down', m)
    BY <2>2, <1>1, <1>3, QueueTypes, AddsFacts, SingleFacts
  <2> QED
    BY <2>1, <2>2 DEF Delivers, m
<1>5. ~Forwarded(m.offer)'
  BY <1>1, SingleFacts DEF Forwarded, OneForward, m
<1>6. OneForward' /\ \A o : Forwarded(o)' => Forwarded(o)
  BY <1>1, SingleFacts DEF OneForward, Forwarded
<1>7. Apart(m.offer)
  BY <1>1, <1>2, <1>3, <1>5, SameChannels DEF Apart, OnePlace
<1>8. \A o \in Offers : o = m.offer \/ Kept(o)
  BY <1>1, <1>4, <1>6, SameChannels DEF Kept
<1>9. ~InQueue(down', None)
  BY <1>2, <1>4, SingleFacts
<1> QED
  BY <1>1, <1>3, <1>4, <1>6, <1>7, <1>8, <1>9, SingleFacts, SameChannels, SameCalls, MovesOne

LEMMA SinglePreserved ==
  ASSUME TypeOK, Mentioned, Single, PlaceIsWaiting, Step
  PROVE  (Mentioned /\ Single)'
<1>1. CASE ClientStep
  BY <1>1, SingleWhenQuiet, SingleWhenOpening, SingleWhenLoopEnds, SingleWhenReadsOffer, SingleWhenReadsAnswer,
     SingleWhenSending, SingleWhenAnswers DEF ClientStep
<1>2. CASE ServerStep
  BY <1>2, SingleWhenQuiet, SingleWhenTakes, SingleWhenEnded, SingleWhenFinds, SingleWhenDelivers DEF ServerStep
<1> QED
  BY <1>1, <1>2 DEF Step

-----------------------------------------------------------------------------

LEMMA InitIInv == Init => IInv
<1> SUFFICES ASSUME Init
             PROVE  IInv
  OBVIOUS
<1> USE DEF Init
<1>1. UsedOffers = {} /\ Waiting = {} /\ Answered = {} /\ Opened = {}
  BY DEF UsedOffers, Waiting, Answered, Opened
<1>2. TypeOK
  <2>1. <<>> \in Seq(Messages)
    OBVIOUS
  <2> QED
    BY <2>1 DEF TypeOK
<1>3. NoHoles
  <2>1. {} = 1 .. 0 /\ 0 \in Nat
    OBVIOUS
  <2> QED
    BY <1>1, <2>1 DEF NoHoles
<1>4. \A s \in Sessions : DOMAIN up[s] = {} /\ DOMAIN down[s] = {}
  OBVIOUS
<1>5. SessionsInv /\ Mentioned
  <2>1. \A o \in Offers \cup {None} : ~InQueue(up, o) /\ ~InQueue(down, o) /\ ~Forwarded(o) /\ o \notin answering
    BY <1>4 DEF InQueue, Forwarded
  <2>2. \A o \in Offers : ~InChannel(o)
    BY ConstantFacts DEF InChannel
  <2> QED
    BY <1>4, <2>1, <2>2 DEF SessionsInv, Mentioned
<1>6. NoEndedEntry /\ PlaceIsWaiting /\ WaitingHasPlace /\ Overlaps /\ PlaceIsLatest /\ ChannelsMatch
  BY <1>1 DEF NoEndedEntry, PlaceIsWaiting, WaitingHasPlace, Overlaps, PlaceIsLatest, ChannelsMatch
<1>7. Single
  <2>1. OneCopy(up) /\ OneCopy(down)
    BY <1>4 DEF OneCopy
  <2>2. \A o \in Offers : OnePlace(o)
    BY <1>4 DEF OnePlace, InQueue, Forwarded
  <2> QED
    BY <2>1, <2>2 DEF Single
<1> QED
  BY <1>2, <1>3, <1>5, <1>6, <1>7 DEF IInv

LEMMA StutterIInv ==
  ASSUME IInv, UNCHANGED vars
  PROVE  IInv'
<1>1. /\ UNCHANGED <<owner, alive, conn, reading, up, down, serving, registered, peers, forwards>>
      /\ UNCHANGED <<offer, pending, channel, overlapped, answering>>
  BY DEF vars, client, server, calls
<1>2. /\ Opened' = Opened /\ UsedOffers' = UsedOffers /\ Waiting' = Waiting /\ Answered' = Answered
  BY <1>1 DEF Opened, UsedOffers, Waiting, Answered
<1>3. TypeOK' /\ NoHoles' /\ SessionsInv'
  BY <1>1, <1>2 DEF IInv, TypeOK, NoHoles, SessionsInv
<1>4. Mentioned' /\ Single'
  BY <1>1, <1>2 DEF IInv, Mentioned, Single, OneCopy, OnePlace, InQueue, Forwarded, InChannel
<1>5. NoEndedEntry' /\ PlaceIsWaiting' /\ WaitingHasPlace' /\ PlaceIsLatest'
  BY <1>1, <1>2 DEF IInv, NoEndedEntry, PlaceIsWaiting, WaitingHasPlace, PlaceIsLatest
<1>6. Overlaps' /\ ChannelsMatch'
  BY <1>1, <1>2 DEF IInv, Overlaps, ChannelsMatch, SamePair
<1> QED
  BY <1>3, <1>4, <1>5, <1>6 DEF IInv

LEMMA StepIInv ==
  ASSUME IInv, [Next]_vars
  PROVE  IInv'
<1>1. CASE UNCHANGED vars
  BY <1>1, StutterIInv
<1>2. CASE Next
  <2>1. Step /\ SocketStep /\ CallStep
    BY <1>2, NextIsStep, StepOfSockets, StepOfCalls DEF IInv
  <2>2. TypeOK' /\ NoHoles'
    BY <1>2, <2>1, TypePreserved, NumbersPreserved DEF IInv
  <2>3. SessionsInv' /\ NoEndedEntry'
    BY <2>1, SessionsPreserved, EntriesPreserved DEF IInv
  <2>4. PlaceIsWaiting' /\ WaitingHasPlace' /\ Overlaps' /\ PlaceIsLatest'
    BY <2>1, PlaceIsWaitingPreserved, WaitingHasPlacePreserved, OverlapsPreserved, PlaceIsLatestPreserved DEF IInv
  <2>5. ChannelsMatch' /\ Mentioned' /\ Single'
    BY <2>1, ChannelsPreserved, SinglePreserved DEF IInv
  <2> QED
    BY <2>2, <2>3, <2>4, <2>5 DEF IInv
<1> QED
  BY <1>1, <1>2

LEMMA IInvMatches ==
  ASSUME IInv
  PROVE  AnswersMatch
<1>1. ASSUME NEW o \in Answered
      PROVE  /\ o \in Offers /\ offer[o].got = channel[o] /\ channel[o] # None
             /\ channel[o] <= o /\ SamePair(o, channel[o])
  BY OfferFacts DEF IInv, ChannelsMatch
<1>2. ASSUME NEW o \in Answered, NEW p \in Answered \ {o}
      PROVE  offer[p].got # offer[o].got
  BY <1>1 DEF IInv, Single
<1> QED
  BY <1>1, <1>2 DEF AnswersMatch, SamePair

LEMMA IInvInv == Spec => []IInv
<1>1. Init => IInv
  BY InitIInv
<1>2. IInv /\ [Next]_vars => IInv'
  BY StepIInv
<1> QED
  BY <1>1, <1>2, PTL DEF Spec

\* The maps of clients and server agree with the calls that wait and with the
\* connections that are served: SendOffer takes the place of its callee and
\* gives it back (signaling.go:140-156), and the server's entry is of a
\* connection that ServeHTTP still reads, although those of one id replace and
\* delete one another's.
THEOREM PlacesAgree == Spec => []PlacesInv
<1>1. IInv => PlacesInv
  BY DEF IInv, PlacesInv
<1> QED
  BY <1>1, IInvInv, PTL

\* An answer settles one offer of the pair it was made for, never an earlier
\* one (readLoop and SendOffer, by the channel that has the callee's place).
THEOREM AnswersSettleOne == Spec => []AnswersMatch
<1>1. IInv => AnswersMatch
  BY IInvMatches
<1> QED
  BY <1>1, IInvInv, PTL

\* A connection that ServeHTTP reads loses its entry only because another one
\* of the same node registers or ends.
THEOREM EntriesLostToOwnNode == Spec => EntryLostToSameNode
<1>1. IInv /\ Next => EntryLost
  <2> SUFFICES ASSUME IInv, Next
               PROVE  EntryLost
    OBVIOUS
  <2>1. SocketStep
    BY NextIsStep, StepOfSockets DEF IInv
  <2> QED
    BY <2>1, EntryLostInStep DEF IInv
<1>2. IInv /\ [Next]_vars => [EntryLost]_vars
  BY <1>1
<1>3. [][EntryLost]_vars <=> EntryLostToSameNode
  BY PTL DEF EntryLost, EntryLostToSameNode
<1> QED
  BY <1>2, <1>3, IInvInv, PTL DEF Spec

-----------------------------------------------------------------------------

\* The benchmark of pairs, for any number of pairs, agents and faults.

\* The executions of job j that were started, and those that another attempt
\* has followed: their acceptance was lost.
Runs(j) == {x \in started : x.role = j[1] /\ x.pair = j[2]}
Repeated(j) == {x \in Runs(j) : x.attempt < attempt[j]}

\* The pairs whose caller has been dispatched and that nothing will come from.
LostPairs == {p \in Pairs : dispatch[<<"caller", p>>] \in {"accepted", "failed"} /\ ~ Accounted(p)}

\* What is finite, and what the coordinator has done in each of its phases.
PairFinite == IsFiniteSet(started) /\ IsFiniteSet(results)

PairPhases ==
  phase \in {"waiting", "closing", "written"} => \A p \in Pairs : dispatch[<<"caller", p>>] \in {"accepted", "failed"}

\* Each lost pair has cost a fault.
LostByFaults == phase # "written" => Cardinality(LostPairs) <= faults

\* The attempts at job j: each was made at an execution that is the last one of j if
\* it was accepted or hangs, or at a dead agent, or had a fault.
JobAttempts(j) ==
  /\ \A x \in Runs(j) :
       x.attempt < attempt[j] \/ (x.attempt = attempt[j] /\ dispatch[j] \in {"accepted", "hanging"})
  /\ dispatch[j] = "accepted" => Execution(j, attempt[j]) \in started
  /\ dispatch[j] = "failed" => attempt[j] = NumAgents
  /\ Cardinality(Repeated(j)) <= faults
  /\ faults = 0 => \A a \in 0 .. attempt[j] - 1 : AgentFor(j, a) \in dead

AttemptsMade == \A j \in Jobs : JobAttempts(j)

\* A result comes from an execution, or from a caller that nobody accepted.
ResultsHaveOrigin ==
  \A res \in posting \cup results :
    \/ res.attempt = -1 /\ dispatch[<<"caller", res.pair>>] = "failed"
    \/ Execution(<<"caller", res.pair>>, res.attempt) \in started

\* An execution gives one result, and none before it ends.
ResultsOnce ==
  /\ \A r, s \in posting \cup results : r.pair = s.pair /\ r.attempt = s.attempt => r = s
  /\ \A x \in running, r \in posting \cup results :
       x.role = "caller" => ~ (r.pair = x.pair /\ r.attempt = x.attempt)

ResultsCounted ==
  /\ done => Cardinality(results) >= NumPairs
  /\ outcome = "all" => done

PairIInv ==
  /\ PairTyped /\ PairFinite /\ PairPhases /\ LostByFaults /\ AttemptsMade
  /\ ResultsHaveOrigin /\ ResultsOnce /\ ResultsCounted

LEMMA BenchmarkConstants ==
  /\ NumPairs \in Nat \ {0} /\ NumAgents \in Nat \ {0} /\ MaxFaults \in Nat
  /\ IsFiniteSet(Pairs) /\ Cardinality(Pairs) = NumPairs
<1>1. NumPairs \in Nat \ {0} /\ NumAgents \in Nat \ {0} /\ MaxFaults \in Nat
  BY BenchmarkSizes
<1>2. 0 \in Int /\ NumPairs - 1 \in Int
  BY <1>1
<1>3. /\ IsFiniteSet(0 .. NumPairs - 1)
      /\ Cardinality(0 .. NumPairs - 1) = IF 0 > NumPairs - 1 THEN 0 ELSE NumPairs - 1 - 0 + 1
  BY <1>2, FS_Interval, Zenon
<1> QED
  BY <1>1, <1>3 DEF Pairs

\* Division with remainder: the remainder is unique.
LEMMA RemainderUnique ==
  ASSUME NEW n \in Nat \ {0}, NEW q \in Int, NEW g \in 0 .. n - 1
  PROVE  (n * q + g) % n = g
<1> DEFINE m == n * q + g
<1>1. m \in Int
  OBVIOUS
<1> HIDE DEF m
<1>2. PICK p, r \in Int : p = m \div n /\ r = m % n /\ m = n * p + r /\ 0 <= r /\ r < n
  BY <1>1
<1>3. n * q + g = n * p + r
  BY <1>2 DEF m
<1>4. n * (q - p) = r - g
  BY <1>2, <1>3
<1>5. PICK d \in Int : d = q - p
  BY <1>2
<1>6. n * d = r - g
  BY <1>4, <1>5
<1>7. ~ (d >= 1)
  BY <1>2, <1>6
<1>8. ~ (d <= -1)
  BY <1>2, <1>6
<1>9. d = 0
  BY <1>5, <1>7, <1>8
<1>10. r = g
  BY <1>2, <1>6, <1>9
<1> QED
  BY <1>2, <1>10 DEF m

LEMMA RemainderExists ==
  ASSUME NEW n \in Nat \ {0}, NEW c \in Int
  PROVE  \E p, r \in Int : c = n * p + r /\ 0 <= r /\ r < n
<1>1. PICK p, r \in Int : p = c \div n /\ r = c % n /\ c = n * p + r /\ 0 <= r /\ r < n
  OBVIOUS
<1> QED
  BY <1>1

\* The attempts of a job go to all agents: no agent is left out.
LEMMA EveryAgentTried ==
  ASSUME NEW j \in Jobs, NEW g \in Agents
  PROVE  \E a \in Agents : AgentFor(j, a) = g
<1>1. NumAgents \in Nat \ {0} /\ g \in 0 .. NumAgents - 1 /\ j[2] \in Int
  BY BenchmarkConstants DEF Agents, Jobs, Pairs
<1>2. PICK c \in Int : c = j[2] + (IF j[1] = "caller" THEN (NumAgents + 1) \div 2 ELSE 0)
  <2>1. (NumAgents + 1) \div 2 \in Int
    BY <1>1
  <2> QED
    BY <1>1, <2>1
<1>3. \A a : AgentFor(j, a) = (c + a) % NumAgents
  BY <1>2, Zenon DEF AgentFor
<1>4. PICK p, r \in Int : c = NumAgents * p + r /\ 0 <= r /\ r < NumAgents
  BY <1>1, RemainderExists
<1>5. CASE g >= r
  <2>1. g - r \in Agents
    BY <1>1, <1>4, <1>5 DEF Agents
  <2>2. c + (g - r) = NumAgents * p + g
    BY <1>1, <1>4
  <2>3. (c + (g - r)) % NumAgents = g
    BY <1>1, <1>4, <2>2, RemainderUnique
  <2> QED
    BY <1>3, <2>1, <2>3
<1>6. CASE ~ (g >= r)
  <2>1. g - r + NumAgents \in Agents
    BY <1>1, <1>4, <1>6 DEF Agents
  <2>2. c + (g - r + NumAgents) = NumAgents * (p + 1) + g /\ p + 1 \in Int
    BY <1>1, <1>4
  <2>3. (c + (g - r + NumAgents)) % NumAgents = g
    BY <1>1, <2>2, RemainderUnique
  <2> QED
    BY <1>3, <2>1, <2>3
<1> QED
  BY <1>5, <1>6

LEMMA PairInitIInv == PairInit => PairIInv
<1> SUFFICES ASSUME PairInit PROVE PairIInv
  OBVIOUS
<1> USE DEF PairInit
<1>0. NumAgents \in Nat \ {0} /\ MaxFaults \in Nat
  BY BenchmarkConstants
<1>1. PairTyped
  <2>1. /\ dead \subseteq Agents /\ phase \in Roles
        /\ attempt \in [Jobs -> 0 .. NumAgents] /\ dispatch \in [Jobs -> {"open", "accepted", "hanging", "failed"}]
    BY <1>0 DEF Roles
  <2>2. staggered \in BOOLEAN /\ done \in BOOLEAN
    BY Zenon
  <2>3. faults \in 0 .. MaxFaults
    BY <1>0
  <2> QED
    BY <2>1, <2>2, <2>3 DEF PairTyped
<1>2. \A j \in Jobs : dispatch[j] = "open" /\ attempt[j] = 0 /\ Runs(j) = {} /\ Repeated(j) = {}
  BY DEF Runs, Repeated
<1>3. IsFiniteSet({}) /\ Cardinality({}) = 0
  BY FS_EmptySet
<1>4. LostPairs = {}
  <2>1. \A p \in Pairs : <<"caller", p>> \in Jobs
    BY DEF Jobs, Roles
  <2> QED
    BY <1>2, <2>1 DEF LostPairs
<1>5. AttemptsMade
  BY <1>2, <1>3 DEF AttemptsMade, JobAttempts
<1> QED
  BY <1>1, <1>3, <1>4, <1>5 DEF PairIInv, PairFinite, PairPhases, LostByFaults, ResultsHaveOrigin,
                                ResultsOnce, ResultsCounted

\* The type of the state, the number of faults and the jobs of the callers.
LEMMA PairFacts ==
  ASSUME PairIInv
  PROVE  /\ faults \in Nat /\ \A j \in Jobs : attempt[j] \in 0 .. NumAgents
         /\ \A p \in Pairs : <<"caller", p>> \in Jobs
         /\ \A j \in Jobs : /\ j = <<j[1], j[2]>> /\ j[1] \in Roles /\ j[2] \in Pairs
                            /\ j[1] = "caller" \/ j[1] = "callee"
         /\ \A r \in posting \cup results : r.pair \in Pairs /\ r.attempt \in Agents \cup {-1}
         /\ \A x \in started : x \in Executions /\ x.pair \in Pairs /\ x.role \in Roles /\ x.attempt \in Agents
         /\ running \subseteq started
<1>1. faults \in Nat
  BY BenchmarkConstants DEF PairIInv, PairTyped
<1>2. \A p \in Pairs : <<"caller", p>> \in Jobs
  BY DEF Jobs, Roles
<1>3. \A j \in Jobs : /\ j = <<j[1], j[2]>> /\ j[1] \in Roles /\ j[2] \in Pairs
                      /\ j[1] = "caller" \/ j[1] = "callee"
  BY DEF Jobs, Roles
<1>4. \A r \in posting \cup results : r.pair \in Pairs /\ r.attempt \in Agents \cup {-1}
  BY DEF PairIInv, PairTyped, Results
<1>5. \A x \in started : x \in Executions /\ x.pair \in Pairs /\ x.role \in Roles /\ x.attempt \in Agents
  BY DEF PairIInv, PairTyped, Executions
<1>6. running \subseteq started /\ \A j \in Jobs : attempt[j] \in 0 .. NumAgents
  BY DEF PairIInv, PairTyped
<1> QED
  BY <1>1, <1>2, <1>3, <1>4, <1>5, <1>6

\* What a step keeps when it loses no pair.
LEMMA NoPairLost ==
  ASSUME PairIInv, faults' \in Nat, faults' >= faults, phase' # "written" => phase # "written",
         \A p \in Pairs : dispatch'[<<"caller", p>>] \in {"accepted", "failed"}
           => Accounted(p)' \/ (dispatch[<<"caller", p>>] \in {"accepted", "failed"} /\ ~ Accounted(p))
  PROVE  LostByFaults'
<1>1. PICK L, M : L = LostPairs' /\ M = LostPairs
  OBVIOUS
<1>2. L \in SUBSET M /\ M \in SUBSET Pairs
  BY <1>1 DEF LostPairs
<1>3. IsFiniteSet(M)
  BY <1>2, BenchmarkConstants, FS_Subset
<1>4. Cardinality(L) <= Cardinality(M) /\ IsFiniteSet(L)
  BY <1>2, <1>3, FS_Subset
<1>5. Cardinality(L) \in Nat /\ Cardinality(M) \in Nat
  BY <1>3, <1>4, FS_CardinalityType
<1>6. faults \in Nat
  BY PairFacts
<1>7. phase # "written" => Cardinality(M) <= faults
  BY <1>1 DEF PairIInv, LostByFaults
<1>8. phase' # "written" => Cardinality(L) <= faults'
  BY <1>4, <1>5, <1>6, <1>7
<1> QED
  BY <1>1, <1>8 DEF LostByFaults

\* What a step keeps that makes no attempt at job j.
LEMMA JobKept ==
  ASSUME PairIInv, NEW j \in Jobs, attempt'[j] = attempt[j], dispatch'[j] = dispatch[j], dead' = dead,
         faults' \in Nat, faults' >= faults, started \subseteq started', Runs(j)' = Runs(j)
  PROVE  JobAttempts(j)'
<1>1. JobAttempts(j) /\ faults \in Nat
  BY PairFacts DEF PairIInv, AttemptsMade
<1>2. Repeated(j)' = Repeated(j)
  BY DEF Repeated
<1>3. Repeated(j) \in SUBSET started /\ IsFiniteSet(started)
  BY DEF Repeated, Runs, PairIInv, PairFinite
<1>4. Cardinality(Repeated(j)) \in Nat
  BY <1>3, FS_Subset, FS_CardinalityType
<1>5. Cardinality(Repeated(j)') <= faults'
  <2>1. Cardinality(Repeated(j)) <= faults
    BY <1>1 DEF JobAttempts
  <2>2. Cardinality(Repeated(j)) <= faults'
    BY <1>1, <1>4, <2>1
  <2> QED
    BY <1>2, <2>2, Zenon
<1>6. faults' = 0 => \A a \in 0 .. attempt'[j] - 1 : AgentFor(j, a) \in dead'
  BY <1>1 DEF JobAttempts
<1>7. AgentFor(j, 0)' = AgentFor(j, 0) /\ Execution(j, attempt[j])' = Execution(j, attempt[j])
  BY DEF AgentFor, Execution
<1>8. \A x \in Runs(j)' :
        x.attempt < attempt'[j] \/ (x.attempt = attempt'[j] /\ dispatch'[j] \in {"accepted", "hanging"})
  BY <1>1 DEF JobAttempts
<1>9. /\ dispatch'[j] = "accepted" => Execution(j, attempt[j]) \in started'
      /\ dispatch'[j] = "failed" => attempt'[j] = NumAgents
  BY <1>1 DEF JobAttempts
<1> QED
  BY <1>5, <1>6, <1>7, <1>8, <1>9 DEF JobAttempts, AgentFor

LEMMA AttemptsKept ==
  ASSUME PairIInv, UNCHANGED <<started, attempt, dispatch, dead>>, faults' \in Nat, faults' >= faults
  PROVE  AttemptsMade'
<1>1. ASSUME NEW j \in Jobs PROVE JobAttempts(j)'
  <2>1. Runs(j)' = Runs(j)
    BY DEF Runs
  <2> QED
    BY <2>1, JobKept
<1>2. Jobs' = Jobs
  BY DEF Jobs, Pairs, Roles
<1> QED
  BY <1>1, <1>2 DEF AttemptsMade

\* What a step keeps that makes no new result and no new execution.
LEMMA ResultsKept ==
  ASSUME PairIInv, (posting \cup results)' \subseteq posting \cup results, running' \subseteq running,
         started \subseteq started', \A p \in Pairs : dispatch[<<"caller", p>>] = "failed"
                                       => dispatch'[<<"caller", p>>] = "failed"
  PROVE  ResultsHaveOrigin' /\ ResultsOnce'
<1>1. ResultsHaveOrigin /\ ResultsOnce
  BY DEF PairIInv
<1>2. \A r \in posting \cup results : r.pair \in Pairs
  BY PairFacts
<1>3. ResultsHaveOrigin'
  BY <1>1, <1>2 DEF ResultsHaveOrigin, Execution
<1>4. ResultsOnce'
  BY <1>1 DEF ResultsOnce
<1> QED
  BY <1>3, <1>4

\* The execution that an attempt would start has not been started before, and
\* has no result.
LEMMA NewExecution ==
  ASSUME PairIInv, NEW j \in Jobs, Due(j), NEW x, x = Execution(j, attempt[j])
  PROVE  /\ x \in Executions /\ x \notin started
         /\ x.role = j[1] /\ x.pair = j[2] /\ x.attempt = attempt[j] /\ attempt[j] \in Agents
         /\ dispatch[j] = "open" /\ phase = j[1] /\ phase \in Roles
         /\ x.role = "caller" => \A r \in posting \cup results : ~ (r.pair = x.pair /\ r.attempt = x.attempt)
<1>1. /\ phase = j[1] /\ phase \in Roles /\ dispatch[j] = "open" /\ attempt[j] \in 0 .. NumAgents
      /\ attempt[j] < NumAgents /\ j[1] \in Roles /\ j[2] \in Pairs /\ j = <<j[1], j[2]>>
  BY PairFacts DEF Due
<1>2. attempt[j] \in Agents /\ attempt[j] \in Nat /\ NumAgents \in Nat
  BY <1>1, BenchmarkConstants DEF Agents
<1>3. x.role = j[1] /\ x.pair = j[2] /\ x.attempt = attempt[j] /\ x \in Executions
  BY <1>1, <1>2 DEF Execution, Executions
<1>4. JobAttempts(j)
  BY DEF PairIInv, AttemptsMade
<1>5. \A y \in started : y.role = j[1] /\ y.pair = j[2] => y.attempt # attempt[j]
  BY <1>1, <1>2, <1>4 DEF JobAttempts, Runs
<1>6. x \notin started
  BY <1>3, <1>5
<1>7. ASSUME x.role = "caller", NEW r \in posting \cup results, r.pair = x.pair, r.attempt = x.attempt
      PROVE  FALSE
  <2>1. r.attempt # -1 /\ j = <<"caller", r.pair>>
    BY <1>1, <1>2, <1>3, <1>7
  <2>2. Execution(j, attempt[j]) \in started
    BY <1>3, <1>7, <2>1 DEF PairIInv, ResultsHaveOrigin
  <2> QED
    BY <1>6, <2>2
<1> QED
  BY <1>1, <1>2, <1>3, <1>6, <1>7

\* What an attempt keeps that starts the execution x.
LEMMA StartKept ==
  ASSUME PairIInv, NEW j \in Jobs, Due(j), NEW x, x = Execution(j, attempt[j]),
         running' = running \cup {x}, started' = started \cup {x},
         UNCHANGED <<posting, results>>,
         \A p \in Pairs : dispatch[<<"caller", p>>] = "failed" => dispatch'[<<"caller", p>>] = "failed"
  PROVE  /\ running' \subseteq started' /\ started' \subseteq Executions
         /\ PairFinite' /\ ResultsHaveOrigin' /\ ResultsOnce'
<1>1. /\ x \in Executions /\ x \notin started
      /\ x.role = "caller" => \A r \in posting \cup results : ~ (r.pair = x.pair /\ r.attempt = x.attempt)
  BY NewExecution
<1>2. running' \subseteq started' /\ started' \subseteq Executions
  BY <1>1 DEF PairIInv, PairTyped
<1>3. PairFinite'
  BY FS_AddElement DEF PairIInv, PairFinite
<1>4. ResultsHaveOrigin'
  BY PairFacts DEF PairIInv, ResultsHaveOrigin, Execution
<1>5. ResultsOnce'
  BY <1>1 DEF PairIInv, ResultsOnce
<1> QED
  BY <1>2, <1>3, <1>4, <1>5

\* The executions of the other jobs are the same.
LEMMA OtherRuns ==
  ASSUME PairIInv, NEW j \in Jobs, NEW x, x.role = j[1], x.pair = j[2],
         started' = started \cup {x}
  PROVE  /\ \A i \in Jobs : i # j => Runs(i)' = Runs(i)
         /\ Runs(j)' = Runs(j) \cup {x}
<1>1. \A i \in Jobs : i = <<i[1], i[2]>>
  BY PairFacts
<1>2. ASSUME NEW i \in Jobs, i # j PROVE Runs(i)' = Runs(i)
  <2>1. ~ (x.role = i[1] /\ x.pair = i[2])
    BY <1>1, <1>2
  <2> QED
    BY <2>1 DEF Runs
<1>3. Runs(j)' = Runs(j) \cup {x}
  BY DEF Runs
<1> QED
  BY <1>2, <1>3

LEMMA AcceptedKeeps == ASSUME NEW j \in Jobs PROVE PairIInv /\ Accepted(j) => PairIInv'
<1> SUFFICES ASSUME PairIInv, Accepted(j) PROVE PairIInv'
  OBVIOUS
<1>1. PICK x : x = Execution(j, attempt[j])
  OBVIOUS
<1>2. /\ Due(j) /\ running' = running \cup {x} /\ started' = started \cup {x}
      /\ dispatch' = [dispatch EXCEPT ![j] = "accepted"]
      /\ UNCHANGED <<dead, staggered, faults, phase, attempt, answered, posting, results, done, outcome>>
  BY <1>1 DEF Accepted, Starts, environment, collected
<1>3. /\ x \in Executions /\ x \notin started
      /\ x.role = j[1] /\ x.pair = j[2] /\ x.attempt = attempt[j] /\ attempt[j] \in Agents
      /\ dispatch[j] = "open" /\ phase = j[1] /\ phase \in Roles
  BY <1>1, <1>2, NewExecution
<1>4. /\ dispatch \in [Jobs -> {"open", "accepted", "hanging", "failed"}] /\ dispatch'[j] = "accepted"
      /\ dispatch' \in [Jobs -> {"open", "accepted", "hanging", "failed"}]
      /\ \A i \in Jobs : i # j => dispatch'[i] = dispatch[i]
  BY <1>2 DEF PairIInv, PairTyped
<1>5. \A p \in Pairs : dispatch[<<"caller", p>>] = "failed" => dispatch'[<<"caller", p>>] = "failed"
  BY <1>2, <1>3, <1>4, PairFacts
<1>6. /\ running' \subseteq started' /\ started' \subseteq Executions
      /\ PairFinite' /\ ResultsHaveOrigin' /\ ResultsOnce'
  BY <1>1, <1>2, <1>5, StartKept
<1>7. PairTyped'
  BY <1>2, <1>4, <1>6 DEF PairIInv, PairTyped
<1>8. PairPhases'
  BY <1>2, <1>3 DEF PairPhases, Roles
<1>9. faults' \in Nat /\ faults' >= faults /\ faults \in Nat
  BY <1>2, PairFacts
<1>10. LostByFaults'
  <2>1. ASSUME NEW p \in Pairs, dispatch'[<<"caller", p>>] \in {"accepted", "failed"}
        PROVE  Accounted(p)' \/ (dispatch[<<"caller", p>>] \in {"accepted", "failed"} /\ ~ Accounted(p))
    <3>1. CASE <<"caller", p>> = j
      <4>1. x \in running' /\ x.role = "caller" /\ x.pair = p
        BY <1>2, <1>3, <3>1
      <4> QED
        BY <4>1 DEF Accounted
    <3>2. CASE <<"caller", p>> # j
      <4>1. dispatch[<<"caller", p>>] \in {"accepted", "failed"}
        BY <1>4, <2>1, <3>2, PairFacts
      <4>2. Accounted(p) => Accounted(p)'
        BY <1>2 DEF Accounted, HasResult
      <4> QED
        BY <4>1, <4>2
    <3> QED
      BY <3>1, <3>2
  <2> QED
    BY <1>2, <1>9, <2>1, NoPairLost
<1>11. AttemptsMade'
  <2>1. /\ \A i \in Jobs : i # j => Runs(i)' = Runs(i)
        /\ Runs(j)' = Runs(j) \cup {x}
    BY <1>2, <1>3, OtherRuns
  <2>2. ASSUME NEW i \in Jobs, i # j PROVE JobAttempts(i)'
    BY <1>2, <1>4, <1>9, <2>1, <2>2, JobKept
  <2>3. JobAttempts(j)'
    <3>1. JobAttempts(j) /\ attempt[j] \in Nat
      BY <1>3, BenchmarkConstants DEF PairIInv, AttemptsMade, Agents
    <3>2. Repeated(j)' = Repeated(j)
      BY <1>2, <1>3, <2>1, <3>1 DEF Repeated
    <3>3. \A y \in Runs(j)' : y.attempt < attempt'[j] \/ (y.attempt = attempt'[j] /\ dispatch'[j] \in {"accepted", "hanging"})
      BY <1>2, <1>3, <1>4, <2>1, <3>1 DEF JobAttempts
    <3>4. Execution(j, attempt[j])' \in started'
      BY <1>1, <1>2 DEF Execution
    <3>5. Cardinality(Repeated(j)') <= faults'
      BY <1>2, <3>1, <3>2 DEF JobAttempts
    <3>6. faults' = 0 => \A a \in 0 .. attempt'[j] - 1 : AgentFor(j, a)' \in dead'
      BY <1>2, <3>1 DEF JobAttempts, AgentFor
    <3> QED
      BY <1>4, <3>3, <3>4, <3>5, <3>6 DEF JobAttempts
  <2>4. Jobs' = Jobs
    BY DEF Jobs, Pairs, Roles
  <2> QED
    BY <2>2, <2>3, <2>4 DEF AttemptsMade
<1>12. ResultsCounted'
  BY <1>2 DEF PairIInv, ResultsCounted
<1> QED
  BY <1>6, <1>7, <1>8, <1>10, <1>11, <1>12 DEF PairIInv

\* A failed attempt costs a fault, unless its agent is dead: only then is
\* there no execution that it may have started.
LEMMA PostFailsKeeps == ASSUME NEW j \in Jobs PROVE PairIInv /\ PostFails(j) => PairIInv'
<1> SUFFICES ASSUME PairIInv, PostFails(j) PROVE PairIInv'
  OBVIOUS
<1>1. PICK x : x = Execution(j, attempt[j])
  OBVIOUS
<1>2. /\ Due(j) /\ attempt' = [attempt EXCEPT ![j] = attempt[j] + 1]
      /\ UNCHANGED <<dead, staggered, phase, dispatch, answered, posting, results, done, outcome>>
  BY DEF PostFails, collected
<1>3. /\ x \in Executions /\ x \notin started
      /\ x.role = j[1] /\ x.pair = j[2] /\ x.attempt = attempt[j] /\ attempt[j] \in Agents
      /\ dispatch[j] = "open" /\ phase = j[1] /\ phase \in Roles
  BY <1>1, <1>2, NewExecution
<1>4. \/ AgentFor(j, attempt[j]) \in dead /\ UNCHANGED <<running, started, faults>>
      \/ /\ faults < MaxFaults /\ faults' = faults + 1
         /\ \/ running' = running \cup {x} /\ started' = started \cup {x}
            \/ UNCHANGED <<running, started>>
  BY <1>1 DEF PostFails, Starts, MayFail
<1>5. /\ faults \in Nat /\ MaxFaults \in Nat /\ NumAgents \in Nat /\ attempt[j] \in Nat /\ attempt[j] < NumAgents
      /\ faults \in 0 .. MaxFaults
  BY <1>3, BenchmarkConstants, PairFacts DEF Agents, PairIInv, PairTyped
<1>6. faults' \in 0 .. MaxFaults /\ faults' \in Nat /\ faults' >= faults
  BY <1>4, <1>5
<1>7. /\ attempt \in [Jobs -> 0 .. NumAgents] /\ attempt'[j] = attempt[j] + 1
      /\ attempt' \in [Jobs -> 0 .. NumAgents]
      /\ \A i \in Jobs : i # j => attempt'[i] = attempt[i]
  BY <1>2, <1>5 DEF PairIInv, PairTyped
<1>8. /\ running' \subseteq started' /\ started' \subseteq Executions
      /\ PairFinite' /\ ResultsHaveOrigin' /\ ResultsOnce'
  <2>1. CASE running' = running \cup {x} /\ started' = started \cup {x}
    BY <1>1, <1>2, <2>1, StartKept
  <2>2. CASE UNCHANGED <<running, started>>
    <3>1. ResultsHaveOrigin' /\ ResultsOnce'
      BY <1>2, <2>2, ResultsKept
    <3> QED
      BY <1>2, <2>2, <3>1 DEF PairIInv, PairTyped, PairFinite
  <2> QED
    BY <1>4, <2>1, <2>2
<1>9. PairTyped'
  BY <1>2, <1>6, <1>7, <1>8 DEF PairIInv, PairTyped
<1>10. PairPhases' /\ ResultsCounted'
  BY <1>2 DEF PairIInv, PairPhases, ResultsCounted
<1>11. LostByFaults'
  <2>1. \A p \in Pairs : Accounted(p) => Accounted(p)'
    BY <1>2, <1>4 DEF Accounted, HasResult
  <2> QED
    BY <1>2, <1>6, <2>1, NoPairLost
<1>12. AttemptsMade'
  <2>1. ASSUME NEW i \in Jobs, i # j PROVE JobAttempts(i)'
    <3>1. Runs(i)' = Runs(i) /\ started \subseteq started'
      <4>1. CASE started' = started \cup {x}
        BY <1>3, <2>1, <4>1, OtherRuns
      <4>2. CASE started' = started
        BY <4>2 DEF Runs
      <4> QED
        BY <1>4, <4>1, <4>2
    <3> QED
      BY <1>2, <1>6, <1>7, <2>1, <3>1, JobKept
  <2>2. JobAttempts(j)'
    <3>1. JobAttempts(j)
      BY DEF PairIInv, AttemptsMade
    <3>2. \A y \in Runs(j) : y.attempt < attempt[j] /\ y.attempt < attempt'[j] /\ y.attempt \in Nat
      BY <1>3, <1>5, <1>7, <3>1, PairFacts DEF JobAttempts, Runs, Agents
    <3>3. x.attempt < attempt'[j]
      BY <1>3, <1>5, <1>7
    <3>4. Runs(j)' \in {Runs(j), Runs(j) \cup {x}} /\ (Runs(j)' # Runs(j) => faults' = faults + 1)
      <4>1. CASE started' = started \cup {x} /\ faults' = faults + 1
        BY <1>3, <4>1, OtherRuns
      <4>2. CASE started' = started
        BY <4>2 DEF Runs
      <4> QED
        BY <1>4, <4>1, <4>2
    <3>5. \A y \in Runs(j)' : y.attempt < attempt'[j]
      BY <3>2, <3>3, <3>4
    <3>6. PICK R, S : R = Repeated(j) /\ S = Repeated(j)'
      OBVIOUS
    <3>7. R = Runs(j) /\ S = Runs(j)'
      BY <3>2, <3>5, <3>6 DEF Repeated
    <3>8. Cardinality(R) <= faults /\ R \subseteq started /\ IsFiniteSet(started)
      BY <3>1, <3>6 DEF JobAttempts, Repeated, Runs, PairIInv, PairFinite
    <3>9. IsFiniteSet(R) /\ Cardinality(R) \in Nat
      BY <3>8, FS_Subset, FS_CardinalityType
    <3>10. Cardinality(S) <= faults'
      <4>1. CASE S = R
        BY <1>5, <1>6, <3>8, <3>9, <4>1
      <4>2. CASE S = R \cup {x} /\ faults' = faults + 1
        <5>1. Cardinality(S) = IF x \in R THEN Cardinality(R) ELSE Cardinality(R) + 1
          BY <3>9, <4>2, FS_AddElement
        <5> QED
          BY <1>5, <3>8, <3>9, <4>2, <5>1
      <4> QED
        BY <3>4, <3>7, <4>1, <4>2
    <3>11. dispatch'[j] = "open"
      BY <1>2, <1>3
    <3>12. ASSUME faults' = 0, NEW a \in 0 .. attempt'[j] - 1
           PROVE  AgentFor(j, a)' \in dead'
      <4>1. faults = 0 /\ AgentFor(j, attempt[j]) \in dead
        BY <1>4, <1>5, <3>12
      <4>2. a \in 0 .. attempt[j] - 1 \/ a = attempt[j]
        BY <1>5, <1>7
      <4>3. AgentFor(j, a) \in dead
        BY <3>1, <4>1, <4>2 DEF JobAttempts
      <4> QED
        BY <1>2, <4>3 DEF AgentFor
    <3> QED
      BY <3>5, <3>6, <3>10, <3>11, <3>12 DEF JobAttempts
  <2>3. Jobs' = Jobs
    BY DEF Jobs, Pairs, Roles
  <2> QED
    BY <2>1, <2>2, <2>3 DEF AttemptsMade
<1> QED
  BY <1>8, <1>9, <1>10, <1>11, <1>12 DEF PairIInv

\* An attempt that hangs may have started its execution, and is the last one of
\* its job.
LEMMA PostHangsKeeps == ASSUME NEW j \in Jobs PROVE PairIInv /\ PostHangs(j) => PairIInv'
<1> SUFFICES ASSUME PairIInv, PostHangs(j) PROVE PairIInv'
  OBVIOUS
<1>1. PICK x : x = Execution(j, attempt[j])
  OBVIOUS
<1>2. /\ Due(j) /\ dispatch' = [dispatch EXCEPT ![j] = "hanging"]
      /\ faults < MaxFaults /\ faults' = faults + 1
      /\ \/ running' = running \cup {x} /\ started' = started \cup {x}
         \/ UNCHANGED <<running, started>>
      /\ UNCHANGED <<dead, staggered, phase, attempt, answered, posting, results, done, outcome>>
  BY <1>1 DEF PostHangs, Starts, MayFail, collected
<1>3. /\ x \in Executions /\ x \notin started
      /\ x.role = j[1] /\ x.pair = j[2] /\ x.attempt = attempt[j] /\ attempt[j] \in Agents
      /\ dispatch[j] = "open" /\ phase = j[1] /\ phase \in Roles
  BY <1>1, <1>2, NewExecution
<1>4. faults \in 0 .. MaxFaults /\ faults \in Nat /\ MaxFaults \in Nat /\ attempt[j] \in Nat
  BY <1>3, BenchmarkConstants, PairFacts DEF Agents, PairIInv, PairTyped
<1>5. faults' \in 0 .. MaxFaults /\ faults' \in Nat /\ faults' >= faults
  BY <1>2, <1>4
<1>6. /\ dispatch \in [Jobs -> {"open", "accepted", "hanging", "failed"}] /\ dispatch'[j] = "hanging"
      /\ dispatch' \in [Jobs -> {"open", "accepted", "hanging", "failed"}]
      /\ \A i \in Jobs : i # j => dispatch'[i] = dispatch[i]
  BY <1>2 DEF PairIInv, PairTyped
<1>7. \A p \in Pairs : dispatch'[<<"caller", p>>] \in {"accepted", "failed"} <=> dispatch[<<"caller", p>>] \in {"accepted", "failed"}
  BY <1>3, <1>6, PairFacts
<1>8. \A p \in Pairs : dispatch[<<"caller", p>>] = "failed" => dispatch'[<<"caller", p>>] = "failed"
  BY <1>3, <1>6, PairFacts
<1>9. /\ running' \subseteq started' /\ started' \subseteq Executions
      /\ PairFinite' /\ ResultsHaveOrigin' /\ ResultsOnce'
  <2>1. CASE running' = running \cup {x} /\ started' = started \cup {x}
    BY <1>1, <1>2, <1>8, <2>1, StartKept
  <2>2. CASE UNCHANGED <<running, started>>
    <3>1. ResultsHaveOrigin' /\ ResultsOnce'
      BY <1>2, <1>8, <2>2, ResultsKept
    <3> QED
      BY <1>2, <2>2, <3>1 DEF PairIInv, PairTyped, PairFinite
  <2> QED
    BY <1>2, <2>1, <2>2
<1>10. PairTyped'
  BY <1>2, <1>5, <1>6, <1>9 DEF PairIInv, PairTyped
<1>11. PairPhases' /\ ResultsCounted'
  <2>1. PairPhases'
    BY <1>2, <1>7 DEF PairIInv, PairPhases
  <2> QED
    BY <1>2, <2>1 DEF PairIInv, ResultsCounted
<1>12. LostByFaults'
  <2>1. \A p \in Pairs : Accounted(p) => Accounted(p)'
    BY <1>2 DEF Accounted, HasResult
  <2> QED
    BY <1>2, <1>5, <1>7, <2>1, NoPairLost
<1>13. AttemptsMade'
  <2>1. ASSUME NEW i \in Jobs, i # j PROVE JobAttempts(i)'
    <3>1. Runs(i)' = Runs(i) /\ started \subseteq started'
      <4>1. CASE started' = started \cup {x}
        BY <1>3, <2>1, <4>1, OtherRuns
      <4>2. CASE started' = started
        BY <4>2 DEF Runs
      <4> QED
        BY <1>2, <4>1, <4>2
    <3> QED
      BY <1>2, <1>5, <1>6, <2>1, <3>1, JobKept
  <2>2. JobAttempts(j)'
    <3>1. JobAttempts(j)
      BY DEF PairIInv, AttemptsMade
    <3>2. Runs(j)' \in {Runs(j), Runs(j) \cup {x}}
      <4>1. CASE started' = started \cup {x}
        BY <1>3, <4>1, OtherRuns
      <4>2. CASE started' = started
        BY <4>2 DEF Runs
      <4> QED
        BY <1>2, <4>1, <4>2
    <3>3. Repeated(j)' = Repeated(j)
      BY <1>2, <1>3, <1>4, <3>2 DEF Repeated
    <3>4. \A y \in Runs(j)' : y.attempt < attempt'[j] \/ y.attempt = attempt'[j]
      BY <1>2, <1>3, <3>1, <3>2 DEF JobAttempts
    <3>5. Cardinality(Repeated(j)') <= faults'
      <4>1. PICK R : R = Repeated(j)
        OBVIOUS
      <4>2. Cardinality(R) <= faults /\ R \in SUBSET started /\ IsFiniteSet(started)
        BY <3>1, <4>1 DEF JobAttempts, Repeated, Runs, PairIInv, PairFinite
      <4>3. Cardinality(R) \in Nat
        BY <4>2, FS_Subset, FS_CardinalityType
      <4>4. Cardinality(R) <= faults'
        BY <1>4, <1>5, <4>2, <4>3
      <4> QED
        BY <3>3, <4>1, <4>4, Zenon
    <3>6. faults' # 0
      BY <1>2, <1>4
    <3> QED
      BY <1>6, <3>4, <3>5, <3>6 DEF JobAttempts
  <2>3. Jobs' = Jobs
    BY DEF Jobs, Pairs, Roles
  <2> QED
    BY <2>1, <2>2, <2>3 DEF AttemptsMade
<1> QED
  BY <1>9, <1>10, <1>11, <1>12, <1>13 DEF PairIInv

\* The coordinator counts a result.
LEMMA RecordKept ==
  ASSUME PairIInv, NEW res \in Results, RecordResult(res), started' = started, outcome' = outcome
  PROVE  /\ results' = results \cup {res} /\ results' \subseteq Results /\ done' \in BOOLEAN
         /\ PairFinite' /\ ResultsCounted'
<1>1. /\ results' = results \cup {res} /\ results \subseteq Results
      /\ done' = (done \/ Cardinality(results') >= NumPairs)
  BY DEF RecordResult, PairIInv, PairTyped
<1>2. IsFiniteSet(results) /\ IsFiniteSet(started)
  BY DEF PairIInv, PairFinite
<1>3. PICK S : S = results'
  OBVIOUS
<1>4. IsFiniteSet(S) /\ results \in SUBSET S
  BY <1>1, <1>2, <1>3, FS_AddElement
<1>5. Cardinality(results) <= Cardinality(S)
  BY <1>4, FS_Subset
<1>6. Cardinality(results) \in Nat /\ Cardinality(S) \in Nat /\ NumPairs \in Nat
  BY <1>2, <1>4, FS_CardinalityType, BenchmarkConstants
<1>7. (done => Cardinality(results) >= NumPairs) /\ (outcome = "all" => done)
  BY DEF PairIInv, ResultsCounted
<1>8. Cardinality(results) >= NumPairs => Cardinality(S) >= NumPairs
  BY <1>5, <1>6
<1>9. done' => Cardinality(S) >= NumPairs
  BY <1>1, <1>3, <1>7, <1>8, Zenon
<1>10. done' \in BOOLEAN /\ (outcome' = "all" => done')
  BY <1>1, <1>7, Zenon
<1>11. PairFinite'
  BY <1>2, <1>3, <1>4 DEF PairFinite
<1>12. ResultsCounted'
  BY <1>3, <1>9, <1>10 DEF ResultsCounted
<1> QED
  BY <1>1, <1>10, <1>11, <1>12

LEMMA AllFailedKeeps == ASSUME NEW j \in Jobs PROVE PairIInv /\ AllFailed(j) => PairIInv'
<1> SUFFICES ASSUME PairIInv, AllFailed(j) PROVE PairIInv'
  OBVIOUS
<1>1. PICK res : res = Result(j[2], -1, FALSE)
  OBVIOUS
<1>2. /\ dispatch[j] = "open" /\ attempt[j] = NumAgents
      /\ dispatch' = [dispatch EXCEPT ![j] = "failed"]
      /\ IF j[1] = "caller" THEN RecordResult(res) ELSE UNCHANGED <<results, done>>
      /\ UNCHANGED <<dead, staggered, faults, phase, attempt, running, answered, posting, outcome, started>>
  BY <1>1 DEF AllFailed, environment, collected
<1>3. /\ res \in Results /\ res.pair = j[2] /\ res.attempt = -1
  BY <1>1, PairFacts DEF Result, Results
<1>4. /\ dispatch \in [Jobs -> {"open", "accepted", "hanging", "failed"}] /\ dispatch'[j] = "failed"
      /\ dispatch' \in [Jobs -> {"open", "accepted", "hanging", "failed"}]
      /\ \A i \in Jobs : i # j => dispatch'[i] = dispatch[i]
  BY <1>2 DEF PairIInv, PairTyped
<1>5. /\ j = <<j[1], j[2]>> /\ j[2] \in Pairs /\ \A p \in Pairs : <<"caller", p>> \in Jobs
      /\ faults \in Nat /\ faults' = faults
  BY <1>2, PairFacts
<1>6. /\ results' \in {results, results \cup {res}} /\ results' \subseteq Results /\ done' \in BOOLEAN
      /\ PairFinite' /\ ResultsCounted' /\ (j[1] = "caller" => res \in results')
  <2>1. CASE j[1] = "caller"
    BY <1>2, <1>3, <2>1, RecordKept
  <2>2. CASE j[1] # "caller"
    BY <1>2, <2>2 DEF PairIInv, PairTyped, PairFinite, ResultsCounted
  <2> QED
    BY <2>1, <2>2
<1>7. PairTyped'
  BY <1>2, <1>4, <1>6 DEF PairIInv, PairTyped
<1>8. PairPhases'
  <2>1. \A p \in Pairs : dispatch[<<"caller", p>>] \in {"accepted", "failed"} => dispatch'[<<"caller", p>>] \in {"accepted", "failed"}
    BY <1>4, <1>5
  <2> QED
    BY <1>2, <2>1 DEF PairIInv, PairPhases
<1>9. LostByFaults'
  <2>1. ASSUME NEW p \in Pairs, dispatch'[<<"caller", p>>] \in {"accepted", "failed"}
        PROVE  Accounted(p)' \/ (dispatch[<<"caller", p>>] \in {"accepted", "failed"} /\ ~ Accounted(p))
    <3>1. CASE <<"caller", p>> = j
      <4>1. res \in results' /\ res.pair = p
        BY <1>3, <1>6, <3>1
      <4> QED
        BY <4>1 DEF Accounted, HasResult
    <3>2. CASE <<"caller", p>> # j
      <4>1. dispatch[<<"caller", p>>] \in {"accepted", "failed"}
        BY <1>4, <1>5, <2>1, <3>2
      <4>2. Accounted(p) => Accounted(p)'
        BY <1>2, <1>6 DEF Accounted, HasResult
      <4> QED
        BY <4>1, <4>2
    <3> QED
      BY <3>1, <3>2
  <2> QED
    BY <1>2, <1>5, <2>1, NoPairLost
<1>10. AttemptsMade'
  <2>1. \A i \in Jobs : Runs(i)' = Runs(i)
    BY <1>2 DEF Runs
  <2>2. ASSUME NEW i \in Jobs, i # j PROVE JobAttempts(i)'
    BY <1>2, <1>4, <1>5, <2>1, <2>2, JobKept
  <2>3. JobAttempts(j)'
    <3>1. JobAttempts(j)
      BY DEF PairIInv, AttemptsMade
    <3>2. Repeated(j)' = Repeated(j)
      BY <1>2, <2>1 DEF Repeated
    <3>3. \A y \in Runs(j)' : y.attempt < attempt'[j]
      BY <1>2, <2>1, <3>1 DEF JobAttempts
    <3>4. faults' = 0 => \A a \in 0 .. attempt'[j] - 1 : AgentFor(j, a)' \in dead'
      BY <1>2, <3>1 DEF JobAttempts, AgentFor
    <3>5. Cardinality(Repeated(j)') <= faults'
      BY <1>2, <3>1, <3>2 DEF JobAttempts
    <3>6. dispatch'[j] = "failed" /\ attempt'[j] = NumAgents
      BY <1>2, <1>4
    <3> QED
      BY <3>3, <3>4, <3>5, <3>6 DEF JobAttempts
  <2>4. Jobs' = Jobs
    BY DEF Jobs, Pairs, Roles
  <2> QED
    BY <2>2, <2>3, <2>4 DEF AttemptsMade
<1>11. ASSUME results' = results PROVE ResultsHaveOrigin' /\ ResultsOnce'
  <2>1. \A p \in Pairs : dispatch[<<"caller", p>>] = "failed" => dispatch'[<<"caller", p>>] = "failed"
    BY <1>2, <1>4, <1>5
  <2> QED
    BY <1>2, <1>11, <2>1, ResultsKept
<1>12. ASSUME results' # results PROVE ResultsHaveOrigin' /\ ResultsOnce'
  <2>1. j = <<"caller", res.pair>> /\ results' = results \cup {res}
    BY <1>2, <1>3, <1>5, <1>6, <1>12
  <2>2. \A r \in posting \cup results : r.pair \in Pairs /\ r.attempt \in Agents \cup {-1}
    BY PairFacts
  <2>3. \A r \in posting \cup results : dispatch[<<"caller", r.pair>>] = "failed" => dispatch'[<<"caller", r.pair>>] = "failed"
    BY <1>2, <1>4, <1>5, <2>2
  <2>4. ResultsHaveOrigin'
    BY <1>2, <1>3, <1>4, <2>1, <2>3 DEF PairIInv, ResultsHaveOrigin, Execution
  <2>5. \A x \in started : x.attempt # -1
    BY PairFacts, BenchmarkConstants DEF Agents
  <2>6. ASSUME NEW r \in posting \cup results, r.pair = res.pair, r.attempt = -1
        PROVE  FALSE
    <3>1. Execution(<<"caller", r.pair>>, -1).attempt = -1
      BY DEF Execution
    <3>2. dispatch[<<"caller", r.pair>>] = "failed"
      BY <2>5, <2>6, <3>1 DEF PairIInv, ResultsHaveOrigin
    <3> QED
      BY <1>2, <2>1, <2>6, <3>2
  <2>7. ResultsOnce'
    <3>1. ASSUME NEW r \in (posting \cup results)', NEW s \in (posting \cup results)',
                 r.pair = s.pair, r.attempt = s.attempt
          PROVE  r = s
      BY <1>2, <1>3, <2>1, <2>6, <3>1 DEF PairIInv, ResultsOnce
    <3>2. ASSUME NEW x \in running', NEW r \in (posting \cup results)', x.role = "caller"
          PROVE  ~ (r.pair = x.pair /\ r.attempt = x.attempt)
      BY <1>2, <1>3, <2>1, <2>5, <3>2, PairFacts DEF PairIInv, ResultsOnce
    <3> QED
      BY <3>1, <3>2 DEF ResultsOnce
  <2> QED
    BY <2>4, <2>7
<1> QED
  BY <1>6, <1>7, <1>8, <1>9, <1>10, <1>11, <1>12 DEF PairIInv

\* Steps of the coordinator between its phases.
LEMMA PhaseKeeps ==
  ASSUME PairIInv, UNCHANGED <<dead, staggered, faults, attempt, dispatch, running, answered, posting,
                               results, done, started>>,
         phase' \in Roles \cup {"waiting", "closing", "written"},
         phase # "written" \/ phase' = "written",
         phase' \in {"waiting", "closing", "written"} => \A p \in Pairs : dispatch[<<"caller", p>>] \in {"accepted", "failed"},
         outcome' \in {"none", "all", "timeout"}, outcome' = "all" => done
  PROVE  PairIInv'
<1>1. PairTyped'
  BY DEF PairIInv, PairTyped
<1>2. PairFinite' /\ PairPhases' /\ ResultsCounted'
  BY DEF PairIInv, PairFinite, PairPhases, ResultsCounted
<1>3. faults' \in Nat /\ faults' >= faults
  BY PairFacts
<1>4. LostByFaults'
  <2>1. \A p \in Pairs : Accounted(p) => Accounted(p)'
    BY DEF Accounted, HasResult
  <2> QED
    BY <1>3, <2>1, NoPairLost
<1>5. AttemptsMade'
  BY <1>3, AttemptsKept
<1>6. ResultsHaveOrigin' /\ ResultsOnce'
  BY ResultsKept
<1> QED
  BY <1>1, <1>2, <1>4, <1>5, <1>6 DEF PairIInv

LEMMA CoordinatorKeeps == PairIInv /\ (RoleDispatched \/ Waits \/ Writes) => PairIInv'
<1> SUFFICES ASSUME PairIInv, RoleDispatched \/ Waits \/ Writes PROVE PairIInv'
  OBVIOUS
<1>1. UNCHANGED <<dead, staggered, faults, attempt, dispatch, running, answered, posting, results, done, started>>
  BY DEF RoleDispatched, Waits, Writes, environment, collected
<1>2. outcome \in {"none", "all", "timeout"} /\ (outcome = "all" => done)
  BY DEF PairIInv, PairTyped, ResultsCounted
<1>3. CASE RoleDispatched
  <2>1. /\ phase \in Roles /\ \A p \in Pairs : dispatch[<<phase, p>>] \in {"accepted", "failed"}
        /\ phase' = (IF phase = "callee" THEN "caller" ELSE "waiting") /\ outcome' = outcome
    BY <1>3 DEF RoleDispatched, Dispatched
  <2>2. phase # "written" /\ phase' \in {"caller", "waiting"}
    BY <2>1 DEF Roles
  <2>3. phase' = "waiting" => phase = "caller"
    BY <2>1 DEF Roles
  <2> QED
    BY <1>1, <1>2, <2>1, <2>2, <2>3, PhaseKeeps DEF Roles
<1>4. CASE Waits \/ Writes
  <2>1. /\ phase \in {"waiting", "closing"} /\ phase' \in {"closing", "written"}
        /\ outcome' \in {outcome, "timeout"} \/ (outcome' = "all" /\ done)
    BY <1>4 DEF Waits, Writes
  <2>2. \A p \in Pairs : dispatch[<<"caller", p>>] \in {"accepted", "failed"}
    BY <2>1 DEF PairIInv, PairPhases
  <2> QED
    BY <1>1, <1>2, <2>1, <2>2, PhaseKeeps
<1> QED
  BY <1>3, <1>4

LEMMA CalleeKeeps ==
  ASSUME NEW x PROVE PairIInv /\ (CalleeAnswers(x) \/ CalleeEnds(x)) => PairIInv'
<1> SUFFICES ASSUME PairIInv, CalleeAnswers(x) \/ CalleeEnds(x) PROVE PairIInv'
  OBVIOUS
<1>1. /\ x \in running /\ x.role = "callee" /\ running' \in {running, running \ {x}}
      /\ answered' \in {answered, answered \cup {x.pair}}
      /\ UNCHANGED <<dead, staggered, faults, phase, attempt, dispatch, posting, results, done,
                     outcome, started>>
  BY DEF CalleeAnswers, CalleeEnds, environment, coordinator, collected
<1>2. x.pair \in Pairs
  BY <1>1, PairFacts
<1>3. PairTyped'
  BY <1>1, <1>2 DEF PairIInv, PairTyped
<1>4. PairFinite' /\ PairPhases' /\ ResultsCounted'
  BY <1>1 DEF PairIInv, PairFinite, PairPhases, ResultsCounted
<1>5. faults' \in Nat /\ faults' >= faults
  BY <1>1, PairFacts
<1>6. LostByFaults'
  <2>1. \A p \in Pairs : Accounted(p) => Accounted(p)'
    BY <1>1 DEF Accounted, HasResult
  <2> QED
    BY <1>1, <1>5, <2>1, NoPairLost
<1>7. AttemptsMade'
  BY <1>1, <1>5, AttemptsKept
<1>8. ResultsHaveOrigin' /\ ResultsOnce'
  BY <1>1, ResultsKept
<1> QED
  BY <1>3, <1>4, <1>6, <1>7, <1>8 DEF PairIInv

LEMMA CallerEndsKeeps == ASSUME NEW x PROVE PairIInv /\ CallerEnds(x) => PairIInv'
<1> SUFFICES ASSUME PairIInv, CallerEnds(x) PROVE PairIInv'
  OBVIOUS
<1>1. PICK ok \in BOOLEAN : posting' = posting \cup {Result(x.pair, x.attempt, ok)}
  <2>1. PICK ok \in {FALSE} \cup {x.pair \in answered} :
          posting' = posting \cup {Result(x.pair, x.attempt, ok)}
    BY Zenon DEF CallerEnds
  <2>2. ok = FALSE \/ ok = (x.pair \in answered)
    OBVIOUS
  <2>3. (x.pair \in answered) = TRUE \/ (x.pair \in answered) = FALSE
    <3>1. CASE x.pair \in answered
      BY <3>1
    <3>2. CASE x.pair \notin answered
      BY <3>2
    <3> QED
      BY <3>1, <3>2
  <2>4. ok \in BOOLEAN
    BY <2>2, <2>3, Zenon
  <2> QED
    BY <2>1, <2>4, Zenon
<1>2. PICK res : res = Result(x.pair, x.attempt, ok)
  OBVIOUS
<1>3. /\ x \in running /\ x.role = "caller" /\ running' = running \ {x}
      /\ posting' = posting \cup {res}
      /\ UNCHANGED <<dead, staggered, faults, phase, attempt, dispatch, answered, results, done,
                     outcome, started>>
  BY <1>1, <1>2 DEF CallerEnds, environment, coordinator, collected
<1>4. /\ x.pair \in Pairs /\ x.attempt \in Agents /\ x \in started /\ x \in Executions
  BY <1>3, PairFacts
<1>5. res \in Results /\ res.pair = x.pair /\ res.attempt = x.attempt
  BY <1>2, <1>4 DEF Result, Results
<1>6. PairTyped'
  BY <1>3, <1>5 DEF PairIInv, PairTyped
<1>7. PairFinite' /\ PairPhases' /\ ResultsCounted'
  BY <1>3 DEF PairIInv, PairFinite, PairPhases, ResultsCounted
<1>8. faults' \in Nat /\ faults' >= faults
  BY <1>3, PairFacts
<1>9. LostByFaults'
  <2>1. \A p \in Pairs : Accounted(p) => Accounted(p)'
    BY <1>3, <1>5 DEF Accounted, HasResult
  <2> QED
    BY <1>3, <1>8, <2>1, NoPairLost
<1>10. AttemptsMade'
  BY <1>3, <1>8, AttemptsKept
<1>11. ResultsHaveOrigin'
  <2>1. Execution(<<"caller", res.pair>>, res.attempt) = x
    BY <1>3, <1>4, <1>5 DEF Execution, Executions
  <2> QED
    BY <1>3, <1>4, <2>1 DEF PairIInv, ResultsHaveOrigin, Execution
<1>12. ResultsOnce'
  <2>1. \A r \in posting \cup results : ~ (r.pair = res.pair /\ r.attempt = res.attempt)
    BY <1>3, <1>5 DEF PairIInv, ResultsOnce
  <2>2. ASSUME NEW y \in running', y.role = "caller", res.pair = y.pair, res.attempt = y.attempt
        PROVE  FALSE
    <3>1. y \in Executions /\ y # x
      BY <1>3, <2>2, PairFacts
    <3>2. y.role = x.role /\ y.pair = x.pair /\ y.attempt = x.attempt
      BY <1>3, <1>5, <2>2
    <3>3. \A z \in Executions : z = [role |-> z.role, pair |-> z.pair, attempt |-> z.attempt]
      BY DEF Executions
    <3> QED
      BY <1>4, <3>1, <3>2, <3>3
  <2>3. ASSUME NEW r \in (posting \cup results)', NEW s \in (posting \cup results)',
               r.pair = s.pair, r.attempt = s.attempt
        PROVE  r = s
    BY <1>3, <2>1, <2>3 DEF PairIInv, ResultsOnce
  <2>4. ASSUME NEW y \in running', NEW r \in (posting \cup results)', y.role = "caller"
        PROVE  ~ (r.pair = y.pair /\ r.attempt = y.attempt)
    BY <1>3, <2>2, <2>4 DEF PairIInv, ResultsOnce
  <2> QED
    BY <2>3, <2>4 DEF ResultsOnce
<1> QED
  BY <1>6, <1>7, <1>9, <1>10, <1>11, <1>12 DEF PairIInv

LEMMA ResultArrivesKeeps == ASSUME NEW res PROVE PairIInv /\ ResultArrives(res) => PairIInv'
<1> SUFFICES ASSUME PairIInv, ResultArrives(res) PROVE PairIInv'
  OBVIOUS
<1>1. /\ res \in posting /\ posting' = posting \ {res} /\ RecordResult(res)
      /\ UNCHANGED <<dead, staggered, faults, phase, attempt, dispatch, running, answered, outcome, started>>
  BY DEF ResultArrives, environment, coordinator
<1>2. res \in Results
  BY <1>1 DEF PairIInv, PairTyped
<1>3. /\ results' = results \cup {res} /\ results' \subseteq Results /\ done' \in BOOLEAN
      /\ PairFinite' /\ ResultsCounted'
  BY <1>1, <1>2, RecordKept
<1>4. PairTyped' /\ PairPhases'
  BY <1>1, <1>3 DEF PairIInv, PairTyped, PairPhases
<1>5. faults' \in Nat /\ faults' >= faults
  BY <1>1, PairFacts
<1>6. LostByFaults'
  <2>1. \A p \in Pairs : Accounted(p) => Accounted(p)'
    BY <1>1, <1>3 DEF Accounted, HasResult
  <2> QED
    BY <1>1, <1>5, <2>1, NoPairLost
<1>7. AttemptsMade'
  BY <1>1, <1>5, AttemptsKept
<1>8. ResultsHaveOrigin' /\ ResultsOnce'
  BY <1>1, <1>3, ResultsKept
<1> QED
  BY <1>3, <1>4, <1>6, <1>7, <1>8 DEF PairIInv

\* The one step that can lose a pair costs a fault, until the file is written.
LEMMA ResultIsLostKeeps == ASSUME NEW res PROVE PairIInv /\ ResultIsLost(res) => PairIInv'
<1> SUFFICES ASSUME PairIInv, ResultIsLost(res) PROVE PairIInv'
  OBVIOUS
<1>1. /\ res \in posting /\ posting' = posting \ {res}
      /\ \/ phase = "written" /\ faults' = faults
         \/ faults < MaxFaults /\ faults' = faults + 1
      /\ UNCHANGED <<dead, staggered, phase, attempt, dispatch, running, answered, results, done,
                     outcome, started>>
  BY DEF ResultIsLost, coordinator, collected, MayFail
<1>2. faults \in Nat /\ MaxFaults \in Nat /\ faults \in 0 .. MaxFaults
  BY PairFacts, BenchmarkConstants DEF PairIInv, PairTyped
<1>3. faults' \in Nat /\ faults' >= faults /\ faults' \in 0 .. MaxFaults
  BY <1>1, <1>2
<1>4. PairTyped'
  BY <1>1, <1>3 DEF PairIInv, PairTyped
<1>5. PairFinite' /\ PairPhases' /\ ResultsCounted'
  BY <1>1 DEF PairIInv, PairFinite, PairPhases, ResultsCounted
<1>6. LostByFaults'
  <2>1. SUFFICES ASSUME phase' # "written" PROVE Cardinality(LostPairs') <= faults'
    BY DEF LostByFaults
  <2>2. faults' = faults + 1 /\ phase # "written"
    BY <1>1, <2>1
  <2>3. PICK L, M : L = LostPairs' /\ M = LostPairs
    OBVIOUS
  <2>4. ASSUME NEW p \in Pairs, p # res.pair, Accounted(p) PROVE Accounted(p)'
    BY <1>1, <2>4 DEF Accounted, HasResult
  <2>5. L \in SUBSET (M \cup {res.pair}) /\ M \in SUBSET Pairs
    BY <1>1, <2>3, <2>4 DEF LostPairs
  <2>6. IsFiniteSet(M)
    BY <2>5, BenchmarkConstants, FS_Subset
  <2>7. /\ IsFiniteSet(M \cup {res.pair})
        /\ Cardinality(M \cup {res.pair}) = IF res.pair \in M THEN Cardinality(M) ELSE Cardinality(M) + 1
    BY <2>6, FS_AddElement
  <2>8. Cardinality(L) <= Cardinality(M \cup {res.pair}) /\ IsFiniteSet(L)
    BY <2>5, <2>7, FS_Subset
  <2>9. Cardinality(L) \in Nat /\ Cardinality(M) \in Nat
    BY <2>6, <2>8, FS_CardinalityType
  <2>10. Cardinality(M) <= faults
    BY <2>2, <2>3 DEF PairIInv, LostByFaults
  <2>11. Cardinality(L) <= faults'
    BY <1>2, <2>2, <2>7, <2>8, <2>9, <2>10
  <2> QED
    BY <2>3, <2>11
<1>7. AttemptsMade'
  BY <1>1, <1>3, AttemptsKept
<1>8. ResultsHaveOrigin' /\ ResultsOnce'
  BY <1>1, ResultsKept
<1> QED
  BY <1>4, <1>5, <1>6, <1>7, <1>8 DEF PairIInv

LEMMA PairStepKeeps == PairIInv /\ [PairNext]_pairVars => PairIInv'
<1> SUFFICES ASSUME PairIInv, [PairNext]_pairVars PROVE PairIInv'
  OBVIOUS
<1>1. CASE \E j \in Jobs : Accepted(j)
  BY <1>1, AcceptedKeeps
<1>2. CASE \E j \in Jobs : PostFails(j) \/ PostHangs(j)
  BY <1>2, PostFailsKeeps, PostHangsKeeps
<1>3. CASE \E j \in Jobs : AllFailed(j)
  BY <1>3, AllFailedKeeps
<1>4. CASE RoleDispatched \/ Waits \/ Writes
  BY <1>4, CoordinatorKeeps
<1>5. CASE \E x \in running : CalleeAnswers(x) \/ CalleeEnds(x)
  BY <1>5, CalleeKeeps
<1>6. CASE \E x \in running : CallerEnds(x)
  BY <1>6, CallerEndsKeeps
<1>7. CASE \E res \in posting : ResultArrives(res)
  BY <1>7, ResultArrivesKeeps
<1>8. CASE \E res \in posting : ResultIsLost(res)
  BY <1>8, ResultIsLostKeeps
<1>9. CASE UNCHANGED pairVars
  <2>1. /\ UNCHANGED <<dead, staggered, faults, attempt, dispatch, running, answered, posting, results,
                       done, started>>
        /\ phase' = phase /\ outcome' = outcome
    BY <1>9 DEF pairVars
  <2>2. /\ phase \in Roles \cup {"waiting", "closing", "written"}
        /\ outcome \in {"none", "all", "timeout"} /\ (outcome = "all" => done)
    BY DEF PairIInv, PairTyped, ResultsCounted
  <2>3. phase' \in {"waiting", "closing", "written"} => \A p \in Pairs : dispatch[<<"caller", p>>] \in {"accepted", "failed"}
    BY <2>1 DEF PairIInv, PairPhases
  <2> QED
    BY <2>1, <2>2, <2>3, PhaseKeeps
<1> QED
  BY <1>1, <1>2, <1>3, <1>4, <1>5, <1>6, <1>7, <1>8, <1>9 DEF PairNext

LEMMA PairInvariant == PairSpec => []PairIInv
BY PairInitIInv, PairStepKeeps, PTL DEF PairSpec

\* With any number of pairs and agents, whichever of them are dead: each pair
\* is accounted for until the coordinator writes its file, less one for each
\* fault, and a role runs once, and once more at most for each fault.
THEOREM PairsAreAccounted == PairSpec => []PairsInv
<1>1. PairIInv => PairsAccounted
  <2> SUFFICES ASSUME PairIInv, phase \in {"waiting", "closing"}
               PROVE  Cardinality({p \in Pairs : ~ Accounted(p)}) <= faults
    BY DEF PairsAccounted
  <2>1. \A p \in Pairs : dispatch[<<"caller", p>>] \in {"accepted", "failed"}
    BY DEF PairIInv, PairPhases
  <2>2. {p \in Pairs : ~ Accounted(p)} = LostPairs
    BY <2>1 DEF LostPairs
  <2>3. Cardinality(LostPairs) <= faults
    BY DEF PairIInv, LostByFaults
  <2> QED
    BY <2>2, <2>3, Zenon
<1>2. PairIInv => RunsOnce
  <2> SUFFICES ASSUME PairIInv, NEW j \in Jobs
               PROVE  /\ Cardinality(Runs(j)) <= 1 + faults
                      /\ (Dispatched(j) /\ dead # Agents /\ faults = 0) => Cardinality(Runs(j)) = 1
    BY Zenon DEF RunsOnce, Runs
  <2>1. JobAttempts(j) /\ faults \in Nat /\ attempt[j] \in 0 .. NumAgents
    BY PairFacts DEF PairIInv, AttemptsMade
  <2>2. PICK R, S, x : R = Repeated(j) /\ S = Runs(j) /\ x = Execution(j, attempt[j])
    OBVIOUS
  <2>3. S \in SUBSET started /\ R \in SUBSET S /\ IsFiniteSet(started)
    BY <2>2 DEF Repeated, Runs, PairIInv, PairFinite
  <2>4. IsFiniteSet(S) /\ IsFiniteSet(R)
    BY <2>3, FS_Subset
  <2>5. S \in SUBSET (R \cup {x}) /\ (dispatch[j] \notin {"accepted", "hanging"} => S = R)
    <3>1. ASSUME NEW y \in S, y \notin R PROVE y = x /\ dispatch[j] \in {"accepted", "hanging"}
      <4>1. y.attempt = attempt[j] /\ dispatch[j] \in {"accepted", "hanging"}
        BY <2>1, <2>2, <3>1 DEF JobAttempts, Repeated
      <4>2. y \in Executions /\ y.role = j[1] /\ y.pair = j[2]
        BY <2>2, <2>3, <3>1, PairFacts DEF Runs
      <4> QED
        BY <2>2, <4>1, <4>2 DEF Execution, Executions
    <3> QED
      BY <2>3, <3>1
  <2>6. /\ Cardinality(R) \in Nat /\ Cardinality(S) \in Nat
        /\ IsFiniteSet(R \cup {x})
        /\ Cardinality(R \cup {x}) = IF x \in R THEN Cardinality(R) ELSE Cardinality(R) + 1
    BY <2>4, FS_CardinalityType, FS_AddElement
  <2>7. Cardinality(S) <= Cardinality(R \cup {x})
    BY <2>5, <2>6, FS_Subset
  <2>8. Cardinality(R) <= faults
    BY <2>1, <2>2 DEF JobAttempts
  <2>9. Cardinality(S) <= 1 + faults
    BY <2>1, <2>6, <2>7, <2>8
  <2>10. ASSUME Dispatched(j), dead # Agents, faults = 0
         PROVE  Cardinality(S) = 1
    <3>1. R = {}
      BY <2>4, <2>6, <2>8, <2>10, FS_EmptySet
    <3>2. CASE dispatch[j] = "accepted"
      <4>1. x \in started /\ x.role = j[1] /\ x.pair = j[2]
        BY <2>1, <2>2, <3>2 DEF JobAttempts, Execution
      <4>2. S = {x}
        BY <2>2, <2>5, <3>1, <4>1 DEF Runs
      <4> QED
        BY <4>2, FS_Singleton
    <3>3. CASE dispatch[j] = "failed"
      <4>1. attempt[j] = NumAgents /\ \A a \in 0 .. NumAgents - 1 : AgentFor(j, a) \in dead
        BY <2>1, <2>10, <3>3 DEF JobAttempts
      <4>2. Agents \subseteq dead
        BY <4>1, EveryAgentTried DEF Agents
      <4> QED
        BY <2>10, <4>2 DEF PairIInv, PairTyped
    <3> QED
      BY <2>10, <3>2, <3>3 DEF Dispatched
  <2> QED
    BY <2>2, <2>9, <2>10
<1>3. PairIInv => PairsInv
  BY <1>1, <1>2 DEF PairsInv, PairIInv
<1> QED
  BY <1>3, PairInvariant, PTL

\* Results are counted and not pairs; yet with as many results as pairs every
\* pair has one, as long as no acceptance of a caller was lost.
THEOREM AllResultsOfAllPairs == PairSpec => []AllMeansAll
<1>1. PairIInv => AllMeansAll
  <2> SUFFICES ASSUME PairIInv, outcome = "all",
                      ~ \E x \in started : /\ x.role = "caller"
                                           /\ attempt[<<x.role, x.pair>>] > x.attempt,
                      NEW p \in Pairs
               PROVE  HasResult(p)
    BY DEF AllMeansAll
  <2>1. \A q \in Pairs : <<"caller", q>> \in Jobs /\ attempt[<<"caller", q>>] \in 0 .. NumAgents
    BY PairFacts
  <2>2. ASSUME NEW x \in started, x.role = "caller"
        PROVE  /\ x.attempt = attempt[<<"caller", x.pair>>]
               /\ dispatch[<<"caller", x.pair>>] \in {"accepted", "hanging"}
    <3>1. x.pair \in Pairs /\ x.attempt \in Agents
      BY PairFacts
    <3>2. JobAttempts(<<"caller", x.pair>>) /\ x \in Runs(<<"caller", x.pair>>)
      BY <2>1, <2>2, <3>1 DEF PairIInv, AttemptsMade, Runs
    <3>3. ~ (attempt[<<"caller", x.pair>>] > x.attempt)
      BY <2>2
    <3>4. attempt[<<"caller", x.pair>>] \in Int /\ x.attempt \in Int
      BY <2>1, <3>1, BenchmarkConstants DEF Agents
    <3> QED
      BY <3>2, <3>3, <3>4 DEF JobAttempts
  <2>3. ASSUME NEW r \in results
        PROVE  /\ r.pair \in Pairs
               /\ \/ r.attempt = -1 /\ dispatch[<<"caller", r.pair>>] = "failed"
                  \/ /\ r.attempt = attempt[<<"caller", r.pair>>]
                     /\ dispatch[<<"caller", r.pair>>] \in {"accepted", "hanging"}
    <3>1. r.pair \in Pairs
      BY PairFacts
    <3>2. CASE Execution(<<"caller", r.pair>>, r.attempt) \in started
      <4>1. PICK x \in started : x = Execution(<<"caller", r.pair>>, r.attempt)
        BY <3>2
      <4>2. x.role = "caller" /\ x.pair = r.pair /\ x.attempt = r.attempt
        BY <4>1 DEF Execution
      <4> QED
        BY <2>2, <3>1, <4>2
    <3> QED
      BY <3>1, <3>2 DEF PairIInv, ResultsHaveOrigin
  <2>4. \A r, s \in results : r.pair = s.pair => r = s
    <3>1. SUFFICES ASSUME NEW r \in results, NEW s \in results, r.pair = s.pair PROVE r = s
      OBVIOUS
    <3>2. r.attempt = s.attempt
      BY <2>3, <3>1
    <3> QED
      BY <3>1, <3>2 DEF PairIInv, ResultsOnce
  <2> DEFINE f == [r \in results |-> r.pair]
  <2>5. f \in [results -> Pairs] /\ \A r \in results : f[r] = r.pair
    BY <2>3
  <2> HIDE DEF f
  <2>6. f \in Injection(results, Pairs)
    BY <2>4, <2>5, Fun_IsInj, Zenon
  <2>7. done /\ Cardinality(results) >= NumPairs /\ IsFiniteSet(results)
    BY DEF PairIInv, ResultsCounted, PairFinite
  <2>8. Cardinality(results) <= Cardinality(Pairs)
    BY <2>6, BenchmarkConstants, FS_Injection
  <2>9. Cardinality(results) = Cardinality(Pairs)
    BY <2>7, <2>8, BenchmarkConstants, FS_CardinalityType
  <2>10. f \in Surjection(results, Pairs)
    BY <2>6, <2>9, BenchmarkConstants, FS_Injection
  <2>11. \E r \in results : f[r] = p
    BY <2>10, Zenon DEF Surjection
  <2> QED
    BY <2>5, <2>11 DEF HasResult
<1> QED
  BY <1>1, PairInvariant, PTL
=============================================================================
