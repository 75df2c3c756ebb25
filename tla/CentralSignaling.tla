-------------------------- MODULE CentralSignaling --------------------------
(***************************************************************************)
(* The signaling server (cmd/signal_server/main.go) and its clients        *)
(* (CentralSignaler of transport/webrtc/signaling.go).  A node opens a     *)
(* websocket, which is a queue in each direction until it breaks, and      *)
(* registers its id.  The server forwards every offer and answer in a      *)
(* goroutine of its own: one step looks the target up, another one writes. *)
(* A client has one place per callee for the answer to its offer, whichever*)
(* offer that was.                                                         *)
(*                                                                         *)
(* An offer is its number, and its answer is known by the same number.     *)
(***************************************************************************)
EXTENDS Integers, Sequences, FiniteSets, SequencesExt

CONSTANTS
  Nodes,
  MaxSessions,  \* bound: websockets that are opened
  MaxOffers,    \* bound: calls of SendOffer
  MaxLosses     \* bound: websockets that are closed or break

ASSUME SignalingBounds ==
  /\ {MaxSessions, MaxOffers} \subseteq Nat \ {0} /\ MaxLosses \in Nat
  /\ 0 \notin Nodes  \* None is no node

VARIABLES
  owner,        \* the node that opened each websocket
  alive,        \* websockets that are neither closed nor broken
  conn,         \* s.conn of each node
  reading,      \* websockets that a readLoop reads
  up, down,     \* what was written to the server, and to the client
  serving,      \* websockets that ServeHTTP reads
  registered,   \* websockets whose nodeID the server knows
  peers,        \* the server's map
  forwards,     \* goroutines of doForward
  offer,        \* the calls of SendOffer
  pending,      \* s.pending of each node, by callee
  channel,      \* the answer in the channel of each call
  answering,    \* offers whose handler runs at the callee
  overlapped    \* history: calls that waited with another one of their pair

client == <<owner, alive, conn, reading>>
server == <<serving, registered, peers, forwards>>
calls == <<offer, pending, channel, overlapped>>
vars == <<client, up, down, server, calls, answering>>

Sessions == 1 .. MaxSessions
Offers == 1 .. MaxOffers
None == 0

Register == [type |-> "register", offer |-> None]
OfferMsg(o) == [type |-> "offer", offer |-> o]
AnswerMsg(o) == [type |-> "answer", offer |-> o]
Messages == {Register} \cup {OfferMsg(o) : o \in Offers} \cup {AnswerMsg(o) : o \in Offers}

Unused == [st |-> "unused"]
UsedOffers == {o \in Offers : offer[o] # Unused}
Waiting == {o \in UsedOffers : offer[o].st = "waiting"}
SamePair(o, p) == offer[o].from = offer[p].from /\ offer[o].to = offer[p].to

\* The node that the server forwards m to.
Target(m) == IF m.type = "offer" THEN offer[m.offer].to ELSE offer[m.offer].from

\* Writing m to websocket s: what is written to a dead one is lost.
Written(queue, s, m) == IF s \in alive THEN [queue EXCEPT ![s] = Append(@, m)] ELSE queue

-----------------------------------------------------------------------------

Init ==
  /\ owner = [s \in Sessions |-> None]
  /\ alive = {} /\ conn = [n \in Nodes |-> None] /\ reading = {}
  /\ up = [s \in Sessions |-> <<>>] /\ down = [s \in Sessions |-> <<>>]
  /\ serving = {} /\ registered = {} /\ peers = [n \in Nodes |-> None] /\ forwards = {}
  /\ offer = [o \in Offers |-> Unused]
  /\ pending = [n \in Nodes |-> [m \in Nodes |-> None]]
  /\ channel = [o \in Offers |-> None]
  /\ answering = {} /\ overlapped = {}

\* ListenOffers dials, registers and starts the readLoop; a node that has no
\* working connection may call it again.
ListenOffers(n) ==
  LET s == Cardinality({t \in Sessions : owner[t] # None}) + 1 IN
  /\ conn[n] \notin alive
  /\ s \in Sessions
  /\ owner' = [owner EXCEPT ![s] = n]
  /\ alive' = alive \cup {s}
  /\ conn' = [conn EXCEPT ![n] = s]
  /\ reading' = reading \cup {s}
  /\ up' = [up EXCEPT ![s] = <<Register>>]
  /\ serving' = serving \cup {s}
  /\ UNCHANGED <<down, registered, peers, forwards, calls, answering>>

MayBeLost(s) ==
  s \in alive => Cardinality({t \in Sessions \ alive : owner[t] # None}) < MaxLosses

Close(n) ==
  /\ conn[n] # None /\ MayBeLost(conn[n])
  /\ alive' = alive \ {conn[n]}
  /\ conn' = [conn EXCEPT ![n] = None]
  /\ UNCHANGED <<owner, reading, up, down, server, calls, answering>>

Break(s) ==
  /\ s \in alive /\ MayBeLost(s)
  /\ alive' = alive \ {s}
  /\ UNCHANGED <<owner, conn, reading, up, down, server, calls, answering>>

\* readLoop returns; s.conn keeps the dead connection.
ReadLoopEnds(s) ==
  /\ s \in reading \ alive
  /\ reading' = reading \ {s}
  /\ down' = [down EXCEPT ![s] = <<>>]
  /\ UNCHANGED <<owner, alive, conn, up, server, calls, answering>>

\* Mutant of Place: a place that is taken is not given up.
PlaceIfFree(n, m, o) == [pending EXCEPT ![n][m] = IF @ = None THEN o ELSE @]

\* Call o takes the place of its callee.
Place(n, m, o) == [pending EXCEPT ![n][m] = o]

\* Mutant of Unpend: the place is not given back.
UnpendNothing(o) == UNCHANGED pending

\* The deferred delete of SendOffer: it removes whatever the place holds.
Unpend(o) == pending' = [pending EXCEPT ![offer[o].from][offer[o].to] = None]

\* SendOffer takes the place of its callee and writes the offer.  A write to a
\* dead connection fails, or is lost, and without one SendOffer returns.
SendOffer(n, m) ==
  LET o == Cardinality(UsedOffers) + 1
      others == {p \in Waiting : offer[p].from = n /\ offer[p].to = m}
  IN
  /\ n # m
  /\ o \in Offers
  /\ \/ /\ conn[n] # None
        /\ offer' = [offer EXCEPT ![o] = [st |-> "waiting", from |-> n, to |-> m, got |-> None]]
        /\ pending' = Place(n, m, o)
        /\ up' = Written(up, conn[n], OfferMsg(o))
     \/ /\ conn[n] \notin alive
        /\ offer' = [offer EXCEPT ![o] = [st |-> "failed", from |-> n, to |-> m, got |-> None]]
        /\ pending' = [pending EXCEPT ![n][m] = None]
        /\ UNCHANGED up
  /\ overlapped' = IF others = {} THEN overlapped ELSE overlapped \cup others \cup {o}
  /\ UNCHANGED <<client, down, server, channel, answering>>

\* SendOffer returns the answer in its channel.
TakeAnswer(o) ==
  /\ o \in Waiting /\ channel[o] # None
  /\ offer' = [offer EXCEPT ![o].st = "answered", ![o].got = channel[o]]
  /\ Unpend(o)
  /\ UNCHANGED <<client, up, down, server, channel, overlapped, answering>>

\* 15 s have passed, or ctx is done.
TimesOut(o) ==
  /\ o \in Waiting
  /\ offer' = [offer EXCEPT ![o].st = "failed"]
  /\ Unpend(o)
  /\ UNCHANGED <<client, up, down, server, channel, overlapped, answering>>

\* Mutant of ReadOffer: an offer is ignored while another one is answered.
ReadOfferIfIdle(s) ==
  /\ s \in reading /\ down[s] # <<>> /\ Head(down[s]).type = "offer"
  /\ IF \E o \in answering : offer[o].to = owner[s]
     THEN UNCHANGED answering
     ELSE answering' = answering \cup {Head(down[s]).offer}
  /\ down' = [down EXCEPT ![s] = Tail(@)]
  /\ UNCHANGED <<client, up, server, calls>>

\* readLoop starts a goroutine that calls the handler.
ReadOffer(s) ==
  /\ s \in reading /\ down[s] # <<>> /\ Head(down[s]).type = "offer"
  /\ answering' = answering \cup {Head(down[s]).offer}
  /\ down' = [down EXCEPT ![s] = Tail(@)]
  /\ UNCHANGED <<client, up, server, calls>>

\* The handler has failed, or has made an answer, which is written to the
\* connection that the node has by now.
HandlerEnds(o) ==
  /\ o \in answering
  /\ answering' = answering \ {o}
  /\ \/ up' = Written(up, conn[offer[o].to], AnswerMsg(o))
     \/ UNCHANGED up
  /\ UNCHANGED <<client, down, server, calls>>

\* readLoop puts an answer into the channel that has the place of its callee,
\* unless there is none or it is full.
ReadAnswer(s) ==
  /\ s \in reading /\ down[s] # <<>> /\ Head(down[s]).type = "answer"
  /\ LET o == Head(down[s]).offer
         p == pending[offer[o].from][offer[o].to]
     IN channel' = IF p # None /\ channel[p] = None
                   THEN [channel EXCEPT ![p] = o] ELSE channel
  /\ down' = [down EXCEPT ![s] = Tail(@)]
  /\ UNCHANGED <<client, up, server, offer, pending, overlapped, answering>>

-----------------------------------------------------------------------------

\* ServeHTTP reads a message: it registers the connection, replacing any other
\* one of that id, or starts a goroutine that forwards.
ServerReads(s) ==
  /\ s \in serving /\ up[s] # <<>>
  /\ IF Head(up[s]) = Register
     THEN /\ registered' = registered \cup {s}
          /\ peers' = [peers EXCEPT ![owner[s]] = s]
          /\ UNCHANGED forwards
     ELSE /\ forwards' = forwards \cup {[msg |-> Head(up[s]), entry |-> None]}
          /\ UNCHANGED <<registered, peers>>
  /\ up' = [up EXCEPT ![s] = Tail(@)]
  /\ UNCHANGED <<client, down, serving, calls, answering>>

\* The deferred delete of ServeHTTP: by id, whichever connection that is of.
Forgotten(s) == IF s \in registered THEN [peers EXCEPT ![owner[s]] = None] ELSE peers

\* The read fails and ServeHTTP returns.
ServerEnds(s) ==
  /\ s \in serving \ alive
  /\ serving' = serving \ {s}
  /\ peers' = Forgotten(s)
  /\ up' = [up EXCEPT ![s] = <<>>]
  /\ UNCHANGED <<client, down, registered, forwards, calls, answering>>

\* doForward looks its target up.  forwardSem is given back before that and
\* holds nothing up.
LooksUp(f) ==
  LET s == peers[Target(f.msg)] IN
  /\ f \in forwards /\ f.entry = None
  /\ forwards' = (forwards \ {f}) \cup IF s = None THEN {} ELSE {[f EXCEPT !.entry = s]}
  /\ UNCHANGED <<client, up, down, serving, registered, peers, calls, answering>>

\* Mutant of Forwards: a failed write removes the target's entry.
ForwardsOrForgets(f) ==
  /\ f \in forwards /\ f.entry # None
  /\ forwards' = forwards \ {f}
  /\ down' = Written(down, f.entry, f.msg)
  /\ peers' = IF f.entry \in alive THEN peers ELSE [peers EXCEPT ![Target(f.msg)] = None]
  /\ UNCHANGED <<client, up, serving, registered, calls, answering>>

\* doForward writes to the connection it has found; an error is only logged.
Forwards(f) ==
  /\ f \in forwards /\ f.entry # None
  /\ forwards' = forwards \ {f}
  /\ down' = Written(down, f.entry, f.msg)
  /\ UNCHANGED <<client, up, serving, registered, peers, calls, answering>>

-----------------------------------------------------------------------------

Next ==
  \/ \E n \in Nodes : ListenOffers(n)
  \/ \E n \in Nodes : Close(n)
  \/ \E s \in Sessions : Break(s)
  \/ \E s \in Sessions : ReadLoopEnds(s)
  \/ \E n, m \in Nodes : SendOffer(n, m)
  \/ \E o \in Offers : TakeAnswer(o)
  \/ \E o \in Offers : TimesOut(o)
  \/ \E s \in Sessions : ReadOffer(s)
  \/ \E o \in Offers : HandlerEnds(o)
  \/ \E s \in Sessions : ReadAnswer(s)
  \/ \E s \in Sessions : ServerReads(s)
  \/ \E s \in Sessions : ServerEnds(s)
  \/ \E f \in forwards : LooksUp(f)
  \/ \E f \in forwards : Forwards(f)

\* The loops and goroutines run; nobody has to call, close or time out.
ForwardSteps == \E f \in forwards : LooksUp(f) \/ Forwards(f)
Fairness ==
  /\ \A s \in Sessions : WF_vars(ReadOffer(s) \/ ReadAnswer(s) \/ ReadLoopEnds(s))
  /\ \A s \in Sessions : WF_vars(ServerReads(s) \/ ServerEnds(s))
  /\ WF_vars(ForwardSteps)

Spec == Init /\ [][Next]_vars /\ Fairness

-----------------------------------------------------------------------------

OfferRecords ==
  [st : {"waiting", "answered", "failed"}, from : Nodes, to : Nodes, got : {None} \cup Offers]

TypeOK ==
  /\ owner \in [Sessions -> Nodes \cup {None}]
  /\ alive \subseteq Sessions /\ reading \subseteq Sessions
  /\ serving \subseteq Sessions /\ registered \subseteq Sessions
  /\ conn \in [Nodes -> Sessions \cup {None}] /\ peers \in [Nodes -> Sessions \cup {None}]
  /\ up \in [Sessions -> Seq(Messages)] /\ down \in [Sessions -> Seq(Messages)]
  /\ forwards \subseteq [msg : Messages, entry : Sessions \cup {None}]
  /\ offer \in [Offers -> OfferRecords \cup {Unused}]
  /\ pending \in [Nodes -> [Nodes -> Offers \cup {None}]]
  /\ channel \in [Offers -> Offers \cup {None}]
  /\ \A h \in {answering, overlapped} : h \subseteq Offers

Answered == {o \in UsedOffers : offer[o].st = "answered"}

\* An answer settles an offer of the pair it was made for, and one only.  It
\* need not be the offer it answers: the place is taken by callee (line 144),
\* so that a late answer settles the next offer; never an earlier one.
AnswersMatch ==
  \A o \in Answered :
    /\ offer[o].got <= o /\ SamePair(o, offer[o].got)
    /\ \A p \in Answered \ {o} : offer[p].got # offer[o].got

\* A call that waits has the place of its callee, so that the answer to it can
\* be received, unless it has overlapped with another call of the same pair
\* (line 154 then removes a place that is not the call's own).
WaitingHasPlace ==
  \A o \in Waiting \ overlapped : pending[offer[o].from][offer[o].to] = o

\* A place is held by a call that waits: none is left behind by a call that
\* failed, or whose callee never answered.
PlaceIsWaiting ==
  \A n, m \in Nodes : pending[n][m] # None =>
    LET o == pending[n][m] IN o \in Waiting /\ offer[o].from = n /\ offer[o].to = m

\* The server's map holds no connection that it has stopped reading, although
\* connections of one id replace and delete one another's entries.
NoEndedEntry ==
  \A n \in Nodes : peers[n] # None =>
    peers[n] \in serving \cap registered /\ owner[peers[n]] = n

\* The maps of clients and server are in step with the calls that wait, as long
\* as calls do not overlap, and with the connections that are served.
PlacesInv == TypeOK /\ WaitingHasPlace /\ PlaceIsWaiting /\ NoEndedEntry

Reachable(s) == peers[owner[s]] = s

\* A connection that is served loses its entry in one way only: another
\* connection of the same node registers or ends.
EntryLostToSameNode ==
  [][\A s \in registered \cap serving :
       (Reachable(s) /\ ~Reachable(s)' /\ s \in serving')
         => \E t \in Sessions \ {s} :
              /\ owner[t] = owner[s]
              /\ t \in registered' \ registered \/ t \in serving \ serving']_vars

Lost(n) == \E s \in Sessions : owner[s] = n /\ s \notin alive

InTransit(o) ==
  \/ \E s \in Sessions : Contains(up[s], OfferMsg(o)) \/ Contains(down[s], OfferMsg(o))
  \/ \E f \in forwards : f.msg = OfferMsg(o)

\* An offer on its way reaches the handler of its callee, unless the callee is
\* not registered or one of the two loses a connection: neither another offer,
\* nor an answer, nor a registration can hold it up.
OffersArrive ==
  \A o \in Offers :
    InTransit(o)
      ~> /\ o \in UsedOffers
         /\ \/ o \in answering
            \/ peers[offer[o].to] = None
            \/ Lost(offer[o].from) \/ Lost(offer[o].to)
=============================================================================
