----------------------------- MODULE WebRtcPeers -----------------------------
(***************************************************************************)
(* transport/webrtc/webrtc.go: how nodes open connections to one another.  *)
(* A call that finds no connection in the map of its node makes one: it    *)
(* gathers candidates, puts the connection into the map, sends an offer    *)
(* through the signaler and waits for the control channel to open.  The    *)
(* node that gets the offer makes the other end and puts that into its own *)
(* map.  A call that finds a connection, open or not, waits for it and     *)
(* changes nothing, so that it is no action here.                          *)
(*                                                                         *)
(* Attempt k has two ends, <<k, "offer">> at the node that began it and    *)
(* <<k, "answer">> at the other one.  The signaler is the environment: it  *)
(* may fail at any time, deliver an offer late, and return the answer to   *)
(* an earlier offer of the pair (see CentralSignaling, AnswersMatch), or   *)
(* the same answer again (the answer key of DHTSignaler is not deleted).   *)
(* It hands an offer over once, as the central and direct signalers do;    *)
(* nobody calls a transport that was closed.                               *)
(***************************************************************************)
EXTENDS Integers, FiniteSets

CONSTANTS
  Nodes,
  MaxAttempts   \* bound: calls that find no connection

ASSUME AttemptBound == MaxAttempts \in Nat \ {0}

VARIABLES
  attempt,    \* the calls of connect
  peers,      \* t.peers of each node
  answered,   \* attempts whose offer was handled
  applied,    \* the attempt whose answer the offering end was given
  ready,      \* ends whose controlReady is closed
  closed,     \* ends on which Close was called
  stopped,    \* nodes whose transport was closed
  contested   \* history: pairs of nodes with attempts that overlapped

vars == <<attempt, peers, answered, applied, ready, closed, stopped, contested>>

Attempts == 1 .. MaxAttempts
Ends == Attempts \X {"offer", "answer"}
None == 0
NoEnd == <<None, "none">>

Unused == [st |-> "unused"]
Used == {k \in Attempts : attempt[k] # Unused}
InProgress == {k \in Used : attempt[k].st \in {"gather", "signal", "open"}}
Pair(k) == {attempt[k].from, attempt[k].to}

Offering(k) == <<k, "offer">>
Answering(k) == <<k, "answer">>

\* The node that holds end p, and the one at the other end.
HolderOf(p) == IF p[2] = "offer" THEN attempt[p[1]].from ELSE attempt[p[1]].to
RemoteOf(p) == IF p[2] = "offer" THEN attempt[p[1]].to ELSE attempt[p[1]].from
OtherEnd(p) == IF p[2] = "offer" THEN Answering(p[1]) ELSE Offering(p[1])

\* t.peers[remote] = p at the node that holds p.
Entered(p) == [peers EXCEPT ![HolderOf(p)][RemoteOf(p)] = p]

\* delete(t.peers, remote): whichever end is in the map.
Removed(p) == [peers EXCEPT ![HolderOf(p)][RemoteOf(p)] = NoEnd]

Becomes(k, st) == attempt' = [attempt EXCEPT ![k].st = st]

-----------------------------------------------------------------------------

Init ==
  /\ attempt = [k \in Attempts |-> Unused]
  /\ peers = [n \in Nodes |-> [m \in Nodes |-> NoEnd]]
  /\ answered = {} /\ applied = [k \in Attempts |-> None]
  /\ ready = {} /\ closed = {} /\ stopped = {} /\ contested = {}

\* Mutant of Connect: a call always makes a connection of its own.
ConnectAnew(n, m) ==
  LET k == Cardinality(Used) + 1 IN
  /\ n # m /\ n \notin stopped
  /\ k \in Attempts
  /\ attempt' = [attempt EXCEPT ![k] = [st |-> "gather", from |-> n, to |-> m]]
  /\ contested' = IF \E j \in InProgress : Pair(j) = {n, m}
                  THEN contested \cup {{n, m}} ELSE contested
  /\ UNCHANGED <<peers, answered, applied, ready, closed, stopped>>

\* getPeer finds no connection in the map, lets the lock go, and connects.
Connect(n, m) ==
  LET k == Cardinality(Used) + 1 IN
  /\ n # m /\ n \notin stopped
  /\ peers[n][m] = NoEnd
  /\ k \in Attempts
  /\ attempt' = [attempt EXCEPT ![k] = [st |-> "gather", from |-> n, to |-> m]]
  /\ contested' = IF \E j \in InProgress : Pair(j) = {n, m}
                  THEN contested \cup {{n, m}} ELSE contested
  /\ UNCHANGED <<peers, answered, applied, ready, closed, stopped>>

\* The connection could not be made: connect returns without having shown it.
NotMade(k) ==
  /\ k \in Used /\ attempt[k].st = "gather"
  /\ Becomes(k, "not made")
  /\ closed' = closed \cup {Offering(k)}
  /\ UNCHANGED <<peers, answered, applied, ready, stopped, contested>>

\* Candidates are gathered: the connection enters the map in the place of any
\* that has got there in the meantime, and the offer is sent.
Publish(k) ==
  /\ k \in Used /\ attempt[k].st = "gather"
  /\ Becomes(k, "signal")
  /\ peers' = Entered(Offering(k))
  /\ UNCHANGED <<answered, applied, ready, closed, stopped, contested>>

\* Offers that have been sent.
Sent == {k \in Used : attempt[k].st \notin {"gather", "not made"}}

\* Mutant of EnteredByOffer: a connection that is there stays.
KeptByOffer(k) ==
  IF peers[attempt[k].to][attempt[k].from] = NoEnd THEN Entered(Answering(k)) ELSE peers

\* handleIncomingOffer enters its end whatever the map holds.
EnteredByOffer(k) == Entered(Answering(k))

\* handleIncomingOffer: possibly after the attempt has ended, or Close.
HandleOffer(k) ==
  /\ k \in Sent \ answered
  /\ answered' = answered \cup {k}
  /\ peers' = EnteredByOffer(k)
  /\ contested' = IF k \in InProgress THEN contested ELSE contested \cup {Pair(k)}
  /\ UNCHANGED <<attempt, applied, ready, closed, stopped>>

\* Mutants of SignalFails: the connection stays in the map; the one that is in
\* the map is closed.
SignalFailsKeeps(k) ==
  /\ k \in Used /\ attempt[k].st = "signal"
  /\ Becomes(k, "failed")
  /\ closed' = closed \cup {Offering(k)}
  /\ UNCHANGED <<peers, answered, applied, ready, stopped, contested>>

SignalFailsAny(k) ==
  /\ k \in Used /\ attempt[k].st = "signal"
  /\ Becomes(k, "failed")
  /\ peers' = Removed(Offering(k))
  /\ closed' = closed \cup ({Offering(k), peers[attempt[k].from][attempt[k].to]} \ {NoEnd})
  /\ UNCHANGED <<answered, applied, ready, stopped, contested>>

\* SendOffer or SetRemoteDescription fails: the entry is deleted, and the
\* connection of the attempt closed.
SignalFails(k) ==
  /\ k \in Used /\ attempt[k].st = "signal"
  /\ Becomes(k, "failed")
  /\ peers' = Removed(Offering(k))
  /\ closed' = closed \cup {Offering(k)}
  /\ UNCHANGED <<answered, applied, ready, stopped, contested>>

\* SendOffer returns an answer, and the connection, if not closed, takes it.
SignalAnswers(k) ==
  /\ k \in Used /\ attempt[k].st = "signal"
  /\ Offering(k) \notin closed
  /\ \E j \in answered \cap 1 .. k :
       /\ attempt[j].from = attempt[k].from /\ attempt[j].to = attempt[k].to
       /\ applied' = [applied EXCEPT ![k] = j]
  /\ Becomes(k, "open")
  /\ UNCHANGED <<peers, answered, ready, closed, stopped, contested>>

\* The control channel opens at end p: the two ends know each other's
\* descriptions and none has been closed.
ChannelOpens(p) ==
  /\ applied[p[1]] = p[1]
  /\ {p, OtherEnd(p)} \cap closed = {}
  /\ p \notin ready
  /\ ready' = ready \cup {p}
  /\ UNCHANGED <<attempt, peers, answered, applied, closed, stopped, contested>>

ConnectReturns(k) ==
  /\ k \in Used /\ attempt[k].st = "open" /\ Offering(k) \in ready
  /\ Becomes(k, "ok")
  /\ UNCHANGED <<peers, answered, applied, ready, closed, stopped, contested>>

\* 15 s without the channel: connect returns, and leaves the entry as it is.
ConnectTimesOut(k) ==
  /\ k \in Used /\ attempt[k].st = "open"
  /\ Becomes(k, "timed out")
  /\ UNCHANGED <<peers, answered, applied, ready, closed, stopped, contested>>

\* Close closes what is in the map; calls in progress go on.
Close(n) ==
  /\ n \notin stopped
  /\ stopped' = stopped \cup {n}
  /\ closed' = closed \cup ({peers[n][m] : m \in Nodes} \ {NoEnd})
  /\ peers' = [peers EXCEPT ![n] = [m \in Nodes |-> NoEnd]]
  /\ UNCHANGED <<attempt, answered, applied, ready, contested>>

Next ==
  \/ \E n, m \in Nodes : Connect(n, m)
  \/ \E k \in Attempts : NotMade(k)
  \/ \E k \in Attempts : Publish(k)
  \/ \E k \in Attempts : HandleOffer(k)
  \/ \E k \in Attempts : SignalFails(k)
  \/ \E k \in Attempts : SignalAnswers(k)
  \/ \E p \in Ends : ChannelOpens(p)
  \/ \E k \in Attempts : ConnectReturns(k)
  \/ \E k \in Attempts : ConnectTimesOut(k)
  \/ \E n \in Nodes : Close(n)

Spec == Init /\ [][Next]_vars

-----------------------------------------------------------------------------

States == {"gather", "not made", "signal", "failed", "open", "ok", "timed out"}

TypeOK ==
  /\ attempt \in [Attempts -> [st : States, from : Nodes, to : Nodes] \cup {Unused}]
  /\ \A n, m \in Nodes : peers[n][m] = NoEnd \/ peers[n][m] \in Ends
  /\ answered \subseteq Attempts
  /\ applied \in [Attempts -> Attempts \cup {None}]
  /\ ready \subseteq Ends /\ closed \subseteq Ends
  /\ stopped \subseteq Nodes
  /\ contested \subseteq SUBSET Nodes

\* No call is given a connection that was closed: the map does not hold one,
\* also when attempts replace and delete one another's entries.
NoClosedEntry == \A n, m \in Nodes : peers[n][m] \notin closed

\* The maps of two nodes name the two ends of one connection, once it is open,
\* unless two attempts overlapped or an offer was handled after its attempt had
\* ended (line 201 then replaces whatever connection there is).
EndsMatch ==
  \A n, m \in Nodes \ stopped :
    (peers[n][m] \in ready /\ {n, m} \notin contested)
      => peers[m][n] = OtherEnd(peers[n][m])

\* An open connection that neither the map holds nor Close has closed, and
\* that nobody will ever close, takes attempts that overlapped.
LeakNeedsOverlap ==
  \A p \in ready \ closed :
    (peers[HolderOf(p)][RemoteOf(p)] # p /\ HolderOf(p) \notin stopped)
      => {HolderOf(p), RemoteOf(p)} \in contested

\* Two nodes that connect to each other at the same time, and both succeed, can
\* use what their maps hold: whichever entry has stayed is of a connection that
\* has opened.
GlareIsHarmless ==
  ((\A k \in Used : attempt[k].st = "ok") /\ stopped = {})
    => \A k \in Used :
         LET n == attempt[k].from
             m == attempt[k].to
         IN \A p \in {peers[n][m], peers[m][n]} : p # NoEnd /\ Offering(p[1]) \in ready

\* The maps hold ends of their type, none of which was closed, and the ones that
\* attempts which succeeded have left there can be used.
MapInv == TypeOK /\ NoClosedEntry /\ GlareIsHarmless

\* A connection that is open is closed by Close only: the failure of an attempt
\* may take its entry (lines 271 and 282), but not the connection.
OpenStaysOpen ==
  [][\A p \in ready \ closed : p \in closed' => HolderOf(p) \in stopped' \ stopped]_vars
=============================================================================
