------------------------- MODULE WebRtcPeersProofs -------------------------
(***************************************************************************)
(* MapInv, EndsMatch, LeakNeedsOverlap and OpenStaysOpen for every number  *)
(* of nodes and attempts.  The first lemmas say what any step does to one  *)
(* variable; the inductive invariant says to whom the entries of the maps  *)
(* belong, and that the attempts of an uncontested pair of nodes go on one *)
(* at a time, so that nothing replaces the entries of one that succeeds.   *)
(***************************************************************************)
EXTENDS WebRtcPeers, FiniteSetTheorems, TLAPS

\* The attempts have been begun in the order of their numbers.
NoHoles == \E i \in Nat : Used = 1 .. i

\* TypeOK with the domains that it leaves to Init.
Domains ==
  /\ peers \in [Nodes -> [Nodes -> Ends \cup {NoEnd}]]
  /\ \A k \in Used : attempt[k].from # attempt[k].to

\* States of an attempt whose connection was given an answer, and those in which
\* its connection may be in the map.
Answered == {"open", "ok", "timed out"}
Shown == {"signal"} \cup Answered

\* What is in the map is an end that belongs there and was not closed.
EntriesBelong ==
  \A n, m \in Nodes : \A p \in Ends : peers[n][m] = p =>
    /\ p[1] \in Used /\ n = HolderOf(p) /\ m = RemoteOf(p) /\ p \notin closed
    /\ p[2] = "offer" => attempt[p[1]].st \in Shown
    /\ p[2] = "answer" => p[1] \in answered

\* An end is closed after it was made only; offers are handled after they were
\* sent; an answer is given to an attempt whose signaling goes well, and the
\* channel of an attempt opens after its own answer.
Lifecycle ==
  /\ \A p \in closed : /\ p[1] \in Used
                       /\ p[2] = "offer" => attempt[p[1]].st # "gather"
                       /\ p[2] = "answer" => p[1] \in answered
  /\ answered \subseteq Sent
  /\ \A k \in Attempts : applied[k] # None =>
       k \in Used /\ attempt[k].st \in Answered /\ applied[k] \in answered
  /\ \A p \in ready : applied[p[1]] = p[1]
  /\ \A k \in Used : attempt[k].st = "ok" => Offering(k) \in ready

\* Entries are lost to failures and to Close only.
EntriesKept ==
  (stopped = {} /\ \A k \in Used : attempt[k].st # "failed") =>
    /\ \A k \in Sent : peers[attempt[k].from][attempt[k].to] # NoEnd
    /\ \A k \in answered : peers[attempt[k].to][attempt[k].from] # NoEnd

\* Both nodes of attempt k have its ends in their maps: the other one has its
\* end from when it handles the offer.
OfferEntered(k) ==
  attempt[k].from \notin stopped => peers[attempt[k].from][attempt[k].to] = Offering(k)
AnswerEntered(k) ==
  attempt[k].to \notin stopped => peers[attempt[k].to][attempt[k].from] = Answering(k)

\* Attempts of an uncontested pair go on one at a time, and have the maps to
\* themselves for as long as they do.
OneAtATime ==
  \A k \in InProgress : Pair(k) \notin contested =>
    /\ \A j \in InProgress : Pair(j) = Pair(k) => j = k
    /\ attempt[k].st # "gather" => OfferEntered(k)
    /\ k \in answered => AnswerEntered(k)

\* An attempt of an uncontested pair that was given its own answer keeps both
\* entries for good, so that no other attempt of the pair begins.
Connected ==
  \A k \in Used : (applied[k] = k /\ Pair(k) \notin contested) =>
    /\ OfferEntered(k) /\ AnswerEntered(k)
    /\ \A j \in InProgress : Pair(j) = Pair(k) => j = k

IInv ==
  /\ TypeOK /\ Domains /\ NoHoles /\ Lifecycle
  /\ EntriesBelong /\ EntriesKept /\ OneAtATime /\ Connected

-----------------------------------------------------------------------------

AttemptRecords == [st : States, from : Nodes, to : Nodes]

LEMMA Unlike == \A r \in AttemptRecords : r # Unused
<1>1. \A r \in AttemptRecords : r.st # "unused"
  BY DEF AttemptRecords, States
<1>2. Unused.st = "unused"
  BY DEF Unused
<1> QED
  BY <1>1, <1>2

LEMMA AttemptType ==
  ASSUME TypeOK
  PROVE  /\ attempt \in [Attempts -> AttemptRecords \cup {Unused}]
         /\ \A k \in Used : k \in Attempts /\ attempt[k] \in AttemptRecords
         /\ \A k \in Used : attempt[k].from \in Nodes /\ attempt[k].to \in Nodes
         /\ \A k \in Attempts : k # None
<1>1. \A k \in Attempts : k # None
  BY AttemptBound DEF Attempts, None
<1>2. attempt \in [Attempts -> AttemptRecords \cup {Unused}]
  BY DEF TypeOK, AttemptRecords
<1>3. \A k \in Used : k \in Attempts /\ attempt[k] \in AttemptRecords
  BY <1>2 DEF Used
<1> QED
  BY <1>1, <1>2, <1>3 DEF AttemptRecords

\* An end is the offering or the answering one of an attempt, and NoEnd is none.
LEMMA EndType ==
  /\ NoEnd \notin Ends
  /\ \A p \in Ends : /\ p[1] \in Attempts
                     /\ \/ p = Offering(p[1]) /\ p[2] = "offer"
                        \/ p = Answering(p[1]) /\ p[2] = "answer"
  /\ \A k \in Attempts : /\ Offering(k) \in Ends /\ Answering(k) \in Ends
                         /\ Offering(k)[1] = k /\ Offering(k)[2] = "offer"
                         /\ Answering(k)[1] = k /\ Answering(k)[2] = "answer"
  /\ \A j, k \in Attempts : Offering(j) # Answering(k)
BY DEF Ends, NoEnd, Offering, Answering

LEMMA HolderAndRemote ==
  ASSUME NEW k \in Attempts
  PROVE  /\ HolderOf(Offering(k)) = attempt[k].from /\ RemoteOf(Offering(k)) = attempt[k].to
         /\ HolderOf(Answering(k)) = attempt[k].to /\ RemoteOf(Answering(k)) = attempt[k].from
         /\ OtherEnd(Offering(k)) = Answering(k) /\ OtherEnd(Answering(k)) = Offering(k)
BY DEF HolderOf, RemoteOf, OtherEnd, Offering, Answering

\* The number of an attempt that begins is free.
LEMMA NextIsFree ==
  ASSUME NoHoles
  PROVE  /\ Cardinality(Used) + 1 \notin Used
         /\ \E i \in Nat : Used \cup {Cardinality(Used) + 1} = 1 .. i
<1>1. PICK i \in Nat : Used = 1 .. i
  BY DEF NoHoles
<1>2. Cardinality(Used) = i
  BY <1>1, FS_Interval
<1>3. 1 .. i + 1 = (1 .. i) \cup {i + 1}
  OBVIOUS
<1> QED
  BY <1>1, <1>2, <1>3

-----------------------------------------------------------------------------

\* Attempt k begins in the state of the system that Connect asks for.
Begins(k, n, m) ==
  /\ k \notin Used /\ k \in Attempts /\ n # m /\ n \notin stopped /\ peers[n][m] = NoEnd
  /\ Used' = Used \cup {k}
  /\ attempt'[k].st = "gather" /\ attempt'[k].from = n /\ attempt'[k].to = m
  /\ contested \subseteq contested'
  /\ (\E j \in InProgress : Pair(j) = {n, m}) => {n, m} \in contested'
  /\ UNCHANGED <<peers, answered, applied, ready, closed, stopped>>

LEMMA ConnectSteps ==
  ASSUME TypeOK, NoHoles, NEW n \in Nodes, NEW m \in Nodes, Connect(n, m)
  PROVE  /\ \E k \in Attempts : Begins(k, n, m) /\ \A j \in Used : attempt'[j] = attempt[j]
         /\ attempt' \in [Attempts -> AttemptRecords \cup {Unused}]
         /\ NoHoles'
<1> DEFINE k == Cardinality(Used) + 1
           r == [st |-> "gather", from |-> n, to |-> m]
<1>1. k \notin Used /\ k \in Attempts /\ \E i \in Nat : Used \cup {k} = 1 .. i
  BY NextIsFree DEF Connect
<1>2. attempt' = [attempt EXCEPT ![k] = r]
  BY DEF Connect
<1>3. r \in AttemptRecords /\ r.st = "gather" /\ r.from = n /\ r.to = m
  BY DEF AttemptRecords, States
<1> HIDE DEF r
<1>4. /\ attempt' \in [Attempts -> AttemptRecords \cup {Unused}] /\ attempt'[k] = r
      /\ \A j \in Attempts \ {k} : attempt'[j] = attempt[j]
  BY <1>1, <1>2, <1>3, AttemptType
<1>5. Used' = Used \cup {k}
  BY <1>1, <1>3, <1>4, Unlike DEF Used
<1>6. Begins(k, n, m)
  BY <1>1, <1>3, <1>4, <1>5 DEF Begins, Connect
<1>7. NoHoles'
  BY <1>1, <1>5 DEF NoHoles
<1>8. \A j \in Used : attempt'[j] = attempt[j]
  BY <1>1, <1>4, AttemptType
<1> HIDE DEF k
<1> QED
  BY <1>1, <1>4, <1>6, <1>7, <1>8

\* Only the state of attempt k changes.
MovesTo(k, st) ==
  /\ k \in Used /\ Used' = Used
  /\ attempt'[k].st = st
  /\ attempt'[k].from = attempt[k].from /\ attempt'[k].to = attempt[k].to
  /\ \A j \in Used \ {k} : attempt'[j] = attempt[j]

LEMMA BecomesSteps ==
  ASSUME TypeOK, NoHoles, NEW k \in Used, NEW st \in States, Becomes(k, st)
  PROVE  /\ MovesTo(k, st) /\ NoHoles'
         /\ attempt' \in [Attempts -> AttemptRecords \cup {Unused}]
<1> DEFINE r == [attempt[k] EXCEPT !.st = st]
<1>1. k \in Attempts /\ attempt[k] \in AttemptRecords
  BY AttemptType
<1>2. r \in AttemptRecords /\ r.st = st /\ r.from = attempt[k].from /\ r.to = attempt[k].to
  BY <1>1 DEF AttemptRecords
<1>3. attempt' = [attempt EXCEPT ![k] = r]
  BY DEF Becomes
<1> HIDE DEF r
<1>4. /\ attempt' \in [Attempts -> AttemptRecords \cup {Unused}] /\ attempt'[k] = r
      /\ \A j \in Attempts \ {k} : attempt'[j] = attempt[j]
  BY <1>1, <1>2, <1>3, AttemptType
<1>5. Used' = Used
  BY <1>1, <1>2, <1>4, Unlike DEF Used
<1> QED
  BY <1>1, <1>2, <1>4, <1>5, AttemptType DEF MovesTo, NoHoles

\* What any step does to the attempts: one begins, or one moves on, or none.
Moves ==
  \/ UNCHANGED attempt
  \/ \E n, m \in Nodes, k \in Attempts : Begins(k, n, m) /\ \A j \in Used : attempt'[j] = attempt[j]
  \/ \E k \in Used : NotMade(k) /\ MovesTo(k, "not made")
  \/ \E k \in Used : Publish(k) /\ MovesTo(k, "signal")
  \/ \E k \in Used : SignalFails(k) /\ MovesTo(k, "failed")
  \/ \E k \in Used : SignalAnswers(k) /\ MovesTo(k, "open")
  \/ \E k \in Used : ConnectReturns(k) /\ MovesTo(k, "ok")
  \/ \E k \in Used : ConnectTimesOut(k) /\ MovesTo(k, "timed out")

LEMMA StepAttempts ==
  ASSUME TypeOK, NoHoles, [Next]_vars
  PROVE  /\ Moves /\ NoHoles'
         /\ attempt' \in [Attempts -> AttemptRecords \cup {Unused}]
<1> DEFINE P == /\ Moves /\ NoHoles'
                /\ attempt' \in [Attempts -> AttemptRecords \cup {Unused}]
<1>1. ASSUME UNCHANGED attempt PROVE P
  BY <1>1, AttemptType DEF Moves, NoHoles, Used
<1>2. ASSUME NEW n \in Nodes, NEW m \in Nodes, Connect(n, m) PROVE P
  BY <1>2, ConnectSteps DEF Moves
<1>3. {"not made", "signal", "failed", "open", "ok", "timed out"} \subseteq States
  BY DEF States
<1>4. ASSUME NEW k \in Attempts, NotMade(k) PROVE P
  BY <1>3, <1>4, BecomesSteps DEF NotMade, Moves
<1>5. ASSUME NEW k \in Attempts, Publish(k) PROVE P
  BY <1>3, <1>5, BecomesSteps DEF Publish, Moves
<1>6. ASSUME NEW k \in Attempts, SignalFails(k) PROVE P
  BY <1>3, <1>6, BecomesSteps DEF SignalFails, Moves
<1>7. ASSUME NEW k \in Attempts, SignalAnswers(k) PROVE P
  BY <1>3, <1>7, BecomesSteps DEF SignalAnswers, Moves
<1>8. ASSUME NEW k \in Attempts, ConnectReturns(k) PROVE P
  BY <1>3, <1>8, BecomesSteps DEF ConnectReturns, Moves
<1>9. ASSUME NEW k \in Attempts, ConnectTimesOut(k) PROVE P
  BY <1>3, <1>9, BecomesSteps DEF ConnectTimesOut, Moves
<1>10. ASSUME NEW k \in Attempts, HandleOffer(k) PROVE UNCHANGED attempt
  BY <1>10 DEF HandleOffer
<1>11. ASSUME NEW p \in Ends, ChannelOpens(p) PROVE UNCHANGED attempt
  BY <1>11 DEF ChannelOpens
<1>12. ASSUME NEW n \in Nodes, Close(n) PROVE UNCHANGED attempt
  BY <1>12 DEF Close
<1> HIDE DEF P
<1>13. P
  BY <1>1, <1>2, <1>4, <1>5, <1>6, <1>7, <1>8, <1>9, <1>10, <1>11, <1>12 DEF Next, vars
<1> QED
  BY <1>13 DEF P

\* The nodes of an attempt stay, an attempt that is used stays so, and none goes
\* back to gathering.
LEMMA StepKeeps ==
  ASSUME TypeOK, NoHoles, [Next]_vars
  PROVE  \A k \in Used :
           /\ k \in Used'
           /\ attempt'[k].from = attempt[k].from /\ attempt'[k].to = attempt[k].to
           /\ Pair(k)' = Pair(k)
           /\ attempt[k].st # "gather" => attempt'[k].st # "gather"
           /\ attempt[k].st \in Shown => attempt'[k].st \in Shown \/ SignalFails(k)
           /\ attempt[k].st \in Answered => attempt'[k].st \in Answered
           /\ k \in InProgress' => k \in InProgress
<1> SUFFICES ASSUME NEW k \in Used
             PROVE  /\ k \in Used'
                    /\ attempt'[k].from = attempt[k].from /\ attempt'[k].to = attempt[k].to
                    /\ attempt[k].st # "gather" => attempt'[k].st # "gather"
                    /\ attempt[k].st \in Shown => attempt'[k].st \in Shown \/ SignalFails(k)
                    /\ attempt[k].st \in Answered => attempt'[k].st \in Answered
                    /\ k \in InProgress' => k \in InProgress
  BY DEF Pair
<1>1. CASE UNCHANGED attempt
  BY <1>1 DEF Used, InProgress
<1>2. CASE attempt'[k] = attempt[k] /\ k \in Used'
  BY <1>2 DEF InProgress
<1>3. ASSUME NEW j \in Used, NEW st, MovesTo(j, st), j # k PROVE attempt'[k] = attempt[k] /\ k \in Used'
  BY <1>3 DEF MovesTo
<1>4. CASE NotMade(k) /\ MovesTo(k, "not made")
  BY <1>4 DEF NotMade, MovesTo, Shown, Answered, InProgress
<1>5. CASE Publish(k) /\ MovesTo(k, "signal")
  BY <1>5 DEF Publish, MovesTo, Shown, Answered, InProgress
<1>6. CASE SignalFails(k) /\ MovesTo(k, "failed")
  BY <1>6 DEF SignalFails, MovesTo, Shown, Answered, InProgress
<1>7. CASE SignalAnswers(k) /\ MovesTo(k, "open")
  BY <1>7 DEF SignalAnswers, MovesTo, Shown, Answered, InProgress
<1>8. CASE ConnectReturns(k) /\ MovesTo(k, "ok")
  BY <1>8 DEF ConnectReturns, MovesTo, Shown, Answered, InProgress
<1>9. CASE ConnectTimesOut(k) /\ MovesTo(k, "timed out")
  BY <1>9 DEF ConnectTimesOut, MovesTo, Shown, Answered, InProgress
<1>10. CASE \E n, m \in Nodes, j \in Attempts : Begins(j, n, m) /\ \A i \in Used : attempt'[i] = attempt[i]
  BY <1>2, <1>10 DEF Begins
<1> QED
  BY <1>1, <1>2, <1>3, <1>4, <1>5, <1>6, <1>7, <1>8, <1>9, <1>10, StepAttempts DEF Moves

-----------------------------------------------------------------------------

\* What any step does to the entry that node n has for node m.
LEMMA StepEntries ==
  ASSUME TypeOK, Domains, NoHoles, [Next]_vars
  PROVE  /\ peers' \in [Nodes -> [Nodes -> Ends \cup {NoEnd}]]
         /\ \A n, m \in Nodes :
              \/ peers'[n][m] = peers[n][m]
              \/ peers'[n][m] = NoEnd /\ Close(n)
              \/ \E k \in Used : /\ n = attempt[k].from /\ m = attempt[k].to
                                 /\ \/ Publish(k) /\ peers'[n][m] = Offering(k)
                                    \/ SignalFails(k) /\ peers'[n][m] = NoEnd
              \/ \E k \in Used : /\ m = attempt[k].from /\ n = attempt[k].to
                                 /\ HandleOffer(k) /\ peers'[n][m] = Answering(k)
<1> DEFINE P ==
         /\ peers' \in [Nodes -> [Nodes -> Ends \cup {NoEnd}]]
         /\ \A n, m \in Nodes :
              \/ peers'[n][m] = peers[n][m]
              \/ peers'[n][m] = NoEnd /\ Close(n)
              \/ \E k \in Used : /\ n = attempt[k].from /\ m = attempt[k].to
                                 /\ \/ Publish(k) /\ peers'[n][m] = Offering(k)
                                    \/ SignalFails(k) /\ peers'[n][m] = NoEnd
              \/ \E k \in Used : /\ m = attempt[k].from /\ n = attempt[k].to
                                 /\ HandleOffer(k) /\ peers'[n][m] = Answering(k)
<1>0. peers \in [Nodes -> [Nodes -> Ends \cup {NoEnd}]]
  BY DEF Domains
<1>1. ASSUME UNCHANGED peers PROVE P
  BY <1>0, <1>1
<1>2. ASSUME NEW k \in Attempts, Publish(k) PROVE P
  <2>1. k \in Used /\ attempt[k].from \in Nodes /\ attempt[k].to \in Nodes /\ Offering(k) \in Ends
    BY <1>2, AttemptType, EndType DEF Publish
  <2>2. peers' = [peers EXCEPT ![attempt[k].from][attempt[k].to] = Offering(k)]
    BY <1>2, HolderAndRemote DEF Publish, Entered
  <2> QED
    BY <1>0, <1>2, <2>1, <2>2
<1>3. ASSUME NEW k \in Attempts, HandleOffer(k) PROVE P
  <2>1. k \in Used /\ attempt[k].from \in Nodes /\ attempt[k].to \in Nodes /\ Answering(k) \in Ends
    BY <1>3, AttemptType, EndType DEF HandleOffer, Sent
  <2>2. peers' = [peers EXCEPT ![attempt[k].to][attempt[k].from] = Answering(k)]
    BY <1>3, HolderAndRemote DEF HandleOffer, EnteredByOffer, Entered
  <2> QED
    BY <1>0, <1>3, <2>1, <2>2
<1>4. ASSUME NEW k \in Attempts, SignalFails(k) PROVE P
  <2>1. k \in Used /\ attempt[k].from \in Nodes /\ attempt[k].to \in Nodes
    BY <1>4, AttemptType DEF SignalFails
  <2>2. peers' = [peers EXCEPT ![attempt[k].from][attempt[k].to] = NoEnd]
    BY <1>4, HolderAndRemote DEF SignalFails, Removed
  <2> QED
    BY <1>0, <1>4, <2>1, <2>2
<1>5. ASSUME NEW n \in Nodes, Close(n) PROVE P
  <2>1. peers' = [peers EXCEPT ![n] = [m \in Nodes |-> NoEnd]]
    BY <1>5 DEF Close
  <2> QED
    BY <1>0, <1>5, <2>1
<1> HIDE DEF P
<1>6. ASSUME \A k \in Attempts : ~Publish(k) /\ ~HandleOffer(k) /\ ~SignalFails(k),
             \A n \in Nodes : ~Close(n)
      PROVE  UNCHANGED peers
  BY <1>6 DEF Next, vars, Connect, NotMade, SignalAnswers, ChannelOpens, ConnectReturns, ConnectTimesOut
<1>7. P
  BY <1>1, <1>2, <1>3, <1>4, <1>5, <1>6
<1> QED
  BY <1>7 DEF P

\* What any step does to the rest of the state.
LEMMA StepOthers ==
  ASSUME TypeOK, Domains, [Next]_vars
  PROVE  /\ answered \subseteq answered' /\ contested \subseteq contested'
         /\ stopped \subseteq stopped' /\ ready \subseteq ready'
         /\ \A k \in answered' : k \in answered \/ (k \in Sent /\ HandleOffer(k))
         /\ \A p \in ready' : p \in ready \/ (p \in Ends /\ applied[p[1]] = p[1] /\ UNCHANGED applied)
         /\ applied' \in [Attempts -> Attempts \cup {None}]
         /\ \A k \in Attempts : applied'[k] = applied[k] \/ (SignalAnswers(k) /\ applied'[k] \in answered)
         /\ \A p \in closed' :
              \/ p \in closed
              \/ \E k \in Used : p = Offering(k) /\ (NotMade(k) \/ SignalFails(k))
              \/ \E n, m \in Nodes : Close(n) /\ p = peers[n][m] /\ p # NoEnd
<1> DEFINE P ==
         /\ answered \subseteq answered' /\ contested \subseteq contested'
         /\ stopped \subseteq stopped' /\ ready \subseteq ready'
         /\ \A k \in answered' : k \in answered \/ (k \in Sent /\ HandleOffer(k))
         /\ \A p \in ready' : p \in ready \/ (p \in Ends /\ applied[p[1]] = p[1] /\ UNCHANGED applied)
         /\ applied' \in [Attempts -> Attempts \cup {None}]
         /\ \A k \in Attempts : applied'[k] = applied[k] \/ (SignalAnswers(k) /\ applied'[k] \in answered)
         /\ \A p \in closed' :
              \/ p \in closed
              \/ \E k \in Used : p = Offering(k) /\ (NotMade(k) \/ SignalFails(k))
              \/ \E n, m \in Nodes : Close(n) /\ p = peers[n][m] /\ p # NoEnd
<1>0. applied \in [Attempts -> Attempts \cup {None}] /\ answered \subseteq Attempts
  BY DEF TypeOK
<1>1. ASSUME UNCHANGED vars PROVE P
  BY <1>0, <1>1 DEF vars
<1>2. ASSUME NEW n \in Nodes, NEW m \in Nodes, Connect(n, m) PROVE P
  BY <1>0, <1>2 DEF Connect
<1>3. ASSUME NEW k \in Attempts, NotMade(k) PROVE P
  BY <1>0, <1>3 DEF NotMade
<1>4. ASSUME NEW k \in Attempts, Publish(k) PROVE P
  BY <1>0, <1>4 DEF Publish
<1>5. ASSUME NEW k \in Attempts, HandleOffer(k) PROVE P
  BY <1>0, <1>5 DEF HandleOffer
<1>6. ASSUME NEW k \in Attempts, SignalFails(k) PROVE P
  BY <1>0, <1>6 DEF SignalFails
<1>7. ASSUME NEW k \in Attempts, SignalAnswers(k) PROVE P
  <2>1. PICK j \in answered : applied' = [applied EXCEPT ![k] = j]
    BY <1>7 DEF SignalAnswers
  <2>2. /\ applied' \in [Attempts -> Attempts \cup {None}] /\ applied'[k] = j
        /\ \A i \in Attempts \ {k} : applied'[i] = applied[i]
    BY <1>0, <2>1
  <2>3. UNCHANGED <<answered, ready, closed, stopped, contested>>
    BY <1>7 DEF SignalAnswers
  <2> QED
    BY <1>7, <2>2, <2>3
<1>8. ASSUME NEW p \in Ends, ChannelOpens(p) PROVE P
  BY <1>0, <1>8 DEF ChannelOpens
<1>9. ASSUME NEW k \in Attempts, ConnectReturns(k) \/ ConnectTimesOut(k) PROVE P
  BY <1>0, <1>9 DEF ConnectReturns, ConnectTimesOut
<1>10. ASSUME NEW n \in Nodes, Close(n) PROVE P
  BY <1>0, <1>10 DEF Close
<1> HIDE DEF P
<1>11. P
  BY <1>1, <1>2, <1>3, <1>4, <1>5, <1>6, <1>7, <1>8, <1>9, <1>10 DEF Next
<1> QED
  BY <1>11 DEF P

-----------------------------------------------------------------------------

LEMMA TypePreserved ==
  ASSUME TypeOK, Domains, NoHoles, Lifecycle, [Next]_vars
  PROVE  TypeOK' /\ Domains'
<1>1. answered' \subseteq Attempts
  BY StepOthers, AttemptType DEF TypeOK, Sent
<1>2. ready' \subseteq Ends
  BY StepOthers DEF TypeOK
<1>3. closed' \subseteq Ends
  <2>1. \A k \in Used : Offering(k) \in Ends
    BY AttemptType, EndType
  <2>2. \A n, m \in Nodes : peers[n][m] # NoEnd => peers[n][m] \in Ends
    BY DEF Domains
  <2> QED
    BY <2>1, <2>2, StepOthers DEF TypeOK
<1>4. stopped' \subseteq Nodes
  BY DEF TypeOK, Next, vars, Connect, NotMade, Publish, HandleOffer, SignalFails, SignalAnswers,
     ChannelOpens, ConnectReturns, ConnectTimesOut, Close
<1>5. contested' \subseteq SUBSET Nodes
  <2>1. \A k \in Used : Pair(k) \subseteq Nodes
    BY AttemptType DEF Pair
  <2>2. ASSUME NEW n \in Nodes, NEW m \in Nodes, Connect(n, m) PROVE contested' \subseteq SUBSET Nodes
    BY <2>2 DEF TypeOK, Connect
  <2>3. ASSUME NEW k \in Attempts, HandleOffer(k) PROVE contested' \subseteq SUBSET Nodes
    <3>1. Pair(k) \subseteq Nodes
      BY <2>1, <2>3 DEF HandleOffer, Sent
    <3> QED
      BY <2>3, <3>1 DEF TypeOK, HandleOffer
  <2>4. ASSUME \A n, m \in Nodes : ~Connect(n, m), \A k \in Attempts : ~HandleOffer(k)
        PROVE  UNCHANGED contested
    BY <2>4 DEF Next, vars, NotMade, Publish, SignalFails, SignalAnswers, ChannelOpens, ConnectReturns,
       ConnectTimesOut, Close
  <2> QED
    BY <2>2, <2>3, <2>4 DEF TypeOK
<1>6. \A n, m \in Nodes : peers'[n][m] = NoEnd \/ peers'[n][m] \in Ends
  BY StepEntries
<1>7. \A k \in Used' : attempt'[k].from # attempt'[k].to
  <2>1. CASE \E n, m \in Nodes, k \in Attempts : Begins(k, n, m)
    BY <2>1, StepKeeps DEF Begins, Domains
  <2>2. CASE Used' = Used
    BY <2>2, StepKeeps DEF Domains
  <2>3. UNCHANGED attempt => Used' = Used
    BY DEF Used
  <2> QED
    BY <2>1, <2>2, <2>3, StepAttempts DEF Moves, MovesTo
<1>8. attempt' \in [Attempts -> [st : States, from : Nodes, to : Nodes] \cup {Unused}]
  BY StepAttempts DEF AttemptRecords
<1> QED
  BY <1>1, <1>2, <1>3, <1>4, <1>5, <1>6, <1>7, <1>8, StepOthers, StepEntries DEF TypeOK, Domains

LEMMA FailedStays ==
  ASSUME TypeOK, NoHoles, [Next]_vars, NEW k \in Used, attempt[k].st = "failed"
  PROVE  attempt'[k] = attempt[k]
<1>1. \A j, st : MovesTo(j, st) => j = k \/ attempt'[k] = attempt[k]
  BY DEF MovesTo
<1> QED
  BY <1>1, StepAttempts DEF Moves, NotMade, Publish, SignalFails, SignalAnswers, ConnectReturns,
     ConnectTimesOut

LEMMA LifecyclePreserved ==
  ASSUME TypeOK, Domains, NoHoles, EntriesBelong, Lifecycle, [Next]_vars
  PROVE  Lifecycle'
<1>1. ASSUME NEW p \in closed'
      PROVE  /\ p[1] \in Used'
             /\ p[2] = "offer" => attempt'[p[1]].st # "gather"
             /\ p[2] = "answer" => p[1] \in answered'
  <2>1. CASE p \in closed
    BY <2>1, StepKeeps, StepOthers DEF Lifecycle
  <2>2. ASSUME NEW k \in Used, p = Offering(k), NotMade(k) \/ SignalFails(k)
        PROVE  /\ p[1] \in Used' /\ p[2] = "offer" /\ attempt'[p[1]].st # "gather"
    <3>1. p[1] = k /\ p[2] = "offer" /\ k \in Used'
      BY <2>2, EndType, AttemptType, StepKeeps
    <3>2. attempt'[k].st # "gather"
      <4>1. {"not made", "failed"} \subseteq States
        BY DEF States
      <4>2. MovesTo(k, "not made") \/ MovesTo(k, "failed")
        BY <2>2, <4>1, BecomesSteps DEF NotMade, SignalFails
      <4> QED
        BY <4>2 DEF MovesTo
    <3> QED
      BY <3>1, <3>2
  <2>3. ASSUME NEW n \in Nodes, NEW m \in Nodes, Close(n), p = peers[n][m], p # NoEnd
        PROVE  /\ p[1] \in Used'
               /\ p[2] = "offer" => attempt'[p[1]].st # "gather"
               /\ p[2] = "answer" => p[1] \in answered'
    <3>1. p \in Ends
      BY <2>3 DEF Domains
    <3>2. UNCHANGED <<attempt, answered>>
      BY <2>3 DEF Close
    <3> QED
      BY <2>3, <3>1, <3>2 DEF EntriesBelong, Shown, Answered, Used
  <2> QED
    BY <2>1, <2>2, <2>3, StepOthers
<1>2. answered' \subseteq Sent'
  <2> SUFFICES ASSUME NEW k \in answered' PROVE k \in Sent'
    OBVIOUS
  <2>1. k \in Sent
    BY StepOthers DEF Lifecycle
  <2>2. /\ k \in Used' /\ attempt[k].st \in Shown \cup {"failed"}
    BY <2>1, StepKeeps, AttemptType DEF Sent, AttemptRecords, States, Shown, Answered
  <2>3. attempt'[k].st \notin {"gather", "not made"}
    <3>1. CASE attempt[k].st = "failed"
      <4>1. attempt'[k] = attempt[k]
        BY <3>1, <2>1, FailedStays DEF Sent
      <4> QED
        BY <3>1, <4>1
    <3>2. CASE SignalFails(k)
      <4>1. "failed" \in States
        BY DEF States
      <4> QED
        BY <2>1, <3>2, <4>1, BecomesSteps DEF SignalFails, Sent, MovesTo
    <3> QED
      BY <2>1, <2>2, <3>1, <3>2, StepKeeps DEF Sent, Shown, Answered
  <2> QED
    BY <2>2, <2>3 DEF Sent
<1>3. ASSUME NEW k \in Attempts, applied'[k] # None
      PROVE  k \in Used' /\ attempt'[k].st \in Answered /\ applied'[k] \in answered'
  <2>1. CASE applied'[k] = applied[k]
    BY <1>3, <2>1, StepKeeps, StepOthers DEF Lifecycle
  <2>2. CASE SignalAnswers(k) /\ applied'[k] \in answered
    <3>1. "open" \in States
      BY DEF States
    <3>2. k \in Used /\ MovesTo(k, "open")
      BY <2>2, <3>1, BecomesSteps DEF SignalAnswers
    <3>3. k \in Used' /\ attempt'[k].st = "open"
      BY <3>2 DEF MovesTo
    <3> QED
      BY <2>2, <3>3, StepOthers DEF Answered
  <2> QED
    BY <2>1, <2>2, StepOthers
<1>4. ASSUME NEW p \in ready' PROVE applied'[p[1]] = p[1]
  <2>1. CASE p \in ready
    <3>1. applied[p[1]] = p[1] /\ p[1] \in Attempts /\ p[1] # None
      BY <2>1, EndType, AttemptType DEF Lifecycle, TypeOK
    <3>2. ~SignalAnswers(p[1])
      BY <3>1 DEF Lifecycle, SignalAnswers, Answered
    <3> QED
      BY <3>1, <3>2, StepOthers
  <2> QED
    BY <2>1, StepOthers
<1>5. ASSUME NEW k \in Used', attempt'[k].st = "ok" PROVE Offering(k) \in ready'
  <2>1. CASE k \in Used /\ attempt[k].st = "ok"
    BY <2>1, StepOthers DEF Lifecycle
  <2>2. ASSUME ConnectReturns(k) PROVE Offering(k) \in ready'
    BY <2>2 DEF ConnectReturns
  <2>3. \A j, n, m : Begins(j, n, m) => k \in Used \/ (k = j /\ attempt'[k].st = "gather")
    BY DEF Begins
  <2>4. \A j, st : MovesTo(j, st) => k \in Used /\ (k = j \/ attempt'[k] = attempt[k])
    BY DEF MovesTo
  <2>5. UNCHANGED attempt => k \in Used /\ attempt'[k] = attempt[k]
    BY DEF Used
  <2> QED
    BY <1>5, <2>1, <2>2, <2>3, <2>4, <2>5, StepAttempts DEF Moves, MovesTo
<1> QED
  BY <1>1, <1>2, <1>3, <1>4, <1>5 DEF Lifecycle

LEMMA EntriesBelongPreserved ==
  ASSUME TypeOK, Domains, NoHoles, Lifecycle, EntriesBelong, [Next]_vars
  PROVE  EntriesBelong'
<1> SUFFICES ASSUME NEW n \in Nodes, NEW m \in Nodes, peers'[n][m] \in Ends
             PROVE  \E p \in Ends :
                      /\ peers'[n][m] = p
                      /\ p[1] \in Used' /\ n = HolderOf(p)' /\ m = RemoteOf(p)' /\ p \notin closed'
                      /\ p[2] = "offer" => attempt'[p[1]].st \in Shown
                      /\ p[2] = "answer" => p[1] \in answered'
  BY DEF EntriesBelong, HolderOf, RemoteOf
<1>1. \A p \in Ends : p[1] \in Used => HolderOf(p)' = HolderOf(p) /\ RemoteOf(p)' = RemoteOf(p)
  BY StepKeeps DEF HolderOf, RemoteOf
<1>2. CASE peers'[n][m] = peers[n][m]
  <2>1. PICK p \in Ends : peers[n][m] = p
    BY <1>2
  <2>2. /\ p[1] \in Used /\ n = HolderOf(p) /\ m = RemoteOf(p) /\ p \notin closed
        /\ p[2] = "offer" => attempt[p[1]].st \in Shown
        /\ p[2] = "answer" => p[1] \in answered
    BY <2>1 DEF EntriesBelong
  <2>3. p[1] \in Attempts /\ NoEnd \notin Ends
    BY EndType
\* The end in the map is not one that the step closes: Close would have taken
\* it out of the map, and so would the failure of its own attempt.
  <2>4. \A i, j \in Nodes : (Close(i) /\ p = peers[i][j]) => FALSE
    <3> SUFFICES ASSUME NEW i \in Nodes, NEW j \in Nodes, Close(i), p = peers[i][j] PROVE FALSE
      OBVIOUS
    <3>1. i = n
      BY <2>2 DEF EntriesBelong
    <3>2. peers'[n][m] = NoEnd
      BY <3>1 DEF Close, Domains
    <3> QED
      BY <3>2, EndType
  <2>5. \A k \in Used : (p = Offering(k) /\ SignalFails(k)) => FALSE
    <3> SUFFICES ASSUME NEW k \in Used, p = Offering(k), SignalFails(k) PROVE FALSE
      OBVIOUS
    <3>1. n = attempt[k].from /\ m = attempt[k].to
      BY <2>2, HolderAndRemote, AttemptType
    <3>2. peers'[n][m] = NoEnd
      BY <3>1, HolderAndRemote, AttemptType DEF SignalFails, Removed, Domains
    <3> QED
      BY <3>2, EndType
  <2>6. \A k \in Used : (p = Offering(k) /\ NotMade(k)) => FALSE
    <3> SUFFICES ASSUME NEW k \in Used, p = Offering(k), NotMade(k) PROVE FALSE
      OBVIOUS
    <3>1. p[1] = k /\ p[2] = "offer"
      BY EndType, AttemptType
    <3> QED
      BY <2>2, <3>1 DEF NotMade, Shown, Answered
  <2>7. p \notin closed'
    BY <2>2, <2>4, <2>5, <2>6, StepOthers
  <2>8. p[2] = "offer" => attempt'[p[1]].st \in Shown
    <3> SUFFICES ASSUME p[2] = "offer" PROVE attempt'[p[1]].st \in Shown
      OBVIOUS
    <3>1. p = Offering(p[1])
      BY EndType
    <3> QED
      BY <2>2, <2>5, <3>1, StepKeeps
  <2> QED
    BY <1>1, <1>2, <2>1, <2>2, <2>7, <2>8, StepKeeps, StepOthers
<1>3. ASSUME NEW k \in Used, n = attempt[k].from, m = attempt[k].to, Publish(k), peers'[n][m] = Offering(k)
      PROVE  \E p \in {Offering(k)} :
               /\ p[1] \in Used' /\ n = HolderOf(p)' /\ m = RemoteOf(p)' /\ p \notin closed'
               /\ p[2] = "offer" /\ attempt'[p[1]].st \in Shown
  <2>1. /\ k \in Attempts /\ Offering(k) \in Ends /\ Offering(k)[1] = k /\ Offering(k)[2] = "offer"
    BY AttemptType, EndType
  <2>2. n = HolderOf(Offering(k))' /\ m = RemoteOf(Offering(k))' /\ k \in Used'
    BY <1>1, <1>3, <2>1, HolderAndRemote, StepKeeps
  <2>3. Offering(k) \notin closed'
    BY <1>3, <2>1 DEF Publish, Lifecycle
  <2>4. attempt'[k].st \in Shown
    <3>1. "signal" \in States
      BY DEF States
    <3> QED
      BY <1>3, <3>1, BecomesSteps DEF Publish, MovesTo, Shown
  <2> QED
    BY <2>1, <2>2, <2>3, <2>4
<1>4. ASSUME NEW k \in Used, m = attempt[k].from, n = attempt[k].to, HandleOffer(k), peers'[n][m] = Answering(k)
      PROVE  \E p \in {Answering(k)} :
               /\ p[1] \in Used' /\ n = HolderOf(p)' /\ m = RemoteOf(p)' /\ p \notin closed'
               /\ p[2] = "answer" /\ p[1] \in answered'
  <2>1. /\ k \in Attempts /\ Answering(k) \in Ends /\ Answering(k)[1] = k /\ Answering(k)[2] = "answer"
    BY AttemptType, EndType
  <2>2. n = HolderOf(Answering(k))' /\ m = RemoteOf(Answering(k))' /\ k \in Used'
    BY <1>1, <1>4, <2>1, HolderAndRemote, StepKeeps
  <2>3. Answering(k) \notin closed' /\ k \in answered'
    BY <1>4, <2>1 DEF HandleOffer, Lifecycle
  <2> QED
    BY <2>1, <2>2, <2>3
<1>5. peers'[n][m] # NoEnd
  BY EndType
<1>6. CASE \E k \in Used : /\ n = attempt[k].from /\ m = attempt[k].to
                           /\ Publish(k) /\ peers'[n][m] = Offering(k)
  BY <1>3, <1>6, EndType
<1>7. CASE \E k \in Used : /\ m = attempt[k].from /\ n = attempt[k].to
                           /\ HandleOffer(k) /\ peers'[n][m] = Answering(k)
  BY <1>4, <1>7, EndType
<1> QED
  BY <1>2, <1>5, <1>6, <1>7, StepEntries

LEMMA EntriesKeptPreserved ==
  ASSUME TypeOK, Domains, NoHoles, Lifecycle, EntriesKept, [Next]_vars
  PROVE  EntriesKept'
<1> SUFFICES ASSUME stopped' = {}, \A k \in Used' : attempt'[k].st # "failed"
             PROVE  /\ \A k \in Sent' : peers'[attempt'[k].from][attempt'[k].to] # NoEnd
                    /\ \A k \in answered' : peers'[attempt'[k].to][attempt'[k].from] # NoEnd
  BY DEF EntriesKept
<1>1. \A k \in Attempts : ~SignalFails(k)
  <2>1. "failed" \in States
    BY DEF States
  <2> QED
    BY <2>1, BecomesSteps, StepKeeps DEF SignalFails, MovesTo
<1>2. \A n \in Nodes : ~Close(n)
  BY DEF Close
<1>3. stopped = {} /\ \A k \in Used : attempt[k].st # "failed"
  <2>1. ASSUME NEW k \in Used, attempt[k].st = "failed" PROVE FALSE
    <3>1. attempt'[k] = attempt[k]
      BY <2>1, FailedStays
    <3> QED
      BY <2>1, <3>1, StepKeeps
  <2> QED
    BY <2>1, StepOthers
<1>4. \A n, m \in Nodes : peers[n][m] # NoEnd => peers'[n][m] # NoEnd
  <2>1. \A k \in Used : Offering(k) # NoEnd /\ Answering(k) # NoEnd /\ ~SignalFails(k)
    BY <1>1, AttemptType, EndType
  <2> SUFFICES ASSUME NEW n \in Nodes, NEW m \in Nodes, peers[n][m] # NoEnd
               PROVE  peers'[n][m] # NoEnd
    OBVIOUS
  <2>2. \/ peers'[n][m] = peers[n][m]
        \/ \E k \in Used : peers'[n][m] \in {Offering(k), Answering(k)}
    BY <1>2, <2>1, StepEntries
  <2> QED
    BY <2>1, <2>2
<1>5. ASSUME NEW k \in Sent' PROVE peers'[attempt'[k].from][attempt'[k].to] # NoEnd
  <2>1. CASE k \in Sent
    <3>1. k \in Used
      BY <2>1 DEF Sent
    <3> QED
      BY <1>3, <1>4, <2>1, <3>1, StepKeeps, AttemptType DEF EntriesKept
  <2>2. CASE k \notin Sent
    <3>1. Publish(k) /\ k \in Used
      <4>1. \A j, n, m : Begins(j, n, m) => k \in Used \/ (k = j /\ attempt'[k].st = "gather")
        BY <1>5 DEF Begins, Sent
      <4>2. \A j, st : MovesTo(j, st) => k \in Used /\ (k = j \/ attempt'[k] = attempt[k])
        BY <1>5 DEF MovesTo, Sent
      <4>3. UNCHANGED attempt => k \in Used /\ attempt'[k] = attempt[k]
        BY <1>5 DEF Used, Sent
      <4> QED
        BY <1>5, <2>2, <4>1, <4>2, <4>3, StepAttempts DEF Moves, MovesTo, Sent, SignalFails,
           SignalAnswers, ConnectReturns, ConnectTimesOut
    <3>2. peers'[attempt[k].from][attempt[k].to] = Offering(k)
      BY <3>1, HolderAndRemote, AttemptType DEF Publish, Entered, Domains
    <3>3. Offering(k) # NoEnd
      BY <3>1, EndType, AttemptType
    <3> QED
      BY <3>1, <3>2, <3>3, StepKeeps
  <2> QED
    BY <2>1, <2>2
<1>6. ASSUME NEW k \in answered' PROVE peers'[attempt'[k].to][attempt'[k].from] # NoEnd
  <2>1. k \in Used
    BY StepOthers DEF Lifecycle, Sent
  <2>2. CASE k \in answered
    BY <1>3, <1>4, <2>1, <2>2, StepKeeps, AttemptType DEF EntriesKept
  <2>3. CASE HandleOffer(k)
    <3>1. peers'[attempt[k].to][attempt[k].from] = Answering(k)
      BY <2>1, <2>3, HolderAndRemote, AttemptType DEF HandleOffer, EnteredByOffer, Entered, Domains
    <3>2. Answering(k) # NoEnd
      BY <2>1, EndType, AttemptType
    <3> QED
      BY <2>1, <3>1, <3>2, StepKeeps
  <2> QED
    BY <2>2, <2>3, StepOthers
<1> QED
  BY <1>5, <1>6

-----------------------------------------------------------------------------

\* An attempt that is new is one that begins.
LEMMA NewBegins ==
  ASSUME TypeOK, NoHoles, [Next]_vars, NEW k \in Used', k \notin Used
  PROVE  \E n, m \in Nodes : Begins(k, n, m)
<1>1. \A j, st : MovesTo(j, st) => k \in Used
  BY DEF MovesTo
<1>2. UNCHANGED attempt => k \in Used
  BY DEF Used
<1>3. \A j, n, m : Begins(j, n, m) => j = k
  BY DEF Begins
<1> QED
  BY <1>1, <1>2, <1>3, StepAttempts DEF Moves

\* Steps of an attempt that is in progress.
LEMMA WritersInProgress ==
  ASSUME TypeOK, Lifecycle, NEW j \in Used
  PROVE  /\ Publish(j) => j \in InProgress /\ attempt[j].st = "gather" /\ j \notin answered
         /\ SignalFails(j) => j \in InProgress /\ attempt[j].st = "signal"
         /\ HandleOffer(j) => j \notin answered /\ (j \in InProgress \/ Pair(j) \in contested')
BY DEF Publish, SignalFails, HandleOffer, InProgress, Lifecycle, Sent

\* An entry of attempt k stays while k has the maps to itself, whatever the step
\* is, unless k itself writes it.
LEMMA OfferStays ==
  ASSUME TypeOK, Domains, NoHoles, Lifecycle, [Next]_vars,
         NEW k \in Used, OfferEntered(k), Pair(k) \notin contested', ~SignalFails(k),
         \A j \in InProgress : Pair(j) = Pair(k) => j = k,
         attempt[k].st # "gather"
  PROVE  OfferEntered(k)'
<1> DEFINE n == attempt[k].from
           m == attempt[k].to
<1>1. /\ k \in Attempts /\ n \in Nodes /\ m \in Nodes /\ n # m
      /\ attempt'[k].from = n /\ attempt'[k].to = m
  BY AttemptType, StepKeeps DEF Domains
<1>2. SUFFICES ASSUME n \notin stopped' PROVE peers'[n][m] = Offering(k)
  BY <1>1 DEF OfferEntered
<1>3. peers[n][m] = Offering(k)
  BY <1>2, StepOthers DEF OfferEntered
<1>4. ~Close(n)
  BY <1>2 DEF Close
<1>5. ASSUME NEW j \in Used, n = attempt[j].from, m = attempt[j].to, Publish(j) \/ SignalFails(j)
      PROVE  FALSE
  <2>1. Pair(j) = Pair(k)
    BY <1>5 DEF Pair
  <2>2. j = k
    BY <1>5, <2>1, WritersInProgress
  <2> QED
    BY <1>5, <2>2, WritersInProgress
<1>6. ASSUME NEW j \in Used, m = attempt[j].from, n = attempt[j].to, HandleOffer(j)
      PROVE  FALSE
  <2>1. Pair(j) = Pair(k)
    BY <1>6 DEF Pair
  <2>2. j = k
    BY <1>6, <2>1, WritersInProgress
  <2> QED
    BY <1>1, <1>6, <2>2
<1> HIDE DEF n, m
<1> QED
  BY <1>1, <1>3, <1>4, <1>5, <1>6, StepEntries

LEMMA AnswerStays ==
  ASSUME TypeOK, Domains, NoHoles, Lifecycle, [Next]_vars,
         NEW k \in Used, AnswerEntered(k), Pair(k) \notin contested', k \in answered,
         \A j \in InProgress : Pair(j) = Pair(k) => j = k
  PROVE  AnswerEntered(k)'
<1> DEFINE n == attempt[k].to
           m == attempt[k].from
<1>1. /\ k \in Attempts /\ n \in Nodes /\ m \in Nodes /\ n # m
      /\ attempt'[k].to = n /\ attempt'[k].from = m
  BY AttemptType, StepKeeps DEF Domains
<1>2. SUFFICES ASSUME n \notin stopped' PROVE peers'[n][m] = Answering(k)
  BY <1>1 DEF AnswerEntered
<1>3. peers[n][m] = Answering(k)
  BY <1>2, StepOthers DEF AnswerEntered
<1>4. ~Close(n)
  BY <1>2 DEF Close
<1>5. ASSUME NEW j \in Used, n = attempt[j].from, m = attempt[j].to, Publish(j) \/ SignalFails(j)
      PROVE  FALSE
  <2>1. Pair(j) = Pair(k)
    BY <1>5 DEF Pair
  <2>2. j = k
    BY <1>5, <2>1, WritersInProgress
  <2> QED
    BY <1>1, <1>5, <2>2
<1>6. ASSUME NEW j \in Used, m = attempt[j].from, n = attempt[j].to, HandleOffer(j)
      PROVE  FALSE
  <2>1. Pair(j) = Pair(k)
    BY <1>6 DEF Pair
  <2>2. j = k
    BY <1>6, <2>1, WritersInProgress
  <2> QED
    BY <1>6, <2>2, WritersInProgress
<1> HIDE DEF n, m
<1> QED
  BY <1>1, <1>3, <1>4, <1>5, <1>6, StepEntries

\* An attempt that begins in a contested pair, or alone.
LEMMA BeginsAlone ==
  ASSUME TypeOK, Domains, NoHoles, [Next]_vars, NEW k \in Used, k \in InProgress,
         NEW j \in InProgress', j \notin Used, (Pair(j) = Pair(k))'
  PROVE  Pair(k) \in contested'
<1>1. j \in Used'
  BY DEF InProgress
<1>2. PICK n \in Nodes, m \in Nodes : Begins(j, n, m)
  BY <1>1, NewBegins
<1>3. Pair(k) = {n, m}
  BY <1>2, StepKeeps DEF Pair, Begins
<1> QED
  BY <1>2, <1>3 DEF Begins

\* The other attempts of the pair are no more than they were.
LEMMA StaysAlone ==
  ASSUME TypeOK, Domains, NoHoles, [Next]_vars, NEW k \in Used,
         \A j \in InProgress : Pair(j) = Pair(k) => j = k,
         NEW j \in InProgress', j \in Used, (Pair(j) = Pair(k))'
  PROVE  j = k
BY StepKeeps

LEMMA OneAtATimePreserved ==
  ASSUME TypeOK, Domains, NoHoles, Lifecycle, OneAtATime, [Next]_vars
  PROVE  OneAtATime'
<1> SUFFICES ASSUME NEW k \in InProgress', Pair(k)' \notin contested'
             PROVE  /\ \A j \in InProgress' : (Pair(j) = Pair(k))' => j = k
                    /\ attempt'[k].st # "gather" => OfferEntered(k)'
                    /\ k \in answered' => AnswerEntered(k)'
  BY DEF OneAtATime
<1>1. CASE k \in Used
  <2>1. /\ k \in InProgress /\ Pair(k)' = Pair(k) /\ Pair(k) \notin contested /\ Pair(k) \notin contested'
        /\ k \in Attempts /\ attempt'[k].from = attempt[k].from /\ attempt'[k].to = attempt[k].to
    BY <1>1, StepKeeps, StepOthers, AttemptType
  <2>2. /\ \A j \in InProgress : Pair(j) = Pair(k) => j = k
        /\ attempt[k].st # "gather" => OfferEntered(k)
        /\ k \in answered => AnswerEntered(k)
    BY <2>1 DEF OneAtATime
  <2>3. ASSUME NEW j \in InProgress', (Pair(j) = Pair(k))' PROVE j = k
    <3>1. CASE j \in Used
      BY <1>1, <2>2, <2>3, <3>1, StaysAlone
    <3>2. CASE j \notin Used
      BY <1>1, <2>1, <2>3, <3>2, BeginsAlone
    <3> QED
      BY <3>1, <3>2
  <2>4. ~SignalFails(k)
    <3>1. "failed" \in States
      BY DEF States
    <3>2. SignalFails(k) => attempt'[k].st = "failed"
      BY <1>1, <3>1, BecomesSteps DEF SignalFails, MovesTo
    <3> QED
      BY <3>2 DEF InProgress
  <2>5. ASSUME attempt'[k].st # "gather" PROVE OfferEntered(k)'
    <3>1. CASE attempt[k].st # "gather"
      BY <1>1, <2>1, <2>2, <2>4, <3>1, OfferStays
    <3>2. CASE attempt[k].st = "gather"
      <4>1. Publish(k)
        <5>1. \A j, st : MovesTo(j, st) => j = k \/ attempt'[k] = attempt[k]
          BY <1>1 DEF MovesTo
        <5>2. \A j, n, m : Begins(j, n, m) => j # k
          BY <1>1 DEF Begins
        <5>3. ~(NotMade(k) /\ MovesTo(k, "not made"))
          BY DEF MovesTo, InProgress
        <5> QED
          BY <1>1, <2>5, <3>2, <5>1, <5>2, <5>3, StepAttempts DEF Moves, NotMade, SignalFails,
             SignalAnswers, ConnectReturns, ConnectTimesOut
      <4>2. peers'[attempt[k].from][attempt[k].to] = Offering(k)
        BY <1>1, <4>1, HolderAndRemote, AttemptType DEF Publish, Entered, Domains
      <4> QED
        BY <2>1, <4>2 DEF OfferEntered
    <3> QED
      BY <3>1, <3>2
  <2>6. ASSUME k \in answered' PROVE AnswerEntered(k)'
    <3>1. CASE k \in answered
      BY <1>1, <2>1, <2>2, <3>1, AnswerStays
    <3>2. CASE HandleOffer(k)
      <4>1. peers'[attempt[k].to][attempt[k].from] = Answering(k)
        BY <1>1, <3>2, HolderAndRemote, AttemptType DEF HandleOffer, EnteredByOffer, Entered, Domains
      <4> QED
        BY <2>1, <4>1 DEF AnswerEntered
    <3> QED
      BY <2>6, <3>1, <3>2, StepOthers
  <2> QED
    BY <2>3, <2>5, <2>6
<1>2. CASE k \notin Used
  <2>1. k \in Used'
    BY DEF InProgress
  <2>2. PICK n \in Nodes, m \in Nodes : Begins(k, n, m)
    BY <1>2, <2>1, NewBegins
  <2>3. attempt'[k].st = "gather" /\ Pair(k)' = {n, m}
    BY <2>2 DEF Begins, Pair
  <2>4. k \notin answered'
    BY <1>2, StepOthers DEF Lifecycle, Sent
  <2>5. ASSUME NEW j \in InProgress', (Pair(j) = Pair(k))', j # k PROVE FALSE
    <3>1. j \in Used
      BY <2>2, <2>5 DEF Begins, InProgress
    <3>2. j \in InProgress /\ Pair(j) = {n, m}
      BY <2>3, <2>5, <3>1, StepKeeps
    <3> QED
      BY <2>2, <2>3, <3>2 DEF Begins
  <2> QED
    BY <2>3, <2>4, <2>5
<1> QED
  BY <1>1, <1>2

LEMMA ConnectedPreserved ==
  ASSUME TypeOK, Domains, NoHoles, Lifecycle, OneAtATime, Connected, [Next]_vars
  PROVE  Connected'
<1> SUFFICES ASSUME NEW k \in Used', applied'[k] = k, Pair(k)' \notin contested'
             PROVE  /\ OfferEntered(k)' /\ AnswerEntered(k)'
                    /\ \A j \in InProgress' : (Pair(j) = Pair(k))' => j = k
  BY DEF Connected
<1>1. k \in Used
  <2>1. applied'[k] # None /\ k \in Attempts
    BY StepAttempts, AttemptBound DEF Used, Attempts, None
  <2> QED
    BY <2>1, StepOthers DEF Lifecycle, SignalAnswers
<1>2. /\ k \in Attempts /\ k # None /\ Pair(k)' = Pair(k)
      /\ Pair(k) \notin contested /\ Pair(k) \notin contested'
  BY <1>1, AttemptType, StepKeeps, StepOthers
<1>3. /\ OfferEntered(k) /\ AnswerEntered(k) /\ k \in answered
      /\ attempt[k].st # "gather" /\ ~SignalFails(k)
      /\ \A j \in InProgress : Pair(j) = Pair(k) => j = k
  <2>1. CASE applied[k] = k
    BY <1>1, <1>2, <2>1 DEF Connected, Lifecycle, Answered, SignalFails
\* The step gives attempt k its own answer: k has been alone until now.
  <2>2. CASE SignalAnswers(k) /\ applied'[k] \in answered
    <3>1. k \in InProgress /\ attempt[k].st = "signal" /\ k \in answered
      BY <2>2 DEF SignalAnswers, InProgress
    <3>2. ~SignalFails(k)
      <4>1. {"open", "failed"} \subseteq States
        BY DEF States
      <4> QED
        BY <1>1, <2>2, <4>1, BecomesSteps DEF SignalAnswers, SignalFails, MovesTo
    <3> QED
      BY <1>2, <3>1, <3>2 DEF OneAtATime
  <2> QED
    BY <1>2, <2>1, <2>2, StepOthers
<1>4. OfferEntered(k)' /\ AnswerEntered(k)'
  BY <1>1, <1>2, <1>3, OfferStays, AnswerStays
<1>5. ASSUME NEW j \in InProgress', (Pair(j) = Pair(k))' PROVE j = k
  <2>1. CASE j \in Used
    BY <1>1, <1>3, <1>5, <2>1, StaysAlone
\* Another attempt does not begin: it would find the entry of k.
  <2>2. CASE j \notin Used
    <3>1. j \in Used'
      BY DEF InProgress
    <3>2. PICK n \in Nodes, m \in Nodes : Begins(j, n, m)
      BY <2>2, <3>1, NewBegins
    <3>3. {n, m} = {attempt[k].from, attempt[k].to} /\ n # m /\ n \notin stopped
      BY <1>2, <1>5, <3>2 DEF Begins, Pair
    <3>4. \/ n = attempt[k].from /\ m = attempt[k].to
          \/ n = attempt[k].to /\ m = attempt[k].from
      BY <3>3
    <3>5. peers[n][m] \in {Offering(k), Answering(k)}
      BY <1>3, <3>3, <3>4 DEF OfferEntered, AnswerEntered
    <3> QED
      BY <1>2, <3>2, <3>5, EndType DEF Begins
  <2> QED
    BY <2>1, <2>2
<1> QED
  BY <1>4, <1>5

-----------------------------------------------------------------------------

LEMMA InitInvariant ==
  ASSUME Init
  PROVE  IInv
<1>1. Used = {}
  BY DEF Init, Used
<1>2. TypeOK /\ Domains
  BY <1>1 DEF Init, TypeOK, Domains
<1>3. NoHoles
  <2>1. {} = 1 .. 0
    OBVIOUS
  <2> QED
    BY <1>1, <2>1 DEF NoHoles
<1>4. Lifecycle
  BY <1>1 DEF Init, Lifecycle
<1>5. EntriesBelong
  BY EndType DEF Init, EntriesBelong
<1>6. EntriesKept /\ OneAtATime /\ Connected
  BY <1>1 DEF Init, EntriesKept, Sent, OneAtATime, InProgress, Connected
<1> QED
  BY <1>2, <1>3, <1>4, <1>5, <1>6 DEF IInv

LEMMA StepInvariant ==
  ASSUME IInv, [Next]_vars
  PROVE  IInv'
BY TypePreserved, StepAttempts, LifecyclePreserved, EntriesBelongPreserved, EntriesKeptPreserved,
   OneAtATimePreserved, ConnectedPreserved DEF IInv

LEMMA InvariantHolds == Spec => []IInv
BY InitInvariant, StepInvariant, PTL DEF Spec

\* getPeer (webrtc.go:104) never finds a connection that was closed, and what it
\* finds after two nodes have both connected to each other can be used.
THEOREM MapsAreUsable == Spec => []MapInv
<1>1. IInv => NoClosedEntry
  BY EndType DEF IInv, Domains, TypeOK, EntriesBelong, NoClosedEntry
<1>2. IInv => GlareIsHarmless
  <2> SUFFICES ASSUME IInv, \A k \in Used : attempt[k].st = "ok", stopped = {}, NEW k \in Used,
                      NEW p \in {peers[attempt[k].from][attempt[k].to], peers[attempt[k].to][attempt[k].from]}
               PROVE  p # NoEnd /\ Offering(p[1]) \in ready
    BY DEF GlareIsHarmless
  <2>1. k \in Attempts /\ k # None /\ attempt[k].st = "ok" /\ Offering(k) \in ready
    BY AttemptType DEF IInv, Lifecycle
  <2>2. k \in answered /\ k \in Sent
    <3>1. applied[Offering(k)[1]] = Offering(k)[1]
      BY <2>1 DEF IInv, Lifecycle
    <3> QED
      BY <2>1, <3>1, EndType DEF IInv, Lifecycle
  <2>3. PICK n \in Nodes, m \in Nodes : p = peers[n][m] /\ p # NoEnd
    <3>1. attempt[k].from \in Nodes /\ attempt[k].to \in Nodes
      BY AttemptType DEF IInv
    <3>2. \A j \in Used : attempt[j].st # "failed"
      OBVIOUS
    <3> QED
      BY <2>2, <3>1, <3>2 DEF IInv, EntriesKept
  <2>4. p \in Ends
    BY <2>3 DEF IInv, Domains
  <2>5. p[1] \in Used
    BY <2>3, <2>4 DEF IInv, EntriesBelong
  <2> QED
    BY <2>3, <2>5 DEF IInv, Lifecycle
<1> QED
  BY <1>1, <1>2, InvariantHolds, PTL DEF IInv, MapInv

\* An end that is open was given the answer to its own offer, and unless its
\* pair is contested both nodes have its connection in their maps.
LEMMA OpenIsConnected ==
  ASSUME IInv, NEW p \in ready, {HolderOf(p), RemoteOf(p)} \notin contested
  PROVE  /\ HolderOf(p) \notin stopped => peers[HolderOf(p)][RemoteOf(p)] = p
         /\ RemoteOf(p) \notin stopped => peers[RemoteOf(p)][HolderOf(p)] = OtherEnd(p)
<1>1. /\ p \in Ends /\ p[1] \in Attempts /\ applied[p[1]] = p[1]
      /\ p = Offering(p[1]) \/ p = Answering(p[1])
  BY EndType DEF IInv, TypeOK, Lifecycle
<1>2. p[1] \in Used
  BY <1>1, AttemptType DEF IInv, Lifecycle
<1>3. Pair(p[1]) = {HolderOf(p), RemoteOf(p)}
  BY DEF Pair, HolderOf, RemoteOf
<1>4. OfferEntered(p[1]) /\ AnswerEntered(p[1])
  BY <1>1, <1>2, <1>3 DEF IInv, Connected
<1>5. CASE p = Offering(p[1])
  BY <1>1, <1>4, <1>5, HolderAndRemote DEF OfferEntered, AnswerEntered
<1>6. CASE p = Answering(p[1])
  BY <1>1, <1>4, <1>6, HolderAndRemote DEF OfferEntered, AnswerEntered
<1> QED
  BY <1>1, <1>5, <1>6

\* Two nodes that use their maps use one connection, unless attempts of theirs
\* have overlapped, or an offer came after its attempt had ended.
THEOREM EndsOfOneConnection == Spec => []EndsMatch
<1>1. IInv => EndsMatch
  <2> SUFFICES ASSUME IInv, NEW n \in Nodes \ stopped, NEW m \in Nodes \ stopped,
                      peers[n][m] \in ready, {n, m} \notin contested
               PROVE  peers[m][n] = OtherEnd(peers[n][m])
    BY DEF EndsMatch
  <2>1. PICK p \in Ends : p = peers[n][m] /\ p \in ready
    BY DEF IInv, TypeOK
  <2>2. n = HolderOf(p) /\ m = RemoteOf(p)
    BY <2>1 DEF IInv, EntriesBelong
  <2> QED
    BY <2>1, <2>2, OpenIsConnected
<1> QED
  BY <1>1, InvariantHolds, PTL

\* Nor does an open connection get out of the map before Close.
THEOREM LeaksNeedOverlap == Spec => []LeakNeedsOverlap
<1>1. IInv => LeakNeedsOverlap
  BY OpenIsConnected DEF LeakNeedsOverlap
<1> QED
  BY <1>1, InvariantHolds, PTL

\* A failure closes the connection of its own attempt only (webrtc.go:271, 282),
\* and that one has not opened.
THEOREM OnlyCloseCloses == Spec => OpenStaysOpen
<1> DEFINE Kept == \A p \in ready \ closed : p \in closed' => HolderOf(p) \in stopped' \ stopped
<1>1. ASSUME IInv, [Next]_vars PROVE Kept
  <2> SUFFICES ASSUME NEW p \in ready \ closed, p \in closed'
               PROVE  HolderOf(p) \in stopped' \ stopped
    OBVIOUS
  <2>1. p \in Ends /\ applied[p[1]] = p[1] /\ p[1] \in Attempts /\ p[1] # None
    BY <1>1, EndType, AttemptType DEF IInv, TypeOK, Lifecycle
  <2>2. ASSUME NEW k \in Used, p = Offering(k), NotMade(k) \/ SignalFails(k) PROVE FALSE
    <3>1. k = p[1]
      BY <1>1, <2>2, EndType, AttemptType DEF IInv
    <3> QED
      BY <1>1, <2>1, <2>2, <3>1 DEF IInv, Lifecycle, Answered, NotMade, SignalFails
  <2>3. ASSUME NEW n \in Nodes, NEW m \in Nodes, Close(n), p = peers[n][m]
        PROVE  HolderOf(p) \in stopped' \ stopped
    <3>1. HolderOf(p) = n
      BY <1>1, <2>1, <2>3 DEF IInv, EntriesBelong
    <3> QED
      BY <2>3, <3>1 DEF Close
  <2> QED
    BY <1>1, <2>2, <2>3, StepOthers DEF IInv
<1> HIDE DEF Kept
<1>2. Spec => [][Kept]_vars
  BY <1>1, InvariantHolds, PTL DEF Spec
<1> QED
  BY <1>2 DEF OpenStaysOpen, Kept
=============================================================================
