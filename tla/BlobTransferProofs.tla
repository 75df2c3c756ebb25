-------------------------- MODULE BlobTransferProofs --------------------------
(***************************************************************************)
(* WholeOrError, BufferInv and NoMissedSignal for every number of calls,   *)
(* every size of blobs and every threshold.  The inductive invariant says  *)
(* where the frames of a call are: those that have come, in order, then    *)
(* those in the buffer, in order and without a gap, then those that are    *)
(* still to be sent.                                                       *)
(***************************************************************************)
EXTENDS BlobTransfer, FiniteSetTheorems, SequenceTheorems, TLAPS

SenderRecords ==
  [st : Working \cup {"idle", "done", "failed"}, size : 0 .. MaxFrames, sent : 0 .. MaxFrames]

\* A sender that waits or is about to write has a frame to send; there is none
\* before its call.
SendersCount ==
  \A f \in Fetches :
    /\ sender[f].sent <= sender[f].size
    /\ sender[f].st \in {"wait", "send"} => sender[f].sent < sender[f].size
    /\ fetch[f] = "unused" => sender[f] = Idle

\* The place of a frame in its blob.
No(m) == m.part[2]

\* What is in the buffer was sent, and the last frame of a blob is marked.
BufferSent ==
  \A i \in DOMAIN buffer :
    LET m == buffer[i] IN
    /\ No(m) \in 1 .. sender[m.of].sent /\ m.part = Part(m.of, No(m))
    /\ m.last <=> No(m) = sender[m.of].size

\* Frames of one blob are in order.
BufferOrdered ==
  \A i, j \in DOMAIN buffer :
    (i < j /\ buffer[i].of = buffer[j].of) => No(buffer[i]) < No(buffer[j])

Buffered(f, k) == \E i \in DOMAIN buffer : buffer[i].of = f /\ No(buffer[i]) = k

\* A call that waits has got the first frames of its blob, and the buffer has
\* the ones that were sent after them.
GetsAll(f) ==
  /\ Len(frames[f]) <= sender[f].sent
  /\ \A i \in 1 .. Len(frames[f]) : frames[f][i] = Part(f, i)
  /\ \A k \in 1 .. Len(frames[f]) : ~Buffered(f, k)
  /\ ~broken => \A k \in 1 .. sender[f].sent : k > Len(frames[f]) => Buffered(f, k)

\* Nothing is left of a blob that was handed over.
HasAll(f) ==
  /\ result[f] = Whole(f) /\ sender[f].sent = sender[f].size
  /\ \A k \in Nat : ~Buffered(f, k)

WaitersGet ==
  \A f \in Fetches :
    fetch[f] \in {"unused", "waiting"} => IF result[f] = <<>> THEN GetsAll(f) ELSE HasAll(f)

BlobsWhole == \A f \in Fetches : fetch[f] = "blob" => result[f] # <<>> /\ result[f] = Whole(f)

\* The buffer of a broken connection is empty.
BrokenEmpty == broken => buffer = <<>>

\* A sender that has met no rival waits alone.
WaitsAlone == \A f \in InState("wait") \ rivals : InState("wait") = {f}

IInv ==
  /\ TypeOK /\ SendersCount /\ BufferSent /\ BufferOrdered /\ WaitersGet /\ BrokenEmpty
  /\ BlobsWhole /\ BufferBounded /\ WaitsAlone /\ NoMissedSignal

-----------------------------------------------------------------------------

LEMMA AppendFacts ==
  ASSUME NEW S, NEW q \in Seq(S), NEW e \in S
  PROVE  /\ Append(q, e) \in Seq(S) /\ Len(Append(q, e)) = Len(q) + 1 /\ Append(q, e) # <<>>
         /\ Len(q) \in Nat /\ DOMAIN q = 1 .. Len(q) /\ DOMAIN Append(q, e) = 1 .. Len(q) + 1
         /\ \A i \in 1 .. Len(q) : Append(q, e)[i] = q[i]
         /\ Append(q, e)[Len(q) + 1] = e
BY AppendProperties, LenProperties

LEMMA TailFacts ==
  ASSUME NEW S, NEW q \in Seq(S), q # <<>>
  PROVE  /\ Len(q) \in Nat \ {0} /\ DOMAIN q = 1 .. Len(q)
         /\ Head(q) = q[1] /\ Head(q) \in S
         /\ Tail(q) \in Seq(S) /\ Len(Tail(q)) = Len(q) - 1 /\ DOMAIN Tail(q) = 1 .. Len(q) - 1
         /\ \A i \in 1 .. Len(q) - 1 : Tail(q)[i] = q[i + 1]
BY HeadTailProperties, LenProperties, EmptySeq

\* A sequence of the first n frames is that function.
LEMMA FirstFrames ==
  ASSUME NEW f, NEW s \in Seq(Parts), NEW n \in Nat, Len(s) = n,
         \A i \in 1 .. n : s[i] = Part(f, i)
  PROVE  s = [i \in 1 .. n |-> Part(f, i)]
<1>1. DOMAIN s = 1 .. n /\ s = [i \in 1 .. n |-> s[i]]
  BY LenProperties
<1> QED
  BY <1>1

LEMMA SenderType ==
  ASSUME TypeOK
  PROVE  /\ sender \in [Fetches -> SenderRecords]
         /\ \A f \in Fetches : sender[f] \in SenderRecords
         /\ \A f \in Fetches : sender[f].size \in Nat /\ sender[f].sent \in Nat
         /\ Idle.size = 0 /\ Idle.sent = 0 /\ Idle.st = "idle"
<1>1. sender \in [Fetches -> SenderRecords] /\ \A f \in Fetches : sender[f] \in SenderRecords
  BY DEF TypeOK, SenderRecords
<1>2. \A r \in SenderRecords : r.size \in Nat /\ r.sent \in Nat
  BY BlobBounds DEF SenderRecords
<1> QED
  BY <1>1, <1>2 DEF Idle

LEMMA BufferType ==
  ASSUME TypeOK
  PROVE  /\ buffer \in Seq(FrameMsgs) /\ Len(buffer) \in Nat /\ DOMAIN buffer = 1 .. Len(buffer)
         /\ \A i \in DOMAIN buffer : buffer[i] \in FrameMsgs /\ buffer[i].of \in Fetches
<1>1. buffer \in Seq(FrameMsgs)
  BY DEF TypeOK
<1>2. Len(buffer) \in Nat /\ DOMAIN buffer = 1 .. Len(buffer) /\ \A i \in DOMAIN buffer : buffer[i] \in FrameMsgs
  BY <1>1, LenProperties, ElementOfSeq
<1> QED
  BY <1>1, <1>2 DEF FrameMsgs

-----------------------------------------------------------------------------

\* What a step may do to the goroutine that serves call f.
Stays(f) == sender'[f] = sender[f]

Starts(f) ==
  /\ sender[f] = Idle /\ fetch[f] \notin {"unused", "error"}
  /\ sender'[f].st = "check" /\ sender'[f].sent = 0
  /\ UNCHANGED <<reader, channel, rivals>>

Moves(f) ==
  /\ sender'[f].size = sender[f].size /\ sender'[f].sent = sender[f].sent
  /\ sender[f] # Idle \/ fetch[f] # "unused"
  /\ sender'[f].st \in {"wait", "send"} => sender[f].sent # sender[f].size
  /\ sender'[f] # Idle
  /\ UNCHANGED <<reader, buffer>>

Writes(f) ==
  /\ sender[f].st = "send" /\ ~broken
  /\ sender'[f].size = sender[f].size /\ sender'[f].sent = sender[f].sent + 1
  /\ sender'[f].st = "check"
  /\ buffer' = Append(buffer, [of |-> f, part |-> Part(f, sender[f].sent + 1), last |-> LastFrame(f)])
  /\ UNCHANGED <<reader, low, lowDue, broken, rivals>>

Others(f) == \A g \in Fetches \ {f} : sender'[g] = sender[g]

LEMMA SenderChanges ==
  ASSUME TypeOK, SendersCount, NEW f \in Fetches, NEW r \in SenderRecords, sender' = [sender EXCEPT ![f] = r]
  PROVE  sender' \in [Fetches -> SenderRecords] /\ sender'[f] = r /\ Others(f)
BY SenderType DEF Others

LEMMA StateChanges ==
  ASSUME TypeOK, SendersCount, NEW f \in Fetches,
         NEW st \in Working \cup {"idle", "done", "failed"}, Becomes(f, st)
  PROVE  /\ sender' \in [Fetches -> SenderRecords] /\ Others(f)
         /\ sender'[f].st = st
         /\ sender'[f].size = sender[f].size /\ sender'[f].sent = sender[f].sent
<1> DEFINE r == [sender[f] EXCEPT !.st = st]
<1>1. r \in SenderRecords /\ r.st = st /\ r.size = sender[f].size /\ r.sent = sender[f].sent
  BY SenderType DEF SenderRecords
<1>2. sender' = [sender EXCEPT ![f] = r]
  BY DEF Becomes
<1> HIDE DEF r
<1> QED
  BY <1>1, <1>2, SenderChanges

LEMMA ServeChanges ==
  ASSUME TypeOK, SendersCount, NEW f \in Fetches, Serve(f)
  PROVE  sender' \in [Fetches -> SenderRecords] /\ Others(f) /\ Starts(f)
<1>1. PICK n \in 0 .. MaxFrames : sender' = [sender EXCEPT ![f] = [st |-> "check", size |-> n, sent |-> 0]]
  BY DEF Serve
<1> DEFINE r == [st |-> "check", size |-> n, sent |-> 0]
<1>2. r \in SenderRecords /\ r.st = "check" /\ r.sent = 0
  BY BlobBounds DEF SenderRecords, Working
<1> HIDE DEF r
<1>3. sender' \in [Fetches -> SenderRecords] /\ sender'[f] = r /\ Others(f)
  BY <1>1, <1>2, SenderChanges DEF r
<1> QED
  BY <1>2, <1>3 DEF Serve, Starts

LEMMA NextStateFacts ==
  ASSUME TypeOK, SendersCount, NEW f \in Fetches
  PROVE  /\ NextState(f) \in {"done", "wait", "send"}
         /\ NextState(f) \in {"wait", "send"} => sender[f].sent < sender[f].size
         /\ NextState(f) = "wait" => Len(buffer) > Threshold
         /\ NextState(f) = "send" => Len(buffer) <= Threshold
<1>1. /\ sender[f].sent \in Nat /\ sender[f].size \in Nat /\ sender[f].sent <= sender[f].size
      /\ Len(buffer) \in Nat /\ Threshold \in Nat
  BY SenderType, BufferType, BlobBounds DEF SendersCount
<1>2. CASE sender[f].sent = sender[f].size
  BY <1>2 DEF NextState
<1>3. CASE sender[f].sent < sender[f].size /\ Len(buffer) > Threshold
  BY <1>1, <1>3 DEF NextState
<1>4. CASE sender[f].sent < sender[f].size /\ Len(buffer) <= Threshold
  BY <1>1, <1>4 DEF NextState
<1> QED
  BY <1>1, <1>2, <1>3, <1>4

LEMMA MoveChanges ==
  ASSUME TypeOK, SendersCount, NEW f \in Fetches,
         ServeFails(f) \/ Check(f) \/ Wakes(f) \/ (SendFrame(f) /\ broken)
  PROVE  sender' \in [Fetches -> SenderRecords] /\ Others(f) /\ Moves(f)
<1>1. CASE ServeFails(f)
  BY <1>1, StateChanges, SenderType DEF ServeFails, Moves, channel, Working
<1>2. CASE Check(f)
  <2>1. NextState(f) \in Working \cup {"idle", "done", "failed"} /\ NextState(f) # "idle"
    BY NextStateFacts DEF Working
  <2>2. Becomes(f, NextState(f)) /\ UNCHANGED <<reader, buffer>> /\ sender[f].st = "check"
    BY <1>2 DEF Check, channel
  <2>3. /\ sender' \in [Fetches -> SenderRecords] /\ Others(f) /\ sender'[f].st = NextState(f)
        /\ sender'[f].size = sender[f].size /\ sender'[f].sent = sender[f].sent
    BY <2>1, <2>2, StateChanges
  <2>4. NextState(f) \in {"wait", "send"} => sender[f].sent # sender[f].size
    BY NextStateFacts, SenderType
  <2> QED
    BY <2>1, <2>2, <2>3, <2>4, SenderType DEF Moves
<1>3. CASE Wakes(f)
  BY <1>3, StateChanges, SenderType DEF Wakes, Moves, Working
<1>4. CASE SendFrame(f) /\ broken
  BY <1>4, StateChanges, SenderType DEF SendFrame, Moves, Working
<1> QED
  BY <1>1, <1>2, <1>3, <1>4

LEMMA WriteChanges ==
  ASSUME TypeOK, SendersCount, NEW f \in Fetches, SendFrame(f), ~broken
  PROVE  sender' \in [Fetches -> SenderRecords] /\ Others(f) /\ Writes(f)
<1> DEFINE r == [sender[f] EXCEPT !.st = "check", !.sent = @ + 1]
<1>1. /\ sender[f].sent < sender[f].size /\ sender[f].size \in 0 .. MaxFrames
      /\ sender[f].sent + 1 \in 0 .. MaxFrames
  BY SenderType, BlobBounds DEF SendFrame, SendersCount, SenderRecords
<1>2. r \in SenderRecords /\ r.st = "check" /\ r.size = sender[f].size /\ r.sent = sender[f].sent + 1
  BY <1>1, SenderType DEF SenderRecords, Working
<1>3. sender' = [sender EXCEPT ![f] = r]
  BY DEF SendFrame
<1> HIDE DEF r
<1>4. sender' \in [Fetches -> SenderRecords] /\ sender'[f] = r /\ Others(f)
  BY <1>2, <1>3, SenderChanges
<1> QED
  BY <1>2, <1>4 DEF SendFrame, Writes

\* One of these happens to each goroutine.
LEMMA SenderStepsHold ==
  ASSUME TypeOK, SendersCount, [Next]_vars
  PROVE  /\ sender' \in [Fetches -> SenderRecords]
         /\ \A f \in Fetches : Stays(f) \/ Starts(f) \/ Moves(f) \/ Writes(f)
<1> DEFINE P == /\ sender' \in [Fetches -> SenderRecords]
                /\ \A f \in Fetches : Stays(f) \/ Starts(f) \/ Moves(f) \/ Writes(f)
<1>1. ASSUME NEW f \in Fetches, sender' \in [Fetches -> SenderRecords], Others(f),
             Starts(f) \/ Moves(f) \/ Writes(f)
      PROVE  P
  BY <1>1 DEF Others, Stays
<1>2. ASSUME UNCHANGED sender PROVE P
  BY <1>2, SenderType DEF Stays
<1> HIDE DEF P
<1>3. ASSUME NEW f \in Fetches, Serve(f) PROVE P
  BY <1>1, <1>3, ServeChanges
<1>4. ASSUME NEW f \in Fetches, ServeFails(f) \/ Check(f) \/ Wakes(f) PROVE P
  BY <1>1, <1>4, MoveChanges
<1>5. ASSUME NEW f \in Fetches, SendFrame(f) PROVE P
  BY <1>1, <1>5, MoveChanges, WriteChanges
<1>6. ASSUME NEW f \in Fetches, FetchBlob(f) \/ TakesBlob(f) \/ TakesError(f) \/ TimesOut(f)
      PROVE  UNCHANGED sender
  BY <1>6 DEF FetchBlob, TakesBlob, TakesError, TimesOut
<1>7. ASSUME Delivers \/ SignalsLow \/ Break \/ UNCHANGED vars PROVE UNCHANGED sender
  BY <1>7 DEF Delivers, SignalsLow, Break, vars
<1>8. P
  BY <1>2, <1>3, <1>4, <1>5, <1>6, <1>7 DEF Next
<1> QED
  BY <1>8 DEF P

-----------------------------------------------------------------------------

\* What a step may do to the buffer.
Appends(f) == SendFrame(f) /\ Writes(f) /\ Others(f)

LEMMA BufferStepsHold ==
  ASSUME TypeOK, SendersCount, [Next]_vars
  PROVE  \/ buffer' = buffer
         \/ \E f \in Fetches : Appends(f)
         \/ Delivers
         \/ Break
<1>1. ASSUME NEW f \in Fetches, SendFrame(f) PROVE buffer' = buffer \/ Appends(f)
  BY <1>1, WriteChanges DEF SendFrame, Appends
<1>2. ASSUME NEW f \in Fetches,
             \/ FetchBlob(f) \/ Serve(f) \/ ServeFails(f) \/ Check(f)
             \/ Wakes(f) \/ TakesBlob(f) \/ TakesError(f) \/ TimesOut(f)
      PROVE  buffer' = buffer
  BY <1>2 DEF FetchBlob, Serve, ServeFails, Check, Wakes, TakesBlob, TakesError, TimesOut, channel
<1>3. ASSUME SignalsLow \/ UNCHANGED vars PROVE buffer' = buffer
  BY <1>3 DEF SignalsLow, vars, channel
<1> QED
  BY <1>1, <1>2, <1>3 DEF Next

\* The frame that is written next.
Frame(f) == [of |-> f, part |-> Part(f, sender[f].sent + 1), last |-> LastFrame(f)]

LEMMA FrameFacts ==
  ASSUME TypeOK, SendersCount, NEW f \in Fetches, sender[f].st = "send"
  PROVE  /\ Frame(f) \in FrameMsgs /\ Frame(f).of = f
         /\ No(Frame(f)) = sender[f].sent + 1 /\ Frame(f).part = Part(f, No(Frame(f)))
         /\ Frame(f).last <=> No(Frame(f)) = sender[f].size
<1>1. /\ sender[f].sent \in Nat /\ sender[f].size \in 0 .. MaxFrames /\ sender[f].size \in Nat
      /\ sender[f].sent < sender[f].size
  BY SenderType DEF SendersCount, SenderRecords
<1>2. sender[f].sent + 1 \in 1 .. MaxFrames
  BY <1>1, BlobBounds
<1>3. LastFrame(f) \in BOOLEAN /\ (LastFrame(f) <=> sender[f].sent + 1 = sender[f].size)
  BY <1>1 DEF LastFrame
<1>4. Part(f, sender[f].sent + 1) \in Parts
  BY <1>2 DEF Parts
<1> QED
  BY <1>3, <1>4 DEF Frame, FrameMsgs, No, Part

\* The buffer after a frame was written, and after one was delivered.
LEMMA AppendedBuffer ==
  ASSUME TypeOK, SendersCount, NEW f \in Fetches, Appends(f)
  PROVE  /\ buffer' \in Seq(FrameMsgs) /\ Len(buffer') = Len(buffer) + 1
         /\ DOMAIN buffer' = 1 .. Len(buffer) + 1 /\ buffer'[Len(buffer) + 1] = Frame(f)
         /\ DOMAIN buffer = 1 .. Len(buffer) /\ Len(buffer) \in Nat
         /\ \A i \in 1 .. Len(buffer) : buffer'[i] = buffer[i]
<1>1. buffer' = Append(buffer, Frame(f)) /\ Frame(f) \in FrameMsgs
  BY FrameFacts DEF Appends, Writes, Frame
<1> QED
  BY <1>1, AppendFacts, BufferType

LEMMA DeliveredBuffer ==
  ASSUME TypeOK, Delivers
  PROVE  /\ buffer' \in Seq(FrameMsgs) /\ Len(buffer') = Len(buffer) - 1
         /\ DOMAIN buffer' = 1 .. Len(buffer) - 1
         /\ DOMAIN buffer = 1 .. Len(buffer) /\ Len(buffer) \in Nat \ {0}
         /\ \A i \in 1 .. Len(buffer) - 1 : buffer'[i] = buffer[i + 1]
         /\ Head(buffer) = buffer[1] /\ buffer[1] \in FrameMsgs
BY TailFacts, BufferType DEF Delivers

-----------------------------------------------------------------------------

\* What a step does to the calls and to what they have got.
LEMMA ReaderStepsHold ==
  ASSUME TypeOK, [Next]_vars
  PROVE  /\ Delivers \/ UNCHANGED <<frames, result>>
         /\ fetch' \in [Fetches -> {"unused", "waiting", "blob", "error", "timed out"}]
         /\ \A f \in Fetches :
              \/ fetch'[f] = fetch[f]
              \/ fetch[f] = "unused" /\ fetch'[f] \in {"waiting", "error"}
              \/ fetch[f] = "waiting" /\ fetch'[f] \in {"error", "timed out"}
              \/ fetch[f] = "waiting" /\ fetch'[f] = "blob" /\ result[f] # <<>>
<1> DEFINE P == /\ fetch' \in [Fetches -> {"unused", "waiting", "blob", "error", "timed out"}]
                /\ \A f \in Fetches :
                     \/ fetch'[f] = fetch[f]
                     \/ fetch[f] = "unused" /\ fetch'[f] \in {"waiting", "error"}
                     \/ fetch[f] = "waiting" /\ fetch'[f] \in {"error", "timed out"}
                     \/ fetch[f] = "waiting" /\ fetch'[f] = "blob" /\ result[f] # <<>>
<1>1. ASSUME NEW f \in Fetches, FetchBlob(f) PROVE P /\ UNCHANGED <<frames, result>>
  BY <1>1 DEF FetchBlob, TypeOK
<1>2. ASSUME NEW f \in Fetches, TakesBlob(f) PROVE P /\ UNCHANGED <<frames, result>>
  BY <1>2 DEF TakesBlob, TypeOK
<1>3. ASSUME NEW f \in Fetches, TakesError(f) \/ TimesOut(f) PROVE P /\ UNCHANGED <<frames, result>>
  BY <1>3 DEF TakesError, TimesOut, TypeOK
<1>4. UNCHANGED fetch => P
  BY DEF TypeOK
<1>5. ASSUME NEW f \in Fetches, Serve(f) \/ ServeFails(f) \/ Check(f) \/ Wakes(f) \/ SendFrame(f)
      PROVE  UNCHANGED reader
  BY <1>5 DEF Serve, ServeFails, Check, Wakes, SendFrame
<1>6. ASSUME SignalsLow \/ Break \/ UNCHANGED vars PROVE UNCHANGED reader
  BY <1>6 DEF SignalsLow, Break, vars
<1>7. Delivers => UNCHANGED fetch
  BY DEF Delivers
<1> HIDE DEF P
<1>8. P /\ (Delivers \/ UNCHANGED <<frames, result>>)
  BY <1>1, <1>2, <1>3, <1>4, <1>5, <1>6, <1>7 DEF Next, reader
<1> QED
  BY <1>8 DEF P

LEMMA SendersCountPreserved ==
  ASSUME TypeOK, SendersCount, [Next]_vars
  PROVE  SendersCount'
<1> SUFFICES ASSUME NEW f \in Fetches
             PROVE  /\ sender'[f].sent <= sender'[f].size
                    /\ sender'[f].st \in {"wait", "send"} => sender'[f].sent < sender'[f].size
                    /\ fetch'[f] = "unused" => sender'[f] = Idle
  BY DEF SendersCount
<1>1. /\ sender'[f].size \in Nat /\ sender'[f].sent \in Nat
      /\ sender[f].size \in Nat /\ sender[f].sent \in Nat
      /\ Stays(f) \/ Starts(f) \/ Moves(f) \/ Writes(f)
  BY SenderStepsHold, SenderType, BlobBounds DEF SenderRecords
<1>2. /\ sender[f].sent <= sender[f].size
      /\ sender[f].st \in {"wait", "send"} => sender[f].sent < sender[f].size
      /\ fetch[f] = "unused" => sender[f] = Idle
      /\ fetch'[f] = "unused" => fetch[f] = "unused"
  BY ReaderStepsHold DEF SendersCount
<1>3. CASE Stays(f)
  BY <1>2, <1>3 DEF Stays
<1>4. CASE Starts(f)
  BY <1>1, <1>2, <1>4 DEF Starts
<1>5. CASE Moves(f)
  BY <1>1, <1>2, <1>5 DEF Moves
<1>6. CASE Writes(f)
  BY <1>1, <1>2, <1>6, SenderType DEF Writes
<1> QED
  BY <1>1, <1>3, <1>4, <1>5, <1>6

\* What is sent stays sent, and a blob that is served keeps its size.
LEMMA SentStays ==
  ASSUME TypeOK, SendersCount, [Next]_vars, NEW f \in Fetches, sender[f] # Idle
  PROVE  /\ sender'[f].size = sender[f].size
         /\ sender'[f].sent = sender[f].sent \/ (sender'[f].sent = sender[f].sent + 1 /\ Writes(f))
         /\ sender'[f].sent >= sender[f].sent
         /\ sender[f].sent \in Nat /\ sender[f].size \in Nat
<1>1. Stays(f) \/ Moves(f) \/ Writes(f)
  BY SenderStepsHold DEF Starts
<1> QED
  BY <1>1, SenderType DEF Stays, Moves, Writes

LEMMA BufferSentPreserved ==
  ASSUME TypeOK, SendersCount, BufferSent, [Next]_vars
  PROVE  BufferSent'
<1> DEFINE Good(m) == /\ No(m) \in 1 .. sender[m.of].sent /\ m.part = Part(m.of, No(m))
                      /\ m.last <=> No(m) = sender[m.of].size
           Well(m) == /\ No(m) \in 1 .. sender'[m.of].sent /\ m.part = Part(m.of, No(m))
                      /\ m.last <=> No(m) = sender'[m.of].size
<1>1. ASSUME NEW m \in FrameMsgs, Good(m) PROVE Well(m)
  <2>1. m.of \in Fetches
    BY DEF FrameMsgs
  <2>2. sender[m.of] # Idle
    BY <1>1, <2>1, SenderType
  <2> QED
    BY <1>1, <2>1, <2>2, SentStays
<1>2. \A i \in DOMAIN buffer : buffer[i] \in FrameMsgs /\ Good(buffer[i])
  BY BufferType DEF BufferSent
<1>3. ASSUME NEW f \in Fetches, Appends(f) PROVE Well(Frame(f))
  BY <1>3, FrameFacts, SenderType DEF Appends, Writes
<1> HIDE DEF Good, Well
<1>4. ASSUME NEW f \in Fetches, Appends(f) PROVE \A i \in DOMAIN buffer' : Well(buffer'[i])
  BY <1>1, <1>2, <1>3, <1>4, AppendedBuffer
<1>5. ASSUME Delivers PROVE \A i \in DOMAIN buffer' : Well(buffer'[i])
  BY <1>1, <1>2, <1>5, DeliveredBuffer
<1>6. ASSUME Break PROVE \A i \in DOMAIN buffer' : Well(buffer'[i])
  BY <1>6 DEF Break
<1>7. \A i \in DOMAIN buffer' : Well(buffer'[i])
  BY <1>1, <1>2, <1>4, <1>5, <1>6, BufferStepsHold
<1> QED
  BY <1>7 DEF Well, BufferSent, No, Part

LEMMA BufferOrderedPreserved ==
  ASSUME TypeOK, SendersCount, BufferSent, BufferOrdered, [Next]_vars
  PROVE  BufferOrdered'
<1> SUFFICES ASSUME NEW i \in DOMAIN buffer', NEW j \in DOMAIN buffer', i < j,
                    buffer'[i].of = buffer'[j].of
             PROVE  No(buffer'[i]) < No(buffer'[j])
  BY DEF BufferOrdered, No
<1>1. CASE buffer' = buffer
  BY <1>1 DEF BufferOrdered
<1>2. ASSUME NEW f \in Fetches, Appends(f) PROVE No(buffer'[i]) < No(buffer'[j])
  <2>1. CASE j = Len(buffer) + 1
    <3>1. i \in DOMAIN buffer /\ buffer'[i] = buffer[i] /\ buffer'[j] = Frame(f)
      BY <1>2, <2>1, AppendedBuffer
    <3>2. buffer[i].of = f /\ No(Frame(f)) = sender[f].sent + 1
      BY <1>2, <3>1, FrameFacts DEF Appends, Writes
    <3>3. No(buffer[i]) \in 1 .. sender[f].sent /\ sender[f].sent \in Nat
      BY <3>1, <3>2, SenderType DEF BufferSent
    <3> QED
      BY <3>1, <3>2, <3>3
  <2>2. CASE j # Len(buffer) + 1
    <3>1. i \in DOMAIN buffer /\ buffer'[i] = buffer[i] /\ j \in DOMAIN buffer /\ buffer'[j] = buffer[j]
      BY <1>2, <2>2, AppendedBuffer
    <3> QED
      BY <3>1 DEF BufferOrdered
  <2> QED
    BY <2>1, <2>2
<1>3. CASE Delivers
  <2>1. /\ i + 1 \in DOMAIN buffer /\ buffer'[i] = buffer[i + 1]
        /\ j + 1 \in DOMAIN buffer /\ buffer'[j] = buffer[j + 1] /\ i + 1 < j + 1
    BY <1>3, DeliveredBuffer
  <2> QED
    BY <2>1 DEF BufferOrdered
<1>4. CASE Break
  BY <1>4 DEF Break
<1> QED
  BY <1>1, <1>2, <1>3, <1>4, BufferStepsHold

LEMMA BrokenEmptyPreserved ==
  ASSUME TypeOK, SendersCount, BrokenEmpty, [Next]_vars
  PROVE  BrokenEmpty'
<1>1. ASSUME NEW f \in Fetches, SendFrame(f) PROVE ~broken' \/ buffer' = <<>>
  BY <1>1 DEF SendFrame, BrokenEmpty
<1>2. Delivers => ~broken'
  BY DEF Delivers, BrokenEmpty
<1>3. ASSUME NEW f \in Fetches,
             \/ FetchBlob(f) \/ Serve(f) \/ ServeFails(f) \/ Check(f)
             \/ Wakes(f) \/ TakesBlob(f) \/ TakesError(f) \/ TimesOut(f)
      PROVE  buffer' = buffer /\ broken' = broken
  BY <1>3 DEF FetchBlob, Serve, ServeFails, Check, Wakes, TakesBlob, TakesError, TimesOut, channel
<1>4. ASSUME SignalsLow \/ UNCHANGED vars PROVE buffer' = buffer /\ broken' = broken
  BY <1>4 DEF SignalsLow, vars, channel
<1>5. Break => buffer' = <<>>
  BY DEF Break
<1> QED
  BY <1>1, <1>2, <1>3, <1>4, <1>5 DEF Next, BrokenEmpty

-----------------------------------------------------------------------------

\* A call whose frames, buffer and sender a step leaves alone keeps its blob.
LEMMA WaiterKept ==
  ASSUME TypeOK, WaitersGet, NEW f \in Fetches,
         fetch'[f] \in {"unused", "waiting"} => fetch[f] \in {"unused", "waiting"},
         UNCHANGED <<frames, result>>,
         \A k \in Nat : Buffered(f, k)' <=> Buffered(f, k),
         broken => broken',
         sender'[f].size = sender[f].size, sender'[f].sent = sender[f].sent
  PROVE  fetch'[f] \in {"unused", "waiting"} => IF result'[f] = <<>> THEN GetsAll(f)' ELSE HasAll(f)'
<1>1. Len(frames[f]) \in Nat /\ sender[f].sent \in Nat
  BY SenderType, LenProperties DEF TypeOK
<1>2. ASSUME GetsAll(f) PROVE GetsAll(f)'
  BY <1>1, <1>2 DEF GetsAll
<1>3. ASSUME HasAll(f) PROVE HasAll(f)'
  BY <1>3 DEF HasAll, Whole
<1> QED
  BY <1>2, <1>3 DEF WaitersGet

Keeps(f) == fetch'[f] \in {"unused", "waiting"} => IF result'[f] = <<>> THEN GetsAll(f)' ELSE HasAll(f)'

LEMMA AppendedFrames ==
  ASSUME TypeOK, SendersCount, NEW g \in Fetches, Appends(g), NEW f \in Fetches, NEW k \in Nat
  PROVE  Buffered(f, k)' <=> (Buffered(f, k) \/ (f = g /\ k = sender[g].sent + 1))
<1>1. Frame(g).of = g /\ No(Frame(g)) = sender[g].sent + 1
  BY FrameFacts DEF Appends, Writes
<1>2. /\ DOMAIN buffer' = 1 .. Len(buffer) + 1 /\ buffer'[Len(buffer) + 1] = Frame(g)
      /\ DOMAIN buffer = 1 .. Len(buffer) /\ Len(buffer) \in Nat
      /\ \A i \in 1 .. Len(buffer) : buffer'[i] = buffer[i]
  BY AppendedBuffer
<1>3. Buffered(f, k)' <=> \E i \in DOMAIN buffer' : buffer'[i].of = f /\ No(buffer'[i]) = k
  BY DEF Buffered, No
<1>4. ASSUME Buffered(f, k) PROVE Buffered(f, k)'
  <2>1. PICK i \in 1 .. Len(buffer) : buffer[i].of = f /\ No(buffer[i]) = k
    BY <1>2, <1>4 DEF Buffered
  <2>2. i \in DOMAIN buffer' /\ buffer'[i] = buffer[i]
    BY <1>2
  <2> QED
    BY <1>3, <2>1, <2>2
<1>5. ASSUME f = g, k = sender[g].sent + 1 PROVE Buffered(f, k)'
  BY <1>1, <1>2, <1>3, <1>5
<1>6. ASSUME Buffered(f, k)', ~(f = g /\ k = sender[g].sent + 1) PROVE Buffered(f, k)
  <2>1. PICK i \in DOMAIN buffer' : buffer'[i].of = f /\ No(buffer'[i]) = k
    BY <1>3, <1>6
  <2>2. i # Len(buffer) + 1
    BY <1>1, <1>2, <1>6, <2>1
  <2>3. i \in DOMAIN buffer /\ buffer'[i] = buffer[i]
    BY <1>2, <2>2
  <2> QED
    BY <2>1, <2>3 DEF Buffered
<1> QED
  BY <1>4, <1>5, <1>6

LEMMA DeliveredFrames ==
  ASSUME TypeOK, BufferOrdered, Delivers, NEW f \in Fetches, NEW k \in Nat
  PROVE  /\ Buffered(f, k)' => Buffered(f, k)
         /\ Buffered(f, k) => Buffered(f, k)' \/ (buffer[1].of = f /\ No(buffer[1]) = k)
         /\ buffer[1].of = f /\ Buffered(f, k)' => No(buffer[1]) < k
<1>1. /\ DOMAIN buffer' = 1 .. Len(buffer) - 1
      /\ DOMAIN buffer = 1 .. Len(buffer) /\ Len(buffer) \in Nat \ {0}
      /\ \A i \in 1 .. Len(buffer) - 1 : buffer'[i] = buffer[i + 1]
  BY DeliveredBuffer
<1>2. Buffered(f, k)' <=> \E i \in DOMAIN buffer' : buffer'[i].of = f /\ No(buffer'[i]) = k
  BY DEF Buffered, No
<1>3. ASSUME Buffered(f, k)'
      PROVE  Buffered(f, k) /\ (buffer[1].of = f => No(buffer[1]) < k)
  <2>1. PICK i \in DOMAIN buffer' : buffer'[i].of = f /\ No(buffer'[i]) = k
    BY <1>2, <1>3
  <2>2. i + 1 \in DOMAIN buffer /\ buffer'[i] = buffer[i + 1] /\ 1 \in DOMAIN buffer /\ 1 < i + 1
    BY <1>1
  <2> QED
    BY <2>1, <2>2 DEF Buffered, BufferOrdered
<1>4. ASSUME Buffered(f, k), ~(buffer[1].of = f /\ No(buffer[1]) = k)
      PROVE  Buffered(f, k)'
  <2>1. PICK i \in DOMAIN buffer : buffer[i].of = f /\ No(buffer[i]) = k
    BY <1>4 DEF Buffered
  <2>2. PICK j \in 1 .. Len(buffer) - 1 : i = j + 1
    <3>1. i # 1
      BY <1>4, <2>1
    <3>2. i - 1 \in 1 .. Len(buffer) - 1 /\ i = (i - 1) + 1
      BY <1>1, <3>1
    <3> QED
      BY <3>2
  <2>3. j \in DOMAIN buffer' /\ buffer'[j] = buffer[i]
    BY <1>1, <2>2
  <2> QED
    BY <1>2, <2>1, <2>3
<1> QED
  BY <1>3, <1>4

LEMMA StartsKeeps ==
  ASSUME IInv, NEW f \in Fetches, Starts(f)
  PROVE  Keeps(f)
<1>1. sender[f].size = 0 /\ sender[f].sent = 0
  BY SenderType DEF IInv, Starts
<1>2. Whole(f) = <<>>
  BY <1>1 DEF Whole
<1>3. fetch[f] \in {"unused", "waiting"} => result[f] = <<>> /\ GetsAll(f)
  BY <1>2 DEF IInv, WaitersGet, HasAll
<1>4. \A k : Buffered(f, k)' <=> Buffered(f, k)
  BY DEF Starts, channel, Buffered
<1>5. Len(frames[f]) \in Nat
  BY LenProperties DEF IInv, TypeOK
<1> QED
  <2>1. GetsAll(f) => GetsAll(f)'
    BY <1>1, <1>4, <1>5 DEF Starts, reader, channel, GetsAll
  <2> QED
    BY <1>3, <2>1 DEF Starts, reader, Keeps

LEMMA AppendsKeeps ==
  ASSUME IInv, [Next]_vars, NEW g \in Fetches, Appends(g), NEW f \in Fetches
  PROVE  Keeps(f)
<1> USE DEF IInv
<1>1. UNCHANGED <<reader, broken>> /\ ~broken /\ sender[g].st = "send"
  BY DEF Appends, Writes
<1>2. CASE f # g
  <2>1. \A k \in Nat : Buffered(f, k)' <=> Buffered(f, k)
    BY <1>2, AppendedFrames
  <2>2. sender'[f] = sender[f]
    BY <1>2 DEF Appends, Others
  <2> QED
    BY <1>1, <2>1, <2>2, WaiterKept DEF reader, Keeps
<1>3. CASE f = g
  <2>1. /\ sender[f].sent \in Nat /\ sender[f].sent < sender[f].size /\ sender'[f].sent = sender[f].sent + 1
        /\ sender'[f].size = sender[f].size
    BY <1>1, <1>3, SenderType DEF SendersCount, Appends, Writes
  <2>2. ASSUME fetch[f] \in {"unused", "waiting"} PROVE result[f] = <<>> /\ GetsAll(f)
    BY <1>1, <2>1, <2>2, SenderType DEF WaitersGet, HasAll
  <2>3. ASSUME GetsAll(f) PROVE GetsAll(f)'
    <3>1. Len(frames[f]) \in Nat /\ frames' = frames /\ Len(frames[f]) <= sender[f].sent
      BY <1>1, <2>3, LenProperties DEF TypeOK, reader, GetsAll
    <3>2. \A k \in 1 .. Len(frames[f]) : ~Buffered(f, k)'
      BY <1>3, <2>1, <2>3, <3>1, AppendedFrames DEF GetsAll
    <3>3. \A k \in 1 .. sender'[f].sent : k > Len(frames[f]) => Buffered(f, k)'
      BY <1>1, <1>3, <2>1, <2>3, <3>1, AppendedFrames DEF GetsAll
    <3> QED
      BY <2>1, <2>3, <3>1, <3>2, <3>3 DEF GetsAll
  <2> QED
    BY <1>1, <2>2, <2>3 DEF reader, Keeps
<1> QED
  BY <1>2, <1>3

\* The oldest frame in the buffer is the one that its call lacks next.
LEMMA NextFrame ==
  ASSUME IInv, Delivers, NEW f \in Fetches, f = buffer[1].of, fetch[f] = "waiting"
  PROVE  /\ result[f] = <<>> /\ GetsAll(f)
         /\ No(buffer[1]) = Len(frames[f]) + 1 /\ Len(frames[f]) + 1 <= sender[f].sent
         /\ buffer[1].part = Part(f, Len(frames[f]) + 1)
         /\ buffer[1].last <=> Len(frames[f]) + 1 = sender[f].size
<1> USE DEF IInv
<1> DEFINE d == Len(frames[f])
<1>1. d \in Nat /\ sender[f].sent \in Nat /\ sender[f].size \in Nat
  BY SenderType, LenProperties DEF TypeOK
<1>2. /\ 1 \in DOMAIN buffer /\ DOMAIN buffer = 1 .. Len(buffer) /\ Len(buffer) \in Nat \ {0}
      /\ buffer # <<>> /\ ~broken
  BY DeliveredBuffer DEF Delivers, BrokenEmpty
<1>3. /\ No(buffer[1]) \in 1 .. sender[f].sent /\ buffer[1].part = Part(f, No(buffer[1]))
      /\ buffer[1].last <=> No(buffer[1]) = sender[f].size
  BY <1>2 DEF BufferSent
<1> HIDE DEF d
<1>4. Buffered(f, No(buffer[1])) /\ No(buffer[1]) \in Nat
  BY <1>1, <1>2, <1>3 DEF Buffered
<1>5. result[f] = <<>> /\ GetsAll(f)
  BY <1>4 DEF WaitersGet, HasAll
<1>6. No(buffer[1]) > d
  BY <1>1, <1>3, <1>4, <1>5 DEF GetsAll, d
<1>7. ASSUME No(buffer[1]) # d + 1 PROVE FALSE
  <2>1. d + 1 \in 1 .. sender[f].sent /\ d + 1 > d /\ d + 1 < No(buffer[1])
    BY <1>1, <1>3, <1>6, <1>7
  <2>2. PICK i \in DOMAIN buffer : buffer[i].of = f /\ No(buffer[i]) = d + 1
    BY <1>2, <1>5, <2>1 DEF GetsAll, d, Buffered
  <2>3. 1 < i
    BY <1>2, <1>7, <2>2
  <2>4. No(buffer[1]) < No(buffer[i])
    BY <1>2, <2>2, <2>3 DEF BufferOrdered
  <2> QED
    BY <1>1, <1>3, <2>1, <2>2, <2>4
<1> QED
  BY <1>3, <1>5, <1>7 DEF d

LEMMA DeliversKeeps ==
  ASSUME IInv, Delivers, NEW f \in Fetches
  PROVE  Keeps(f)
<1> USE DEF IInv
<1>1. /\ UNCHANGED <<fetch, sender, broken>> /\ Received(buffer[1])
      /\ buffer[1] \in FrameMsgs /\ buffer[1].of \in Fetches
  BY DeliveredBuffer DEF Delivers, FrameMsgs
<1>2. CASE f # buffer[1].of
  <2>1. \A k \in Nat : Buffered(f, k)' <=> Buffered(f, k)
    BY <1>2, DeliveredFrames
  <2>2. frames'[f] = frames[f] /\ result'[f] = result[f]
    BY <1>1, <1>2 DEF Received, TypeOK
  <2>3. Len(frames[f]) \in Nat /\ sender[f].sent \in Nat
    BY SenderType, LenProperties DEF TypeOK
  <2>4. GetsAll(f) => GetsAll(f)'
    BY <1>1, <2>1, <2>2, <2>3 DEF GetsAll
  <2>5. HasAll(f) => HasAll(f)'
    BY <1>1, <2>1, <2>2 DEF HasAll, Whole
  <2> QED
    BY <1>1, <2>2, <2>4, <2>5 DEF Keeps, WaitersGet
<1>3. CASE f = buffer[1].of /\ fetch[f] = "waiting"
  <2> DEFINE d == Len(frames[f])
             whole == Append(frames[f], buffer[1].part)
  <2>1. /\ d \in Nat /\ sender[f].sent \in Nat /\ sender[f].size \in Nat
        /\ sender[f].sent <= sender[f].size /\ frames[f] \in Seq(Parts) /\ buffer[1].part \in Parts
    BY <1>1, SenderType, LenProperties DEF TypeOK, SendersCount, FrameMsgs
  <2>2. /\ result[f] = <<>> /\ GetsAll(f) /\ No(buffer[1]) = d + 1 /\ d + 1 <= sender[f].sent
        /\ buffer[1].part = Part(f, d + 1)
        /\ buffer[1].last <=> d + 1 = sender[f].size
    BY <1>3, NextFrame
  <2>3. /\ whole \in Seq(Parts) /\ Len(whole) = d + 1 /\ whole # <<>>
        /\ \A i \in 1 .. d + 1 : whole[i] = Part(f, i)
    <3>1. /\ whole \in Seq(Parts) /\ Len(whole) = d + 1 /\ whole # <<>>
          /\ \A i \in 1 .. d : whole[i] = frames[f][i]
          /\ whole[d + 1] = buffer[1].part
      BY <2>1, AppendFacts
    <3>2. \A i \in 1 .. d + 1 : i \in 1 .. d \/ i = d + 1
      BY <2>1
    <3> HIDE DEF whole
    <3> QED
      BY <2>2, <3>1, <3>2 DEF GetsAll
  <2>4. /\ frames'[f] = IF buffer[1].last THEN <<>> ELSE whole
        /\ result'[f] = IF buffer[1].last THEN whole ELSE <<>>
    BY <1>1, <1>3, <2>2 DEF Received, TypeOK
  <2>5. \A k \in Nat : Buffered(f, k)' => d + 1 < k /\ Buffered(f, k)
    BY <1>3, <2>2, DeliveredFrames
  <2> HIDE DEF whole, d
  <2>6. CASE buffer[1].last
    <3>1. sender[f].sent = d + 1 /\ d + 1 = sender[f].size
      BY <2>1, <2>2, <2>6
    <3>2. whole = [i \in 1 .. d + 1 |-> Part(f, i)]
      BY <2>1, <2>3, FirstFrames
    <3>3. \A k \in Nat : Buffered(f, k) => k <= sender[f].sent
      BY <2>1, SenderType DEF Buffered, BufferSent
    <3>4. \A k \in Nat : ~Buffered(f, k)'
      BY <2>1, <2>5, <3>1, <3>3
    <3>5. HasAll(f)'
      BY <1>1, <2>4, <2>6, <3>1, <3>2, <3>4 DEF HasAll, Whole
    <3> QED
      BY <2>3, <2>4, <2>6, <3>5 DEF Keeps
  <2>7. CASE ~buffer[1].last
    <3>1. frames'[f] = whole /\ result'[f] = <<>>
      BY <2>4, <2>7
    <3>2. \A k \in 1 .. d + 1 : ~Buffered(f, k)'
      BY <2>1, <2>5
    <3>3. \A k \in 1 .. sender[f].sent : k > d + 1 => (~broken => Buffered(f, k)')
      <4> SUFFICES ASSUME NEW k \in 1 .. sender[f].sent, k > d + 1, ~broken PROVE Buffered(f, k)'
        OBVIOUS
      <4>1. k \in Nat /\ k > d
        BY <2>1
      <4>2. Buffered(f, k)
        BY <2>2, <4>1 DEF GetsAll, d
      <4>3. No(buffer[1]) # k
        BY <2>1, <2>2
      <4> QED
        BY <4>1, <4>2, <4>3, DeliveredFrames
    <3>4. GetsAll(f)'
      BY <1>1, <2>1, <2>2, <2>3, <3>1, <3>2, <3>3 DEF GetsAll
    <3> QED
      BY <3>1, <3>4 DEF Keeps
  <2> QED
    BY <2>6, <2>7
<1>4. CASE f = buffer[1].of /\ fetch[f] = "unused"
  <2>1. sender[f].sent = 0
    BY <1>4, SenderType DEF SendersCount
  <2>2. No(buffer[1]) \in 1 .. sender[f].sent
    BY <1>4, DeliveredBuffer DEF BufferSent
  <2> QED
    BY <2>1, <2>2
<1>5. CASE fetch[f] \notin {"unused", "waiting"}
  BY <1>1, <1>5 DEF Keeps
<1> QED
  BY <1>2, <1>3, <1>4, <1>5

LEMMA BreakKeeps ==
  ASSUME IInv, Break, NEW f \in Fetches
  PROVE  Keeps(f)
<1>1. UNCHANGED <<fetch, frames, result, sender>> /\ broken' = TRUE /\ buffer' = <<>>
  BY DEF Break, reader
<1>2. \A k \in Nat : ~Buffered(f, k)'
  BY <1>1 DEF Buffered
<1>3. Len(frames[f]) \in Nat
  BY LenProperties DEF IInv, TypeOK
<1>4. GetsAll(f) => GetsAll(f)'
  BY <1>1, <1>2, <1>3 DEF GetsAll
<1>5. HasAll(f) => HasAll(f)'
  BY <1>1, <1>2 DEF HasAll, Whole
<1> QED
  BY <1>1, <1>4, <1>5 DEF Keeps, IInv, WaitersGet

LEMMA WaitersGetPreserved ==
  ASSUME IInv, [Next]_vars
  PROVE  WaitersGet'
<1> SUFFICES ASSUME NEW f \in Fetches PROVE Keeps(f)
  BY DEF WaitersGet, Keeps, GetsAll, HasAll, Whole, Buffered, No
<1> USE DEF IInv
<1>1. CASE Starts(f)
  BY <1>1, StartsKeeps
<1>2. ASSUME NEW g \in Fetches, Appends(g) PROVE Keeps(f)
  BY <1>2, AppendsKeeps
<1>3. CASE Delivers
  BY <1>3, DeliversKeeps
<1>4. CASE Break
  BY <1>4, BreakKeeps
<1>5. CASE buffer' = buffer /\ ~Delivers /\ ~Break /\ ~Starts(f)
  <2>1. \A k \in Nat : Buffered(f, k)' <=> Buffered(f, k)
    BY <1>5 DEF Buffered
  <2>2. UNCHANGED <<frames, result>>
    BY <1>5, ReaderStepsHold
  <2>3. fetch'[f] \in {"unused", "waiting"} => fetch[f] \in {"unused", "waiting"}
    BY ReaderStepsHold
  <2>4. ~Writes(f)
    <3>1. ASSUME Writes(f) PROVE FALSE
      <4>1. sender[f].st = "send" /\ buffer' = Append(buffer, Frame(f))
        BY <3>1 DEF Writes, Frame
      <4>2. Len(buffer') = Len(buffer) + 1 /\ Len(buffer) \in Nat
        BY <4>1, FrameFacts, AppendFacts, BufferType
      <4> QED
        BY <1>5, <4>2
    <3> QED
      BY <3>1
  <2>5. sender'[f].size = sender[f].size /\ sender'[f].sent = sender[f].sent
    BY <1>5, <2>4, SenderStepsHold DEF Stays, Moves
  <2>6. broken => broken'
    <3>1. ASSUME NEW g \in Fetches,
                 \/ FetchBlob(g) \/ Serve(g) \/ ServeFails(g) \/ Check(g) \/ Wakes(g)
                 \/ SendFrame(g) \/ TakesBlob(g) \/ TakesError(g) \/ TimesOut(g)
          PROVE  broken' = broken
      BY <3>1 DEF FetchBlob, Serve, ServeFails, Check, Wakes, SendFrame, TakesBlob, TakesError, TimesOut, channel
    <3>2. ASSUME SignalsLow \/ UNCHANGED vars PROVE broken' = broken
      BY <3>2 DEF SignalsLow, vars, channel
    <3> QED
      BY <1>5, <3>1, <3>2 DEF Next
  <2> QED
    BY <2>1, <2>2, <2>3, <2>5, <2>6, WaiterKept DEF Keeps
<1> QED
  BY <1>1, <1>2, <1>3, <1>4, <1>5, BufferStepsHold

LEMMA BlobsWholePreserved ==
  ASSUME IInv, [Next]_vars
  PROVE  BlobsWhole'
<1> USE DEF IInv
<1> SUFFICES ASSUME NEW f \in Fetches, fetch'[f] = "blob" PROVE result'[f] # <<>> /\ result'[f] = Whole(f)'
  BY DEF BlobsWhole, Whole
<1>1. ASSUME result[f] # <<>>, result[f] = Whole(f), result'[f] = result[f]
      PROVE  result'[f] # <<>> /\ result'[f] = Whole(f)'
  <2>1. sender[f] # Idle
    BY <1>1, SenderType DEF Whole
  <2> QED
    BY <1>1, <2>1, SentStays DEF Whole
<1>2. CASE fetch[f] = "blob"
  <2>1. result'[f] = result[f]
    <3>1. Delivers => result'[f] = result[f]
      BY <1>2, DeliveredBuffer DEF Delivers, Received, TypeOK, FrameMsgs
    <3> QED
      BY <3>1, ReaderStepsHold
  <2> QED
    BY <1>1, <1>2, <2>1 DEF BlobsWhole
<1>3. CASE fetch[f] # "blob"
  <2>1. fetch[f] = "waiting" /\ result[f] # <<>>
    BY <1>3, ReaderStepsHold
  <2>2. ~Delivers
    BY <1>3 DEF Delivers
  <2>3. result'[f] = result[f] /\ result[f] = Whole(f)
    BY <2>1, <2>2, ReaderStepsHold DEF WaitersGet, HasAll
  <2> QED
    BY <1>1, <2>1, <2>3
<1> QED
  BY <1>2, <1>3

-----------------------------------------------------------------------------

\* There are no more senders than calls.
LEMMA SendersFew ==
  ASSUME NEW S \in SUBSET Fetches
  PROVE  /\ IsFiniteSet(S) /\ Cardinality(S) \in Nat /\ Cardinality(Fetches) \in Nat
         /\ Cardinality(S) <= Cardinality(Fetches)
         /\ \A f \in S : Cardinality(S \ {f}) = Cardinality(S) - 1
BY BlobBounds, FS_Subset, FS_CardinalityType, FS_RemoveElement

LEMMA BufferBoundedPreserved ==
  ASSUME IInv, TypeOK', [Next]_vars
  PROVE  BufferBounded'
<1> USE DEF IInv
<1> DEFINE S == InState("send")
           T == {f \in Fetches : sender'[f].st = "send"}
<1>1. /\ Cardinality(S) \in Nat /\ Cardinality(T) \in Nat /\ Cardinality(Fetches) \in Nat
      /\ Cardinality(T) <= Cardinality(Fetches) /\ Len(buffer) \in Nat /\ Threshold \in Nat
      /\ Len(buffer) + Cardinality(S) <= Threshold + Cardinality(Fetches)
  BY SendersFew, BufferType, BlobBounds DEF InState, BufferBounded
<1>2. BufferBounded' <=> Len(buffer') + Cardinality(T) <= Threshold + Cardinality(Fetches)
  BY DEF BufferBounded, InState
<1>3. CASE Len(buffer') <= Threshold
  <2>1. buffer' \in Seq(FrameMsgs)
    BY DEF TypeOK
  <2>2. Len(buffer') \in Nat
    BY <2>1, LenProperties
  <2> HIDE DEF T, S
  <2> QED
    BY <1>1, <1>2, <1>3, <2>2
<1>4. ASSUME NEW n \in Nat, Len(buffer') = n, n <= Len(buffer), T \subseteq S PROVE BufferBounded'
  <2>1. Cardinality(T) <= Cardinality(S)
    BY <1>4, SendersFew, FS_Subset DEF InState
  <2> QED
    BY <1>1, <1>2, <1>4, <2>1
<1>5. ASSUME NEW f \in Fetches, Appends(f) PROVE BufferBounded'
  <2>1. f \in S /\ T \subseteq S \ {f} /\ Len(buffer') = Len(buffer) + 1
    BY <1>5, AppendedBuffer DEF Appends, Writes, Others, InState
  <2>2. Cardinality(S \ {f}) = Cardinality(S) - 1 /\ IsFiniteSet(S \ {f})
    BY <2>1, SendersFew DEF InState
  <2>3. Cardinality(T) <= Cardinality(S) - 1
    BY <2>1, <2>2, FS_Subset
  <2> QED
    BY <1>1, <1>2, <2>1, <2>3
<1>6. ASSUME NEW f \in Fetches, Check(f) PROVE BufferBounded'
  <2>1. Becomes(f, NextState(f)) /\ buffer' = buffer
    BY <1>6 DEF Check, channel
  <2>2. Others(f) /\ sender'[f].st = NextState(f)
    BY <2>1, NextStateFacts, StateChanges DEF Working
  <2>3. NextState(f) # "send" => T \subseteq S
    BY <2>2 DEF Others, InState
  <2>4. NextState(f) = "send" => Len(buffer') <= Threshold
    BY <2>1, NextStateFacts
  <2> QED
    BY <1>1, <1>3, <1>4, <2>1, <2>3, <2>4
<1>7. ASSUME NEW f \in Fetches, ServeFails(f) \/ Wakes(f) \/ (SendFrame(f) /\ broken) PROVE BufferBounded'
  <2>1. buffer' = buffer
    BY <1>7 DEF ServeFails, Wakes, SendFrame, channel
  <2>2. Others(f)
    BY <1>7, MoveChanges
  <2>3. sender'[f].st # "send"
    BY <1>7, StateChanges DEF ServeFails, Wakes, SendFrame, Working
  <2>4. T \subseteq S
    BY <2>2, <2>3 DEF Others, InState
  <2> QED
    BY <1>1, <1>4, <2>1, <2>4
<1>8. ASSUME NEW f \in Fetches, Serve(f) PROVE BufferBounded'
  <2>1. buffer' = buffer /\ T \subseteq S
    BY <1>8, ServeChanges DEF Serve, channel, Others, Starts, InState
  <2> QED
    BY <1>1, <1>4, <2>1
<1>9. ASSUME UNCHANGED <<sender, buffer>> PROVE BufferBounded'
  BY <1>9 DEF BufferBounded, InState
<1>10. ASSUME Delivers \/ Break PROVE BufferBounded'
  <2>1. T = S
    BY <1>10 DEF Delivers, Break, InState
  <2>2. CASE Delivers
    BY <1>1, <1>4, <2>1, <2>2, DeliveredBuffer
  <2>3. CASE Break
    BY <1>1, <1>3, <2>3 DEF Break
  <2> QED
    BY <1>10, <2>2, <2>3
<1>11. ASSUME NEW f \in Fetches, FetchBlob(f) \/ TakesBlob(f) \/ TakesError(f) \/ TimesOut(f)
       PROVE  UNCHANGED <<sender, buffer>>
  BY <1>11 DEF FetchBlob, TakesBlob, TakesError, TimesOut, channel
<1>12. ASSUME SignalsLow \/ UNCHANGED vars PROVE UNCHANGED <<sender, buffer>>
  BY <1>12 DEF SignalsLow, vars, channel
<1>13. ASSUME NEW f \in Fetches, SendFrame(f) PROVE BufferBounded'
  BY <1>5, <1>7, <1>13, WriteChanges DEF Appends
<1> QED
  BY <1>6, <1>7, <1>8, <1>9, <1>10, <1>11, <1>12, <1>13 DEF Next

-----------------------------------------------------------------------------

LEMMA TypePreserved ==
  ASSUME TypeOK, SendersCount, [Next]_vars
  PROVE  TypeOK'
<1>1. sender' \in [Fetches -> SenderRecords]
  BY SenderStepsHold
<1>2. fetch' \in [Fetches -> {"unused", "waiting", "blob", "error", "timed out"}]
  BY ReaderStepsHold
<1>3. frames' \in [Fetches -> Seq(Parts)] /\ result' \in [Fetches -> Seq(Parts)]
  <2>1. CASE UNCHANGED <<frames, result>>
    BY <2>1 DEF TypeOK
  <2>2. CASE Delivers
    <3> DEFINE f == buffer[1].of
               whole == Append(frames[f], buffer[1].part)
    <3>1. f \in Fetches /\ buffer[1].part \in Parts /\ Received(buffer[1])
      BY <2>2, DeliveredBuffer DEF Delivers, FrameMsgs
    <3>2. whole \in Seq(Parts) /\ <<>> \in Seq(Parts)
      BY <3>1, AppendFacts, EmptySeq DEF TypeOK
    <3>3. /\ frames' \in {frames, [frames EXCEPT ![f] = <<>>], [frames EXCEPT ![f] = whole]}
          /\ result' \in {result, [result EXCEPT ![f] = whole]}
      BY <3>1 DEF Received
    <3> HIDE DEF whole
    <3> QED
      BY <3>1, <3>2, <3>3 DEF TypeOK
  <2> QED
    BY <2>1, <2>2, ReaderStepsHold
<1>4. buffer' \in Seq(FrameMsgs)
  <2>1. CASE Break
    BY <2>1, EmptySeq DEF Break
  <2> QED
    BY <2>1, BufferStepsHold, AppendedBuffer, DeliveredBuffer, BufferType
<1>5. failed' \subseteq Fetches /\ rivals' \subseteq Fetches /\ {low', lowDue', broken'} \subseteq BOOLEAN
  <2> DEFINE P == failed' \subseteq Fetches /\ rivals' \subseteq Fetches /\ {low', lowDue', broken'} \subseteq BOOLEAN
  <2> USE DEF TypeOK
  <2>1. ASSUME NEW f \in Fetches, FetchBlob(f) \/ Serve(f) \/ TakesBlob(f) \/ TakesError(f) \/ TimesOut(f)
        PROVE  P
    BY <2>1 DEF FetchBlob, Serve, TakesBlob, TakesError, TimesOut, channel
  <2>2. ASSUME NEW f \in Fetches, ServeFails(f) PROVE P
    BY <2>2 DEF ServeFails, channel
  <2>3. ASSUME NEW f \in Fetches, Check(f) PROVE P
    BY <2>3 DEF Check, channel, InState
  <2>4. ASSUME NEW f \in Fetches, Wakes(f) PROVE P
    BY <2>4 DEF Wakes
  <2>5. ASSUME NEW f \in Fetches, SendFrame(f) PROVE P
    BY <2>5 DEF SendFrame
  <2>6. ASSUME Delivers PROVE P
    BY <2>6 DEF Delivers
  <2>7. ASSUME SignalsLow PROVE P
    BY <2>7 DEF SignalsLow
  <2>8. ASSUME Break PROVE P
    BY <2>8 DEF Break
  <2>9. ASSUME UNCHANGED vars PROVE P
    BY <2>9 DEF vars, channel
  <2> QED
    BY <2>1, <2>2, <2>3, <2>4, <2>5, <2>6, <2>7, <2>8, <2>9 DEF Next
<1> QED
  BY <1>1, <1>2, <1>3, <1>4, <1>5 DEF TypeOK, SenderRecords

LEMMA SignalsPreserved ==
  ASSUME IInv, [Next]_vars
  PROVE  WaitsAlone' /\ NoMissedSignal'
<1> USE DEF IInv
<1> SUFFICES ASSUME NEW f \in Fetches, sender'[f].st = "wait", f \notin rivals'
             PROVE  /\ \A g \in Fetches : sender'[g].st = "wait" => g = f
                    /\ (~low' /\ ~lowDue' /\ ~broken') => Len(buffer') > Threshold
  BY DEF WaitsAlone, NoMissedSignal, InState
<1> DEFINE Alone == \A g \in Fetches : sender'[g].st = "wait" => g = f
           Full == (~low' /\ ~lowDue' /\ ~broken') => Len(buffer') > Threshold
<1>1. Len(buffer) \in Nat /\ Threshold \in Nat
  BY BufferType, BlobBounds
<1>2. ASSUME sender[f].st = "wait", f \notin rivals
      PROVE  /\ \A g \in Fetches : sender[g].st = "wait" => g = f
             /\ (~low /\ ~lowDue /\ ~broken) => Len(buffer) > Threshold
  BY <1>2 DEF WaitsAlone, NoMissedSignal, InState
<1>3. ASSUME UNCHANGED <<sender, channel, rivals>> PROVE Alone /\ Full
  BY <1>2, <1>3 DEF channel
<1>4. ASSUME NEW h \in Fetches, Serve(h) PROVE Alone /\ Full
  <2>1. /\ Others(h) /\ sender'[h].st = "check" /\ UNCHANGED <<buffer, low, lowDue, broken, rivals>>
    BY <1>4, ServeChanges DEF Starts, channel
  <2> QED
    BY <1>2, <2>1 DEF Others
<1>5. ASSUME NEW h \in Fetches, ServeFails(h) PROVE Alone /\ Full
  <2>1. /\ Others(h) /\ sender'[h].st = "failed" /\ UNCHANGED <<buffer, low, lowDue, broken, rivals>>
    BY <1>5, StateChanges, MoveChanges DEF ServeFails, channel, Working
  <2> QED
    BY <1>2, <2>1 DEF Others
<1>6. ASSUME NEW h \in Fetches, Check(h) PROVE Alone /\ Full
  <2>1. /\ Others(h) /\ sender'[h].st = NextState(h) /\ UNCHANGED <<buffer, low, lowDue, broken>>
        /\ sender[h].st = "check"
    BY <1>6, StateChanges, NextStateFacts DEF Check, channel, Working
  <2>2. rivals' = IF NextState(h) = "wait" /\ InState("wait") # {}
                  THEN rivals \cup InState("wait") \cup {h} ELSE rivals
    BY <1>6 DEF Check
  <2>3. CASE h = f
    <3>1. NextState(f) = "wait" /\ InState("wait") = {}
      BY <1>6, <2>1, <2>2, <2>3
    <3>2. Alone
      BY <2>1, <2>3, <3>1 DEF Others, InState
    <3>3. Full
      BY <2>1, <3>1, NextStateFacts
    <3> QED
      BY <3>2, <3>3
  <2>4. CASE h # f
    <3>1. sender[f].st = "wait" /\ f \notin rivals
      BY <2>1, <2>2, <2>4 DEF Others
    <3>2. NextState(h) # "wait"
      BY <2>2, <3>1 DEF InState
    <3> QED
      BY <1>2, <2>1, <3>1, <3>2 DEF Others
  <2> QED
    BY <2>3, <2>4
<1>7. ASSUME NEW h \in Fetches, Wakes(h) PROVE FALSE
  <2>1. Others(h) /\ sender'[h].st = "check" /\ sender[h].st = "wait" /\ rivals' = rivals
    BY <1>7, StateChanges DEF Wakes, Working
  <2>2. f # h
    BY <2>1
  <2> QED
    BY <1>2, <2>1, <2>2 DEF Others
<1>8. ASSUME NEW h \in Fetches, SendFrame(h) PROVE Alone /\ Full
  <2>1. CASE broken
    <3>1. /\ Others(h) /\ sender'[h].st = "failed" /\ UNCHANGED <<buffer, low, lowDue, broken, rivals>>
      BY <1>8, <2>1, StateChanges, MoveChanges DEF SendFrame, Working
    <3> QED
      BY <1>2, <3>1 DEF Others
  <2>2. CASE ~broken
    <3>1. /\ Others(h) /\ sender'[h].st = "check" /\ UNCHANGED <<low, lowDue, broken, rivals>>
          /\ Len(buffer') = Len(buffer) + 1
      BY <1>8, <2>2, WriteChanges, AppendedBuffer DEF Writes, Appends
    <3> QED
      BY <1>1, <1>2, <3>1 DEF Others
  <2> QED
    BY <2>1, <2>2
<1>9. ASSUME Delivers PROVE Alone /\ Full
  <2>1. /\ UNCHANGED <<sender, low, broken, rivals>> /\ ~lowDue /\ lowDue' = (Len(buffer) = Threshold + 1)
        /\ Len(buffer') = Len(buffer) - 1
    BY <1>9, DeliveredBuffer DEF Delivers
  <2>2. sender[f].st = "wait" /\ f \notin rivals /\ Alone
    BY <1>2, <2>1
  <2>3. ASSUME ~low', ~lowDue', ~broken' PROVE Len(buffer) > Threshold /\ Len(buffer) # Threshold + 1
    BY <1>2, <2>1, <2>2, <2>3, Zenon
  <2> HIDE DEF Alone
  <2> QED
    BY <1>1, <2>1, <2>2, <2>3
<1>10. ASSUME SignalsLow PROVE Alone /\ Full
  BY <1>2, <1>10 DEF SignalsLow
<1>11. ASSUME Break PROVE Alone /\ Full
  BY <1>2, <1>11 DEF Break
<1>12. ASSUME NEW h \in Fetches, FetchBlob(h) \/ TakesBlob(h) \/ TakesError(h) \/ TimesOut(h)
       PROVE  UNCHANGED <<sender, channel, rivals>>
  BY <1>12 DEF FetchBlob, TakesBlob, TakesError, TimesOut
<1>13. UNCHANGED vars => UNCHANGED <<sender, channel, rivals>>
  BY DEF vars
<1> QED
  BY <1>3, <1>4, <1>5, <1>6, <1>7, <1>8, <1>9, <1>10, <1>11, <1>12, <1>13 DEF Next

LEMMA InitInvariant ==
  ASSUME Init
  PROVE  IInv
<1>1. TypeOK
  <2>1. \A S : <<>> \in Seq(S)
    BY EmptySeq
  <2>2. Idle \in SenderRecords
    BY BlobBounds DEF Idle, SenderRecords
  <2> QED
    BY <2>1, <2>2 DEF Init, TypeOK, SenderRecords
<1>2. SendersCount /\ \A f \in Fetches : sender[f].st = "idle" /\ sender[f].sent = 0
  BY DEF Init, SendersCount, Idle
<1>3. BufferSent /\ BufferOrdered /\ BrokenEmpty
  BY DEF Init, BufferSent, BufferOrdered, BrokenEmpty
<1>4. WaitersGet
  BY <1>2, EmptySeq DEF Init, WaitersGet, GetsAll, Buffered
<1>5. BlobsWhole /\ WaitsAlone /\ NoMissedSignal
  BY <1>2 DEF Init, BlobsWhole, WaitsAlone, NoMissedSignal, InState
<1>6. BufferBounded
  <2>1. InState("send") = {} /\ Len(buffer) = 0
    <3>1. buffer = <<>> /\ InState("send") = {}
      BY <1>2 DEF Init, InState
    <3> QED
      BY <3>1, EmptySeq
  <2>2. Cardinality({}) = 0 /\ Cardinality(Fetches) \in Nat /\ Threshold \in Nat
    BY SendersFew, FS_EmptySet, BlobBounds
  <2>3. Cardinality(InState("send")) = 0
    BY <2>1, <2>2
  <2> QED
    BY <2>1, <2>2, <2>3 DEF BufferBounded
<1> QED
  BY <1>1, <1>2, <1>3, <1>4, <1>5, <1>6 DEF IInv

LEMMA StepInvariant ==
  ASSUME IInv, [Next]_vars
  PROVE  IInv'
<1>1. TypeOK'
  BY TypePreserved DEF IInv
<1>2. SendersCount' /\ BufferSent' /\ BufferOrdered' /\ BrokenEmpty'
  BY SendersCountPreserved, BufferSentPreserved, BufferOrderedPreserved, BrokenEmptyPreserved DEF IInv
<1>3. WaitersGet' /\ BlobsWhole' /\ BufferBounded' /\ WaitsAlone' /\ NoMissedSignal'
  BY <1>1, WaitersGetPreserved, BlobsWholePreserved, BufferBoundedPreserved, SignalsPreserved
<1> QED
  BY <1>1, <1>2, <1>3 DEF IInv

LEMMA InvariantHolds == Spec => []IInv
BY InitInvariant, StepInvariant, PTL DEF Spec

\* A call of FetchBlob that returns a blob returns the whole of it, whatever
\* other blobs are sent in between, and whenever the connection breaks or a call
\* gives up: what onBlobMsg (webrtc.go) puts together is never cut or mixed up.
THEOREM BlobsComeWhole == Spec => []WholeOrError
<1>1. IInv => WholeOrError
  BY DEF IInv, BlobsWhole, WholeOrError
<1> QED
  BY <1>1, InvariantHolds, PTL

\* The buffer of the blob channel holds no more than its threshold and a frame
\* of each sender, although senders check it and write to it in two steps.
THEOREM BufferStaysBounded == Spec => []BufferInv
<1>1. IInv => BufferInv
  BY DEF IInv, BufferInv
<1> QED
  BY <1>1, InvariantHolds, PTL

\* A sender that waits alone for the buffer to run low does not miss the signal.
THEOREM SignalNotMissed == Spec => []NoMissedSignal
<1>1. IInv => NoMissedSignal
  BY DEF IInv
<1> QED
  BY <1>1, InvariantHolds, PTL
=============================================================================
