----------------------------- MODULE BlobTransfer -----------------------------
(***************************************************************************)
(* transport/webrtc/webrtc.go: blobs over one open connection.  FetchBlob  *)
(* asks on the control channel; the serving node starts a goroutine that   *)
(* cuts the blob into frames and writes them to the blob channel, and all  *)
(* such goroutines share the buffer of the channel and one place for the   *)
(* signal that it has run low; the reader puts the frames together again.  *)
(*                                                                         *)
(* A blob is its frames <<f, 1>> .. <<f, n>>, where f is the request.  All *)
(* frames count alike in the buffer.  The channel is reliable and ordered  *)
(* until the connection breaks.  It is external, and so is the rule that   *)
(* the low signal is raised when the buffered amount falls from above the  *)
(* threshold to the threshold or below.                                    *)
(***************************************************************************)
EXTENDS Integers, Sequences, FiniteSets

CONSTANTS
  Fetches,     \* the calls of FetchBlob
  MaxFrames,   \* bound: frames of one blob
  Threshold    \* blobBufferThreshold, in frames

ASSUME BlobBounds ==
  MaxFrames \in Nat \ {0} /\ Threshold \in Nat /\ IsFiniteSet(Fetches)

VARIABLES
  fetch,     \* the calls of FetchBlob
  frames,    \* bp.buf of each call
  result,    \* the blob in bp.ch of each call
  failed,    \* calls that an error answer is under way to, or in errReq.ch
  sender,    \* the goroutines that serve: state, blob size, frames written
  buffer,    \* what is written to the blob channel and not yet released
  low,       \* whether blobLowSignal holds a signal
  lowDue,    \* whether OnBufferedAmountLow is about to be called
  broken,    \* whether the connection is broken or closed
  rivals     \* history: senders that waited for the signal at the same time

reader == <<fetch, frames, result>>
channel == <<buffer, low, lowDue, broken>>
vars == <<reader, failed, sender, channel, rivals>>

Part(f, i) == <<f, i>>
Whole(f) == [i \in 1 .. sender[f].size |-> Part(f, i)]
Idle == [st |-> "idle", size |-> 0, sent |-> 0]

InState(st) == {f \in Fetches : sender[f].st = st}
Becomes(f, st) == sender' = [sender EXCEPT ![f].st = st]
Working == {"check", "wait", "send"}

-----------------------------------------------------------------------------

Init ==
  /\ fetch = [f \in Fetches |-> "unused"]
  /\ frames = [f \in Fetches |-> <<>>] /\ result = [f \in Fetches |-> <<>>]
  /\ failed = {}
  /\ sender = [f \in Fetches |-> Idle]
  /\ buffer = <<>> /\ low = FALSE /\ lowDue = FALSE /\ broken = FALSE
  /\ rivals = {}

\* FetchBlob registers the request and sends it.
FetchBlob(f) ==
  /\ fetch[f] = "unused"
  /\ fetch' = [fetch EXCEPT ![f] = IF broken THEN "error" ELSE "waiting"]
  /\ UNCHANGED <<frames, result, failed, sender, channel, rivals>>

\* The request is read and its goroutine started, which gets the blob.
Serve(f) ==
  /\ fetch[f] \notin {"unused", "error"} /\ sender[f] = Idle
  /\ \E n \in 0 .. MaxFrames : sender' = [sender EXCEPT ![f] = [st |-> "check", size |-> n, sent |-> 0]]
  /\ UNCHANGED <<reader, failed, channel, rivals>>

\* OnFetchBlob fails, or the blob channel does not open: an error answer.
ServeFails(f) ==
  /\ fetch[f] \notin {"unused", "error"} /\ sender[f] = Idle
  /\ Becomes(f, "failed")
  /\ failed' = failed \cup {f}
  /\ UNCHANGED <<reader, channel, rivals>>

\* Mutant of NextState: the buffered amount is looked at before the first frame
\* only.
NextStateOnce(f) ==
  CASE sender[f].sent = sender[f].size -> "done"
    [] sender[f].sent = 0 /\ sender[f].size > 0 /\ Len(buffer) > Threshold -> "wait"
    [] OTHER -> "send"

\* The conditions of the two loops: is there more to send, and is there room.
NextState(f) ==
  CASE sender[f].sent = sender[f].size -> "done"
    [] sender[f].sent < sender[f].size /\ Len(buffer) > Threshold -> "wait"
    [] OTHER -> "send"

Check(f) ==
  /\ sender[f].st = "check"
  /\ Becomes(f, NextState(f))
  /\ rivals' = IF NextState(f) = "wait" /\ InState("wait") # {}
               THEN rivals \cup InState("wait") \cup {f} ELSE rivals
  /\ UNCHANGED <<reader, failed, channel>>

\* <-lowSignal, taken by one of the senders that wait.
Wakes(f) ==
  /\ sender[f].st = "wait" /\ low
  /\ low' = FALSE
  /\ Becomes(f, "check")
  /\ UNCHANGED <<reader, failed, buffer, lowDue, broken, rivals>>

\* Mutant of LastFrame: the comparison is off by one.
LastFrameEarly(f) == sender[f].sent + 2 >= sender[f].size

\* The flag of the frame to be sent next.
LastFrame(f) == sender[f].sent + 1 >= sender[f].size

\* A frame is written, or the write fails and an error answer is tried.
SendFrame(f) ==
  /\ sender[f].st = "send"
  /\ IF broken
     THEN /\ Becomes(f, "failed")
          /\ failed' = failed \cup {f}
          /\ UNCHANGED buffer
     ELSE /\ sender' = [sender EXCEPT ![f].st = "check", ![f].sent = @ + 1]
          /\ buffer' = Append(buffer, [of |-> f, part |-> Part(f, sender[f].sent + 1),
                                       last |-> LastFrame(f)])
          /\ UNCHANGED failed
  /\ UNCHANGED <<reader, low, lowDue, broken, rivals>>

\* Mutant of Received: the blob is handed over before the frame is added.
ReceivedBefore(m) ==
  LET f == m.of IN
  IF fetch[f] # "waiting" THEN UNCHANGED <<frames, result>>
  ELSE /\ frames' = [frames EXCEPT ![f] = IF m.last THEN <<m.part>> ELSE Append(@, m.part)]
       /\ result' = IF m.last /\ result[f] = <<>> THEN [result EXCEPT ![f] = frames[f]] ELSE result

\* onBlobMsg: a frame of a call that still waits is added to what has come;
\* the last one hands the blob over.
Received(m) ==
  LET f == m.of
      whole == Append(frames[f], m.part)
  IN
  IF fetch[f] # "waiting" THEN UNCHANGED <<frames, result>>
  ELSE /\ frames' = [frames EXCEPT ![f] = IF m.last THEN <<>> ELSE whole]
       /\ result' = IF m.last /\ result[f] = <<>> THEN [result EXCEPT ![f] = whole] ELSE result

\* The next frame gets to the reader, and its place in the buffer is released.
Delivers ==
  /\ buffer # <<>> /\ ~lowDue
  /\ buffer' = Tail(buffer)
  /\ lowDue' = (Len(buffer) = Threshold + 1)
  /\ Received(Head(buffer))
  /\ UNCHANGED <<fetch, failed, sender, low, broken, rivals>>

\* Mutant of SignalsLow: a channel with no place, so that the signal is lost on
\* a sender that has looked at the amount and not yet got to the receive.
SignalsIfReceived ==
  /\ lowDue
  /\ low' \in IF InState("wait") = {} THEN {low} ELSE {low, TRUE}
  /\ lowDue' = FALSE
  /\ UNCHANGED <<reader, failed, sender, buffer, broken, rivals>>

\* The callback of OnBufferedAmountLow puts the signal, if there is a place.
SignalsLow ==
  /\ lowDue
  /\ low' = TRUE /\ lowDue' = FALSE
  /\ UNCHANGED <<reader, failed, sender, buffer, broken, rivals>>

\* What ends a call: the blob, an error answer, or 120 s.
TakesBlob(f) ==
  /\ fetch[f] = "waiting" /\ result[f] # <<>>
  /\ fetch' = [fetch EXCEPT ![f] = "blob"]
  /\ UNCHANGED <<frames, result, failed, sender, channel, rivals>>

TakesError(f) ==
  /\ fetch[f] = "waiting" /\ f \in failed
  /\ fetch' = [fetch EXCEPT ![f] = "error"]
  /\ UNCHANGED <<frames, result, failed, sender, channel, rivals>>

TimesOut(f) ==
  /\ fetch[f] = "waiting"
  /\ fetch' = [fetch EXCEPT ![f] = "timed out"]
  /\ UNCHANGED <<frames, result, failed, sender, channel, rivals>>

\* The connection breaks, or is closed: what it held is lost.
Break ==
  /\ ~broken
  /\ broken' = TRUE
  /\ buffer' = <<>> /\ lowDue' = FALSE
  /\ UNCHANGED <<reader, failed, sender, low, rivals>>

Next ==
  \/ \E f \in Fetches : FetchBlob(f)
  \/ \E f \in Fetches : Serve(f)
  \/ \E f \in Fetches : ServeFails(f)
  \/ \E f \in Fetches : Check(f)
  \/ \E f \in Fetches : Wakes(f)
  \/ \E f \in Fetches : SendFrame(f)
  \/ Delivers
  \/ SignalsLow
  \/ \E f \in Fetches : TakesBlob(f)
  \/ \E f \in Fetches : TakesError(f)
  \/ \E f \in Fetches : TimesOut(f)
  \/ Break

\* Goroutines run, and the channel delivers while it is not broken.
SenderSteps(f) == Check(f) \/ Wakes(f) \/ SendFrame(f)
Fairness ==
  /\ \A f \in Fetches : WF_vars(SenderSteps(f)) /\ WF_vars(TakesBlob(f) \/ TakesError(f))
  /\ WF_vars(Delivers) /\ WF_vars(SignalsLow)

Spec == Init /\ [][Next]_vars /\ Fairness

-----------------------------------------------------------------------------

Parts == {Part(f, i) : f \in Fetches, i \in 1 .. MaxFrames}
FrameMsgs == [of : Fetches, part : Parts, last : BOOLEAN]

TypeOK ==
  /\ fetch \in [Fetches -> {"unused", "waiting", "blob", "error", "timed out"}]
  /\ frames \in [Fetches -> Seq(Parts)] /\ result \in [Fetches -> Seq(Parts)]
  /\ failed \subseteq Fetches /\ rivals \subseteq Fetches
  /\ sender \in [Fetches -> [st : Working \cup {"idle", "done", "failed"},
                             size : 0 .. MaxFrames, sent : 0 .. MaxFrames]]
  /\ buffer \in Seq(FrameMsgs)
  /\ {low, lowDue, broken} \subseteq BOOLEAN

\* A call that returns a blob returns all of it, in order and with nothing of
\* the blobs that were sent in between.
WholeOrError == \A f \in Fetches : fetch[f] = "blob" => result[f] = Whole(f)

\* The buffer grows past the threshold by a frame for each sender at most, as
\* many as there are: senders do not hold a place from the check to the write.
BufferBounded == Len(buffer) + Cardinality(InState("send")) <= Threshold + Cardinality(Fetches)

\* The shared buffer holds frames of the type, and no more than that many.
BufferInv == TypeOK /\ BufferBounded

\* A sender does not wait while there is room and no signal for it is there or
\* due, unless it has waited together with another one: the signal of line 79
\* wakes one of the two, which may find that it was the last to write (line
\* 77), so that the amount never crosses the threshold again.
NoMissedSignal ==
  \A f \in InState("wait") \ rivals :
    (~low /\ ~lowDue /\ ~broken) => Len(buffer) > Threshold

\* A blob that is served gets to the call that waits for it, with no timeout:
\* unless the connection breaks, the sender missed a signal to a rival, or the
\* blob is empty, of which no frame is ever sent (line 77).
BlobArrives ==
  \A f \in Fetches :
    (fetch[f] = "waiting" /\ sender[f].st \in Working /\ sender[f].size > 0)
      ~> (fetch[f] # "waiting" \/ broken \/ f \in rivals)
=============================================================================
