----------------------------- MODULE ValueStore -----------------------------
(***************************************************************************)
(* What dht/storage.go asks of a Storage, as MemoryStorage provides it: a  *)
(* map from keys to values, read and written in single steps.  A Put may   *)
(* fail, which Put has no way to report: the key then has no value.        *)
(***************************************************************************)
CONSTANTS Keys, Values, None

VARIABLES
  value,   \* the value of each key
  answer   \* what the last Get returned, and for which key

vars == <<value, answer>>

Init == value = [k \in Keys |-> None] /\ answer = None

Put(k, v) == value' = [value EXCEPT ![k] = v] /\ UNCHANGED answer

PutFails(k) == value' = [value EXCEPT ![k] = None] /\ UNCHANGED answer

Delete(k) == value' = [value EXCEPT ![k] = None] /\ UNCHANGED answer

Get(k) == answer' = [key |-> k, value |-> value[k]] /\ UNCHANGED value

Next ==
  \E k \in Keys : PutFails(k) \/ Delete(k) \/ Get(k) \/ \E v \in Values : Put(k, v)

Spec == Init /\ [][Next]_vars
=============================================================================
