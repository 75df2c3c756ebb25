---------------------------- MODULE DiskStorage -----------------------------
(***************************************************************************)
(* dht/disk_storage.go: one file per key with the metadata of a value, one *)
(* file per blob, named by the hash of its contents.  os.WriteFile creates *)
(* or truncates the file before it writes, so that a crash or a full disk  *)
(* leaves a file that is cut short.  The files survive a crash of the      *)
(* process, the mutex does not.                                            *)
(*                                                                         *)
(* A blob and its ref are the same thing here: sha256 is taken to be free  *)
(* of collisions.  A cut file of metadata is not valid JSON.               *)
(*                                                                         *)
(* The names differ from those of StoredValues, so that StorageProofs can  *)
(* extend both.                                                            *)
(***************************************************************************)
EXTENDS FiniteSets

CONSTANTS
  Keys,
  Metas,   \* the ValueMetas that are put
  Blobs,   \* the contents that are put
  None

VARIABLES
  meta,         \* the file of each key
  blob,         \* the file of each blob
  writer,       \* who holds mu for writing, in the middle of os.WriteFile
  running,      \* the process runs
  answer,       \* what the last Get returned
  fetched,      \* what the last GetBlob returned
  acked,        \* history: blobs for which PutBlob has returned no error
  interrupted   \* history: blobs whose write was cut short

diskVars == <<meta, blob, writer, running, answer, fetched, acked, interrupted>>

Absent == "absent"
Cut == "cut"
Whole == "whole"

PutRecords == [put : Keys, value : Metas, old : Metas \cup {Absent, Cut}]
BlobRecords == [blob : Blobs]

\* What a file holds when there is none, or no whole one, is no value; and no
\* writer is not one of the writers.
ASSUME FilesAreNoValues == {None, Absent, Cut} \cap Metas = {}
ASSUME NoneIsNoWriter == None \notin PutRecords \cup BlobRecords

-----------------------------------------------------------------------------

DiskInit ==
  /\ meta = [k \in Keys |-> Absent]
  /\ blob = [b \in Blobs |-> Absent]
  /\ writer = None /\ running = TRUE
  /\ answer = None /\ fetched = None
  /\ acked = {} /\ interrupted = {}

\* mu is free; a reader only has to find no writer.
Unlocked == running /\ writer = None

\* Put locks and truncates the file.  old is history: what the file held.
PutTruncates(k, v) ==
  /\ Unlocked
  /\ writer' = [put |-> k, value |-> v, old |-> meta[k]]
  /\ meta' = [meta EXCEPT ![k] = Cut]
  /\ UNCHANGED <<blob, running, answer, fetched, acked, interrupted>>

\* Put writes the file and unlocks; an error of the write is dropped.
PutWrites ==
  /\ running /\ writer # None /\ "put" \in DOMAIN writer
  /\ \/ meta' = [meta EXCEPT ![writer.put] = writer.value]
     \/ UNCHANGED meta
  /\ writer' = None
  /\ UNCHANGED <<blob, running, answer, fetched, acked, interrupted>>

\* The file of the key is removed.
Delete(k) ==
  /\ Unlocked
  /\ meta' = [meta EXCEPT ![k] = Absent]
  /\ UNCHANGED <<blob, writer, running, answer, fetched, acked, interrupted>>

\* What Get makes of a file: nil when it cannot be read or parsed.
Parsed(file) == IF file \in Metas THEN file ELSE None

\* Mutant of Get: it does not wait for a writer.
GetUnlocked(k) ==
  /\ running
  /\ answer' = [key |-> k, value |-> Parsed(meta[k])]
  /\ UNCHANGED <<meta, blob, writer, running, fetched, acked, interrupted>>

\* Get reads the file under the lock.
Get(k) ==
  /\ Unlocked
  /\ answer' = [key |-> k, value |-> Parsed(meta[k])]
  /\ UNCHANGED <<meta, blob, writer, running, fetched, acked, interrupted>>

\* Mutant of PutBlobExists: the file is looked for before locking.
PutBlobExistsUnlocked(b) ==
  /\ running
  /\ blob[b] # Absent
  /\ acked' = acked \cup {b}
  /\ UNCHANGED <<meta, blob, writer, running, answer, fetched, interrupted>>

\* PutBlob finds a file of that name and takes it for the blob.
PutBlobExists(b) ==
  /\ Unlocked
  /\ blob[b] # Absent
  /\ acked' = acked \cup {b}
  /\ UNCHANGED <<meta, blob, writer, running, answer, fetched, interrupted>>

\* Mutant of PutBlobCreates: a file that is there is truncated again.
PutBlobTruncates(b) ==
  /\ Unlocked
  /\ writer' = [blob |-> b]
  /\ blob' = [blob EXCEPT ![b] = Cut]
  /\ UNCHANGED <<meta, running, answer, fetched, acked, interrupted>>

\* PutBlob finds none and creates it.
PutBlobCreates(b) ==
  /\ Unlocked
  /\ blob[b] = Absent
  /\ writer' = [blob |-> b]
  /\ blob' = [blob EXCEPT ![b] = Cut]
  /\ UNCHANGED <<meta, running, answer, fetched, acked, interrupted>>

\* PutBlob writes it, unlocks, and returns the ref or the error of the write.
PutBlobWrites ==
  /\ running /\ writer # None /\ "blob" \in DOMAIN writer
  /\ \/ /\ blob' = [blob EXCEPT ![writer.blob] = Whole]
        /\ acked' = acked \cup {writer.blob}
        /\ UNCHANGED interrupted
     \/ /\ interrupted' = interrupted \cup {writer.blob}
        /\ UNCHANGED <<blob, acked>>
  /\ writer' = None
  /\ UNCHANGED <<meta, running, answer, fetched>>

\* GetBlob reads whatever the file holds.
GetBlob(b) ==
  /\ Unlocked
  /\ fetched' = [blob |-> b, contents |-> blob[b]]
  /\ UNCHANGED <<meta, blob, writer, running, answer, acked, interrupted>>

ProcessDies ==
  /\ running
  /\ running' = FALSE
  /\ writer' = None
  /\ interrupted' = IF writer # None /\ "blob" \in DOMAIN writer
                    THEN interrupted \cup {writer.blob} ELSE interrupted
  /\ UNCHANGED <<meta, blob, answer, fetched, acked>>

\* NewDiskStorage on the same directory: nothing is checked or repaired.
NewDiskStorage ==
  /\ ~running
  /\ running' = TRUE
  /\ UNCHANGED <<meta, blob, writer, answer, fetched, acked, interrupted>>

DiskNext ==
  \/ \E k \in Keys, v \in Metas : PutTruncates(k, v)
  \/ PutWrites
  \/ \E k \in Keys : Delete(k)
  \/ \E k \in Keys : Get(k)
  \/ \E b \in Blobs : PutBlobExists(b)
  \/ \E b \in Blobs : PutBlobCreates(b)
  \/ PutBlobWrites
  \/ \E b \in Blobs : GetBlob(b)
  \/ ProcessDies
  \/ NewDiskStorage

DiskSpec == DiskInit /\ [][DiskNext]_diskVars

-----------------------------------------------------------------------------

FilesOK ==
  /\ meta \in [Keys -> Metas \cup {Absent, Cut}]
  /\ blob \in [Blobs -> {Absent, Cut, Whole}]
  /\ writer = None \/ writer \in PutRecords \/ writer \in BlobRecords
  /\ running \in BOOLEAN
  /\ answer = None \/ answer \in [key : Keys, value : Metas \cup {None}]
  /\ fetched = None \/ fetched \in [blob : Blobs, contents : {Absent, Cut, Whole}]
  /\ acked \subseteq Blobs /\ interrupted \subseteq Blobs

\* The store that a caller sees: a key keeps its value until Put has written
\* the new one, or has failed to, or was cut short by a crash.
VisibleValue ==
  [k \in Keys |->
     IF writer # None /\ "put" \in DOMAIN writer /\ writer.put = k
     THEN Parsed(writer.old) ELSE Parsed(meta[k])]

Abstract == INSTANCE ValueStore WITH value <- VisibleValue, answer <- answer, Values <- Metas

\* The steps of Put, the crashes and the restarts amount to the single steps
\* of ValueStore: no Get sees a file in the middle of a Put, and no key but the
\* one of the Put can lose its value.
ImplementsValueStore == Abstract!Spec

\* A blob whose write was never interrupted is there and whole from the moment
\* PutBlob acknowledges it, over crashes and restarts.
AckedBlobIsWhole == \A b \in acked \ interrupted : blob[b] = Whole

\* The files are of their types, and those of acknowledged blobs whole.
FilesInv == FilesOK /\ AckedBlobIsWhole

\* A file that is complete is never written again: PutBlob checks for it under
\* the lock, so neither a second upload nor a crash in it can damage a blob.
BlobsImmutable == [][\A b \in Blobs : blob[b] = Whole => blob'[b] = Whole]_diskVars

\* GetBlob returns the contents that PutBlob has acknowledged, as the demo
\* checks after StoreBlob and FetchBlob.
FetchedIsStored ==
  (fetched # None /\ fetched.contents # Absent /\ fetched.blob \in acked)
    => fetched.contents = Whole
=============================================================================
