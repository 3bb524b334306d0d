----------------------------- MODULE RotatingLog -----------------------------
(***************************************************************************)
(* RotatingFile of internal/logging/logging.go: the active log file and    *)
(* its numbered backups.  Writers are serialised by w.mu, so Write is      *)
(* followed step by step only where the process may stop, or a call on the *)
(* file system fail, in the middle of a rotation.                          *)
(*                                                                         *)
(* Slot 0 is the active file, slot i the backup path.i.  A slot holds the  *)
(* numbers of the records written to it, in no order but that of the       *)
(* numbers; a missing file is a slot with nothing in it.                   *)
(***************************************************************************)
EXTENDS Integers, FiniteSets

CONSTANTS
  MaxBytes,    \* cap on a file
  MaxFiles,    \* files kept, the active one included
  Lengths,     \* lengths of records before trimRecord
  MaxRecords,  \* bound: records offered
  MaxCrashes,  \* bound: times the process stops
  MaxErrors    \* bound: failing calls

Slots == 0..(MaxFiles - 1)

ASSUME Parameters ==
  /\ MaxBytes \in Nat \ {0} /\ MaxFiles \in Nat \ {0}
  /\ Lengths \subseteq Nat \ {0}
  /\ MaxRecords \in Nat /\ MaxCrashes \in Nat /\ MaxErrors \in Nat

VARIABLES
  content,  \* the records in each slot
  bytes,    \* the length of each file
  size,     \* w.size
  file,     \* w.file: nil, open, or closed by a Close that failed
  pc,       \* where the writer is
  i,        \* the loop variable of rotateLocked
  pending,  \* length of the record that waits for the rotation, 0 in the constructor
  offered,  \* records passed to Write
  accepted, \* records Write has returned no error for
  crashes, errors

diskVars == <<content, bytes>>
fileVars == <<size, file>>
bounds == <<crashes, errors>>
vars == <<diskVars, fileVars, pc, i, pending, offered, accepted, bounds>>

Init ==
  /\ content = [k \in Slots |-> {}] /\ bytes = [k \in Slots |-> 0]
  /\ size = 0 /\ file = "nil"
  /\ pc = "down" /\ i = 0 /\ pending = 0
  /\ offered = 0 /\ accepted = {} /\ crashes = 0 /\ errors = 0

\* trimRecord: no record is longer than a file may be.
trimRecord(len) == IF len <= MaxBytes THEN len ELSE MaxBytes

-----------------------------------------------------------------------------
(* Write                                                                   *)

\* Variant: off by one in the decision to rotate.
WriteOffByOne(len) ==
  /\ pc = "ready"
  /\ offered < MaxRecords
  /\ offered' = offered + 1
  /\ pending' = trimRecord(len)
  /\ pc' = IF size > 0 /\ size + trimRecord(len) > MaxBytes + 1 THEN "close" ELSE "append"
  /\ UNCHANGED <<diskVars, fileVars, i, accepted, bounds>>

\* Write up to the decision to rotate.
Write(len) ==
  /\ pc = "ready"
  /\ offered < MaxRecords
  /\ offered' = offered + 1
  /\ pending' = trimRecord(len)
  /\ pc' = IF size > 0 /\ size + trimRecord(len) > MaxBytes THEN "close" ELSE "append"
  /\ UNCHANGED <<diskVars, fileVars, i, accepted, bounds>>

\* The record is appended to the active file.
Append ==
  /\ pc = "append"
  /\ file = "open"
  /\ content' = [content EXCEPT ![0] = @ \cup {offered}]
  /\ bytes' = [bytes EXCEPT ![0] = @ + pending]
  /\ size' = size + pending
  /\ accepted' = accepted \cup {offered}
  /\ pc' = "ready" /\ pending' = 0
  /\ UNCHANGED <<file, i, offered, bounds>>

\* The disk is full: a part of the record may have been written.
AppendFails ==
  /\ pc = "append"
  /\ file = "open"
  /\ errors < MaxErrors
  /\ errors' = errors + 1
  /\ \E n \in 0..(pending - 1) :
       /\ bytes' = [bytes EXCEPT ![0] = @ + n]
       /\ size' = size + n
  /\ pc' = "ready" /\ pending' = 0
  /\ UNCHANGED <<content, file, i, offered, accepted, crashes>>

\* After a failed rotation there is no usable file: Write returns an error.
AppendNil ==
  /\ pc = "append"
  /\ file # "open"
  /\ pc' = "ready" /\ pending' = 0
  /\ UNCHANGED <<diskVars, fileVars, i, offered, accepted, bounds>>

-----------------------------------------------------------------------------
(* rotateLocked                                                            *)

\* The active file is closed, if there is one.
CloseActive ==
  /\ pc = "close"
  /\ file # "closed"
  /\ file' = "nil"
  /\ pc' = "remove"
  /\ UNCHANGED <<diskVars, size, i, pending, offered, accepted, bounds>>

\* The oldest backup goes, or the active file when there are no backups.
RemoveOldest ==
  /\ pc = "remove"
  /\ content' = [content EXCEPT ![MaxFiles - 1] = {}]
  /\ bytes' = [bytes EXCEPT ![MaxFiles - 1] = 0]
  /\ i' = MaxFiles - 2
  /\ pc' = IF MaxFiles = 1 THEN "open" ELSE "shift"
  /\ UNCHANGED <<fileVars, pending, offered, accepted, bounds>>

\* Variant: a copy, and the old file stays.
renameToCopies(k) ==
  /\ content' = [content EXCEPT ![k + 1] = content[k]]
  /\ bytes' = [bytes EXCEPT ![k + 1] = bytes[k]]

\* os.Rename of one slot to the next, which it replaces.
renameTo(k) ==
  /\ content' = [content EXCEPT ![k] = {}, ![k + 1] = content[k]]
  /\ bytes' = [bytes EXCEPT ![k] = 0, ![k + 1] = bytes[k]]

\* The loop over the backups, oldest first.
Shift ==
  /\ pc = "shift"
  /\ i >= 1
  /\ renameTo(i)
  /\ i' = i - 1
  /\ UNCHANGED <<fileVars, pc, pending, offered, accepted, bounds>>

RenameActive ==
  /\ pc = "shift"
  /\ i = 0
  /\ renameTo(0)
  /\ pc' = "open"
  /\ UNCHANGED <<fileVars, i, pending, offered, accepted, bounds>>

\* Variant: O_TRUNC for O_APPEND.
openLockedTruncates ==
  /\ pc \in {"open", "boot"}
  /\ file' = "open" /\ size' = 0
  /\ content' = [content EXCEPT ![0] = {}] /\ bytes' = [bytes EXCEPT ![0] = 0]
  /\ pc' = IF pending > 0 THEN "append" ELSE "ready"
  /\ UNCHANGED <<i, pending, offered, accepted, bounds>>

\* openLocked: the size is that of the file found.  The constructor rotates a
\* file that is full.
openLocked ==
  /\ pc \in {"open", "boot"}
  /\ file' = "open" /\ size' = bytes[0]
  /\ pc' = IF pc = "boot" THEN IF bytes[0] >= MaxBytes THEN "close" ELSE "ready"
           ELSE IF pending > 0 THEN "append" ELSE "ready"
  /\ UNCHANGED <<diskVars, i, pending, offered, accepted, bounds>>

\* file.Close fails: Write returns an error, and w.file stays set.  A file can
\* be closed once only, so from then on every rotation fails here.
CloseFails ==
  /\ pc = "close"
  /\ \/ file = "closed" /\ UNCHANGED errors
     \/ file = "open" /\ errors < MaxErrors /\ errors' = errors + 1
  /\ file' = IF pending > 0 THEN "closed" ELSE "nil"
  /\ pc' = IF pending > 0 THEN "ready" ELSE "down"
  /\ pending' = 0
  /\ UNCHANGED <<diskVars, size, i, offered, accepted, crashes>>

\* Another call of rotateLocked or openLocked fails: Write returns an error with
\* w.file nil and w.size unchanged; the constructor fails.
RotationFails ==
  /\ pc \in {"remove", "shift", "open", "boot"}
  /\ errors < MaxErrors
  /\ errors' = errors + 1
  /\ pc' = IF pending > 0 THEN "ready" ELSE "down"
  /\ pending' = 0
  /\ UNCHANGED <<diskVars, fileVars, i, offered, accepted, crashes>>

-----------------------------------------------------------------------------

\* NewRotatingFile.
Start ==
  /\ pc = "down"
  /\ pc' = "boot"
  /\ UNCHANGED <<diskVars, fileVars, i, pending, offered, accepted, bounds>>

Crash ==
  /\ pc # "down"
  /\ crashes < MaxCrashes
  /\ crashes' = crashes + 1
  /\ pc' = "down" /\ file' = "nil" /\ size' = 0 /\ pending' = 0
  /\ UNCHANGED <<diskVars, i, offered, accepted, errors>>

Next ==
  \/ \E len \in Lengths : Write(len)
  \/ Append \/ AppendFails \/ AppendNil
  \/ CloseActive \/ RemoveOldest \/ Shift \/ RenameActive \/ openLocked
  \/ CloseFails \/ RotationFails
  \/ Start \/ Crash

Spec == Init /\ [][Next]_vars

-----------------------------------------------------------------------------

\* Every variable has its type; while the file is open w.size is its length.
TypeOK ==
  /\ content \in [Slots -> SUBSET (1..offered)]
  /\ bytes \in [Slots -> Nat]
  /\ size \in Nat /\ file \in {"nil", "open", "closed"}
  /\ pc \in {"down", "boot", "ready", "append", "close", "remove", "shift", "open"}
  /\ i \in -1..(MaxFiles - 1)
  /\ pending \in 0..MaxBytes
  /\ offered \in 0..MaxRecords
  /\ accepted \subseteq 1..offered
  /\ crashes \in 0..MaxCrashes /\ errors \in 0..MaxErrors
  /\ file = "open" => size = bytes[0]

\* No log file ever exceeds the cap, through rotations that fail or are cut
\* short and through restarts on what they left.
FilesBounded == \A k \in Slots : bytes[k] <= MaxBytes

\* A backup holds only older records than every slot with a lower number.
BackupsInOrder ==
  \A k \in Slots : \A j \in 0..(k - 1) :
    \A a \in content[k] : \A b \in content[j] : a < b

\* Rotation loses the oldest records only: whatever was accepted after a record
\* that is still on disk is on disk too.
OnlyOldestLost ==
  LET kept == UNION {content[k] : k \in Slots}
  IN \A a \in kept : \A b \in accepted : b > a => b \in kept

=============================================================================
