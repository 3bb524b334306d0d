-------------------------- MODULE RotatingLogProofs --------------------------
(***************************************************************************)
(* What holds of RotatingLog for every cap, every number of files and      *)
(* records, and however many rotations fail or are cut short: no file      *)
(* exceeds the cap, the backups are in the order of their age, and         *)
(* rotation loses the oldest records only.                                 *)
(***************************************************************************)
EXTENDS RotatingLog, TLAPS

\* A rotation, and the constructor, have no file open.
NoneOpen == pc \in {"down", "boot", "remove", "shift", "open"} => file = "nil"

\* A record waits from Write until it is appended or given up, and is in no
\* file meanwhile.
Waiting ==
  /\ pc \in {"down", "boot", "ready"} => pending = 0
  /\ pc = "append" => pending > 0
  /\ pending > 0 => offered > 0 /\ \A k \in Slots : offered \notin content[k]

\* The record that is about to be appended fits.
Fits == pc = "append" /\ file = "open" => bytes[0] + pending <= MaxBytes

\* The slot that the next rename replaces is empty, also when an earlier
\* rotation stopped half way; when all have moved the active file is gone.
Shifting ==
  /\ pc = "shift" => i \in 0..(MaxFiles - 2) /\ content[i + 1] = {}
  /\ pc = "open" => bytes[0] = 0

LogInv ==
  /\ TypeOK /\ NoneOpen /\ Waiting /\ Fits /\ Shifting
  /\ FilesBounded /\ BackupsInOrder /\ OnlyOldestLost

LEMMA SlotsFacts ==
  /\ MaxFiles \in Nat \ {0} /\ MaxBytes \in Nat \ {0}
  /\ 0 \in Slots /\ MaxFiles - 1 \in Slots
  /\ \A k \in Slots : k \in Int /\ 0 <= k /\ k <= MaxFiles - 1
  /\ \A k \in 0..(MaxFiles - 2) : k \in Slots /\ k + 1 \in Slots
BY Parameters DEF Slots

\* Nothing on disk changes.
LEMMA DiskUnchanged ==
  ASSUME LogInv, UNCHANGED diskVars, accepted' = accepted
  PROVE  FilesBounded' /\ BackupsInOrder' /\ OnlyOldestLost'
BY DEF LogInv, diskVars, FilesBounded, BackupsInOrder, OnlyOldestLost

LEMMA LogStarts == Init => LogInv
<1> SUFFICES ASSUME Init PROVE LogInv
  OBVIOUS
<1>1. TypeOK
  BY SlotsFacts, Parameters DEF Init, TypeOK
<1>2. NoneOpen /\ Waiting /\ Fits /\ Shifting
  BY DEF Init, NoneOpen, Waiting, Fits, Shifting
<1>3. FilesBounded /\ BackupsInOrder /\ OnlyOldestLost
  BY SlotsFacts DEF Init, FilesBounded, BackupsInOrder, OnlyOldestLost
<1>4. QED
  BY <1>1, <1>2, <1>3 DEF LogInv

\* Write decides to rotate, or that the record fits.
LEMMA WriteKeeps ==
  ASSUME LogInv, NEW len \in Lengths, Write(len)
  PROVE  LogInv'
<1>0. trimRecord(len) \in 1..MaxBytes
  BY Parameters DEF trimRecord
<1>1. TypeOK'
  BY <1>0, Parameters DEF LogInv, TypeOK, Write, diskVars, fileVars, bounds
<1>2. NoneOpen' /\ Shifting'
  BY DEF LogInv, NoneOpen, Shifting, Write, fileVars
<1>3. Waiting'
  BY <1>0, Parameters DEF LogInv, TypeOK, Waiting, Write, diskVars
<1>4. Fits'
  BY <1>0, SlotsFacts DEF LogInv, TypeOK, FilesBounded, Fits, Write, diskVars, fileVars
<1>5. FilesBounded' /\ BackupsInOrder' /\ OnlyOldestLost'
  BY DiskUnchanged DEF Write
<1>6. QED
  BY <1>1, <1>2, <1>3, <1>4, <1>5 DEF LogInv

\* The newest record goes to the newest file, which has room for it.
LEMMA AppendKeeps ==
  ASSUME LogInv, Append
  PROVE  LogInv'
<1>1. /\ pending > 0 /\ pending \in 0..MaxBytes /\ offered \in 0..MaxRecords /\ offered > 0
      /\ \A k \in Slots : offered \notin content[k] /\ content[k] \in SUBSET (1..offered)
      /\ content \in [Slots -> SUBSET (1..offered)] /\ bytes \in [Slots -> Nat]
      /\ bytes[0] + pending <= MaxBytes /\ size = bytes[0]
      /\ accepted \subseteq 1..offered
  BY DEF LogInv, TypeOK, Waiting, Fits, Append
<1>2. /\ content' = [content EXCEPT ![0] = @ \cup {offered}]
      /\ bytes' = [bytes EXCEPT ![0] = @ + pending]
      /\ accepted' = accepted \cup {offered} /\ offered' = offered
      /\ size' = size + pending /\ file' = file /\ pc' = "ready" /\ pending' = 0
  BY DEF Append
<1>3. /\ content'[0] = content[0] \cup {offered}
      /\ \A k \in Slots : k # 0 => content'[k] = content[k]
  BY <1>1, <1>2, SlotsFacts
<1>4. /\ bytes'[0] = bytes[0] + pending
      /\ \A k \in Slots : k # 0 => bytes'[k] = bytes[k]
  BY <1>1, <1>2, SlotsFacts
<1>5. offered \in 1..offered /\ MaxRecords \in Nat
  BY <1>1, Parameters
<1>6. TypeOK'
  <2>1. content' \in [Slots -> SUBSET (1..offered)] /\ accepted' \subseteq 1..offered
    BY <1>1, <1>2, <1>5
  <2>2. bytes' \in [Slots -> Nat] /\ size' \in Nat
    BY <1>1, <1>2, SlotsFacts
  <2>3. QED
    BY <2>1, <2>2, <1>1, <1>2, <1>4, SlotsFacts DEF LogInv, TypeOK, Append, bounds
<1>7. NoneOpen' /\ Waiting' /\ Fits' /\ Shifting'
  BY <1>2 DEF NoneOpen, Waiting, Fits, Shifting
<1>8. FilesBounded'
  BY <1>1, <1>4 DEF LogInv, FilesBounded
<1>9. BackupsInOrder'
  <2> SUFFICES ASSUME NEW k \in Slots, NEW j \in 0..(k - 1),
                      NEW a \in content'[k], NEW b \in content'[j]
               PROVE  a < b
    BY DEF BackupsInOrder
  <2>1. k # 0 /\ j \in Slots /\ a \in content[k] /\ a \in 1..offered /\ a # offered
    BY <1>1, <1>3, SlotsFacts DEF Slots
  <2>2. CASE b \in content[j]
    BY <2>1, <2>2 DEF LogInv, BackupsInOrder
  <2>3. CASE b = offered
    BY <2>1, <2>3, <1>1
  <2>4. QED
    BY <2>1, <2>2, <2>3, <1>3
<1>10. OnlyOldestLost'
  <2> DEFINE kept == UNION {content[k] : k \in Slots}
             kept2 == UNION {content'[k] : k \in Slots}
  <2>1. kept2 = kept \cup {offered}
    BY <1>3, SlotsFacts
  <2>2. kept \subseteq 1..offered
    BY <1>1
  <2>3. \A a \in kept : \A b \in accepted : b > a => b \in kept
    BY DEF LogInv, OnlyOldestLost
  <2> HIDE DEF kept, kept2
  <2>4. \A a \in kept2 : \A b \in accepted' : b > a => b \in kept2
    BY <2>1, <2>2, <2>3, <1>1, <1>2
  <2>5. QED
    BY <2>4 DEF OnlyOldestLost, kept2
<1>11. QED
  BY <1>6, <1>7, <1>8, <1>9, <1>10 DEF LogInv

\* Part of a record may be left in the active file, never more than fits.
LEMMA AppendFailsKeeps ==
  ASSUME LogInv, AppendFails
  PROVE  LogInv'
<1>1. /\ pending \in 0..MaxBytes /\ bytes \in [Slots -> Nat] /\ file = "open"
      /\ bytes[0] + pending <= MaxBytes /\ size = bytes[0]
  BY DEF LogInv, TypeOK, Fits, AppendFails
<1>2. PICK n \in 0..(pending - 1) :
        bytes' = [bytes EXCEPT ![0] = @ + n] /\ size' = size + n
  BY DEF AppendFails
<1>3. /\ errors < MaxErrors /\ errors' = errors + 1 /\ pc' = "ready" /\ pending' = 0
      /\ UNCHANGED <<content, file, i, offered, accepted, crashes>>
  BY DEF AppendFails
<1>4. /\ bytes'[0] = bytes[0] + n /\ bytes' \in [Slots -> Nat]
      /\ \A k \in Slots : k # 0 => bytes'[k] = bytes[k]
  BY <1>1, <1>2, SlotsFacts
<1>5. TypeOK'
  <2>1. size' \in Nat /\ size' = bytes'[0] /\ errors' \in 0..MaxErrors /\ 0 \in 0..MaxBytes
    BY <1>1, <1>2, <1>3, <1>4, SlotsFacts, Parameters DEF LogInv, TypeOK
  <2>2. QED
    BY <2>1, <1>3, <1>4 DEF LogInv, TypeOK
<1>6. NoneOpen' /\ Waiting' /\ Fits' /\ Shifting'
  BY <1>3 DEF NoneOpen, Waiting, Fits, Shifting
<1>7. FilesBounded'
  <2>1. bytes'[0] <= MaxBytes
    BY <1>1, <1>2, <1>4, SlotsFacts
  <2>2. QED
    BY <2>1, <1>4 DEF LogInv, FilesBounded
<1>8. BackupsInOrder' /\ OnlyOldestLost'
  BY <1>3 DEF LogInv, BackupsInOrder, OnlyOldestLost
<1>9. QED
  BY <1>5, <1>6, <1>7, <1>8 DEF LogInv

\* The oldest slot is emptied: its records are older than all the others.
LEMMA RemoveOldestKeeps ==
  ASSUME LogInv, RemoveOldest
  PROVE  LogInv'
<1> DEFINE z == MaxFiles - 1
<1>1. /\ content \in [Slots -> SUBSET (1..offered)] /\ bytes \in [Slots -> Nat]
      /\ file = "nil" /\ pc = "remove"
  BY DEF LogInv, TypeOK, NoneOpen, RemoveOldest
<1>2. /\ content' = [content EXCEPT ![z] = {}] /\ bytes' = [bytes EXCEPT ![z] = 0]
      /\ i' = MaxFiles - 2 /\ pc' = IF MaxFiles = 1 THEN "open" ELSE "shift"
      /\ UNCHANGED <<size, file, pending, offered, accepted, crashes, errors>>
  BY DEF RemoveOldest, fileVars, bounds
<1>z. z \in Slots /\ z \in Int /\ (MaxFiles = 1 => z = 0)
  BY SlotsFacts
<1>y. MaxFiles # 1 => i' \in 0..(MaxFiles - 2) /\ i' + 1 = z
  BY <1>2, SlotsFacts
<1> HIDE DEF z
<1>3. /\ content'[z] = {} /\ \A k \in Slots : k # z => content'[k] = content[k]
      /\ bytes'[z] = 0 /\ \A k \in Slots : k # z => bytes'[k] = bytes[k]
  BY <1>1, <1>2, <1>z
<1>4. TypeOK'
  <2>1. content' \in [Slots -> SUBSET (1..offered)] /\ bytes' \in [Slots -> Nat]
    BY <1>1, <1>2, <1>z
  <2>2. i' \in -1..(MaxFiles - 1)
    BY <1>2, SlotsFacts
  <2>3. QED
    BY <2>1, <2>2, <1>1, <1>2 DEF LogInv, TypeOK
<1>5. NoneOpen' /\ Fits'
  BY <1>1, <1>2 DEF NoneOpen, Fits
<1>6. Waiting'
  BY <1>1, <1>2, <1>3 DEF LogInv, Waiting
<1>7. Shifting'
  BY <1>2, <1>3, <1>z, <1>y DEF Shifting
<1>8. FilesBounded'
  BY <1>3, SlotsFacts DEF LogInv, FilesBounded
<1>9. BackupsInOrder'
  <2> SUFFICES ASSUME NEW k \in Slots, NEW j \in 0..(k - 1),
                      NEW a \in content'[k], NEW b \in content'[j]
               PROVE  a < b
    BY DEF BackupsInOrder
  <2>1. j \in Slots /\ a \in content[k] /\ b \in content[j]
    BY <1>3, SlotsFacts DEF Slots
  <2>2. QED
    BY <2>1 DEF LogInv, BackupsInOrder
<1>10. OnlyOldestLost'
  <2> SUFFICES ASSUME NEW k \in Slots, NEW a \in content'[k], NEW b \in accepted, b > a
               PROVE  \E l \in Slots : b \in content'[l]
    BY <1>2 DEF OnlyOldestLost
  <2>1. k # z /\ a \in content[k]
    BY <1>3
  <2>2. PICK l \in Slots : b \in content[l]
    BY <2>1 DEF LogInv, OnlyOldestLost
  <2>3. l # z
    <3> SUFFICES ASSUME l = z PROVE FALSE
      OBVIOUS
    <3>1. k \in 0..(z - 1)
      BY <2>1, <1>z, SlotsFacts DEF z
    <3>2. b < a
      BY <3>1, <2>1, <2>2, <1>z DEF LogInv, BackupsInOrder
    <3>3. a \in Int /\ b \in Int
      BY <1>1, <2>1, <2>2
    <3>4. QED
      BY <3>2, <3>3
  <2>4. QED
    BY <2>2, <2>3, <1>3
<1>11. QED
  BY <1>4, <1>5, <1>6, <1>7, <1>8, <1>9, <1>10 DEF LogInv

\* A rename into an empty slot: the records and their order stay.
LEMMA RenameKeeps ==
  ASSUME LogInv, NEW k \in 0..(MaxFiles - 2), content[k + 1] = {}, renameTo(k)
  PROVE  /\ content' \in [Slots -> SUBSET (1..offered)] /\ bytes' \in [Slots -> Nat]
         /\ content'[k] = {} /\ bytes'[k] = 0
         /\ (\A n \in Slots : offered \notin content[n])
              => (\A n \in Slots : offered \notin content'[n])
         /\ FilesBounded' /\ BackupsInOrder'
         /\ accepted' = accepted => OnlyOldestLost'
<1>1. content \in [Slots -> SUBSET (1..offered)] /\ bytes \in [Slots -> Nat]
  BY DEF LogInv, TypeOK
<1>2. k \in Slots /\ k + 1 \in Slots /\ k # k + 1 /\ k \in Int
  BY SlotsFacts
<1>3. /\ content' = [content EXCEPT ![k] = {}, ![k + 1] = content[k]]
      /\ bytes' = [bytes EXCEPT ![k] = 0, ![k + 1] = bytes[k]]
  BY DEF renameTo
<1>4. /\ content'[k] = {} /\ content'[k + 1] = content[k]
      /\ \A n \in Slots : n # k /\ n # k + 1 => content'[n] = content[n]
      /\ bytes'[k] = 0 /\ bytes'[k + 1] = bytes[k]
      /\ \A n \in Slots : n # k /\ n # k + 1 => bytes'[n] = bytes[n]
  BY <1>1, <1>2, <1>3
<1>5. content' \in [Slots -> SUBSET (1..offered)] /\ bytes' \in [Slots -> Nat]
  BY <1>1, <1>2, <1>3
<1> DEFINE from(n) == IF n = k + 1 THEN k ELSE n
<1>6. \A n \in Slots : n # k => /\ from(n) \in Slots /\ content'[n] = content[from(n)]
                               /\ bytes'[n] = bytes[from(n)]
  BY <1>2, <1>4
<1>7. (\A n \in Slots : offered \notin content[n]) => (\A n \in Slots : offered \notin content'[n])
  BY <1>4, <1>6
<1>8. FilesBounded'
  BY <1>4, <1>6, SlotsFacts DEF LogInv, FilesBounded
<1>9. BackupsInOrder'
  <2> SUFFICES ASSUME NEW n \in Slots, NEW j \in 0..(n - 1),
                      NEW a \in content'[n], NEW b \in content'[j]
               PROVE  a < b
    BY DEF BackupsInOrder
  <2>1. j \in Slots /\ n # k /\ j # k /\ n \in Int /\ j \in Int
    BY <1>4, SlotsFacts DEF Slots
  <2>2. from(n) \in Slots /\ a \in content[from(n)] /\ b \in content[from(j)]
    BY <2>1, <1>6
  <2>3. from(j) \in 0..(from(n) - 1)
    BY <2>1, <1>2
  <2> HIDE DEF from
  <2>4. QED
    BY <2>2, <2>3 DEF LogInv, BackupsInOrder
<1>10. ASSUME accepted' = accepted PROVE OnlyOldestLost'
  <2> SUFFICES ASSUME NEW n \in Slots, NEW a \in content'[n], NEW b \in accepted, b > a
               PROVE  \E l \in Slots : b \in content'[l]
    BY <1>10 DEF OnlyOldestLost
  <2>1. from(n) \in Slots /\ a \in content[from(n)]
    BY <1>4, <1>6
  <2> HIDE DEF from
  <2>2. PICK l \in Slots : b \in content[l]
    BY <2>1 DEF LogInv, OnlyOldestLost
  <2>3. b \in content'[IF l = k THEN k + 1 ELSE l]
    BY <2>2, <1>2, <1>4
  <2>4. QED
    BY <2>3, <1>2
<1>11. QED
  BY <1>4, <1>5, <1>7, <1>8, <1>9, <1>10

LEMMA ShiftKeeps ==
  ASSUME LogInv, Shift \/ RenameActive
  PROVE  LogInv'
<1>1. pc = "shift" /\ file = "nil" /\ i \in 0..(MaxFiles - 2) /\ content[i + 1] = {}
  BY DEF LogInv, NoneOpen, Shifting, Shift, RenameActive
<1>2. /\ renameTo(i) /\ UNCHANGED <<size, file, pending, offered, accepted, crashes, errors>>
      /\ \/ pc' = "shift" /\ i' = i - 1 /\ i >= 1
         \/ pc' = "open" /\ i' = i /\ i = 0
  BY DEF Shift, RenameActive, fileVars, bounds
<1>3. /\ content' \in [Slots -> SUBSET (1..offered)] /\ bytes' \in [Slots -> Nat]
      /\ content'[i] = {} /\ bytes'[i] = 0
      /\ (\A n \in Slots : offered \notin content[n])
           => (\A n \in Slots : offered \notin content'[n])
      /\ FilesBounded' /\ BackupsInOrder' /\ OnlyOldestLost'
  BY <1>1, <1>2, RenameKeeps
<1>4. i' \in 0..(MaxFiles - 2) /\ i' \in -1..(MaxFiles - 1)
  BY <1>1, <1>2, SlotsFacts
<1>5. TypeOK'
  BY <1>1, <1>2, <1>3, <1>4 DEF LogInv, TypeOK
<1>6. NoneOpen' /\ Fits'
  BY <1>1, <1>2 DEF NoneOpen, Fits
<1>7. Waiting'
  BY <1>1, <1>2, <1>3 DEF LogInv, Waiting
<1>8. Shifting'
  BY <1>1, <1>2, <1>3, <1>4 DEF Shifting
<1>9. QED
  BY <1>3, <1>5, <1>6, <1>7, <1>8 DEF LogInv

\* The steps that touch no file: opening, closing, giving up, starting and
\* stopping.
LEMMA QuietKeeps ==
  ASSUME LogInv,
         \/ AppendNil \/ CloseActive \/ openLocked \/ CloseFails
         \/ RotationFails \/ Start \/ Crash \/ UNCHANGED vars
  PROVE  LogInv'
<1>0. UNCHANGED diskVars /\ accepted' = accepted /\ offered' = offered
  BY DEF AppendNil, CloseActive, openLocked, CloseFails, RotationFails, Start, Crash,
         vars
<1>1. FilesBounded' /\ BackupsInOrder' /\ OnlyOldestLost'
  BY <1>0, DiskUnchanged
<1>2. /\ TypeOK /\ NoneOpen /\ Waiting /\ Fits /\ Shifting /\ FilesBounded
      /\ content' = content /\ bytes' = bytes
  BY <1>0 DEF LogInv, diskVars
<1> USE SlotsFacts, Parameters DEF fileVars, bounds
<1>3. CASE AppendNil
  BY <1>1, <1>2, <1>3 DEF AppendNil, LogInv, TypeOK, NoneOpen, Waiting, Fits, Shifting
<1>4. CASE CloseActive
  BY <1>1, <1>2, <1>4 DEF CloseActive, LogInv, TypeOK, NoneOpen, Waiting, Fits, Shifting
<1>5. CASE openLocked
  <2>1. bytes[0] \in Nat /\ pending \in 0..MaxBytes
    BY <1>2 DEF TypeOK
  <2>2. TypeOK' /\ NoneOpen' /\ Shifting'
    BY <1>2, <1>5, <2>1 DEF openLocked, TypeOK, NoneOpen, Shifting
  <2>3. Waiting' /\ Fits'
    BY <1>2, <1>5, <2>1 DEF openLocked, Waiting, Fits, Shifting
  <2>4. QED
    BY <1>1, <2>2, <2>3 DEF LogInv
<1>6. CASE CloseFails
  <2>1. TypeOK'
    BY <1>2, <1>6 DEF CloseFails, TypeOK
  <2>2. NoneOpen' /\ Waiting' /\ Fits' /\ Shifting'
    BY <1>2, <1>6 DEF CloseFails, TypeOK, NoneOpen, Waiting, Fits, Shifting
  <2>3. QED
    BY <1>1, <2>1, <2>2 DEF LogInv
<1>7. CASE RotationFails
  <2>1. TypeOK'
    BY <1>2, <1>7 DEF RotationFails, TypeOK
  <2>2. NoneOpen' /\ Waiting' /\ Fits' /\ Shifting'
    BY <1>2, <1>7 DEF RotationFails, TypeOK, NoneOpen, Waiting, Fits, Shifting
  <2>3. QED
    BY <1>1, <2>1, <2>2 DEF LogInv
<1>8. CASE Start
  BY <1>1, <1>2, <1>8 DEF Start, LogInv, TypeOK, NoneOpen, Waiting, Fits, Shifting
<1>9. CASE Crash
  <2>1. TypeOK'
    BY <1>2, <1>9 DEF Crash, TypeOK
  <2>2. NoneOpen' /\ Waiting' /\ Fits' /\ Shifting'
    BY <1>2, <1>9 DEF Crash, NoneOpen, Waiting, Fits, Shifting
  <2>3. QED
    BY <1>1, <2>1, <2>2 DEF LogInv
<1>10. CASE UNCHANGED vars
  BY <1>1, <1>2, <1>10 DEF vars, LogInv, TypeOK, NoneOpen, Waiting, Fits, Shifting
<1>11. QED
  BY <1>3, <1>4, <1>5, <1>6, <1>7, <1>8, <1>9, <1>10

LEMMA LogInvHolds == Spec => []LogInv
<1>1. LogInv /\ [Next]_vars => LogInv'
  BY WriteKeeps, AppendKeeps, AppendFailsKeeps, RemoveOldestKeeps, ShiftKeeps, QuietKeeps
  DEF Next
<1>2. QED
  BY <1>1, LogStarts, PTL DEF Spec

\* The writer's variables keep their types, and w.size is the length of the
\* open file.
THEOREM LogTypeCorrect == Spec => []TypeOK
<1>1. LogInv => TypeOK
  BY DEF LogInv
<1>2. QED
  BY <1>1, LogInvHolds, PTL

\* For every cap and every number of files no file exceeds the cap, wherever
\* rotations failed or the process stopped.
THEOREM LogFilesBounded == Spec => []FilesBounded
<1>1. LogInv => FilesBounded
  BY DEF LogInv
<1>2. QED
  BY <1>1, LogInvHolds, PTL

\* The backups are always in the order of their age, also those that an
\* unfinished rotation has left with a gap between them.
THEOREM LogBackupsInOrder == Spec => []BackupsInOrder
<1>1. LogInv => BackupsInOrder
  BY DEF LogInv
<1>2. QED
  BY <1>1, LogInvHolds, PTL

\* No rotation, finished or not, loses a record that is newer than one it
\* keeps.
THEOREM LogLosesOldest == Spec => []OnlyOldestLost
<1>1. LogInv => OnlyOldestLost
  BY DEF LogInv
<1>2. QED
  BY <1>1, LogInvHolds, PTL
=============================================================================
