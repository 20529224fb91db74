----------------------------- MODULE RotatingLog -----------------------------
(***************************************************************************)
(* The size-based rotation of the service log: RotatingWriter of           *)
(* cmd/lytecache/service/logs.go.  Write holds the lock to its end, so its *)
(* steps interleave only with the end of the process, after which another  *)
(* one opens the log again.  An entry is the number of its write.          *)
(***************************************************************************)
EXTENDS Naturals

CONSTANTS
  MaxBytes,     \* w.maxBytes
  MaxBackups,   \* w.maxBackups
  Lengths,      \* the lengths of the entries
  MaxWritten,   \* bound on the entries of a behaviour
  MaxFaults     \* bound on the operations the file system fails

ASSUME LimitsAssumption == MaxBytes \in Nat \ {0} /\ MaxBackups \in Nat \ {0}
ASSUME LengthsAssumption == Lengths \subseteq Nat
ASSUME BoundsAssumption == MaxWritten \in Nat /\ MaxFaults \in Nat

Slots == 0 .. MaxBackups   \* 0 is w.path, i the backup with the suffix .i
Files == [exists : BOOLEAN, entries : SUBSET (Nat \ {0}), bytes : Nat]
NoFile == [exists |-> FALSE, entries |-> {}, bytes |-> 0]
EmptyFile == [exists |-> TRUE, entries |-> {}, bytes |-> 0]

VARIABLES
  files,    \* what is on disk
  phase,    \* where Write is
  slot,     \* i of the loop in rotateLocked
  size,     \* w.size
  usable,   \* w.f is open; when it is not, Write fails and changes nothing
  length,   \* len(p) of the Write under way
  written,  \* history: how many entries were written
  intact,   \* history: no Rename failed so far
  faults    \* the operations that failed

vars == <<files, phase, slot, size, usable, length, written, intact, faults>>

TypeOK ==
  /\ files \in [Slots -> Files]
  /\ phase \in {"idle", "shift", "reopen", "append"}
  /\ slot \in 0 .. MaxBackups - 1 /\ size \in Nat
  /\ usable \in BOOLEAN /\ intact \in BOOLEAN
  /\ length \in Lengths \cup {0} /\ written \in Nat /\ faults \in Nat
  /\ usable => files[0].exists

\* NewRotatingWriter for a log that is not there yet.
Init ==
  /\ files = [i \in Slots |-> IF i = 0 THEN EmptyFile ELSE NoFile]
  /\ phase = "idle" /\ slot = 0 /\ size = 0 /\ usable = TRUE
  /\ length = 0 /\ written = 0 /\ intact = TRUE /\ faults = 0

-----------------------------------------------------------------------------

Fault == faults < MaxFaults /\ faults' = faults + 1

Fits(n) == size + n <= MaxBytes

Write(n) ==
  /\ phase = "idle" /\ usable /\ written < MaxWritten /\ Fits(n)
  /\ phase' = "append" /\ length' = n
  /\ UNCHANGED <<files, slot, size, usable, written, intact, faults>>

\* The entry does not fit: rotateLocked closes the file and begins to shift.
Rotate(n) ==
  /\ phase = "idle" /\ usable /\ written < MaxWritten /\ ~Fits(n)
  /\ usable' = FALSE
  /\ phase' = "shift" /\ slot' = MaxBackups - 1 /\ length' = n
  /\ UNCHANGED <<files, size, written, intact, faults>>

\* Close reports an error; the file is closed all the same.
CloseFails(n) ==
  /\ phase = "idle" /\ usable /\ written < MaxWritten /\ ~Fits(n)
  /\ usable' = FALSE
  /\ Fault
  /\ UNCHANGED <<files, phase, slot, size, length, written, intact>>

Renamed(i) == [files EXCEPT ![i] = NoFile, ![i + 1] = files[i]]

\* A backup moves up, over the oldest one if it is the last but one.
Shift ==
  /\ phase = "shift" /\ slot > 0
  /\ IF files[slot].exists THEN files' = Renamed(slot) ELSE UNCHANGED files
  /\ slot' = slot - 1
  /\ UNCHANGED <<phase, size, usable, length, written, intact, faults>>

\* Mutant of ShiftCurrent: the log itself is copied, not moved.
ShiftCurrentCopied ==
  /\ phase = "shift" /\ slot = 0
  /\ files' = [files EXCEPT ![1] = files[0]]
  /\ phase' = "reopen"
  /\ UNCHANGED <<slot, size, usable, length, written, intact, faults>>

\* The log becomes the first backup.
ShiftCurrent ==
  /\ phase = "shift" /\ slot = 0
  /\ files' = Renamed(0)
  /\ phase' = "reopen"
  /\ UNCHANGED <<slot, size, usable, length, written, intact, faults>>

\* The error of a Rename is ignored: the rotation goes on, and a log that was not
\* moved is opened again as if it were new.
RenameFails ==
  /\ phase = "shift"
  /\ IF slot > 0 THEN slot' = slot - 1 /\ UNCHANGED phase
                 ELSE phase' = "reopen" /\ UNCHANGED slot
  /\ intact' = FALSE
  /\ Fault
  /\ UNCHANGED <<files, size, usable, length, written>>

\* Mutants of Opened: O_TRUNC instead of O_APPEND; no O_CREATE.
OpenedTruncating == [files EXCEPT ![0] = EmptyFile]
OpenedWithoutCreate == files

\* OpenFile with O_CREATE and O_APPEND.
Opened == [files EXCEPT ![0] = IF files[0].exists THEN files[0] ELSE EmptyFile]

Reopen ==
  /\ phase = "reopen"
  /\ files' = Opened /\ usable' = TRUE /\ size' = 0
  /\ phase' = "append"
  /\ UNCHANGED <<slot, length, written, intact, faults>>

ReopenFails ==
  /\ phase = "reopen"
  /\ phase' = "idle"
  /\ Fault
  /\ UNCHANGED <<files, slot, size, usable, length, written, intact>>

Grown(entries, n) ==
  [files EXCEPT ![0] = [exists |-> TRUE, entries |-> files[0].entries \cup entries,
                        bytes |-> files[0].bytes + n]]

AppendEntry ==
  /\ phase = "append"
  /\ written' = written + 1
  /\ files' = Grown({written'}, length) /\ size' = size + length
  /\ phase' = "idle"
  /\ UNCHANGED <<slot, usable, length, intact, faults>>

\* f.Write fails after some bytes: the entry is lost.
AppendFails ==
  /\ phase = "append"
  /\ \E n \in 0 .. length : files' = Grown({}, n) /\ size' = size + n
  /\ phase' = "idle"
  /\ Fault
  /\ UNCHANGED <<slot, usable, length, written, intact>>

\* Mutant of Restart: the size of the log that is there is not taken over.
RestartFromZero ==
  /\ files' = Opened /\ size' = 0
  /\ usable' = TRUE /\ phase' = "idle"
  /\ UNCHANGED <<slot, length, written, intact, faults>>

\* The process ends anywhere, and NewRotatingWriter opens the log again.
Restart ==
  /\ files' = Opened /\ size' = files'[0].bytes
  /\ usable' = TRUE /\ phase' = "idle"
  /\ UNCHANGED <<slot, length, written, intact, faults>>

Next ==
  \/ \E n \in Lengths : Write(n) \/ Rotate(n) \/ CloseFails(n)
  \/ Shift \/ ShiftCurrent \/ RenameFails
  \/ Reopen \/ ReopenFails \/ AppendEntry \/ AppendFails \/ Restart

Spec == Init /\ [][Next]_vars

-----------------------------------------------------------------------------

Kept == UNION {files[i].entries : i \in Slots}

\* Reading the backups from the last to the first and then the log gives the
\* entries in the order they were written, each once, whatever failed.
InOrder ==
  \A i, j \in Slots : i < j => \A e \in files[i].entries, f \in files[j].entries : f < e

\* Until a rename fails the log is a bounded log: what is lost are its oldest
\* entries, whatever else fails and even if the process ends in the middle of a
\* rotation.
Log == INSTANCE BoundedLog WITH kept <- Kept
KeepsTheLatest == Log!Spec

\* logs.go: the constants "bound the rotated log's total disk footprint".  Until a
\* rename fails, a file is never longer than MaxBytes, or than the one entry that
\* is longer itself.
ShortFiles == \A i \in Slots : files[i].bytes <= MaxBytes \/ \E n \in Lengths : files[i].bytes <= n
FootprintBounded == intact => ShortFiles
=============================================================================
