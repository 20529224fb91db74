---------------------------- MODULE ServiceProofs ----------------------------
(***************************************************************************)
(* Proofs about the background service: its log (RotatingLog) and the      *)
(* commands that install, start and stop it (ServiceControl), each about   *)
(* its own variables.                                                      *)
(***************************************************************************)
EXTENDS RotatingLog, ServiceControl, TLAPS

-----------------------------------------------------------------------------
(* RotatingLog, for any sizes and numbers of backups, any number of faults *)
(* and crashes anywhere in a rotation.                                     *)
(*                                                                         *)
(* The order of the entries needs only that files are moved one place up   *)
(* and written at the end.  That nothing but the oldest is lost, and that  *)
(* the files stay short, needs more: a backup is overwritten only after it *)
(* was moved away itself, and w.size is the size of the file w.f is.       *)

Numbered == \A i \in Slots : \A e \in files[i].entries : e <= written
GoneIsEmpty == \A i \in Slots : ~files[i].exists => files[i].entries = {} /\ files[i].bytes = 0

ClosedInRotation == phase \in {"shift", "reopen"} => ~usable

OInv == TypeOK /\ Numbered /\ GoneIsEmpty /\ ClosedInRotation /\ InOrder

\* The file a rename would overwrite has been moved, or is the oldest backup.
Vacated == phase = "shift" /\ slot + 1 < MaxBackups => ~files[slot + 1].exists
Moved == phase = "reopen" => ~files[0].exists
SizeKnown == usable => size = files[0].bytes
AppendFits ==
  phase = "append" => usable /\ length \in Lengths /\ (size = 0 \/ size + length <= MaxBytes)
LengthKnown == phase # "idle" => length \in Lengths
NoHole == Log!Latest(Kept, written)

GInv ==
  /\ OInv /\ Vacated /\ Moved /\ SizeKnown /\ AppendFits /\ LengthKnown
  /\ NoHole /\ ShortFiles

LogInv == OInv /\ (intact => GInv)

-----------------------------------------------------------------------------

LEMMA SlotFacts ==
  /\ MaxBackups \in Nat /\ MaxBackups > 0 /\ MaxBytes \in Nat /\ 0 \in Slots
  /\ \A i \in 0 .. MaxBackups - 1 : i \in Slots /\ i + 1 \in Slots /\ i \in Nat
  /\ \A i \in Slots : i \in Nat /\ i <= MaxBackups
BY LimitsAssumption DEF Slots

\* What a rename does to the files.
LEMMA RenamedFiles ==
  ASSUME TypeOK, NEW i \in 0 .. MaxBackups - 1
  PROVE  /\ Renamed(i) \in [Slots -> Files]
         /\ Renamed(i)[i] = NoFile /\ Renamed(i)[i + 1] = files[i]
         /\ \A j \in Slots \ {i, i + 1} : Renamed(i)[j] = files[j]
<1>1. /\ i \in Slots /\ i + 1 \in Slots /\ i # i + 1
      /\ files \in [Slots -> Files] /\ files[i] \in Files
  BY SlotFacts DEF TypeOK
<1>2. NoFile \in Files
  <2>1. {} \in SUBSET (Nat \ {0}) /\ FALSE \in BOOLEAN
    OBVIOUS
  <2> QED
    BY <2>1 DEF NoFile, Files
<1> QED
  BY <1>1, <1>2 DEF Renamed

LEMMA OpenedFiles ==
  ASSUME TypeOK, GoneIsEmpty
  PROVE  /\ Opened \in [Slots -> Files] /\ Opened[0].exists
         /\ Opened[0].entries = files[0].entries /\ Opened[0].bytes = files[0].bytes
         /\ \A j \in Slots \ {0} : Opened[j] = files[j]
BY SlotFacts DEF TypeOK, Opened, Files, EmptyFile, GoneIsEmpty

LEMMA GrownFiles ==
  ASSUME TypeOK, NEW S \in SUBSET (Nat \ {0}), NEW n \in Nat
  PROVE  /\ Grown(S, n) \in [Slots -> Files] /\ Grown(S, n)[0].exists
         /\ Grown(S, n)[0].entries = files[0].entries \cup S
         /\ Grown(S, n)[0].bytes = files[0].bytes + n
         /\ \A j \in Slots \ {0} : Grown(S, n)[j] = files[j]
<1> DEFINE file == [exists |-> TRUE, entries |-> files[0].entries \cup S,
                    bytes |-> files[0].bytes + n]
<1>1. files \in [Slots -> Files] /\ 0 \in Slots /\ files[0] \in Files
  BY SlotFacts DEF TypeOK
<1>2. /\ TRUE \in BOOLEAN /\ files[0].entries \cup S \in SUBSET (Nat \ {0})
      /\ files[0].bytes + n \in Nat
  <2>1. files[0].entries \in SUBSET (Nat \ {0}) /\ files[0].bytes \in Nat
    BY <1>1 DEF Files
  <2>2. files[0].bytes + n \in Nat
    BY <2>1
  <2> QED
    BY <2>1, <2>2
<1>3. file \in Files
  BY <1>2 DEF Files
<1> QED
  BY <1>1, <1>3 DEF Grown

\* An entry is kept if it is in some file.
LEMMA KeptMembers == \A e : e \in Kept <=> \E i \in Slots : e \in files[i].entries
BY DEF Kept

\* Members of TypeOK that a proof refers to.
LEMMA FileFacts ==
  ASSUME TypeOK, NEW i \in Slots
  PROVE  /\ files[i].exists \in BOOLEAN /\ files[i].bytes \in Nat
         /\ \A e \in files[i].entries : e \in Nat /\ e > 0
BY DEF TypeOK, Files

-----------------------------------------------------------------------------

\* Every change of the files is one of four: none, a rename one place up, an open
\* that creates the log, or bytes and at most one new entry at its end.
LEMMA Changes ==
  ASSUME OInv, [Next]_vars
  PROVE  \/ files' = files /\ written' = written
         \/ /\ \E i \in 0 .. MaxBackups - 1 : files' = Renamed(i)
            /\ written' = written
         \/ files' = Opened /\ written' = written
         \/ \E n \in Nat : /\ files' = Grown({written'}, n) /\ written' = written + 1
         \/ \E n \in Nat : files' = Grown({}, n) /\ written' = written
<1> USE DEF OInv, TypeOK
<1>1. ASSUME NEW n \in Lengths, Write(n) \/ Rotate(n) \/ CloseFails(n)
      PROVE  files' = files /\ written' = written
  BY <1>1 DEF Write, Rotate, CloseFails
<1>2. CASE Shift
  BY <1>2 DEF Shift
<1>3. CASE ShiftCurrent
  <2>1. 0 \in 0 .. MaxBackups - 1
    BY SlotFacts
  <2> QED
    BY <1>3, <2>1 DEF ShiftCurrent
<1>4. CASE AppendEntry
  <2>1. length \in Nat
    BY LengthsAssumption
  <2> QED
    BY <1>4, <2>1 DEF AppendEntry
<1>5. CASE AppendFails
  <2>1. length \in Nat
    BY LengthsAssumption
  <2>2. PICK n \in 0 .. length : files' = Grown({}, n)
    BY <1>5 DEF AppendFails
  <2>3. n \in Nat
    BY <2>1, <2>2
  <2> QED
    BY <1>5, <2>2, <2>3 DEF AppendFails
<1>6. CASE Reopen \/ Restart
  BY <1>6 DEF Reopen, Restart
<1>7. CASE RenameFails \/ ReopenFails \/ UNCHANGED vars
  BY <1>7 DEF RenameFails, ReopenFails, vars
<1> QED
  BY <1>1, <1>2, <1>3, <1>4, <1>5, <1>6, <1>7 DEF Next
-----------------------------------------------------------------------------

LEMMA InitOrder == Init => OInv
<1> SUFFICES ASSUME Init PROVE OInv
  OBVIOUS
<1>1. /\ files = [i \in Slots |-> IF i = 0 THEN EmptyFile ELSE NoFile]
      /\ phase = "idle" /\ slot = 0 /\ size = 0 /\ length = 0 /\ written = 0 /\ faults = 0
  BY DEF Init
<1>2. EmptyFile \in Files /\ NoFile \in Files
  <2>1. {} \in SUBSET (Nat \ {0}) /\ FALSE \in BOOLEAN /\ TRUE \in BOOLEAN
    OBVIOUS
  <2> QED
    BY <2>1 DEF EmptyFile, NoFile, Files
<1>3. /\ files \in [Slots -> Files] /\ files[0].exists
      /\ \A i \in Slots : files[i].entries = {} /\ files[i].bytes = 0
  BY <1>1, <1>2, SlotFacts DEF EmptyFile, NoFile
<1>4. usable \in BOOLEAN /\ intact \in BOOLEAN
  BY DEF Init
<1>5. /\ phase \in {"idle", "shift", "reopen", "append"}
      /\ slot \in 0 .. MaxBackups - 1 /\ size \in Nat
      /\ length \in Lengths \cup {0} /\ written \in Nat /\ faults \in Nat
  BY <1>1, SlotFacts
<1> QED
  BY <1>3, <1>4, <1>5, <1>1 DEF OInv, TypeOK, Numbered, GoneIsEmpty, ClosedInRotation,
     InOrder

\* Type and order are kept by every step, whatever fails.
LEMMA NextOrder == OInv /\ [Next]_vars => OInv'
<1> SUFFICES ASSUME OInv, [Next]_vars PROVE OInv'
  OBVIOUS
<1> USE SlotFacts
<1>0. TypeOK /\ Numbered /\ GoneIsEmpty /\ InOrder /\ written \in Nat
  BY DEF OInv, TypeOK
<1>1. files' \in [Slots -> Files] /\ Numbered' /\ GoneIsEmpty' /\ InOrder'
  <2>1. CASE files' = files /\ written' = written
    BY <1>0, <2>1 DEF TypeOK, Numbered, GoneIsEmpty, InOrder
  <2>2. ASSUME NEW i \in 0 .. MaxBackups - 1, files' = Renamed(i), written' = written
        PROVE  files' \in [Slots -> Files] /\ Numbered' /\ GoneIsEmpty' /\ InOrder'
    <3>1. /\ files' \in [Slots -> Files] /\ i \in Slots /\ i + 1 \in Slots /\ i \in Nat
          /\ files'[i].entries = {} /\ files'[i].bytes = 0
          /\ files'[i + 1] = files[i]
          /\ \A j \in Slots \ {i, i + 1} : files'[j] = files[j]
      BY <1>0, <2>2, RenamedFiles DEF NoFile
    <3>2. InOrder'
      <4> SUFFICES ASSUME NEW j \in Slots, NEW k \in Slots, j < k,
                          NEW e \in files'[j].entries, NEW f \in files'[k].entries
                   PROVE  f < e
        BY DEF InOrder
      <4>1. j # i /\ k # i
        BY <3>1
      <4>2. CASE j = i + 1
        <5>1. k \notin {i, i + 1} /\ i < k
          BY <4>2, <3>1
        <5> QED
          BY <1>0, <3>1, <4>2, <5>1 DEF InOrder
      <4>3. CASE k = i + 1
        <5>1. j \notin {i, i + 1} /\ j < i
          BY <4>1, <4>3, <3>1
        <5> QED
          BY <1>0, <3>1, <4>3, <5>1 DEF InOrder
      <4>4. CASE j # i + 1 /\ k # i + 1
        BY <1>0, <3>1, <4>1, <4>4 DEF InOrder
      <4> QED
        BY <4>2, <4>3, <4>4
    <3>3. Numbered' /\ GoneIsEmpty'
      BY <1>0, <2>2, <3>1 DEF Numbered, GoneIsEmpty
    <3> QED
      BY <3>1, <3>2, <3>3
  <2>3. CASE files' = Opened /\ written' = written
    <3>1. /\ files' \in [Slots -> Files] /\ files'[0].exists
          /\ \A j \in Slots : files'[j].entries = files[j].entries
          /\ \A j \in Slots \ {0} : files'[j] = files[j]
      BY <1>0, <2>3, OpenedFiles
    <3> QED
      BY <1>0, <2>3, <3>1 DEF Numbered, GoneIsEmpty, InOrder
  <2>4. ASSUME NEW n \in Nat, files' = Grown({written'}, n), written' = written + 1
        PROVE  files' \in [Slots -> Files] /\ Numbered' /\ GoneIsEmpty' /\ InOrder'
    <3>1. PICK S \in SUBSET (Nat \ {0}) : S = {written'}
      BY <1>0, <2>4
    <3>2. /\ files' \in [Slots -> Files] /\ files'[0].exists
          /\ files'[0].entries = files[0].entries \cup {written'}
          /\ \A j \in Slots \ {0} : files'[j] = files[j]
      <4>1. files' = Grown(S, n)
        BY <2>4, <3>1
      <4>2. /\ files' \in [Slots -> Files] /\ files'[0].exists
            /\ files'[0].entries = files[0].entries \cup S
            /\ \A j \in Slots \ {0} : files'[j] = files[j]
        <5>1. /\ Grown(S, n) \in [Slots -> Files] /\ Grown(S, n)[0].exists
              /\ Grown(S, n)[0].entries = files[0].entries \cup S
              /\ \A j \in Slots \ {0} : Grown(S, n)[j] = files[j]
          BY <1>0, GrownFiles
        <5> QED
          BY <4>1, <5>1
      <4> QED
        BY <3>1, <4>2
    <3>3. Numbered'
      <4> SUFFICES ASSUME NEW j \in Slots, NEW e \in files'[j].entries PROVE e <= written'
        BY DEF Numbered
      <4>1. e = written' \/ e \in files[j].entries
        BY <3>2
      <4> QED
        BY <1>0, <2>4, <4>1, FileFacts DEF Numbered
    <3>4. InOrder'
      <4> SUFFICES ASSUME NEW j \in Slots, NEW k \in Slots, j < k,
                          NEW e \in files'[j].entries, NEW f \in files'[k].entries
                   PROVE  f < e
        BY DEF InOrder
      <4>1. k # 0 /\ f \in files[k].entries /\ f <= written /\ f \in Nat
        BY <1>0, <3>2, FileFacts DEF Numbered
      <4>2. e = written' \/ e \in files[j].entries
        BY <3>2
      <4> QED
        BY <1>0, <2>4, <4>1, <4>2 DEF InOrder
    <3> QED
      BY <1>0, <3>2, <3>3, <3>4 DEF GoneIsEmpty
  <2>5. ASSUME NEW n \in Nat, files' = Grown({}, n), written' = written
        PROVE  files' \in [Slots -> Files] /\ Numbered' /\ GoneIsEmpty' /\ InOrder'
    <3>1. PICK S \in SUBSET (Nat \ {0}) : S = {}
      OBVIOUS
    <3>2. /\ files' \in [Slots -> Files] /\ files'[0].exists
          /\ \A j \in Slots : files'[j].entries = files[j].entries
          /\ \A j \in Slots \ {0} : files'[j] = files[j]
      <4>1. files' = Grown(S, n)
        BY <2>5, <3>1
      <4>2. /\ files' \in [Slots -> Files] /\ files'[0].exists
            /\ files'[0].entries = files[0].entries \cup S
            /\ \A j \in Slots \ {0} : files'[j] = files[j]
        <5>1. /\ Grown(S, n) \in [Slots -> Files] /\ Grown(S, n)[0].exists
              /\ Grown(S, n)[0].entries = files[0].entries \cup S
              /\ \A j \in Slots \ {0} : Grown(S, n)[j] = files[j]
          BY <1>0, GrownFiles
        <5> QED
          BY <4>1, <5>1
      <4>3. files'[0].entries = files[0].entries
        BY <3>1, <4>2
      <4> QED
        BY <4>2, <4>3
    <3> QED
      BY <1>0, <2>5, <3>2 DEF Numbered, GoneIsEmpty, InOrder
  <2> QED
    BY <2>1, <2>2, <2>3, <2>4, <2>5, Changes
<1>2. /\ phase' \in {"idle", "shift", "reopen", "append"} /\ slot' \in 0 .. MaxBackups - 1
      /\ length' \in Lengths \cup {0} /\ faults' \in Nat /\ written' \in Nat
  BY <1>0 DEF TypeOK, Next, vars, Write, Rotate, CloseFails, Shift, ShiftCurrent,
     RenameFails, Reopen, ReopenFails, AppendEntry, AppendFails, Restart, Fault
<1>3. usable' \in BOOLEAN /\ intact' \in BOOLEAN
  <2>1. usable' \in {usable, FALSE, TRUE} /\ intact' \in {intact, FALSE}
    BY DEF Next, vars, Write, Rotate, CloseFails, Shift, ShiftCurrent,
       RenameFails, Reopen, ReopenFails, AppendEntry, AppendFails, Restart
  <2> QED
    BY <1>0, <2>1 DEF TypeOK
<1>4. size' \in Nat
  <2>1. length \in Nat /\ size \in Nat
    BY <1>0, LengthsAssumption DEF TypeOK
  <2>2. CASE AppendEntry \/ Reopen
    BY <2>1, <2>2 DEF AppendEntry, Reopen
  <2>3. CASE AppendFails
    <3>1. PICK n \in 0 .. length : size' = size + n
      BY <2>3 DEF AppendFails
    <3> QED
      BY <2>1, <3>1
  <2>4. CASE Restart
    BY <1>1, <2>4 DEF Restart, Files
  <2> QED
    BY <2>1, <2>2, <2>3, <2>4 DEF Next, vars, Write, Rotate, CloseFails, Shift,
       ShiftCurrent, RenameFails, ReopenFails
<1>5. usable' => files'[0].exists
  <2>1. CASE files' = files /\ (usable' => usable)
    BY <1>0, <2>1 DEF TypeOK
  <2>2. CASE Shift \/ ShiftCurrent
    BY <1>0, <2>2 DEF Shift, ShiftCurrent, OInv, ClosedInRotation
  <2>3. CASE Reopen \/ Restart
    BY <1>0, <2>3, OpenedFiles DEF Reopen, Restart
  <2>4. CASE AppendEntry \/ AppendFails
    <3>1. PICK n \in Nat, S \in SUBSET (Nat \ {0}) : files' = Grown(S, n)
      <4>1. {written + 1} \in SUBSET (Nat \ {0}) /\ {} \in SUBSET (Nat \ {0})
        BY <1>0
      <4>2. length \in Nat
        BY <1>0, LengthsAssumption DEF TypeOK
      <4>3. CASE AppendEntry
        BY <4>1, <4>2, <4>3 DEF AppendEntry
      <4>4. CASE AppendFails
        <5>1. PICK n \in 0 .. length : files' = Grown({}, n)
          BY <4>4 DEF AppendFails
        <5> QED
          BY <4>1, <4>2, <5>1
      <4> QED
        BY <2>4, <4>3, <4>4
    <3> QED
      BY <1>0, <3>1, GrownFiles
  <2> QED
    BY <2>1, <2>2, <2>3, <2>4 DEF Next, vars, Write, Rotate, CloseFails,
       RenameFails, ReopenFails
<1>6. ClosedInRotation'
  BY DEF OInv, ClosedInRotation, Next, vars, Write, Rotate, CloseFails, Shift,
     ShiftCurrent, RenameFails, Reopen, ReopenFails, AppendEntry, AppendFails, Restart
<1> QED
  BY <1>1, <1>2, <1>3, <1>4, <1>5, <1>6 DEF OInv, TypeOK
-----------------------------------------------------------------------------
\* From here on: what holds until a rename fails.

\* A step that leaves the entries of each file leaves the entries kept.
LEMMA SameEntries ==
  ASSUME \A j \in Slots : files'[j].entries = files[j].entries
  PROVE  Kept' = Kept
BY DEF Kept

\* What a step does to the entries kept: one more at the end, or fewer at the
\* beginning.
LEMMA KeptStep ==
  ASSUME GInv, [Next]_vars, intact'
  PROVE  \/ written' = written + 1 /\ Kept' = Kept \cup {written'}
         \/ written' = written /\ Kept' \subseteq Kept /\ Log!Latest(Kept', written)
<1> USE SlotFacts
<1>0. /\ TypeOK /\ Numbered /\ GoneIsEmpty /\ InOrder /\ OInv
      /\ Log!Latest(Kept, written) /\ written \in Nat
  BY DEF GInv, OInv, NoHole, TypeOK
<1>1. ASSUME written' = written, \A j \in Slots : files'[j].entries = files[j].entries
      PROVE  written' = written /\ Kept' \subseteq Kept /\ Log!Latest(Kept', written)
  BY <1>0, <1>1, SameEntries
<1>2. ASSUME NEW i \in 0 .. MaxBackups - 1, files' = Renamed(i), written' = written,
             i + 1 = MaxBackups \/ files[i + 1].entries = {}
      PROVE  Kept' \subseteq Kept /\ Log!Latest(Kept', written)
  <2>1. /\ i \in Slots /\ i + 1 \in Slots /\ i \in Nat
        /\ files'[i].entries = {} /\ files'[i + 1] = files[i]
        /\ \A j \in Slots \ {i, i + 1} : files'[j] = files[j]
    BY <1>0, <1>2, RenamedFiles DEF NoFile
  <2>2. \A e : e \in Kept' <=> \E j \in Slots : e \in files'[j].entries
    BY DEF Kept
  <2>3. Kept' \subseteq Kept
    BY <2>1, <2>2, KeptMembers
  <2>4. ASSUME NEW e \in Kept', NEW n \in e .. written
        PROVE  n \in Kept'
    <3>1. e \in Kept /\ e \in Nat /\ n \in Nat /\ e <= n
      BY <1>0, <2>3, <2>4 DEF Log!Latest
    <3>2. n \in Kept
      BY <1>0, <3>1, <2>4 DEF Log!Latest
    <3>3. PICK k \in Slots : n \in files[k].entries
      BY <3>2, KeptMembers
    <3>4. CASE k # i + 1
      <4>1. k = i \/ files'[k] = files[k]
        BY <2>1, <3>4
      <4> QED
        BY <2>1, <2>2, <3>3, <4>1
    <3>5. CASE k = i + 1
      <4>1. k = MaxBackups
        BY <1>2, <3>3, <3>5
      <4>2. PICK j \in Slots : e \in files'[j].entries
        BY <2>2, <2>4
      <4>3. \E m \in Slots : m # k /\ e \in files[m].entries
        <5>1. j # i
          BY <2>1, <4>2
        <5>2. CASE j = i + 1
          BY <2>1, <3>5, <4>2, <5>2
        <5>3. CASE j # i + 1
          BY <2>1, <3>5, <4>2, <5>1, <5>3
        <5> QED
          BY <5>2, <5>3
      <4>4. PICK m \in Slots : m # k /\ e \in files[m].entries
        BY <4>3
      <4>5. m < k
        BY <4>1, <4>4
      <4>6. n < e
        BY <1>0, <3>3, <4>4, <4>5 DEF InOrder
      <4> QED
        BY <3>1, <4>6
    <3> QED
      BY <3>4, <3>5
  <2> QED
    BY <1>0, <2>3, <2>4 DEF Log!Latest
<1>3. CASE AppendEntry
  <2>1. written' = written + 1 /\ files' = Grown({written'}, length) /\ length \in Nat
    BY <1>0, <1>3, LengthsAssumption DEF AppendEntry, TypeOK
  <2>2. PICK S \in SUBSET (Nat \ {0}) : S = {written'}
    BY <1>0, <2>1
  <2>3. /\ files'[0].entries = files[0].entries \cup S
        /\ \A j \in Slots \ {0} : files'[j] = files[j]
    <3>1. /\ Grown(S, length)[0].entries = files[0].entries \cup S
          /\ \A j \in Slots \ {0} : Grown(S, length)[j] = files[j]
      BY <1>0, <2>1, GrownFiles
    <3> QED
      BY <2>1, <2>2, <3>1
  <2>4. \A e : e \in Kept' <=> \E j \in Slots : e \in files'[j].entries
    BY DEF Kept
  <2>5. \A e : e \in Kept' <=> e \in Kept \/ e = written'
    BY <2>2, <2>3, <2>4, KeptMembers
  <2>6. Kept' = Kept \cup {written'}
    BY <2>5
  <2> QED
    BY <2>1, <2>6
<1>4. CASE AppendFails
  <2>1. length \in Nat
    BY <1>0, LengthsAssumption DEF TypeOK
  <2>2. PICK n \in Nat : files' = Grown({}, n)
    BY <1>4, <2>1 DEF AppendFails
  <2>3. PICK S \in SUBSET (Nat \ {0}) : S = {}
    OBVIOUS
  <2>4. /\ Grown(S, n)[0].entries = files[0].entries \cup S
        /\ \A j \in Slots \ {0} : Grown(S, n)[j] = files[j]
    BY <1>0, GrownFiles
  <2>5. \A j \in Slots : files'[j].entries = files[j].entries
    BY <2>2, <2>3, <2>4
  <2> QED
    BY <1>1, <1>4, <2>5 DEF AppendFails
<1>5. CASE Shift
  <2>1. CASE ~files[slot].exists
    BY <1>1, <1>5, <2>1 DEF Shift
  <2>2. CASE files[slot].exists
    <3>1. slot + 1 = MaxBackups \/ files[slot + 1].entries = {}
      BY <1>0, <1>5 DEF Shift, GInv, Vacated, GoneIsEmpty, TypeOK
    <3>2. slot \in 0 .. MaxBackups - 1 /\ files' = Renamed(slot) /\ written' = written
      BY <1>0, <1>5, <2>2 DEF Shift, TypeOK
    <3> QED
      BY <1>2, <3>1, <3>2
  <2> QED
    BY <2>1, <2>2
<1>6. CASE ShiftCurrent
  <2>1. 0 + 1 = MaxBackups \/ files[0 + 1].entries = {}
    BY <1>0, <1>6 DEF ShiftCurrent, GInv, Vacated, GoneIsEmpty, TypeOK
  <2>2. 0 \in 0 .. MaxBackups - 1 /\ files' = Renamed(0) /\ written' = written
    BY <1>6 DEF ShiftCurrent
  <2> QED
    BY <1>2, <2>1, <2>2
<1>7. CASE Reopen \/ Restart
  BY <1>0, <1>1, <1>7, OpenedFiles DEF Reopen, Restart
<1>8. CASE files' = files /\ written' = written
  BY <1>1, <1>8
<1> QED
  BY <1>3, <1>4, <1>5, <1>6, <1>7, <1>8 DEF Next, vars, Write, Rotate, CloseFails,
     RenameFails, ReopenFails

LEMMA InitGood == Init => GInv
<1> SUFFICES ASSUME Init PROVE GInv
  OBVIOUS
<1>1. OInv
  BY InitOrder
<1>2. /\ phase = "idle" /\ size = 0 /\ written = 0
      /\ \A i \in Slots : files[i].entries = {} /\ files[i].bytes = 0
  BY SlotFacts DEF Init, EmptyFile, NoFile
<1>3. Kept = {}
  BY <1>2 DEF Kept
<1>4. NoHole
  BY <1>3 DEF NoHole, Log!Latest
<1> QED
  BY <1>1, <1>2, <1>4, SlotFacts DEF GInv, Vacated, Moved, SizeKnown, AppendFits,
     LengthKnown, ShortFiles

\* The loop of rotateLocked: each rename finds its target gone.
LEMMA NextVacated ==
  ASSUME GInv, [Next]_vars, intact'
  PROVE  Vacated' /\ Moved'
<1> USE SlotFacts
<1>0. TypeOK /\ GoneIsEmpty /\ Vacated /\ Moved /\ slot \in Nat /\ slot \in 0 .. MaxBackups - 1
  BY DEF GInv, OInv, TypeOK
<1>1. CASE Shift
  <2>1. CASE files[slot].exists
    <3>1. files' = Renamed(slot) /\ files'[slot] = NoFile
      BY <1>0, <1>1, <2>1, RenamedFiles DEF Shift
    <3> QED
      BY <1>0, <1>1, <3>1 DEF Shift, Vacated, Moved, NoFile
  <2>2. CASE ~files[slot].exists
    BY <1>0, <1>1, <2>2 DEF Shift, Vacated, Moved
  <2> QED
    BY <2>1, <2>2
<1>2. CASE ShiftCurrent
  <2>1. files' = Renamed(0) /\ files'[0] = NoFile
    BY <1>0, <1>2, RenamedFiles DEF ShiftCurrent
  <2> QED
    BY <1>2, <2>1 DEF ShiftCurrent, Vacated, Moved, NoFile
<1>3. ASSUME NEW n \in Lengths, Rotate(n) PROVE Vacated' /\ Moved'
  BY <1>0, <1>3 DEF Rotate, Vacated, Moved
<1>4. CASE files' = files /\ phase' = phase /\ slot' = slot
  BY <1>0, <1>4 DEF Vacated, Moved
<1>5. CASE phase' \in {"idle", "append"}
  BY <1>5 DEF Vacated, Moved
<1> QED
  BY <1>1, <1>2, <1>3, <1>4, <1>5 DEF Next, vars, Write, CloseFails,
     RenameFails, Reopen, ReopenFails, AppendEntry, AppendFails, Restart

\* Every step keeps w.size equal to the size of the file, and the files short.
LEMMA NextSizes ==
  ASSUME GInv, [Next]_vars, intact'
  PROVE  SizeKnown' /\ AppendFits' /\ LengthKnown' /\ ShortFiles'
<1> USE SlotFacts
<1>0. /\ TypeOK /\ GoneIsEmpty /\ ClosedInRotation /\ Moved /\ SizeKnown /\ AppendFits
      /\ LengthKnown /\ ShortFiles /\ size \in Nat
      /\ \A i \in Slots : files[i].bytes \in Nat
  BY FileFacts DEF GInv, OInv, TypeOK
<1>1. ASSUME NEW n \in Lengths, Write(n) \/ Rotate(n) \/ CloseFails(n)
      PROVE  SizeKnown' /\ AppendFits' /\ LengthKnown' /\ ShortFiles'
  BY <1>0, <1>1 DEF Write, Rotate, CloseFails, Fits, SizeKnown, AppendFits, LengthKnown,
     ShortFiles
<1>2. ASSUME NEW i \in 0 .. MaxBackups - 1, files' = Renamed(i)
      PROVE  ShortFiles'
  <2>1. /\ i \in Slots /\ i + 1 \in Slots /\ files'[i].bytes = 0
        /\ files'[i + 1] = files[i]
        /\ \A j \in Slots \ {i, i + 1} : files'[j] = files[j]
    BY <1>0, <1>2, RenamedFiles DEF NoFile
  <2>2. ASSUME NEW j \in Slots
        PROVE  files'[j].bytes = 0 \/ \E k \in Slots : files'[j].bytes = files[k].bytes
    BY <2>1
  <2> QED
    BY <1>0, <2>2 DEF ShortFiles
<1>3. CASE Shift
  <2>1. ShortFiles'
    BY <1>0, <1>2, <1>3 DEF Shift, TypeOK, ShortFiles
  <2> QED
    BY <1>0, <1>3, <2>1 DEF Shift, SizeKnown, AppendFits, LengthKnown, ClosedInRotation
<1>4. CASE ShiftCurrent
  <2>1. 0 \in 0 .. MaxBackups - 1
    OBVIOUS
  <2>2. ShortFiles'
    BY <1>2, <1>4, <2>1 DEF ShiftCurrent
  <2> QED
    BY <1>0, <1>4, <2>2 DEF ShiftCurrent, SizeKnown, AppendFits, LengthKnown,
       ClosedInRotation
<1>5. CASE Reopen \/ Restart
  <2>1. \A i \in Slots : files'[i].bytes = files[i].bytes
    BY <1>0, <1>5, OpenedFiles DEF Reopen, Restart
  <2>2. Reopen => files'[0].bytes = 0
    BY <1>0, <2>1 DEF Reopen, Moved, GoneIsEmpty
  <2>3. ShortFiles'
    BY <1>0, <2>1 DEF ShortFiles
  <2>4. CASE Reopen
    BY <1>0, <2>2, <2>3, <2>4 DEF Reopen, SizeKnown, AppendFits, LengthKnown
  <2>5. CASE Restart
    BY <1>0, <2>3, <2>5 DEF Restart, SizeKnown, AppendFits, LengthKnown
  <2> QED
    BY <1>5, <2>4, <2>5
<1>6. CASE AppendEntry \/ AppendFails
  <2>1. /\ length \in Nat /\ length \in Lengths /\ usable /\ size = files[0].bytes
        /\ size = 0 \/ size + length <= MaxBytes
    BY <1>0, <1>6, LengthsAssumption DEF AppendEntry, AppendFails, AppendFits, SizeKnown
  <2>2. PICK n \in 0 .. length, S \in SUBSET (Nat \ {0}) :
          files' = Grown(S, n) /\ size' = size + n
    <3>1. {written + 1} \in SUBSET (Nat \ {0}) /\ {} \in SUBSET (Nat \ {0})
      BY <1>0 DEF TypeOK
    <3>2. length \in 0 .. length
      BY <2>1
    <3>3. CASE AppendEntry
      BY <3>1, <3>2, <3>3 DEF AppendEntry
    <3>4. CASE AppendFails
      BY <3>1, <3>4 DEF AppendFails
    <3> QED
      BY <1>6, <3>3, <3>4
  <2>3. /\ n \in Nat /\ n <= length
        /\ files'[0].bytes = files[0].bytes + n
        /\ \A j \in Slots \ {0} : files'[j] = files[j]
    <3>1. n \in Nat /\ n <= length
      BY <2>1
    <3>2. /\ Grown(S, n)[0].bytes = files[0].bytes + n
          /\ \A j \in Slots \ {0} : Grown(S, n)[j] = files[j]
      BY <1>0, <3>1, GrownFiles
    <3> QED
      BY <2>2, <3>1, <3>2
  <2>4. files'[0].bytes <= MaxBytes \/ files'[0].bytes <= length
    BY <1>0, <2>1, <2>3
  <2>5. ShortFiles'
    BY <1>0, <2>1, <2>3, <2>4 DEF ShortFiles
  <2>6. phase' = "idle" /\ length' = length /\ usable' = usable
    BY <1>6 DEF AppendEntry, AppendFails
  <2> QED
    BY <1>0, <2>1, <2>2, <2>3, <2>5, <2>6 DEF SizeKnown, AppendFits, LengthKnown
<1>7. CASE ReopenFails
  BY <1>0, <1>7 DEF ReopenFails, SizeKnown, AppendFits, LengthKnown, ShortFiles
<1>8. CASE UNCHANGED vars
  BY <1>0, <1>8 DEF vars, SizeKnown, AppendFits, LengthKnown, ShortFiles
<1> QED
  BY <1>1, <1>3, <1>4, <1>5, <1>6, <1>7, <1>8 DEF Next, RenameFails

\* Every step with renames intact keeps what holds then.
LEMMA NextGood == GInv /\ intact' /\ [Next]_vars => GInv'
<1> SUFFICES ASSUME GInv, [Next]_vars, intact' PROVE GInv'
  OBVIOUS
<1>1. OInv'
  BY NextOrder DEF GInv
<1>2. Vacated' /\ Moved'
  BY NextVacated
<1>3. SizeKnown' /\ AppendFits' /\ LengthKnown' /\ ShortFiles'
  BY NextSizes
<1>4. NoHole'
  <2>1. Log!Latest(Kept, written) /\ written \in Nat
    BY DEF GInv, OInv, NoHole, TypeOK
  <2>2. CASE written' = written + 1 /\ Kept' = Kept \cup {written'}
    <3>1. Kept' \subseteq 1 .. written'
      BY <2>1, <2>2 DEF Log!Latest
    <3>2. ASSUME NEW e \in Kept', NEW n \in e .. written' PROVE n \in Kept'
      BY <2>1, <2>2, <3>1 DEF Log!Latest
    <3> QED
      BY <3>1, <3>2 DEF NoHole, Log!Latest
  <2>3. CASE written' = written /\ Log!Latest(Kept', written)
    BY <2>3 DEF NoHole, Log!Latest
  <2> QED
    BY <2>2, <2>3, KeptStep
<1> QED
  BY <1>1, <1>2, <1>3, <1>4 DEF GInv

\* intact is never set again.
LEMMA IntactStays == [Next]_vars /\ intact' => intact
BY DEF Next, vars, Write, Rotate, CloseFails, Shift, ShiftCurrent, RenameFails, Reopen,
   ReopenFails, AppendEntry, AppendFails, Restart

\* Every step keeps the invariant.
LEMMA LogInvStep == LogInv /\ [Next]_vars => LogInv'
<1> SUFFICES ASSUME LogInv, [Next]_vars PROVE LogInv'
  OBVIOUS
<1>1. OInv'
  BY NextOrder DEF LogInv
<1>2. ASSUME intact' PROVE GInv'
  BY <1>2, IntactStays, NextGood DEF LogInv
<1> QED
  BY <1>1, <1>2 DEF LogInv

-----------------------------------------------------------------------------

THEOREM OrderInvariance == Spec => []OInv
BY InitOrder, NextOrder, PTL DEF Spec

\* The writer and its files keep their type, whatever fails and wherever it crashes.
THEOREM LogTypeCorrect == Spec => []TypeOK
<1>1. OInv => TypeOK
  BY DEF OInv
<1> QED
  BY <1>1, OrderInvariance, PTL

\* The entries read from the last backup to the log are in the order of the writes.
THEOREM AlwaysInOrder == Spec => []InOrder
<1>1. OInv => InOrder
  BY DEF OInv
<1> QED
  BY <1>1, OrderInvariance, PTL

THEOREM LogInvariance == Spec => []LogInv
<1>1. Init => LogInv
  BY InitOrder, InitGood DEF LogInv
<1> QED
  BY <1>1, LogInvStep, PTL DEF Spec

\* Until a rename fails, no file outgrows its limit, or the one entry that does so
\* itself.
THEOREM FootprintAlwaysBounded == Spec => []FootprintBounded
<1>1. LogInv => FootprintBounded
  BY DEF LogInv, GInv, FootprintBounded
<1> QED
  BY <1>1, LogInvariance, PTL

\* The rotated log implements the bounded log.
THEOREM LogRefinement == Spec => KeepsTheLatest
<1>1. Init => Log!Init
  <2>1. Init => Kept = {}
    BY SlotFacts DEF Init, EmptyFile, NoFile, Kept
  <2> QED
    BY <2>1 DEF Init, Log!Init
<1>2. LogInv /\ [Next]_vars => [Log!Next]_(Log!vars)
  <2> SUFFICES ASSUME LogInv, [Next]_vars PROVE [Log!Next]_(Log!vars)
    OBVIOUS
  <2>1. intact' \in BOOLEAN
    BY LogInvStep DEF LogInv, OInv, TypeOK
  <2>2. CASE intact' = FALSE
    BY <2>2 DEF Log!Next, Log!Fault
  <2>3. CASE intact'
    <3>1. GInv /\ intact /\ intact \in BOOLEAN
      BY <2>3, IntactStays DEF LogInv, OInv, TypeOK
    <3>2. intact' = intact
      BY <2>1, <2>3, <3>1
    <3>3. CASE written' = written + 1 /\ Kept' = Kept \cup {written'}
      BY <3>1, <3>2, <3>3 DEF Log!Next, Log!AppendEntry
    <3>4. CASE written' = written /\ Kept' \subseteq Kept /\ Log!Latest(Kept', written)
      BY <3>1, <3>2, <3>4 DEF Log!Next, Log!DropOldest
    <3> QED
      BY <2>3, <3>1, <3>3, <3>4, KeptStep
  <2> QED
    BY <2>1, <2>2, <2>3
<1> QED
  BY <1>1, <1>2, LogInvariance, PTL DEF Spec, KeepsTheLatest, Log!Spec

-----------------------------------------------------------------------------
(* ServiceControl, for any set of process identifiers.                      *)

\* Only a process past StartFunc has written its State.
WritersRun == \A u \in wrote : stage[u] \in {"serving", "deaf", "stopping"}

ControlInv == ControlTypeOK /\ WritersRun /\ StateFollowsServer

\* --system aside, a platform has one OS unit: the one BuildConfig(nil, false) names.
LEMMA OneOSUnit ==
  ASSUME platform \in Platforms, NEW u \in UnitsOf(platform), u \notin {"task", "system"}
  PROVE  u = IF platform = "windows" THEN "scm" ELSE "user"
BY DEF Platforms, UnitsOf

LEMMA UnitsKnown == \A os \in Platforms : UnitsOf(os) \subseteq Units
BY DEF Platforms, UnitsOf, Units

\* Every initial state satisfies the invariant.
LEMMA ControlInvInit == ControlInit => ControlInv
BY DEF ControlInit, ControlInv, ControlTypeOK, WritersRun, StateFollowsServer, Stages,
   Running

\* The commands of the operator leave the processes and their files alone.
LEMMA CommandsStep ==
  ASSUME ControlInv,
         \/ \E u \in Units : Install(u) \/ InstallUnrecorded(u)
         \/ Uninstall
  PROVE  ControlInv'
<1>1. ControlTypeOK'
  <2>1. ASSUME NEW u \in Units, Install(u) PROVE ControlTypeOK'
    BY <2>1 DEF Install, Procs, Method, ControlInv, ControlTypeOK
  <2>2. ASSUME NEW u \in Units, InstallUnrecorded(u) PROVE ControlTypeOK'
    BY <2>2 DEF InstallUnrecorded, Procs, ControlInv, ControlTypeOK
  <2>3. ASSUME Uninstall PROVE ControlTypeOK'
    BY <2>3 DEF Uninstall, Procs, ControlInv, ControlTypeOK
  <2> QED BY <2>1, <2>2, <2>3
<1>2. UNCHANGED Procs
  BY DEF Install, InstallUnrecorded, Uninstall
<1> QED
  BY <1>1, <1>2 DEF Procs, ControlInv, WritersRun, StateFollowsServer, Running

\* A process that starts, builds its server, fails, or is told to stop.
LEMMA ProcessStep ==
  ASSUME ControlInv, NEW u \in Units,
         Start(u) \/ Built(u) \/ BuiltUnwritten(u) \/ ServeFails(u) \/ StopSent(u)
  PROVE  ControlInv'
<1> USE DEF Registry
<1>1. CASE Start(u)
  <2>1. stage' = [stage EXCEPT ![u] = "launched"] /\ u \notin wrote
    BY <1>1 DEF Start, Running, ControlInv, WritersRun
  <2>2. PICK p \in Pids : pid' = [pid EXCEPT ![u] = p]
    BY <1>1 DEF Start
  <2>3. ControlTypeOK'
    BY <1>1, <2>1, <2>2 DEF Start, ControlInv, ControlTypeOK, Stages
  <2> QED
    BY <1>1, <2>1, <2>2, <2>3 DEF Start, ControlInv, ControlTypeOK, WritersRun,
       StateFollowsServer, Running
<1>2. CASE Built(u)
  BY <1>2 DEF Built, ControlInv, ControlTypeOK, Stages, WritersRun, StateFollowsServer,
     Running
<1>3. CASE BuiltUnwritten(u)
  <2>1. PICK s \in {state[u], NoPid} : state' = [state EXCEPT ![u] = s]
    BY <1>3 DEF BuiltUnwritten
  <2>2. u \notin wrote
    BY <1>3 DEF BuiltUnwritten, ControlInv, WritersRun
  <2> QED
    BY <1>3, <2>1, <2>2 DEF BuiltUnwritten, ControlInv, ControlTypeOK, Stages, WritersRun,
       StateFollowsServer, Running
<1>4. CASE ServeFails(u)
  BY <1>4 DEF ServeFails, ControlInv, ControlTypeOK, Stages, WritersRun,
     StateFollowsServer, Running
<1>5. CASE StopSent(u)
  BY <1>5 DEF StopSent, ControlInv, ControlTypeOK, Stages, WritersRun,
     StateFollowsServer, Running
<1> QED BY <1>1, <1>2, <1>3, <1>4, <1>5

\* A process that ends, other than cleanly, leaves the state file to nobody.
LEMMA AbruptExitStep ==
  ASSUME ControlInv, NEW u \in Units, ExitedAbruptly(u)
  PROVE  ControlInv'
BY DEF ExitedAbruptly, Exited, Registry, ControlInv, ControlTypeOK, Stages, WritersRun,
   StateFollowsServer, Running

\* A clean one takes the state file with it.
LEMMA CleanExitStep ==
  ASSUME ControlInv, NEW u \in Units, ExitedCleanly(u)
  PROVE  ControlInv'
BY DEF ExitedCleanly, Exited, Registry, ControlInv, ControlTypeOK, Stages, WritersRun,
   StateFollowsServer, Running

\* Every step keeps the invariant.
LEMMA ControlInvStep == ControlInv /\ [ControlNext]_controlVars => ControlInv'
<1> SUFFICES ASSUME ControlInv, [ControlNext]_controlVars PROVE ControlInv'
  OBVIOUS
<1>1. ASSUME NEW u \in Units, BuildFails(u) \/ Kill(u) PROVE ControlInv'
  BY <1>1, AbruptExitStep DEF BuildFails, Kill
<1>2. ASSUME NEW u \in Units, NEW shutdown \in BOOLEAN, NEW removed \in BOOLEAN,
             StopFunc(u, shutdown, removed)
      PROVE  ControlInv'
  BY <1>2, AbruptExitStep, CleanExitStep DEF StopFunc
<1>3. Addressed \in registered => Addressed \in Units
  BY UnitsKnown DEF ControlInv, ControlTypeOK
<1>4. CASE End
  BY <1>3, <1>4, AbruptExitStep DEF End
<1>5. CASE Stop
  BY <1>3, <1>5, ProcessStep DEF Stop
<1>6. CASE UNCHANGED controlVars
  BY <1>6 DEF controlVars, Registry, Procs, ControlInv, ControlTypeOK, WritersRun,
     StateFollowsServer, Running
<1> QED
  BY <1>1, <1>2, <1>4, <1>5, <1>6, CommandsStep, ProcessStep DEF ControlNext, HostStops

\* The invariant holds throughout.
THEOREM ControlInvariance == ControlSpec => []ControlInv
BY ControlInvInit, ControlInvStep, PTL DEF ControlSpec

\* The registrations, the processes and their files keep their types.
THEOREM ControlTypeCorrect == ControlSpec => []ControlTypeOK
<1>1. ControlInv => ControlTypeOK
  BY DEF ControlInv
<1> QED BY <1>1, ControlInvariance, PTL

\* The state file is that of the running server that wrote it, and gone after a
\* clean stop.
THEOREM StateAlwaysFollowsServer == ControlSpec => []StateFollowsServer
<1>1. ControlInv => StateFollowsServer
  BY DEF ControlInv
<1> QED BY <1>1, ControlInvariance, PTL

-----------------------------------------------------------------------------

\* --system aside, the unit that the last install reported is the one the other
\* commands address, on every platform.
THEOREM ControlAlwaysReachesInstall == ControlSpec => []ControlReachesInstall
<1>1. ControlInit => ControlReachesInstall
  BY DEF ControlInit, ControlReachesInstall
<1>2. ControlInv /\ ControlReachesInstall /\ [ControlNext]_controlVars => ControlReachesInstall'
  <2> SUFFICES ASSUME ControlInv, ControlReachesInstall, [ControlNext]_controlVars
               PROVE  ControlReachesInstall'
    OBVIOUS
  <2>1. ASSUME NEW u \in Units, Install(u) PROVE ControlReachesInstall'
    <3>1. /\ record' = Method(u) /\ installed' = u /\ platform' = platform
          /\ platform \in Platforms /\ u \in UnitsOf(platform)
      BY <2>1 DEF Install, ControlInv, ControlTypeOK
    <3>2. CASE u = "task"
      <4>1. record' = "scheduled-task" /\ installed' = "task"
        BY <3>1, <3>2 DEF Method
      <4>2. Addressed' = "task"
        BY <4>1 DEF Addressed
      <4> QED BY <4>1, <4>2 DEF ControlReachesInstall
    <3>3. CASE u = "system"
      BY <3>1, <3>3 DEF ControlReachesInstall
    <3>4. CASE u \notin {"task", "system"}
      <4>1. u = IF platform = "windows" THEN "scm" ELSE "user"
        BY <3>1, <3>4, OneOSUnit
      <4> QED BY <3>1, <3>4, <4>1 DEF ControlReachesInstall, Addressed, Method
    <3> QED BY <3>2, <3>3, <3>4
  <2>2. ASSUME NEW u \in Units, InstallUnrecorded(u) PROVE ControlReachesInstall'
    BY <2>2 DEF InstallUnrecorded, ControlReachesInstall
  <2>3. CASE Uninstall
    BY <2>3 DEF Uninstall, ControlReachesInstall, Addressed
  <2>4. CASE UNCHANGED Registry
    BY <2>4 DEF Registry, ControlReachesInstall, Addressed
  <2> QED
    BY <2>1, <2>2, <2>3, <2>4 DEF ControlNext, controlVars, Start, Stop, HostStops,
       StopSent, Built,
       BuiltUnwritten, BuildFails, ServeFails, StopFunc, Kill, End, Exited,
       ExitedAbruptly, ExitedCleanly
<1> QED BY <1>1, <1>2, ControlInvariance, PTL DEF ControlSpec
=============================================================================
