----------------------------- MODULE BoundedLog -----------------------------
(***************************************************************************)
(* What a rotated log promises: it keeps the latest entries without a hole *)
(* and gives up the oldest ones only, as long as the file system lets it.  *)
(* Entries are numbered as written.                                        *)
(***************************************************************************)
EXTENDS Naturals

VARIABLES
  written,  \* how many entries have been written
  kept,     \* those that can still be read
  intact    \* the file system moved every file it was asked to

vars == <<written, kept, intact>>

Latest(S, n) == S \subseteq 1 .. n /\ \A e \in S : e .. n \subseteq S

Init == written = 0 /\ kept = {} /\ intact = TRUE

AppendEntry ==
  /\ intact
  /\ written' = written + 1 /\ kept' = kept \cup {written'}
  /\ UNCHANGED intact

DropOldest ==
  /\ intact
  /\ kept' \subseteq kept /\ Latest(kept', written)
  /\ UNCHANGED <<written, intact>>

\* A file that was not moved: from then on nothing is promised.
Fault == intact' = FALSE

Next == AppendEntry \/ DropOldest \/ Fault

Spec == Init /\ [][Next]_vars
=============================================================================
