------------------------------- MODULE Search -------------------------------
(***************************************************************************)
(* The search over all databases of the admin UI: BuildSearch and          *)
(* searchNamespace of cmd/lytecache/ui/viewmodel.go.  Databases are walked *)
(* in order, in each one its namespaces, in each one the keys that match;  *)
(* a cap on the matches of a namespace and one on all matches end the walk *)
(* early.  Rows are counted, not kept.                                     *)
(***************************************************************************)
EXTENDS Naturals, Sequences

CONSTANTS
  Namespaces,       \* how many namespaces each database has, a sequence
  MaxPerNamespace,  \* const maxSearchPerNamespace
  MaxTotal,         \* const maxSearchTotal
  MaxKeys           \* bound on the matching keys of a namespace

ASSUME NamespacesAssumption == Namespaces \in Seq(Nat)
ASSUME CapsAssumption == MaxPerNamespace \in Nat /\ MaxPerNamespace > 1 /\ MaxTotal \in Nat \ {0}
ASSUME MaxKeysAssumption == MaxKeys \in Nat

Databases == 1 .. Len(Namespaces)
Slots == UNION {{d} \X (1 .. Namespaces[d]) : d \in Databases}

VARIABLES
  matches,    \* for each <<database, namespace>>, how many keys match
  phase,      \* which loop the search is in
  db, ns,     \* the database and the namespace it is at
  taken,      \* rows of each namespace in the view
  total,      \* len(view.Rows)
  truncated,  \* view.Truncated
  errors      \* view.Errors: the databases and namespaces named there

vars == <<matches, phase, db, ns, taken, total, truncated, errors>>

Slot == <<db, ns>>
Whole(d) == <<d, 0>>

TypeOK ==
  /\ matches \in [Slots -> Nat] /\ taken \in [Slots -> Nat]
  /\ phase \in {"databases", "namespaces", "keys", "done"}
  /\ db \in 1 .. Len(Namespaces) + 1 /\ ns \in Nat \ {0}
  /\ phase \in {"namespaces", "keys"} => db \in Databases /\ ns <= Namespaces[db] + 1
  /\ phase = "keys" => Slot \in Slots
  /\ total \in Nat /\ truncated \in BOOLEAN
  /\ errors \subseteq Slots \cup {Whole(d) : d \in Databases}

Init ==
  /\ matches \in [Slots -> 0 .. MaxKeys]
  /\ phase = "databases" /\ db = 1 /\ ns = 1
  /\ taken = [s \in Slots |-> 0] /\ total = 0
  /\ truncated = FALSE /\ errors = {}

-----------------------------------------------------------------------------

\* The next database is opened and its namespaces are listed.
Database ==
  /\ phase = "databases" /\ db \in Databases /\ ~truncated
  /\ phase' = "namespaces" /\ ns' = 1
  /\ UNCHANGED <<matches, db, taken, total, truncated, errors>>

DatabaseFails ==
  /\ phase = "databases" /\ db \in Databases /\ ~truncated
  /\ errors' = errors \cup {Whole(db)}
  /\ db' = db + 1
  /\ UNCHANGED <<matches, phase, ns, taken, total, truncated>>

Return ==
  /\ phase = "databases" /\ (db \notin Databases \/ truncated)
  /\ phase' = "done"
  /\ UNCHANGED <<matches, db, ns, taken, total, truncated, errors>>

NextDatabase == phase' = "databases" /\ db' = db + 1 /\ UNCHANGED ns
NextNamespace == phase' = "namespaces" /\ ns' = ns + 1 /\ UNCHANGED db

LastNamespaceDone ==
  /\ phase = "namespaces" /\ ns > Namespaces[db]
  /\ NextDatabase
  /\ UNCHANGED <<matches, taken, total, truncated, errors>>

Namespace ==
  /\ phase = "namespaces" /\ ns <= Namespaces[db]
  /\ phase' = "keys"
  /\ UNCHANGED <<matches, db, ns, taken, total, truncated, errors>>

\* The namespace cannot be opened, or its iterator fails, perhaps after some keys.
NamespaceFails ==
  /\ \/ phase = "namespaces" /\ ns <= Namespaces[db]
     \/ phase = "keys"
  /\ errors' = errors \cup {Slot}
  /\ NextNamespace
  /\ UNCHANGED <<matches, taken, total, truncated>>

\* Mutants of Capped: the first cap does not set Truncated; no total cap.
CappedSilently ==
  \/ /\ taken'[Slot] >= MaxPerNamespace
     /\ UNCHANGED truncated /\ NextNamespace
  \/ /\ taken'[Slot] < MaxPerNamespace /\ total' >= MaxTotal
     /\ truncated' = TRUE /\ NextDatabase
  \/ /\ taken'[Slot] < MaxPerNamespace /\ total' < MaxTotal
     /\ UNCHANGED <<phase, db, ns, truncated>>
CappedPerNamespaceOnly ==
  \/ /\ taken'[Slot] >= MaxPerNamespace
     /\ truncated' = TRUE /\ NextNamespace
  \/ /\ taken'[Slot] < MaxPerNamespace
     /\ UNCHANGED <<phase, db, ns, truncated>>

\* The two caps, in the order of the code: the first one goes on with the next
\* namespace, the second one ends the database's loop.
Capped ==
  \/ /\ taken'[Slot] >= MaxPerNamespace
     /\ truncated' = TRUE /\ NextNamespace
  \/ /\ taken'[Slot] < MaxPerNamespace /\ total' >= MaxTotal
     /\ truncated' = TRUE /\ NextDatabase
  \/ /\ taken'[Slot] < MaxPerNamespace /\ total' < MaxTotal
     /\ UNCHANGED <<phase, db, ns, truncated>>

Key ==
  /\ phase = "keys" /\ taken[Slot] < matches[Slot]
  /\ taken' = [taken EXCEPT ![Slot] = @ + 1]
  /\ total' = total + 1
  /\ Capped
  /\ UNCHANGED <<matches, errors>>

KeysDone ==
  /\ phase = "keys" /\ taken[Slot] = matches[Slot]
  /\ NextNamespace
  /\ UNCHANGED <<matches, taken, total, truncated, errors>>

Next ==
  \/ Database \/ DatabaseFails \/ LastNamespaceDone
  \/ Namespace \/ NamespaceFails \/ Key \/ KeysDone
  \/ Return

Spec == Init /\ [][Next]_vars

-----------------------------------------------------------------------------

\* What the page does not show it admits: unless it says "truncated", every match
\* of every namespace is on it, or the namespace or its database is in Errors.
AdmitsWhatIsMissing ==
  phase = "done" /\ ~truncated
    => \A s \in Slots : taken[s] = matches[s] \/ s \in errors \/ Whole(s[1]) \in errors

\* However the matches are spread, the page has at most one row more than the
\* total cap, and no namespace more than its own.  (One more: a row that reaches
\* both caps at once is taken for the first one only.)
RowsBounded == total <= MaxTotal + 1 /\ \A s \in Slots : taken[s] <= MaxPerNamespace
=============================================================================
