----------------------------- MODULE ViewProofs -----------------------------
(***************************************************************************)
(* Proofs about what the pages of the admin UI show: the search (Search),  *)
(* one view of the key browser (KeyBrowser) and the auto-refresh of the    *)
(* dashboard (DashboardPoll), each about its own variables.                *)
(***************************************************************************)
EXTENDS Search, KeyBrowser, DashboardPoll, FiniteSetTheorems, FunctionTheorems, TLAPS

-----------------------------------------------------------------------------
(* Search, for any databases, namespaces and matches and any caps.  The    *)
(* invariant says what the walk has behind it and what it has still to     *)
(* come: namespaces behind it are on the page, in Errors or cut by a cap;  *)
(* those ahead have no row yet; and the room under the total cap is what   *)
(* the loop it is in guarantees.                                           *)

InLoop == phase \in {"namespaces", "keys"}

Behind(s) == s[1] < db \/ (InLoop /\ s[1] = db /\ s[2] < ns)
Ahead(s) ==
  \/ s[1] > db
  \/ s[1] = db /\ phase = "databases"
  \/ s[1] = db /\ phase = "namespaces" /\ s[2] >= ns
  \/ s[1] = db /\ phase = "keys" /\ s[2] > ns

Shown(s) == taken[s] = matches[s] \/ s \in errors \/ Whole(s[1]) \in errors

BehindShown == truncated \/ \A s \in Slots : Behind(s) => Shown(s)
AheadEmpty == \A s \in Slots : Ahead(s) => taken[s] = 0
RoomLeft ==
  /\ phase = "databases" => truncated \/ total <= MaxTotal
  /\ InLoop => total <= MaxTotal
  /\ phase = "keys" =>
       /\ taken[Slot] < MaxPerNamespace
       /\ taken[Slot] > 0 => total < MaxTotal
DoneIsEnd == phase = "done" => truncated \/ db \notin Databases

SearchInv == TypeOK /\ RowsBounded /\ BehindShown /\ AheadEmpty /\ RoomLeft /\ DoneIsEnd

-----------------------------------------------------------------------------

\* A namespace of the view is a pair of a database and one of its namespaces.
LEMMA SlotIsPair ==
  /\ \A s \in Slots : /\ s = <<s[1], s[2]>> /\ s[1] \in Databases
                      /\ s[2] \in 1 .. Namespaces[s[1]]
  /\ \A d \in Databases, n \in Nat \ {0} : n <= Namespaces[d] => <<d, n>> \in Slots
  /\ Len(Namespaces) \in Nat /\ \A d \in Databases : Namespaces[d] \in Nat /\ d \in Nat
BY NamespacesAssumption DEF Slots, Databases

\* The search starts in the invariant.
THEOREM SearchInvInit == Init => SearchInv
<1> SUFFICES ASSUME Init PROVE SearchInv
  OBVIOUS
<1>1. matches \in [Slots -> Nat]
  BY MaxKeysAssumption DEF Init
<1>2. /\ phase = "databases" /\ db = 1 /\ ns = 1 /\ total = 0
      /\ taken = [s \in Slots |-> 0] /\ truncated = FALSE /\ errors = {}
  BY DEF Init
<1>3. TypeOK
  <2>1. taken \in [Slots -> Nat]
    BY <1>2
  <2>2. db \in 1 .. Len(Namespaces) + 1
    BY <1>2, SlotIsPair
  <2>3. /\ phase \in {"databases", "namespaces", "keys", "done"}
        /\ ~(phase \in {"namespaces", "keys"}) /\ phase # "keys"
        /\ ns \in Nat \ {0} /\ total \in Nat
    BY <1>2
  <2>4. truncated \in BOOLEAN /\ errors \subseteq Slots \cup {Whole(d) : d \in Databases}
    BY <1>2
  <2> QED
    BY <1>1, <2>1, <2>2, <2>3, <2>4 DEF TypeOK
<1>4. RowsBounded
  BY <1>2, CapsAssumption DEF RowsBounded
<1>5. BehindShown
  BY <1>2, SlotIsPair DEF BehindShown, Behind, InLoop, Databases
<1>6. AheadEmpty /\ RoomLeft /\ DoneIsEnd
  BY <1>2, CapsAssumption DEF AheadEmpty, RoomLeft, DoneIsEnd, InLoop
<1> QED
  BY <1>3, <1>4, <1>5, <1>6 DEF SearchInv

\* A row of the namespace the walk is at: the counts after it.
LEMMA RowCounts ==
  ASSUME SearchInv, Key
  PROVE  /\ Slot \in Slots /\ taken'[Slot] = taken[Slot] + 1
         /\ \A s \in Slots : s # Slot => taken'[s] = taken[s]
         /\ taken' \in [Slots -> Nat]
         /\ taken'[Slot] <= MaxPerNamespace
         /\ total' = total + 1 /\ total' <= MaxTotal + 1
         /\ taken'[Slot] >= MaxPerNamespace => total' <= MaxTotal
BY CapsAssumption DEF SearchInv, TypeOK, Key, RoomLeft, InLoop

\* Every step of the walk keeps the invariant.
THEOREM SearchInvStep == SearchInv /\ [Next]_vars => SearchInv'
<1> SUFFICES ASSUME SearchInv, [Next]_vars PROVE SearchInv'
  OBVIOUS
<1> USE SlotIsPair DEF SearchInv
<1>1. CASE Database
  BY <1>1 DEF Database, TypeOK, RowsBounded, BehindShown, AheadEmpty, RoomLeft,
     DoneIsEnd, InLoop, Behind, Ahead, Shown, Slot
<1>2. CASE DatabaseFails
  <2>1. TypeOK'
    BY <1>2 DEF DatabaseFails, TypeOK, Databases
  <2>2. BehindShown'
    BY <1>2 DEF DatabaseFails, TypeOK, BehindShown, Behind, Shown, InLoop, Databases
  <2> QED
    BY <1>2, <2>1, <2>2 DEF DatabaseFails, TypeOK, RowsBounded, AheadEmpty, Ahead,
       RoomLeft, DoneIsEnd, InLoop, Databases
<1>3. CASE Return
  BY <1>3 DEF Return, TypeOK, RowsBounded, BehindShown, AheadEmpty, RoomLeft,
     DoneIsEnd, InLoop, Behind, Ahead, Shown
<1>4. CASE LastNamespaceDone
  <2>1. TypeOK'
    BY <1>4 DEF LastNamespaceDone, NextDatabase, TypeOK, Databases
  <2>2. BehindShown'
    BY <1>4 DEF LastNamespaceDone, NextDatabase, TypeOK, BehindShown, Behind, Shown,
       InLoop, Databases
  <2> QED
    BY <1>4, <2>1, <2>2 DEF LastNamespaceDone, NextDatabase, TypeOK, RowsBounded,
       AheadEmpty, Ahead, RoomLeft, DoneIsEnd, InLoop, Databases
<1>5. CASE Namespace
  <2>1. Slot \in Slots /\ taken[Slot] = 0 /\ Slot' = Slot
    BY <1>5 DEF Namespace, TypeOK, AheadEmpty, Ahead, Slot
  <2>2. TypeOK'
    BY <1>5, <2>1 DEF Namespace, TypeOK
  <2>3. RoomLeft'
    BY <1>5, <2>1, CapsAssumption DEF Namespace, RoomLeft, InLoop
  <2> QED
    BY <1>5, <2>2, <2>3 DEF Namespace, TypeOK, RowsBounded, BehindShown, Behind, Shown,
       AheadEmpty, Ahead, DoneIsEnd, InLoop
<1>6. CASE NamespaceFails
  <2>1. Slot \in Slots /\ InLoop
    BY <1>6 DEF NamespaceFails, TypeOK, Slot, InLoop
  <2>2. TypeOK'
    BY <1>6, <2>1 DEF NamespaceFails, NextNamespace, TypeOK, Slot
  <2>3. BehindShown'
    BY <1>6, <2>1 DEF NamespaceFails, NextNamespace, TypeOK, BehindShown, Behind, Shown,
       InLoop, Slot
  <2> QED
    BY <1>6, <2>1, <2>2, <2>3 DEF NamespaceFails, NextNamespace, TypeOK, RowsBounded,
       AheadEmpty, Ahead, RoomLeft, DoneIsEnd, InLoop
<1>7. CASE Key
  <2>0. /\ db \in Databases /\ db \in Nat /\ ns \in Nat \ {0} /\ ns <= Namespaces[db]
        /\ Namespaces[db] \in Nat /\ MaxTotal \in Nat /\ MaxPerNamespace \in Nat
        /\ total' \in Nat
    BY <1>7, CapsAssumption DEF Key, TypeOK, Slot
  <2>1. /\ Slot \in Slots /\ taken'[Slot] = taken[Slot] + 1
        /\ \A s \in Slots : s # Slot => taken'[s] = taken[s]
        /\ taken' \in [Slots -> Nat] /\ taken'[Slot] <= MaxPerNamespace
        /\ total' = total + 1 /\ total' <= MaxTotal + 1
        /\ taken'[Slot] >= MaxPerNamespace => total' <= MaxTotal
    BY <1>7, RowCounts
  <2>2. phase = "keys" /\ errors' = errors /\ matches' = matches
    BY <1>7 DEF Key
  <2>3. RowsBounded'
    BY <2>1 DEF RowsBounded
  <2>4. CASE phase' = "namespaces" /\ db' = db /\ ns' = ns + 1 /\ truncated' = TRUE
             /\ taken'[Slot] >= MaxPerNamespace
    <3>1. TypeOK'
      <4>1. /\ db' \in 1 .. Len(Namespaces) + 1 /\ ns' \in Nat \ {0}
            /\ db' \in Databases /\ ns' <= Namespaces[db'] + 1
        BY <2>0, <2>4 DEF TypeOK, Databases
      <4>2. truncated' \in BOOLEAN
        BY <2>4
      <4>3. /\ phase' \in {"databases", "namespaces", "keys", "done"} /\ phase' # "keys"
        BY <2>4
      <4> QED
        BY <2>0, <2>1, <2>2, <4>1, <4>2, <4>3 DEF TypeOK
    <3>2. AheadEmpty'
      <4>1. \A s \in Slots : Ahead(s)' => Ahead(s) /\ s # Slot
        BY <2>0, <2>2, <2>4 DEF Ahead, Slot
      <4> QED
        BY <2>1, <4>1 DEF AheadEmpty
    <3> QED
      BY <2>0, <2>1, <2>2, <2>3, <2>4, <3>1, <3>2 DEF BehindShown, RoomLeft, DoneIsEnd,
         InLoop
  <2>5. CASE phase' = "databases" /\ db' = db + 1 /\ ns' = ns /\ truncated' = TRUE
    <3>1. TypeOK'
      <4>1. /\ db' \in 1 .. Len(Namespaces) + 1 /\ ns' \in Nat \ {0}
        BY <2>0, <2>5 DEF TypeOK, Databases
      <4>2. truncated' \in BOOLEAN
        BY <2>5
      <4>3. /\ phase' \in {"databases", "namespaces", "keys", "done"} /\ phase' # "keys"
            /\ ~(phase' \in {"namespaces", "keys"})
        BY <2>5
      <4> QED
        BY <2>0, <2>1, <2>2, <4>1, <4>2, <4>3 DEF TypeOK
    <3>2. AheadEmpty'
      <4>1. \A s \in Slots : Ahead(s)' => Ahead(s) /\ s # Slot
        BY <2>0, <2>2, <2>5 DEF Ahead, Slot
      <4> QED
        BY <2>1, <4>1 DEF AheadEmpty
    <3> QED
      BY <2>0, <2>1, <2>2, <2>3, <2>5, <3>1, <3>2 DEF BehindShown, RoomLeft, DoneIsEnd,
         InLoop
  <2>6. CASE /\ UNCHANGED <<phase, db, ns, truncated>>
             /\ taken'[Slot] < MaxPerNamespace /\ total' < MaxTotal
    <3>1. TypeOK' /\ Slot' = Slot
      BY <2>1, <2>2, <2>6 DEF TypeOK, Slot
    <3>2. BehindShown'
      BY <2>1, <2>2, <2>6 DEF BehindShown, Behind, Shown, InLoop, Slot
    <3>3. AheadEmpty'
      BY <2>1, <2>2, <2>6, <3>1 DEF TypeOK, AheadEmpty, Ahead, Slot
    <3>4. RoomLeft'
      BY <2>0, <2>1, <2>2, <2>6, <3>1 DEF RoomLeft, InLoop
    <3> QED
      BY <2>2, <2>3, <2>6, <3>1, <3>2, <3>3, <3>4 DEF DoneIsEnd
  <2> QED
    BY <1>7, <2>2, <2>4, <2>5, <2>6 DEF Key, Capped, NextNamespace, NextDatabase
<1>8. CASE KeysDone
  <2>1. Slot \in Slots /\ phase = "keys" /\ taken[Slot] = matches[Slot]
    BY <1>8 DEF KeysDone, TypeOK
  <2>2. TypeOK'
    BY <1>8, <2>1 DEF KeysDone, NextNamespace, TypeOK, Slot
  <2>3. BehindShown'
    <3>1. \A s \in Slots : Behind(s)' => Behind(s) \/ s = Slot
      BY <1>8, <2>1 DEF KeysDone, NextNamespace, TypeOK, Behind, InLoop, Slot
    <3>2. \A s \in Slots : Shown(s)' <=> Shown(s)
      BY <1>8 DEF KeysDone, Shown
    <3>3. Shown(Slot)
      BY <2>1 DEF Shown
    <3> QED
      BY <1>8, <3>1, <3>2, <3>3 DEF KeysDone, BehindShown
  <2> QED
    BY <1>8, <2>1, <2>2, <2>3 DEF KeysDone, NextNamespace, TypeOK, RowsBounded,
       AheadEmpty, Ahead, RoomLeft, DoneIsEnd, InLoop
<1>9. CASE UNCHANGED vars
  BY <1>9 DEF vars, TypeOK, RowsBounded, BehindShown, AheadEmpty, RoomLeft,
     DoneIsEnd, InLoop, Behind, Ahead, Shown, Slot
<1> QED
  BY <1>1, <1>2, <1>3, <1>4, <1>5, <1>6, <1>7, <1>8, <1>9 DEF Next
-----------------------------------------------------------------------------

\* The invariant implies the two properties the runs check.
LEMMA SearchInvImplies == SearchInv => TypeOK /\ RowsBounded /\ AdmitsWhatIsMissing
BY SlotIsPair DEF SearchInv, BehindShown, DoneIsEnd, TypeOK, AdmitsWhatIsMissing, Behind,
   Shown, Databases

\* The invariant holds throughout.
THEOREM SearchInvariance == Spec => []SearchInv
BY SearchInvInit, SearchInvStep, PTL DEF Spec

\* The search keeps its type: it is never at a namespace its database does not have.
THEOREM SearchTypeCorrect == Spec => []TypeOK
BY SearchInvariance, SearchInvImplies, PTL

\* The caps bound the page: one row more than the total cap at most, and the cap
\* of a namespace exactly.
THEOREM RowsAlwaysBounded == Spec => []RowsBounded
BY SearchInvariance, SearchInvImplies, PTL

\* A page that does not say it is truncated has every match or names the failure.
THEOREM AlwaysAdmitsWhatIsMissing == Spec => []AdmitsWhatIsMissing
BY SearchInvariance, SearchInvImplies, PTL

-----------------------------------------------------------------------------
(* DashboardPoll, for any number of fetches and changes.  An answer that a  *)
(* fetch may still swap in was rendered after the last swap, and so is not  *)
(* older than what is shown.                                                *)

PollType ==
  /\ version \in Nat /\ shown \in Nat /\ attached \subseteq Fetches
  /\ fetch \in [Fetches -> {"idle", "sent", "answered", "empty"}]
  /\ answer \in [Fetches -> Nat]

PollInv ==
  /\ PollType /\ shown <= version
  /\ \A f \in Fetches : answer[f] <= version
  /\ \A f \in attached : fetch[f] = "answered" => answer[f] >= shown

\* Every step keeps the invariant.
LEMMA PollInvStep == PollInv /\ [PollNext]_pollVars => PollInv'
<1> SUFFICES ASSUME PollInv, [PollNext]_pollVars PROVE PollInv'
  OBVIOUS
<1>1. ASSUME NEW f \in Fetches, Refresh(f) PROVE PollInv'
  BY <1>1 DEF Refresh, PollInv, PollType
<1>2. ASSUME NEW f \in Fetches, Answer(f) PROVE PollInv'
  BY <1>2 DEF Answer, PollInv, PollType
<1>3. ASSUME NEW f \in Fetches, Lose(f) PROVE PollInv'
  BY <1>3 DEF Lose, PollInv, PollType
<1>4. ASSUME NEW f \in Fetches, Discard(f) PROVE PollInv'
  BY <1>4 DEF Discard, Ended, PollInv, PollType
<1>5. ASSUME NEW f \in Fetches, Swap(f) PROVE PollInv'
  BY <1>5 DEF Swap, Ended, PollInv, PollType
<1>6. CASE Toggle
  BY <1>6 DEF Toggle, PollInv, PollType
<1>7. CASE Change
  BY <1>7 DEF Change, PollInv, PollType
<1>8. CASE UNCHANGED pollVars
  BY <1>8 DEF pollVars, PollInv, PollType
<1> QED BY <1>1, <1>2, <1>3, <1>4, <1>5, <1>6, <1>7, <1>8 DEF PollNext

\* The page never shows an earlier state of the databases than it showed, in
\* whatever order the answers arrive.
THEOREM PageNeverGoesBack == PollSpec => NeverGoesBack
<1>1. PollInit => PollInv
  BY DEF PollInit, PollInv, PollType
<1>2. PollInv /\ [PollNext]_pollVars => [shown' >= shown]_pollVars
  BY DEF PollInv, PollType, PollNext, pollVars, Refresh, Answer, Lose, Discard, Swap,
     SwappedOut, Toggle, Change
<1> QED BY <1>1, <1>2, PollInvStep, PTL DEF PollSpec, NeverGoesBack

-----------------------------------------------------------------------------
(* KeyBrowser: the walk, for any keys, any writes next to it and any cap.   *)
(* The keys listed ascend, and a key that stayed is ahead of the iterator,  *)
(* among the keys listed, or in a row already.                              *)

KeysAscend == \A i, j \in DOMAIN keys : i < j => keys[i] < keys[j]

RowsFollowKeys ==
  /\ \A i, j \in DOMAIN rows : i < j => rows[i].key < rows[j].key
  /\ \A i \in DOMAIN rows, j \in inspected + 1 .. Len(keys) : rows[i].key < keys[j]

InKeys(k) == \E i \in DOMAIN keys : keys[i] = k
InRows(k) == \E i \in DOMAIN rows : rows[i].key = k

StayedIsThere ==
  /\ stayed \subseteq Present
  /\ stage = "listing" => \A k \in stayed : k \in Rest \/ InKeys(k)
  /\ stage \in {"inspecting", "done"} /\ ~keysTruncated => \A k \in stayed : InKeys(k)
  /\ \A i \in 1 .. inspected : keys[i] \in stayed => InRows(keys[i])

StageBounds ==
  /\ stage = "listing" => Len(keys) < MaxScanned /\ inspected = 0
  /\ stage = "done" => inspected = Len(keys)

BrowserInv == BrowserTypeOK /\ KeysAscend /\ RowsFollowKeys /\ StayedIsThere /\ StageBounds

\* A view begins in the invariant.
LEMMA BrowserInvInit == BrowserInit => BrowserInv
<1> SUFFICES ASSUME BrowserInit PROVE BrowserInv
  OBVIOUS
<1>1. /\ keys = <<>> /\ rows = <<>> /\ Len(keys) = 0 /\ Len(rows) = 0
      /\ keys \in Seq(Keys) /\ rows \in Seq(Rows)
      /\ DOMAIN keys = {} /\ DOMAIN rows = {} /\ inspected = 0
      /\ stage = "listing" /\ stayed = Present /\ keysTruncated = FALSE
  BY DEF BrowserInit
<1>2. BrowserTypeOK
  <2>1. MaxScanned \in Nat \ {0}
    BY BoundsAssumption
  <2>2. store \in [Keys -> Info \cup {Absent}] /\ stayed \subseteq Keys
    BY <1>1 DEF BrowserInit, Present
  <2>3. Len(keys) <= MaxScanned /\ inspected \in 0 .. Len(keys) /\ Len(rows) <= inspected
    BY <1>1, <2>1
  <2>4. keysTruncated \in BOOLEAN /\ stage \in {"listing", "inspecting", "done", "failed"}
    BY <1>1, Zenon
  <2> QED BY <1>1, <2>2, <2>3, <2>4, Zenon DEF BrowserTypeOK
<1>3. KeysAscend /\ RowsFollowKeys
  BY <1>1 DEF KeysAscend, RowsFollowKeys
<1>4. StageBounds
  BY <1>1, BoundsAssumption DEF StageBounds
<1>5. StayedIsThere
  BY <1>1 DEF StayedIsThere, Rest
<1> QED BY <1>2, <1>3, <1>4, <1>5 DEF BrowserInv

\* The next key is listed after all others; what stayed and is not listed yet follows.
LEMMA KeyedStep == ASSUME BrowserInv, Keyed PROVE BrowserInv'
<1> USE DEF BrowserInv, BrowserTypeOK
<1>1. PICK k \in Rest : (\A l \in Rest : k <= l) /\ keys' = Append(keys, k)
  BY DEF Keyed
<1>2. /\ stage = "listing" /\ inspected = 0 /\ rows = <<>> /\ Len(keys) < MaxScanned
      /\ keysTruncated' = (Len(keys') >= MaxScanned)
      /\ stage' = IF keysTruncated' THEN "inspecting" ELSE "listing"
      /\ UNCHANGED <<store, inspected, rows, stayed>>
  BY DEF Keyed, StageBounds
<1>3. k \in Keys /\ k \in Nat /\ Present \subseteq Keys /\ Keys \subseteq Nat
  BY KeysAssumption DEF Rest, Present
<1>4. /\ keys' \in Seq(Keys) /\ Len(keys') = Len(keys) + 1 /\ Len(keys) \in Nat
      /\ keys'[Len(keys')] = k
      /\ \A i \in DOMAIN keys : i \in DOMAIN keys' /\ keys'[i] = keys[i]
      /\ DOMAIN keys' = 1 .. Len(keys) + 1 /\ DOMAIN keys = 1 .. Len(keys)
  BY <1>1, <1>3
<1>5. BrowserTypeOK'
  BY <1>2, <1>4, BoundsAssumption
<1>6. \A i \in DOMAIN keys : keys[i] < k
  <2> SUFFICES ASSUME NEW i \in DOMAIN keys PROVE keys[i] < k
    OBVIOUS
  <2>1. keys # <<>> /\ i \in 1 .. Len(keys) /\ Len(keys) \in DOMAIN keys
    BY <1>4
  <2>2. k > keys[Len(keys)]
    BY <1>1, <2>1 DEF Rest
  <2>4. keys[i] \in Keys /\ keys[Len(keys)] \in Keys
    BY <2>1
  <2>3. i = Len(keys) \/ keys[i] < keys[Len(keys)]
    BY <2>1 DEF KeysAscend
  <2>5. keys[i] \in Nat /\ keys[Len(keys)] \in Nat
    BY <1>3, <2>4
  <2>6. CASE i = Len(keys)
    BY <2>2, <2>6
  <2>7. CASE keys[i] < keys[Len(keys)]
    <3> HIDE DEF BrowserInv, BrowserTypeOK
    <3> QED BY <1>3, <2>2, <2>5, <2>7
  <2> QED BY <2>3, <2>6, <2>7
<1>7. KeysAscend'
  BY <1>4, <1>6 DEF KeysAscend
<1>8. RowsFollowKeys'
  BY <1>2 DEF RowsFollowKeys
<1>9. StayedIsThere'
  <2>1. \A l \in stayed : InKeys(l)' \/ l \in Rest'
    <3> SUFFICES ASSUME NEW l \in stayed, l # k, l \in Rest PROVE l \in Rest'
      BY <1>2, <1>4 DEF StayedIsThere, InKeys
    <3>1. k <= l /\ l \in Present /\ l \in Nat
      BY <1>1, <1>3 DEF Rest
    <3>2. Present' = Present /\ k < l
      BY <1>2, <1>3, <3>1 DEF Present
    <3> QED BY <1>4, <3>1, <3>2 DEF Rest
  <2> QED BY <1>2, <2>1 DEF StayedIsThere, Present
<1>10. StageBounds'
  <2>1. stage' = "listing" => ~(Len(keys') >= MaxScanned)
    BY <1>2
  <2>2. stage' # "done"
    BY <1>2
  <2> QED BY <1>2, <1>4, <2>1, <2>2, BoundsAssumption DEF StageBounds
<1> QED BY <1>5, <1>7, <1>8, <1>9, <1>10

\* The next key becomes a row, after the others, unless it is gone.
LEMMA InspectStep == ASSUME BrowserInv, Inspect PROVE BrowserInv'
<1> USE DEF BrowserInv, BrowserTypeOK
<1> DEFINE k == keys[inspected + 1]
<1>1. /\ stage = "inspecting" /\ inspected < Len(keys) /\ inspected' = inspected + 1
      /\ UNCHANGED <<store, stage, keys, keysTruncated, stayed>>
      /\ IF store[k] = Absent THEN rows' = rows
         ELSE rows' = Append(rows, [key |-> k, info |-> store[k]])
  BY DEF Inspect
<1>2. /\ Len(keys) \in Nat /\ DOMAIN keys = 1 .. Len(keys) /\ inspected \in Nat
      /\ inspected + 1 \in DOMAIN keys /\ k \in Keys /\ Keys \subseteq Nat
      /\ \A i \in DOMAIN keys : keys[i] \in Nat
  <2>1. /\ Len(keys) \in Nat /\ DOMAIN keys = 1 .. Len(keys) /\ inspected \in Nat
        /\ inspected + 1 \in DOMAIN keys
    BY <1>1
  <2>2. \A i \in DOMAIN keys : keys[i] \in Keys
    BY <2>1
  <2> QED BY <2>1, <2>2, KeysAssumption
<1>3. StageBounds'
  BY <1>1 DEF StageBounds
<1>4. KeysAscend'
  BY <1>1 DEF KeysAscend
<1>5. inspected' \in 0 .. Len(keys')
  BY <1>1, <1>2
<1>6. CASE store[k] = Absent
  <2>1. k \notin stayed
    BY <1>6 DEF StayedIsThere, Present
  <2>2. rows' = rows /\ Len(rows) \in Nat
    BY <1>1, <1>6
  <2>3. BrowserTypeOK'
    BY <1>1, <1>2, <1>5, <2>2
  <2>4. RowsFollowKeys'
    BY <1>1, <1>2, <2>2 DEF RowsFollowKeys
  <2>5. \A i \in 1 .. inspected + 1 : keys[i] \in stayed => i \in 1 .. inspected
    <3> SUFFICES ASSUME NEW i \in 1 .. inspected + 1, i # inspected + 1
                 PROVE  i \in 1 .. inspected
      BY <2>1
    <3> QED BY <1>2
  <2>6. StayedIsThere'
    BY <1>1, <2>2, <2>5 DEF StayedIsThere, Present, InKeys, InRows
  <2> QED BY <1>3, <1>4, <2>3, <2>4, <2>6
<1>7. CASE store[k] # Absent
  <2> DEFINE r == [key |-> k, info |-> store[k]]
  <2>1. r \in Rows /\ r.key = k
    BY <1>2, <1>7 DEF Rows
  <2>2. /\ rows' \in Seq(Rows) /\ Len(rows') = Len(rows) + 1 /\ Len(rows) \in Nat
        /\ DOMAIN rows = 1 .. Len(rows) /\ DOMAIN rows' = 1 .. Len(rows) + 1
        /\ rows'[Len(rows) + 1] = r
        /\ \A i \in DOMAIN rows : rows'[i] = rows[i] /\ rows[i].key \in Nat
    <3>1. rows' = Append(rows, r) /\ rows \in Seq(Rows)
      BY <1>1, <1>7
    <3>2. \A i \in DOMAIN rows : rows[i] \in Rows
      BY <3>1
    <3>3. \A i \in DOMAIN rows : rows[i].key \in Nat
      BY <1>2, <3>2 DEF Rows
    <3> HIDE DEF BrowserInv, BrowserTypeOK, r
    <3> QED BY <2>1, <3>1, <3>3
  <2>3. BrowserTypeOK'
    BY <1>1, <1>2, <1>5, <2>2
  <2>4. RowsFollowKeys'
    <3>1. \A i \in DOMAIN rows : rows[i].key < k
      BY <1>2 DEF RowsFollowKeys
    <3>2. \A i, j \in DOMAIN rows' : i < j => rows'[i].key < rows'[j].key
      BY <2>1, <2>2, <3>1 DEF RowsFollowKeys
    <3>3. \A j \in inspected + 2 .. Len(keys) : k < keys[j]
      BY <1>2 DEF KeysAscend
    <3>4. \A i \in DOMAIN rows', j \in inspected' + 1 .. Len(keys') : rows'[i].key < keys'[j]
      <4> SUFFICES ASSUME NEW i \in DOMAIN rows', NEW j \in inspected + 2 .. Len(keys)
                   PROVE  rows'[i].key < keys[j]
        BY <1>1, <1>2
      <4>1. CASE i \in DOMAIN rows
        <5>1. j \in inspected + 1 .. Len(keys) /\ rows'[i] = rows[i]
          BY <1>2, <2>2, <4>1
        <5> QED BY <4>1, <5>1 DEF RowsFollowKeys
      <4>2. CASE i = Len(rows) + 1
        BY <2>1, <2>2, <3>3, <4>2
      <4> QED BY <2>2, <4>1, <4>2
    <3> QED BY <3>2, <3>4 DEF RowsFollowKeys
  <2>5. \A l : InRows(l) \/ l = k => InRows(l)'
    BY <2>1, <2>2 DEF InRows
  <2>6. StayedIsThere'
    BY <1>1, <1>2, <2>5 DEF StayedIsThere, Present, InKeys
  <2> QED BY <1>3, <1>4, <2>3, <2>4, <2>6
<1> QED BY <1>6, <1>7

\* Every step keeps the invariant.
LEMMA BrowserInvStep == BrowserInv /\ [BrowserNext]_browserVars => BrowserInv'
<1> SUFFICES ASSUME BrowserInv, [BrowserNext]_browserVars PROVE BrowserInv'
  OBVIOUS
<1> USE DEF BrowserInv, BrowserTypeOK, KeysAscend, RowsFollowKeys, InKeys, InRows, StageBounds
<1>1. CASE ScanDone
  BY <1>1 DEF ScanDone, StayedIsThere, Present
<1>2. CASE Built
  BY <1>2 DEF Built, StayedIsThere, Present
<1>3. CASE Fails
  BY <1>3 DEF Fails, StayedIsThere, Present
<1>4. ASSUME NEW k \in Keys, NEW i \in Info \cup {Absent}, Store(k, i) PROVE BrowserInv'
  <2>1. /\ store' = [store EXCEPT ![k] = i]
        /\ stayed' = IF i = Absent THEN stayed \ {k} ELSE stayed
        /\ UNCHANGED <<stage, keys, inspected, rows, keysTruncated>>
    BY <1>4 DEF Store
  <2>2. stayed' \subseteq Present' /\ stayed' \subseteq stayed
    BY <2>1 DEF StayedIsThere, Present
  <2>3. \A l \in stayed' : l \in Rest => l \in Rest'
    BY <2>1, <2>2 DEF Rest
  <2> QED BY <2>1, <2>2, <2>3 DEF StayedIsThere
<1>5. CASE UNCHANGED browserVars
  BY <1>5 DEF browserVars, StayedIsThere, Present, Rest
<1> QED BY <1>1, <1>2, <1>3, <1>4, <1>5, KeyedStep, InspectStep DEF BrowserNext

\* The invariant holds throughout.
THEOREM BrowserInvariance == BrowserSpec => []BrowserInv
BY BrowserInvInit, BrowserInvStep, PTL DEF BrowserSpec

\* The keys listed and the rows keep their types, and the scan its cap.
THEOREM BrowserTypeCorrect == BrowserSpec => []BrowserTypeOK
<1>1. BrowserInv => BrowserTypeOK
  BY DEF BrowserInv
<1> QED BY <1>1, BrowserInvariance, PTL

\* A key that was there throughout is listed, unless the view says it is truncated.
THEOREM StayingKeysAlwaysListed == BrowserSpec => []StayingKeysListed
<1>1. BrowserInv => StayingKeysListed
  <2> SUFFICES ASSUME BrowserInv, stage = "done", ~keysTruncated, NEW k \in stayed
               PROVE  InRows(k)
    BY DEF StayingKeysListed, InRows
  <2>1. PICK i \in DOMAIN keys : keys[i] = k
    BY DEF BrowserInv, StayedIsThere, InKeys
  <2>2. i \in 1 .. inspected
    BY DEF BrowserInv, BrowserTypeOK, StageBounds
  <2> QED BY <2>1, <2>2 DEF BrowserInv, StayedIsThere
<1> QED BY <1>1, BrowserInvariance, PTL

-----------------------------------------------------------------------------
(* KeyBrowser: the pages, for any rows.  Where page * size fits an int no   *)
(* bound of a page wraps around, and a bound is the product, cut at the     *)
(* number of rows.                                                          *)

\* A number that fits an int is kept.
LEMMA WrappedKeeps == ASSUME NEW n \in 0 .. IntLimit - 1 PROVE Wrapped(n) = n
BY BoundsAssumption DEF Wrapped

\* A longer factor gives no smaller product.
LEMMA ProductGrows ==
  ASSUME NEW a \in Nat, NEW b \in Nat, NEW s \in Nat, a <= b PROVE a * s <= b * s
OBVIOUS

\* The bounds of a page.
LEMMA PageBounds ==
  ASSUME NEW page \in Nat \ {0}, NEW size \in Nat \ {0}, NEW count \in Nat,
         page * size < IntLimit
  PROVE  /\ Start(page, size, count) = AtMost((page - 1) * size, count)
         /\ End(page, size, count) = AtMost(page * size, count)
         /\ (page - 1) * size \in Nat /\ page * size \in Nat
         /\ page * size = (page - 1) * size + size
<1> DEFINE a == (page - 1) * size
           b == page * size
<1>1. b = a + size /\ a \in Nat /\ b \in Nat
  <2>1. page - 1 \in Nat
    OBVIOUS
  <2> QED BY <2>1
<1>2. Wrapped(a) = a
  <2>1. a \in 0 .. IntLimit - 1
    BY <1>1, BoundsAssumption
  <2> QED BY <2>1, WrappedKeeps
<1>3. Start(page, size, count) = AtMost(a, count)
  BY <1>2 DEF Start
<1> DEFINE s == AtMost(a, count)
<1>4. s \in Nat /\ s + size \in 0 .. IntLimit - 1
  BY <1>1, BoundsAssumption DEF AtMost
<1>5. Wrapped(s + size) = s + size
  BY <1>4, WrappedKeeps
<1>6. AtMost(s + size, count) = AtMost(b, count)
  BY <1>1 DEF AtMost
<1>7. End(page, size, count) = AtMost(b, count)
  BY <1>3, <1>5, <1>6 DEF End
<1> QED BY <1>1, <1>3, <1>7

\* A row is on one page: the one whose number is the quotient.
LEMMA RowHasPage ==
  ASSUME NEW size \in Nat \ {0}, NEW i \in Nat \ {0}
  PROVE  \E page \in 1 .. i : (page - 1) * size < i /\ i <= page * size
<1> DEFINE quotient == (i - 1) \div size
<1>1. quotient \in Nat /\ quotient * size <= i - 1 /\ i - 1 < quotient * size + size
  OBVIOUS
<1>2. quotient <= quotient * size
  BY <1>1
<1> HIDE DEF quotient
<1>3. (quotient + 1) * size = quotient * size + size
  BY <1>1
<1>4. quotient * size \in Nat
  BY <1>1
<1>5. quotient + 1 \in 1 .. i /\ (quotient + 1) - 1 = quotient
  BY <1>1, <1>2, <1>4
<1>6. ((quotient + 1) - 1) * size < i /\ i <= (quotient + 1) * size
  BY <1>1, <1>3, <1>4, <1>5
<1> QED BY <1>5, <1>6

\* The pages of any size partition the rows, and no bound is past them.
THEOREM PagesAlwaysPartition == BrowserSpec => []PagesPartition
<1>1. ASSUME BrowserInv PROVE PagesPartition
  <2> DEFINE n == Len(rows)
             Ints == 1 .. IntLimit - 1
  <2>1. n \in Nat /\ n <= MaxScanned /\ MaxScanned \in Nat /\ IntLimit \in Nat
    BY <1>1, BoundsAssumption DEF BrowserInv, BrowserTypeOK
  <2> HIDE DEF n
  <2>2. ASSUME NEW page \in Ints, NEW size \in Ints, page * size < IntLimit
        PROVE  /\ 0 <= Start(page, size, n) /\ Start(page, size, n) <= End(page, size, n)
               /\ End(page, size, n) <= n
    <3>1. page \in Nat \ {0} /\ size \in Nat \ {0}
      BY <2>1
    <3> DEFINE a == (page - 1) * size
               b == page * size
    <3>2. /\ Start(page, size, n) = AtMost(a, n) /\ End(page, size, n) = AtMost(b, n)
          /\ a \in Nat /\ b \in Nat /\ b = a + size
      BY <2>1, <2>2, <3>1, PageBounds
    <3> HIDE DEF a, b
    <3> QED BY <2>1, <3>1, <3>2 DEF AtMost
  <2>3. ASSUME NEW size \in 1 .. n, NEW i \in 1 .. n
        PROVE  \E page \in 1 .. n : \A q \in 1 .. n :
                 (Start(q, size, n) < i /\ i <= End(q, size, n)) <=> q = page
    <3>1. size \in Nat \ {0} /\ i \in Nat \ {0} /\ 1 .. i \subseteq 1 .. n
      BY <2>1
    <3>2. PICK page \in 1 .. n : (page - 1) * size < i /\ i <= page * size
      BY <3>1, RowHasPage
    <3>3. ASSUME NEW q \in 1 .. n
          PROVE  /\ (Start(q, size, n) < i /\ i <= End(q, size, n))
                      <=> ((q - 1) * size < i /\ i <= q * size)
                 /\ (q - 1) * size \in Nat /\ q * size \in Nat
      <4>1. q \in Nat \ {0}
        BY <2>1
      <4>2. q * size < IntLimit
        <5>1. q * size <= MaxScanned * size
          BY <2>1, <3>1, <4>1, ProductGrows
        <5>2. size * MaxScanned <= MaxScanned * MaxScanned
          BY <2>1, <3>1, ProductGrows
        <5> QED BY <2>1, <3>1, <4>1, <5>1, <5>2, BoundsAssumption
      <4> DEFINE a == (q - 1) * size
                 b == q * size
      <4>3. /\ Start(q, size, n) = AtMost(a, n) /\ End(q, size, n) = AtMost(b, n)
            /\ a \in Nat /\ b \in Nat
        BY <2>1, <3>1, <4>1, <4>2, PageBounds
      <4> HIDE DEF a, b
      <4>4. (Start(q, size, n) < i /\ i <= End(q, size, n)) <=> (a < i /\ i <= b)
        BY <2>1, <3>1, <4>3 DEF AtMost
      <4> QED BY <4>3, <4>4 DEF a, b
    <3>4. ASSUME NEW q \in 1 .. n, (q - 1) * size < i /\ i <= q * size PROVE q = page
      <4>1. q \in Nat \ {0} /\ page \in Nat \ {0}
        BY <2>1
      <4>2. ASSUME NEW p \in Nat \ {0}, NEW r \in Nat \ {0}, p < r
            PROVE  p * size <= (r - 1) * size
        <5>1. r - 1 \in Nat /\ p <= r - 1
          BY <4>2
        <5> QED BY <3>1, <5>1, ProductGrows
      <4>3. ~(q < page)
        BY <3>1, <3>2, <3>3, <3>4, <4>1, <4>2
      <4>4. ~(page < q)
        BY <3>1, <3>2, <3>3, <3>4, <4>1, <4>2
      <4> QED BY <4>1, <4>3, <4>4
    <3>5. ASSUME NEW q \in 1 .. n
          PROVE  (Start(q, size, n) < i /\ i <= End(q, size, n)) <=> q = page
      BY <3>2, <3>3, <3>4
    <3> QED BY <3>5
  <2> QED BY <2>2, <2>3 DEF PagesPartition, n
<1> QED BY <1>1, BrowserInvariance, PTL

-----------------------------------------------------------------------------
(* KeyBrowser: the sort, for any rows and every order of them.  A stable    *)
(* sort orders the places by Precedes, which is total; a row's place counts *)
(* the rows that precede it, so the places are the numbers of the rows.     *)

\* Each order of the rows is a strict weak order.
LEMMA BeforeIsWeakOrder ==
  ASSUME NEW sort \in Sorts, NEW r \in Rows, NEW s \in Rows, NEW t \in Rows
  PROVE  /\ ~(Before(sort, r, s) /\ Before(sort, s, r))
         /\ Before(sort, r, t) => Before(sort, r, s) \/ Before(sort, s, t)
<1>0. Keys \subseteq Int /\ Sizes \subseteq Int /\ Ttls \subseteq Int
  BY KeysAssumption, ValuesAssumption
<1>1. ASSUME NEW x \in Rows
      PROVE  /\ x.key \in Int /\ x.info.size \in Int
             /\ x.info.ttl \in Int \/ x.info.ttl = NoExpiry
  <2>1. x.key \in Keys /\ x.info \in Info
    BY DEF Rows
  <2>2. x.info.size \in Sizes /\ (x.info.ttl \in Ttls \/ x.info.ttl = NoExpiry)
    BY <2>1 DEF Info
  <2>3. x.key \in Int
    BY <1>0, <2>1, Zenon
  <2>4. x.info.size \in Int /\ (x.info.ttl \in Int \/ x.info.ttl = NoExpiry)
    BY <1>0, <2>2, Zenon
  <2> QED BY <2>3, <2>4, Zenon
<1>2. ASSUME NEW field \in {"key", "size", "ttl"},
             NEW x \in Rows, NEW y \in Rows, NEW z \in Rows
      PROVE  /\ ~(Less(field, x, y) /\ Less(field, y, x))
             /\ Less(field, x, z) => Less(field, x, y) \/ Less(field, y, z)
  BY <1>1, ValuesAssumption DEF Less
<1>3. sort.field \in {"key", "size", "ttl"}
  BY DEF Sorts
<1> QED BY <1>2, <1>3 DEF Before

\* One row goes before another in a stable sort.
Precedes(rs, sort, i, j) == \/ Before(sort, rs[i], rs[j])
                            \/ ~Before(sort, rs[j], rs[i]) /\ i <= j

\* Of two rows exactly one precedes the other, and what precedes is transitive.
LEMMA PrecedesIsTotal ==
  ASSUME NEW rs \in Seq(Rows), NEW sort \in Sorts,
         NEW i \in DOMAIN rs, NEW j \in DOMAIN rs, NEW k \in DOMAIN rs
  PROVE  /\ Precedes(rs, sort, i, j) \/ Precedes(rs, sort, j, i)
         /\ Precedes(rs, sort, i, j) /\ Precedes(rs, sort, j, i) => i = j
         /\ Precedes(rs, sort, i, j) /\ Precedes(rs, sort, j, k) => Precedes(rs, sort, i, k)
<1>1. rs[i] \in Rows /\ rs[j] \in Rows /\ rs[k] \in Rows /\ i \in Int /\ j \in Int /\ k \in Int
  OBVIOUS
<1>2. ASSUME NEW r \in {rs[i], rs[j], rs[k]}, NEW s \in {rs[i], rs[j], rs[k]},
             NEW t \in {rs[i], rs[j], rs[k]}
      PROVE  /\ ~(Before(sort, r, s) /\ Before(sort, s, r))
             /\ Before(sort, r, t) => Before(sort, r, s) \/ Before(sort, s, t)
  BY <1>1, BeforeIsWeakOrder
<1> QED BY <1>1, <1>2 DEF Precedes

\* A row's place is one of the places, and a row that precedes it has a lower one.
LEMMA PlaceGrows ==
  ASSUME NEW rs \in Seq(Rows), NEW sort \in Sorts, NEW i \in DOMAIN rs
  PROVE  /\ Place(rs, sort, i) \in DOMAIN rs
         /\ \A j \in DOMAIN rs : Precedes(rs, sort, i, j) /\ i # j =>
              Place(rs, sort, i) < Place(rs, sort, j)
<1> DEFINE Upto(j) == {k \in DOMAIN rs : Precedes(rs, sort, k, j)}
<1>1. DOMAIN rs = 1 .. Len(rs) /\ Len(rs) \in Nat
  OBVIOUS
<1>2. IsFiniteSet(DOMAIN rs) /\ Cardinality(DOMAIN rs) = Len(rs)
  <2>1. IsFiniteSet(1 .. Len(rs))
        /\ Cardinality(1 .. Len(rs)) = IF 1 > Len(rs) THEN 0 ELSE Len(rs) - 1 + 1
    BY <1>1, FS_Interval
  <2> QED BY <1>1, <2>1
<1>3. \A j : Place(rs, sort, j) = Cardinality(Upto(j))
  BY DEF Place, Precedes
<1>4. ASSUME NEW j \in DOMAIN rs
      PROVE  IsFiniteSet(Upto(j)) /\ Cardinality(Upto(j)) \in 0 .. Len(rs)
  BY <1>1, <1>2, FS_Subset, FS_CardinalityType
<1>5. Cardinality(Upto(i)) # 0
  <2>1. i \in Upto(i)
    BY PrecedesIsTotal
  <2> QED BY <1>4, <2>1, FS_EmptySet
<1>6. ASSUME NEW j \in DOMAIN rs, Precedes(rs, sort, i, j), i # j
      PROVE  Cardinality(Upto(i)) < Cardinality(Upto(j))
  <2>1. Upto(i) \subseteq Upto(j)
    BY <1>6, PrecedesIsTotal
  <2>2. j \in Upto(j) /\ j \notin Upto(i)
    BY <1>6, PrecedesIsTotal
  <2>3. Cardinality(Upto(i)) <= Cardinality(Upto(j))
        /\ (Cardinality(Upto(j)) = Cardinality(Upto(i)) => Upto(j) = Upto(i))
    BY <1>4, <2>1, FS_Subset
  <2>4. Cardinality(Upto(i)) \in Int /\ Cardinality(Upto(j)) \in Int
    <3> HIDE DEF Upto
    <3>1. \A l \in DOMAIN rs : Cardinality(Upto(l)) \in 0 .. Len(rs)
      BY <1>4
    <3> QED BY <1>1, <3>1
  <2>5. Upto(i) # Upto(j)
    BY <2>2
  <2> HIDE DEF Upto
  <2> QED BY <2>3, <2>4, <2>5
<1> HIDE DEF Upto
<1> QED BY <1>1, <1>3, <1>4, <1>5, <1>6

\* Every place is a row's.
LEMMA PlacesTaken ==
  ASSUME NEW rs \in Seq(Rows), NEW sort \in Sorts, NEW n \in DOMAIN rs
  PROVE  \E i \in DOMAIN rs : Place(rs, sort, i) = n
<1> DEFINE S == DOMAIN rs
           f == [i \in S |-> Place(rs, sort, i)]
<1>1. IsFiniteSet(S)
  BY FS_Interval
<1>2. f \in [S -> S]
  BY PlaceGrows
<1>3. ASSUME NEW i \in S, NEW j \in S, f[i] = f[j] PROVE i = j
  <2>1. Place(rs, sort, i) = Place(rs, sort, j) /\ Place(rs, sort, i) \in Int
    BY <1>3, PlaceGrows
  <2> QED BY <2>1, PlaceGrows, PrecedesIsTotal
<1>4. f \in Injection(S, S)
  BY <1>2, <1>3, Fun_IsInj
<1>5. f \in Surjection(S, S)
  BY <1>1, <1>4, FS_Injection
<1> QED BY <1>5, Fun_SurjectionProperties

\* In every order the view shows the rows it listed, and what is equal in that order
\* by key.
THEOREM AlwaysOrderedTiesByKey == BrowserSpec => []OrderedTiesByKey
<1>1. ASSUME BrowserInv PROVE OrderedTiesByKey
  <2> SUFFICES ASSUME NEW sort \in Sorts
               PROVE  LET s == Sorted(rows, sort)
                      IN  /\ {s[i] : i \in DOMAIN rows} = {rows[i] : i \in DOMAIN rows}
                          /\ \A i, j \in DOMAIN rows : i < j =>
                               /\ ~Before(sort, s[j], s[i])
                               /\ Before(sort, s[i], s[j]) \/ s[i].key < s[j].key
    BY DEF OrderedTiesByKey
  <2> DEFINE s == Sorted(rows, sort)
             At(n) == CHOOSE i \in DOMAIN rows : Place(rows, sort, i) = n
  <2>1. rows \in Seq(Rows) /\ \A i, j \in DOMAIN rows : i < j => rows[i].key < rows[j].key
    BY <1>1 DEF BrowserInv, BrowserTypeOK, RowsFollowKeys
  <2>2. \A n \in DOMAIN rows : At(n) \in DOMAIN rows /\ Place(rows, sort, At(n)) = n
    BY <2>1, PlacesTaken
  <2>3. \A n \in DOMAIN rows : s[n] = rows[At(n)]
    BY DEF Sorted
  <2> HIDE DEF s, At
  <2>4. ASSUME NEW i \in DOMAIN rows PROVE \E n \in DOMAIN rows : At(n) = i
    <3> DEFINE n == Place(rows, sort, i)
    <3>1. n \in DOMAIN rows
      BY <2>1, PlaceGrows
    <3>2. Place(rows, sort, At(n)) = n /\ At(n) \in DOMAIN rows /\ n \in Int
      BY <2>1, <2>2, <3>1
    <3>3. At(n) = i
      BY <2>1, <3>2, PlaceGrows, PrecedesIsTotal
    <3> QED BY <3>1, <3>3
  <2>5. {s[i] : i \in DOMAIN rows} = {rows[i] : i \in DOMAIN rows}
    BY <2>2, <2>3, <2>4
  <2>6. ASSUME NEW i \in DOMAIN rows, NEW j \in DOMAIN rows, i < j
        PROVE  /\ ~Before(sort, s[j], s[i])
               /\ Before(sort, s[i], s[j]) \/ s[i].key < s[j].key
    <3>1. At(i) \in DOMAIN rows /\ At(j) \in DOMAIN rows /\ At(i) \in Int /\ At(j) \in Int
      BY <2>1, <2>2
    <3>2. Place(rows, sort, At(i)) = i /\ Place(rows, sort, At(j)) = j /\ i \in Int /\ j \in Int
      BY <2>1, <2>2
    <3>3. At(i) # At(j) /\ ~Precedes(rows, sort, At(j), At(i))
      BY <2>1, <2>6, <3>1, <3>2, PlaceGrows
    <3>4. Precedes(rows, sort, At(i), At(j))
      BY <2>1, <3>1, <3>3, PrecedesIsTotal
    <3>5. rows[At(i)] \in Rows /\ rows[At(j)] \in Rows
      BY <2>1, <3>1
    <3>6. ~(Before(sort, rows[At(i)], rows[At(j)]) /\ Before(sort, rows[At(j)], rows[At(i)]))
      BY <3>5, BeforeIsWeakOrder
    <3> QED BY <2>1, <2>3, <3>1, <3>3, <3>4, <3>6 DEF Precedes
  <2> QED BY <2>5, <2>6 DEF s
<1> QED BY <1>1, BrowserInvariance, PTL
=============================================================================
