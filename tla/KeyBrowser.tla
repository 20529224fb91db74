----------------------------- MODULE KeyBrowser -----------------------------
(***************************************************************************)
(* One view of the key browser: BuildKeyBrowser and sortKeyRows of         *)
(* cmd/lytecache/ui/viewmodel.go.  Keys are listed, then inspected one by  *)
(* one while applications write, delete and expire them; the rows are      *)
(* sorted and one page of them is shown.  A key is its place in key order. *)
(***************************************************************************)
EXTENDS Integers, Sequences, FiniteSets

CONSTANTS
  Keys,         \* the keys the glob matches
  Sizes, Ttls,  \* values of a row's size and of its remaining time to live
  NoExpiry,     \* TTLRemaining is nil
  MaxScanned,   \* const maxKeysScanned
  IntLimit,     \* the first number past the ints, 2^63 or 2^31
  Absent

ASSUME KeysAssumption == Keys \subseteq Nat \ {0} /\ IsFiniteSet(Keys)
ASSUME ValuesAssumption == Sizes \subseteq Nat /\ Ttls \subseteq Int /\ NoExpiry \notin Int
ASSUME BoundsAssumption ==
  /\ MaxScanned \in Nat \ {0} /\ IntLimit \in Nat
  /\ MaxScanned * MaxScanned < IntLimit

Info == [size : Sizes, ttl : Ttls \cup {NoExpiry}]
ASSUME AbsentAssumption == Absent \notin Info

Rows == [key : Keys, info : Info]
Sorts == [field : {"key", "size", "ttl"}, desc : BOOLEAN]

VARIABLES
  store,      \* the namespace
  stage,      \* where BuildKeyBrowser is
  keys,       \* the keys listed so far
  inspected,  \* how many of them have been inspected
  rows,       \* the rows so far
  keysTruncated,
  stayed      \* history: the keys present since the view began

browserVars == <<store, stage, keys, inspected, rows, keysTruncated, stayed>>

BrowserTypeOK ==
  /\ store \in [Keys -> Info \cup {Absent}]
  /\ stage \in {"listing", "inspecting", "done", "failed"}
  /\ keys \in Seq(Keys) /\ Len(keys) <= MaxScanned
  /\ inspected \in 0 .. Len(keys)
  /\ rows \in Seq(Rows) /\ Len(rows) <= inspected
  /\ keysTruncated \in BOOLEAN /\ stayed \subseteq Keys

Present == {k \in Keys : store[k] # Absent}

BrowserInit ==
  /\ store \in [Keys -> Info \cup {Absent}]
  /\ stage = "listing" /\ keys = <<>> /\ inspected = 0
  /\ rows = <<>> /\ keysTruncated = FALSE /\ stayed = Present

-----------------------------------------------------------------------------

\* What the iterator has still to yield: it pages by key, so what is written
\* behind it is not seen.
Rest == {k \in Present : keys = <<>> \/ k > keys[Len(keys)]}

\* Mutant of Keyed: the cap is tested with > instead of >=.
KeyedPastCap ==
  /\ stage = "listing"
  /\ \E k \in Rest :
       /\ \A l \in Rest : k <= l
       /\ keys' = Append(keys, k)
  /\ keysTruncated' = (Len(keys') > MaxScanned)
  /\ stage' = IF keysTruncated' THEN "inspecting" ELSE stage
  /\ UNCHANGED <<store, inspected, rows, stayed>>

\* The next key; the scan ends at the cap, whether or not more would follow.
Keyed ==
  /\ stage = "listing"
  /\ \E k \in Rest :
       /\ \A l \in Rest : k <= l
       /\ keys' = Append(keys, k)
  /\ keysTruncated' = (Len(keys') >= MaxScanned)
  /\ stage' = IF keysTruncated' THEN "inspecting" ELSE stage
  /\ UNCHANGED <<store, inspected, rows, stayed>>

ScanDone ==
  /\ stage = "listing" /\ Rest = {}
  /\ stage' = "inspecting"
  /\ UNCHANGED <<store, keys, inspected, rows, keysTruncated, stayed>>

\* Mutant of Inspect: a key that is gone ends the loop.
InspectStopping ==
  /\ stage = "inspecting" /\ inspected < Len(keys)
  /\ LET k == keys[inspected + 1]
     IN  IF store[k] = Absent
         THEN inspected' = Len(keys) /\ UNCHANGED rows
         ELSE inspected' = inspected + 1 /\ rows' = Append(rows, [key |-> k, info |-> store[k]])
  /\ UNCHANGED <<store, stage, keys, keysTruncated, stayed>>

Inspect ==
  /\ stage = "inspecting" /\ inspected < Len(keys)
  /\ LET k == keys[inspected + 1]
     IN  IF store[k] = Absent
         THEN UNCHANGED rows
         ELSE rows' = Append(rows, [key |-> k, info |-> store[k]])
  /\ inspected' = inspected + 1
  /\ UNCHANGED <<store, stage, keys, keysTruncated, stayed>>

Built ==
  /\ stage = "inspecting" /\ inspected = Len(keys)
  /\ stage' = "done"
  /\ UNCHANGED <<store, keys, inspected, rows, keysTruncated, stayed>>

Fails ==
  /\ stage \in {"listing", "inspecting"}
  /\ stage' = "failed"
  /\ UNCHANGED <<store, keys, inspected, rows, keysTruncated, stayed>>

\* An application writes a key, or it is deleted or expires.
Store(k, i) ==
  /\ stage \in {"listing", "inspecting"}
  /\ store' = [store EXCEPT ![k] = i]
  /\ stayed' = IF i = Absent THEN stayed \ {k} ELSE stayed
  /\ UNCHANGED <<stage, keys, inspected, rows, keysTruncated>>

BrowserNext ==
  \/ Keyed \/ ScanDone \/ Inspect \/ Built \/ Fails
  \/ \E k \in Keys, i \in Info \cup {Absent} : Store(k, i)

BrowserSpec == BrowserInit /\ [][BrowserNext]_browserVars

-----------------------------------------------------------------------------
\* What is shown of the rows.

\* less of sortKeyRows, and the order sort.SliceStable is given.
Less(field, r, s) ==
  CASE field = "size" -> r.info.size < s.info.size
    [] field = "ttl" -> /\ r.info.ttl # NoExpiry
                        /\ s.info.ttl = NoExpiry \/ r.info.ttl < s.info.ttl
    [] OTHER -> r.key < s.key
Before(sort, r, s) == IF sort.desc THEN Less(sort.field, s, r) ELSE Less(sort.field, r, s)

\* Mutant of Place: a sort that turns equal rows around.
PlaceUnstable(rs, sort, i) ==
  Cardinality({j \in DOMAIN rs :
    \/ Before(sort, rs[j], rs[i])
    \/ ~Before(sort, rs[i], rs[j]) /\ j >= i})

\* The place of the i-th row after a stable sort, and the sorted rows.
Place(rs, sort, i) ==
  Cardinality({j \in DOMAIN rs :
    \/ Before(sort, rs[j], rs[i])
    \/ ~Before(sort, rs[i], rs[j]) /\ j <= i})
Sorted(rs, sort) == [n \in DOMAIN rs |-> rs[CHOOSE i \in DOMAIN rs : Place(rs, sort, i) = n]]

\* int arithmetic wraps around.
Wrapped(n) == ((n + IntLimit) % (2 * IntLimit)) - IntLimit
AtMost(n, total) == IF n > total THEN total ELSE n

\* Mutant of Start: pages counted from zero.
StartFromZero(page, size, total) == AtMost(Wrapped(page * size), total)

Start(page, size, total) == AtMost(Wrapped((page - 1) * size), total)
End(page, size, total) == AtMost(Wrapped(Start(page, size, total) + size), total)

-----------------------------------------------------------------------------

\* A key that was there all the time is listed, whatever was written, deleted or
\* expired around it, unless the view says it is truncated.
StayingKeysListed ==
  stage = "done" /\ ~keysTruncated => \A k \in stayed : \E i \in DOMAIN rows : rows[i].key = k

\* For every page and size whose product fits an int, the bounds of the page lie
\* within the rows, and each row is on exactly one page.
PagesPartition ==
  stage = "done" =>
    LET n == Len(rows)
        Ints == 1 .. IntLimit - 1
    IN  /\ \A page, size \in Ints : page * size < IntLimit =>
             /\ 0 <= Start(page, size, n) /\ Start(page, size, n) <= End(page, size, n)
             /\ End(page, size, n) <= n
        /\ \A size \in 1 .. n : \A i \in 1 .. n :
             \E page \in 1 .. n : \A q \in 1 .. n :
               (Start(q, size, n) < i /\ i <= End(q, size, n)) <=> q = page

\* sortKeyRows says of its order by ttl: "No-expiry keys sort last regardless of
\* direction, so reversing the direction never buries them in the middle".
NoExpiryLast ==
  stage = "done" =>
    \A sort \in Sorts : sort.field = "ttl" =>
      LET s == Sorted(rows, sort)
      IN  \A i, j \in DOMAIN rows :
            i < j /\ s[i].info.ttl = NoExpiry => s[j].info.ttl = NoExpiry

\* In every order the rows shown are the rows listed, sorted, and rows that are
\* equal in that order stay in key order, ascending or descending: the pages of
\* two views of the same keys do not overlap.  The order is Before; where it has the
\* keys without an expiry is the subject of NoExpiryLast.
OrderedTiesByKey ==
  stage = "done" =>
    \A sort \in Sorts :
      LET s == Sorted(rows, sort)
      IN  /\ {s[i] : i \in DOMAIN rows} = {rows[i] : i \in DOMAIN rows}
          /\ \A i, j \in DOMAIN rows : i < j =>
               /\ ~Before(sort, s[j], s[i])
               /\ Before(sort, s[i], s[j]) \/ s[i].key < s[j].key
=============================================================================
