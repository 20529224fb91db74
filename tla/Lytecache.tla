------------------------------ MODULE Lytecache ------------------------------
(***************************************************************************)
(* The calls of the lytecache library on one namespace of a database file, *)
(* each one atomic, the way the commands of cmd/lytecache use them.  The   *)
(* library itself (github.com/lytecache/lytecache-go) is external.         *)
(*                                                                         *)
(* An item is a key's row: its value type, the value (n), and whether it   *)
(* has an expiry.  A key is its place in key order.                        *)
(***************************************************************************)
EXTENDS Integers

CONSTANTS
  Keys,    \* the keys of the namespace
  Rows,    \* for each key, the rows it can have
  Absent   \* the key has no row, or an expired one

Items == UNION {Rows[k] : k \in Keys}

\* What can be shown of rows, of one or of two at once.
Shown == [type : {i.type : i \in Items}, n : {i.n : i \in Items}, ttl : BOOLEAN]

ASSUME KeysAssumption == Keys \subseteq Nat
ASSUME RowsAssumption ==
  \A i \in Items : i = [type |-> i.type, n |-> i.n, ttl |-> i.ttl] /\ i.ttl \in BOOLEAN
ASSUME PersistAssumption ==  \* Persist takes any row's expiry
  \A k \in Keys : \A i \in Rows[k] : [i EXCEPT !.ttl = FALSE] \in Rows[k]
ASSUME AbsentAssumption == Absent \notin Items

Stores == {s \in [Keys -> Items \cup {Absent}] : \A k \in Keys : s[k] \in Rows[k] \cup {Absent}}
Empty == [k \in Keys |-> Absent]

Has(s, k) == s[k] # Absent

\* A pickle or a serialized Java object, which isNonPortable tells from the type.
NonPortable(i) == i.type = "opaque"

\* Set; Expire and Touch, Persist; Delete and Flush, for a set of keys.
Put(s, k, i) == [s EXCEPT ![k] = i]
WithExpiry(s, k, b) == [s EXCEPT ![k].ttl = b]
Without(s, gone) == [k \in Keys |-> IF k \in gone THEN Absent ELSE s[k]]

\* Incr and Decr: a missing counter starts from zero, without an expiry.
Incremented(s, k, d) ==
  IF Has(s, k) THEN [s[k] EXCEPT !.n = @ + d] ELSE [type |-> "int", n |-> d, ttl |-> FALSE]
CanIncrement(s, k) == Has(s, k) => s[k].type = "int"

\* The getter of a type, GetInt64 say: it refuses a row of another type.  A JSON
\* value is read into an `any`, which takes every portable type.
Decodes(type, i) == ~NonPortable(i) /\ (type = "json" \/ type = i.type)
=============================================================================
