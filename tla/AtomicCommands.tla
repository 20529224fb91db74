--------------------------- MODULE AtomicCommands ---------------------------
(***************************************************************************)
(* What a script relies on when it runs lytecache commands next to live    *)
(* applications: a command works on the file that is at the path at some   *)
(* moment of it (in a session, at the session's beginning); it takes its   *)
(* effect there at one moment, and its answer is the truth of that moment; *)
(* a command that reports an error has had no effect on any key.           *)
(*                                                                         *)
(* Two kinds take more than one moment.  A listing of keys gives its       *)
(* verdict on each key at one moment, not on all of them at the same one.  *)
(* get and the value page look at the row first and read the value at a    *)
(* later moment: the value is shown as one of the type that was looked at, *)
(* and the page gives the expiry of the first moment with it.              *)
(***************************************************************************)
EXTENDS Lytecache

CONSTANTS
  Procs,      \* the processes that run commands
  Files,      \* the files that can come to be at the path, 1 .. n
  Masked,     \* the keys whose value the admin UI does not show
  MaxWrites,  \* bound on the writes of the applications
  Nothing     \* no answer, or nothing printed

VARIABLES
  disk,     \* the file at the path, 0 when there is none
  created,  \* how many files there were at the path so far
  store,    \* what is in each of them
  writes,   \* how often the applications wrote
  doing,    \* the command each process is running, or Nothing
  bound,    \* the file it works on, or 0
  looked,   \* for get and a value page: the row it has looked at, or Nothing
  answer,   \* its exit code and what it printed, or Nothing
  verdict   \* for a listing: what is said of each key so far

fileVars == <<disk, created, store, writes>>
vars == <<fileVars, doing, bound, looked, answer, verdict>>

Undecided == [k \in Keys |-> "open"]

Init ==
  /\ disk \in {0, 1} /\ created = disk
  /\ store \in [Files -> Stores] /\ \A f \in Files : f > created => store[f] = Empty
  /\ writes = 0
  /\ doing = [p \in Procs |-> Nothing]
  /\ bound = [p \in Procs |-> 0]
  /\ looked = [p \in Procs |-> Nothing]
  /\ answer = [p \in Procs |-> Nothing]
  /\ verdict = [p \in Procs |-> Undecided]

-----------------------------------------------------------------------------
(* What each command does in its moment: the store after it, and the answer *)

Says(s, code, out) == [store |-> s, answer |-> [code |-> code, out |-> out]]
Miss(s) == Says(s, 1, Nothing)
Truth(s, b) == Says(s, IF b THEN 0 ELSE 1, Nothing)

Looks(s, k) == IF Has(s, k) THEN Says(s, 0, s[k]) ELSE Miss(s)

\* The value of row i, with what a row looked at before had to go with it.
Together(c, row, i) ==
  IF c.op = "view" THEN [row EXCEPT !.n = i.n] ELSE [i EXCEPT !.type = row.type]

\* A value that is masked is not shown, and one that cannot be read as what it was
\* looked at for is none to show.
Reading(c, s, row) ==
  IF c.op = "view" /\ c.key \in Masked THEN {Truth(s, Has(s, c.key))}
  ELSE IF ~Has(s, c.key) \/ row = Nothing THEN {Looks(s, c.key)}
  ELSE IF Decodes(row.type, s[c.key]) THEN {Says(s, 0, Together(c, row, s[c.key]))}
  ELSE {}

Outcomes(c, s, row) ==
  CASE c.op \in {"get", "view"} -> Reading(c, s, row)
    [] c.op \in {"ttl", "dump"} -> {Looks(s, c.key)}
    [] c.op = "set" -> {Says(Put(s, c.key, i), 0, Nothing) : i \in Rows[c.key]}
    [] c.op = "del" -> {Says(Without(s, {c.key}), 0, Nothing)}
    [] c.op = "exists" -> {Truth(s, Has(s, c.key))}
    [] c.op = "expire" ->
         {IF Has(s, c.key) THEN Truth(WithExpiry(s, c.key, TRUE), TRUE) ELSE Miss(s)}
    [] c.op = "persist" ->
         IF ~Has(s, c.key) THEN {Miss(s)}
         ELSE IF s[c.key].ttl THEN {Truth(WithExpiry(s, c.key, FALSE), TRUE)}
         ELSE {Truth(s, TRUE), Truth(s, FALSE)}
    [] c.op = "incr" ->
         {Says(Put(s, c.key, i), 0, i) :
            i \in {j \in Rows[c.key] :
                     CanIncrement(s, c.key) /\ \E d \in {-1, 1} : j = Incremented(s, c.key, d)}}
    [] c.op = "flush" -> {Says(Empty, 0, Nothing)}
    [] c.op = "maintain" -> {Says(Without(s, gone), 0, Nothing) : gone \in SUBSET Keys}
    [] c.op \in {"stats", "vacuum"} -> {Says(s, 0, Nothing)}
    [] OTHER -> {}

-----------------------------------------------------------------------------

Begin(p) ==
  /\ doing[p] = Nothing
  /\ \E c \in [op : {"get", "ttl", "dump", "view", "set", "del", "exists", "expire", "persist",
                     "incr", "flush", "maintain", "stats", "vacuum", "watch", "which", "keys"},
               key : Keys] : doing' = [doing EXCEPT ![p] = c]
  /\ UNCHANGED <<fileVars, bound, looked, answer, verdict>>

\* The file at the path; one is made when there is none.
Bind(p) ==
  /\ bound[p] = 0
  /\ IF disk # 0 THEN UNCHANGED <<disk, created>>
     ELSE /\ created + 1 \in Files
          /\ created' = created + 1 /\ disk' = created'
  /\ bound' = [bound EXCEPT ![p] = disk']
  /\ UNCHANGED <<store, writes, doing, looked, answer, verdict>>

\* Between the pictures of a watch it lets go of the file.
Unbind(p) ==
  /\ doing[p] # Nothing /\ doing[p].op = "watch"
  /\ bound' = [bound EXCEPT ![p] = 0]
  /\ UNCHANGED <<fileVars, doing, looked, answer, verdict>>

Unanswered(p) == doing[p] # Nothing /\ answer[p] = Nothing

Answer(p, code, out) == answer' = [answer EXCEPT ![p] = [code |-> code, out |-> out]]

\* The first moment of get and of a value page.
Look(p) ==
  /\ Unanswered(p) /\ bound[p] # 0 /\ doing[p].op \in {"get", "view"}
  /\ Has(store[bound[p]], doing[p].key)
  /\ looked' = [looked EXCEPT ![p] = store[bound[p]][doing[p].key]]
  /\ UNCHANGED <<fileVars, doing, bound, answer, verdict>>

Act(p) ==
  /\ Unanswered(p) /\ bound[p] # 0
  /\ \E o \in Outcomes(doing[p], store[bound[p]], looked[p]) :
       /\ store' = [store EXCEPT ![bound[p]] = o.store]
       /\ answer' = [answer EXCEPT ![p] = o.answer]
  /\ UNCHANGED <<disk, created, writes, doing, bound, looked, verdict>>

\* flush is declined, watch interrupted.
Decline(p) ==
  /\ Unanswered(p)
  /\ \/ doing[p].op = "flush" /\ Answer(p, 1, Nothing)
     \/ doing[p].op = "watch" /\ Answer(p, 0, Nothing)
  /\ UNCHANGED <<fileVars, doing, bound, looked, verdict>>

\* which says that there is a file only when there is; it may fail to see one.
Locate(p) ==
  /\ Unanswered(p) /\ doing[p].op = "which"
  /\ \E found \in BOOLEAN : (found => disk # 0) /\ Answer(p, IF found THEN 0 ELSE 1, Nothing)
  /\ UNCHANGED <<fileVars, doing, bound, looked, verdict>>

Judge(p, k) ==
  /\ Unanswered(p) /\ doing[p].op = "keys" /\ bound[p] # 0
  /\ verdict[p][k] = "open"
  /\ verdict' = [verdict EXCEPT ![p][k] =
       IF Has(store[bound[p]], k) THEN "listed" ELSE "left out"]
  /\ UNCHANGED <<fileVars, doing, bound, looked, answer>>

Listed(p) ==
  /\ Unanswered(p) /\ doing[p].op = "keys"
  /\ \A k \in Keys : verdict[p][k] # "open"
  /\ Answer(p, 0, Nothing)
  /\ UNCHANGED <<fileVars, doing, bound, looked, verdict>>

\* An error, with one of its two exit codes, and no effect.
Fail(p) ==
  /\ Unanswered(p)
  /\ \E code \in {2, 3} : Answer(p, code, Nothing)
  /\ \E f \in {0, bound[p]} : bound' = [bound EXCEPT ![p] = f]
  /\ UNCHANGED <<fileVars, doing, looked, verdict>>

\* The end of a command, of a session, or of a process that is killed.
End(p) ==
  /\ doing' = [doing EXCEPT ![p] = Nothing]
  /\ \E f \in {0, bound[p]} : bound' = [bound EXCEPT ![p] = f]
  /\ looked' = [looked EXCEPT ![p] = Nothing]
  /\ answer' = [answer EXCEPT ![p] = Nothing]
  /\ verdict' = [verdict EXCEPT ![p] = Undecided]
  /\ UNCHANGED fileVars

\* The applications, and time, which lets keys expire.
Write(f, k) ==
  /\ writes < MaxWrites /\ writes' = writes + 1
  /\ \E i \in Rows[k] \cup {Absent} : store' = [store EXCEPT ![f][k] = i]
  /\ UNCHANGED <<disk, created, doing, bound, looked, answer, verdict>>

Remove ==
  disk' = 0 /\ UNCHANGED <<created, store, writes, doing, bound, looked, answer, verdict>>

Create ==
  /\ disk = 0 /\ created + 1 \in Files
  /\ created' = created + 1 /\ disk' = created'
  /\ UNCHANGED <<store, writes, doing, bound, looked, answer, verdict>>

Next ==
  \/ \E p \in Procs :
       \/ Begin(p) \/ Bind(p) \/ Unbind(p) \/ Look(p) \/ Act(p) \/ Decline(p) \/ Locate(p)
       \/ Listed(p) \/ Fail(p) \/ End(p)
       \/ \E k \in Keys : Judge(p, k)
  \/ \E f \in Files, k \in Keys : Write(f, k)
  \/ Remove \/ Create

Spec == Init /\ [][Next]_vars
=============================================================================
