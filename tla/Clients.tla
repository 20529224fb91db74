------------------------------- MODULE Clients -------------------------------
(***************************************************************************)
(* The processes that use one database file next to the applications that  *)
(* own it: one-shot commands of cmd/lytecache (cmd_*.go, db.go, main.go),  *)
(* the REPL (repl.go), and the value page of the admin UI (BuildValueView  *)
(* of ui/viewmodel.go), which works on a handle of its server's.           *)
(*                                                                         *)
(* Each call of the library is one step, and between two of them anybody   *)
(* may write, remove or replace the file.  A handle stays with the file it *)
(* was opened on.  Left out are the texts of values and of listings, and   *)
(* the tokens of a REPL line.                                              *)
(***************************************************************************)
EXTENDS Lytecache

CONSTANTS
  Procs,      \* processes
  Ops,        \* for each process, the commands it may run and on which keys
  Sessions,   \* ... and the kinds of session it may begin
  MaxFiles,   \* bound on how often a file appears at the path
  Masked,     \* the keys that match a --mask-keys pattern
  MaxWrites,  \* bound on the writes of the applications
  Nothing     \* nothing printed, or no exit code yet

AllOps == {"get", "view", "set", "del", "exists", "ttl", "expire", "persist", "incr", "keys",
           "stats", "flush", "maintain", "vacuum", "which", "dump", "watch"}

ASSUME OpsAssumption == Ops \in [Procs -> SUBSET (AllOps \X Keys)]
ASSUME SessionsAssumption == Sessions \in [Procs -> SUBSET {"repl", "ui"}]
ASSUME MaxFilesAssumption == MaxFiles \in Nat \ {0}
ASSUME MaxWritesAssumption == MaxWrites \in Nat
ASSUME MaskedAssumption == Masked \subseteq Keys
ASSUME NothingAssumption ==  \* it is no value, and no command or answer as a whole
  /\ Nothing \notin Items /\ Nothing \notin Shown /\ Nothing \notin 0 .. 3
  /\ Nothing \notin Keys /\ Nothing \notin AllOps
  /\ Nothing \notin [op : AllOps, key : Keys]
  /\ Nothing \notin [code : 0 .. 3, out : Shown \cup {Nothing}]

Files == 1 .. MaxFiles

VARIABLES
  disk,     \* the file at the path, 0 when there is none
  created,  \* how many files there were at the path so far
  store,    \* what is in each of them
  writes,   \* how often the applications wrote
  proc,     \* the processes
  removed   \* history: whose file was removed since its stat

fileVars == <<disk, created, store, writes>>
vars == <<fileVars, proc, removed>>

\* exitcode.go
exitSuccess == 0
exitFalseOrMiss == 1
exitUsage == 2
exitDatabase == 3

Phases == {"off", "starting", "prompt", "begun", "ticked", "found", "open",
           "inspected", "sized", "vacuumed", "drawn", "done"}
Verdicts == {"open", "yielded", "listed", "left out"}
Undecided == [k \in Keys |-> "open"]

Processes ==
  [phase : Phases,
   session : {"none", "repl", "ui"},   \* the REPL or the server it is in
   op : AllOps \cup {Nothing}, key : Keys \cup {Nothing},
   handle : {0} \cup Files,            \* the file it has open
   seen : Items \cup {Nothing},        \* the row that Inspect found
   verdict : [Keys -> Verdicts],       \* runKeys: what became of each key
   interrupted : BOOLEAN,              \* watch: its context is done
   code : {Nothing, 0, 1, 2, 3}, out : Shown \cup {Nothing}]

NoProcess ==
  [phase |-> "off", session |-> "none", op |-> Nothing, key |-> Nothing, handle |-> 0,
   seen |-> Nothing, verdict |-> Undecided, interrupted |-> FALSE, code |-> Nothing, out |-> Nothing]

TypeOK ==
  /\ disk \in {0} \cup Files /\ created \in {0} \cup Files /\ disk <= created
  /\ store \in [Files -> Stores] /\ writes \in Nat
  /\ proc \in [Procs -> Processes] /\ removed \subseteq Procs
  /\ \A p \in Procs : proc[p].phase \in {"open", "inspected", "sized", "vacuumed"} => proc[p].handle # 0

Init ==
  /\ disk \in {0, 1} /\ created = disk
  /\ store \in [Files -> Stores] /\ \A f \in Files : f > created => store[f] = Empty
  /\ writes = 0
  /\ proc = [p \in Procs |-> NoProcess] /\ removed = {}

-----------------------------------------------------------------------------
(* Beginning and ending                                                    *)

At(p, phase) == proc[p].phase = phase
Doing(p, op) == proc[p].op = op
InSession(p) == proc[p].session # "none"
Go(p, phase) == proc' = [proc EXCEPT ![p].phase = phase]

\* A command returns: its error gives the exit code, or an error line of the
\* REPL or of the server.
Done(p, code, out) ==
  proc' = [proc EXCEPT ![p].phase = "done", ![p].code = code, ![p].out = out]

PrintBool(p, ok) == Done(p, IF ok THEN exitSuccess ELSE exitFalseOrMiss, Nothing)

\* The commands of buildCommandTree, from the shell or from a line of the REPL,
\* and the request for a value page.
Invoke(p, op, k) ==
  /\ At(p, "off") \/ At(p, "prompt")
  /\ <<op, k>> \in Ops[p] /\ (op = "view" <=> proc[p].session = "ui")
  /\ proc' = [proc EXCEPT ![p].phase = "begun", ![p].op = op, ![p].key = k]
  /\ UNCHANGED <<fileVars, removed>>

\* Bad arguments or flags: cobra's own checks and those of the commands, which
\* all come before the database is opened.
Refused(p) ==
  /\ At(p, "begun") /\ ~Doing(p, "view")
  /\ Done(p, exitUsage, Nothing)
  /\ UNCHANGED <<fileVars, removed>>

\* flush asks first, and anything but yes declines.
Declined(p) ==
  /\ At(p, "begun") /\ Doing(p, "flush")
  /\ Done(p, exitFalseOrMiss, Nothing)
  /\ UNCHANGED <<fileVars, removed>>

Prompt(p, session, f) == [NoProcess EXCEPT !.phase = "prompt", !.session = session, !.handle = f]

\* The deferred closeFn, and the end of a one-shot process with its exit code;
\* in a session closeFn does nothing and the next command is awaited.
End(p) ==
  /\ At(p, "done")
  /\ proc' = [proc EXCEPT ![p] = IF InSession(p) THEN Prompt(p, @.session, @.handle) ELSE NoProcess]
  /\ UNCHANGED <<fileVars, removed>>

\* runREPL, which first opens the database as a command that writes does.
StartREPL(p) ==
  /\ At(p, "off") /\ "repl" \in Sessions[p]
  /\ Go(p, "starting")
  /\ UNCHANGED <<fileVars, removed>>

\* The admin UI opens a handle and keeps it; how, is the subject of DBManager.
StartUI(p) ==
  /\ At(p, "off") /\ "ui" \in Sessions[p] /\ disk # 0
  /\ proc' = [proc EXCEPT ![p] = Prompt(p, "ui", disk)]
  /\ UNCHANGED <<fileVars, removed>>

\* quit, Ctrl-D or a broken terminal; the end of the server; and a process that
\* is killed, as Ctrl-C kills any one-shot command but watch.
Quit(p) ==
  /\ ~At(p, "off")
  /\ proc' = [proc EXCEPT ![p] = NoProcess]
  /\ removed' = removed \ {p}
  /\ UNCHANGED fileVars

-----------------------------------------------------------------------------
(* openCache                                                               *)

Opening(p) == At(p, "begun") \/ At(p, "ticked")
Fails(p) == Done(p, exitDatabase, Nothing)

\* The commands that call openCache with readOnly, and the two that do not.
ReadOnly(p) == proc[p].op \notin {"set", "incr"}

\* Mutant of UseShared: whether there is a session is not asked.
UseSharedAlways(p) ==
  /\ Opening(p) /\ ~Doing(p, "which")
  /\ Go(p, "open")
  /\ UNCHANGED <<fileVars, removed>>

\* In a session there is a handle already.
UseShared(p) ==
  /\ Opening(p) /\ InSession(p) /\ ~Doing(p, "which")
  /\ Go(p, "open")
  /\ UNCHANGED <<fileVars, removed>>

Stats(p) == Opening(p) /\ ~InSession(p) /\ ~Doing(p, "which") /\ ReadOnly(p)

StatMissing(p) ==
  /\ Stats(p) /\ disk = 0
  /\ Fails(p)
  /\ UNCHANGED <<fileVars, removed>>

\* Mutant of StatFound: the stat is not asked.
StatIgnored(p) ==
  /\ Stats(p)
  /\ Go(p, "found")
  /\ UNCHANGED <<fileVars, removed>>

StatFound(p) ==
  /\ Stats(p) /\ disk # 0
  /\ Go(p, "found")
  /\ UNCHANGED <<fileVars, removed>>

\* lytecache.New comes next.
Ready(p) ==
  \/ At(p, "found") \/ At(p, "starting")
  \/ At(p, "begun") /\ ~InSession(p) /\ ~ReadOnly(p)

\* It opens the file, and makes one when there is none.
Open(p) ==
  /\ Ready(p)
  /\ IF disk # 0 THEN UNCHANGED <<disk, created>>
     ELSE created < MaxFiles /\ created' = created + 1 /\ disk' = created'
  /\ proc' = [proc EXCEPT ![p] =
       IF @.phase = "starting" THEN Prompt(p, "repl", disk')
       ELSE [@ EXCEPT !.phase = "open", !.handle = disk']]
  /\ removed' = removed \ {p}
  /\ UNCHANGED <<store, writes>>

\* The path cannot be resolved or the file cannot be opened.
OpenFails(p) ==
  /\ Ready(p) \/ Stats(p)
  /\ IF At(p, "starting") THEN proc' = [proc EXCEPT ![p] = NoProcess] ELSE Fails(p)
  /\ removed' = removed \ {p}
  /\ UNCHANGED fileVars

-----------------------------------------------------------------------------
(* The commands that are one call                                          *)

Calls(p, op) == At(p, "open") /\ Doing(p, op)
Key(p) == proc[p].key
In(p) == store[proc[p].handle]
Leaves(p, s) ==
  store' = [store EXCEPT ![proc[p].handle] = s] /\ UNCHANGED <<disk, created, writes, removed>>
Reads == UNCHANGED <<fileVars, removed>>

Set(p, i) ==
  /\ Calls(p, "set") /\ i \in Rows[Key(p)]
  /\ Leaves(p, Put(In(p), Key(p), i)) /\ Done(p, exitSuccess, Nothing)

\* del prints how many keys there were; none is no failure.
Del(p) == Calls(p, "del") /\ Leaves(p, Without(In(p), {Key(p)})) /\ Done(p, exitSuccess, Nothing)

Exists(p) == Calls(p, "exists") /\ PrintBool(p, Has(In(p), Key(p))) /\ Reads

\* ttl and dump print of the row what it tells, or "(nil)".
PrintRow(p) ==
  IF Has(In(p), Key(p)) THEN Done(p, exitSuccess, In(p)[Key(p)])
  ELSE Done(p, exitFalseOrMiss, Nothing)

TTL(p) == Calls(p, "ttl") /\ PrintRow(p) /\ Reads
Dump(p) == Calls(p, "dump") /\ PrintRow(p) /\ Reads

\* expire, and touch, which the library tells apart by nothing seen here.
Expire(p) ==
  /\ Calls(p, "expire")
  /\ IF Has(In(p), Key(p))
     THEN /\ WithExpiry(In(p), Key(p), TRUE) \in Stores
          /\ Leaves(p, WithExpiry(In(p), Key(p), TRUE)) /\ PrintBool(p, TRUE)
     ELSE PrintBool(p, FALSE) /\ Reads

\* Whether the library calls a key persisted that had no expiry is left open.
Persist(p) ==
  /\ Calls(p, "persist")
  /\ IF Has(In(p), Key(p))
     THEN /\ \E ok \in BOOLEAN : (In(p)[Key(p)].ttl => ok) /\ PrintBool(p, ok)
          /\ Leaves(p, WithExpiry(In(p), Key(p), FALSE))
     ELSE PrintBool(p, FALSE) /\ Reads

\* incr and decr, by one; the row of a counter stays among Rows.
Incr(p, d) ==
  /\ Calls(p, "incr") /\ CanIncrement(In(p), Key(p))
  /\ Incremented(In(p), Key(p), d) \in Rows[Key(p)]
  /\ Leaves(p, Put(In(p), Key(p), Incremented(In(p), Key(p), d)))
  /\ Done(p, exitSuccess, Incremented(In(p), Key(p), d))

Statistics(p) == Calls(p, "stats") /\ Done(p, exitSuccess, Nothing) /\ Reads

Flush(p) == Calls(p, "flush") /\ Leaves(p, Without(In(p), Keys)) /\ Done(p, exitSuccess, Nothing)

\* Maintain evicts what the library chooses.
Maintain(p, evicted) ==
  Calls(p, "maintain") /\ Leaves(p, Without(In(p), evicted)) /\ Done(p, exitSuccess, Nothing)

\* which resolves the path, and looks whether there is a file; any error of the
\* stat is to it a file that is not there.
WhichFails(p) == At(p, "begun") /\ Doing(p, "which") /\ Fails(p) /\ Reads

Which(p) ==
  /\ At(p, "begun") /\ Doing(p, "which")
  /\ \E exists \in BOOLEAN : (exists => disk # 0) /\ PrintBool(p, exists)
  /\ Reads

\* Any call of the library may report an error, without an effect.
CallFails(p) ==
  /\ \/ At(p, "open") /\ ~Doing(p, "watch") /\ ~Doing(p, "vacuum")
     \/ At(p, "inspected")
  /\ Fails(p) /\ Reads

\* An error of writing to stdout that a command returns as it is (get --raw,
\* keys --long, stats --json): run takes it for one of cobra's.
OutputFails(p) ==
  /\ \/ At(p, "inspected") /\ Doing(p, "get")
     \/ Calls(p, "keys") \/ Calls(p, "stats")
  /\ Done(p, exitUsage, Nothing) /\ Reads

-----------------------------------------------------------------------------
(* runGet and BuildValueView: Inspect, then the getter of the type it found *)

Inspecting(p) == Calls(p, "get") \/ Calls(p, "view")
Row(p) == In(p)[Key(p)]

InspectMiss(p) ==
  /\ Inspecting(p) /\ ~Has(In(p), Key(p))
  /\ Done(p, exitFalseOrMiss, Nothing) /\ Reads

Redacted(p) == Doing(p, "view") /\ Key(p) \in Masked

\* A masked value is never read, one that Go cannot decode is only described.
InspectOnly(p) ==
  /\ Inspecting(p) /\ Has(In(p), Key(p))
  /\ Redacted(p) \/ NonPortable(Row(p))
  /\ Done(p, exitSuccess, IF Redacted(p) THEN Nothing ELSE Row(p)) /\ Reads

Inspect(p) ==
  /\ Inspecting(p) /\ Has(In(p), Key(p))
  /\ ~Redacted(p) /\ ~NonPortable(Row(p))
  /\ proc' = [proc EXCEPT ![p].phase = "inspected", ![p].seen = Row(p)]
  /\ Reads

\* The value page shows what Inspect told, next to the value read now; get shows
\* the value alone, in the form of the type that Inspect told.
Formatted(p) ==
  IF Doing(p, "view") THEN [proc[p].seen EXCEPT !.n = Row(p).n]
  ELSE [Row(p) EXCEPT !.type = proc[p].seen.type]

\* Mutant of Decode: what Inspect found is taken for granted.
DecodeAnyway(p) ==
  /\ At(p, "inspected")
  /\ Has(In(p), Key(p)) => Decodes(proc[p].seen.type, Row(p))
  /\ Done(p, exitSuccess, IF Has(In(p), Key(p)) THEN Formatted(p) ELSE Nothing)
  /\ Reads

\* The key may be gone by now; a row of another type is an error of the getter,
\* which CallFails stands for.
Decode(p) ==
  /\ At(p, "inspected")
  /\ IF Has(In(p), Key(p))
     THEN Decodes(proc[p].seen.type, Row(p)) /\ Done(p, exitSuccess, Formatted(p))
     ELSE Done(p, exitFalseOrMiss, Nothing)
  /\ Reads

-----------------------------------------------------------------------------
(* runKeys: the iterator yields keys in their order, --long inspects each  *)

Judged(p, k, verdict) == proc' = [proc EXCEPT ![p].verdict[k] = verdict]
Passed(p, k) == \A j \in Keys : j < k => proc[p].verdict[j] \in {"listed", "left out"}
Turn(p, k) == Calls(p, "keys") /\ proc[p].verdict[k] = "open" /\ Passed(p, k)

\* The iterator passes over a key that is not there; without --long, a key that
\* is there is printed.
PassOver(p, k) == Turn(p, k) /\ ~Has(In(p), k) /\ Judged(p, k, "left out") /\ Reads
PrintKey(p, k) == Turn(p, k) /\ Has(In(p), k) /\ Judged(p, k, "listed") /\ Reads

Yield(p, k) == Turn(p, k) /\ Has(In(p), k) /\ Judged(p, k, "yielded") /\ Reads

\* A key that went between Keys and Inspect is skipped.
InspectKey(p, k) ==
  /\ Calls(p, "keys") /\ proc[p].verdict[k] = "yielded"
  /\ Judged(p, k, IF Has(In(p), k) THEN "listed" ELSE "left out") /\ Reads

Listed(p) ==
  /\ Calls(p, "keys") /\ \A k \in Keys : proc[p].verdict[k] \in {"listed", "left out"}
  /\ Done(p, exitSuccess, Nothing) /\ Reads

-----------------------------------------------------------------------------
(* vacuum: the size of the file at the path, the vacuum, the size again    *)

\* fileSize stats the path of the handle, whatever file is there now.
Size(p) == Calls(p, "vacuum") /\ disk # 0 /\ Go(p, "sized") /\ Reads
Vacuum(p) == At(p, "sized") /\ Go(p, "vacuumed") /\ Reads
Resize(p) == At(p, "vacuumed") /\ disk # 0 /\ Done(p, exitSuccess, Nothing) /\ Reads
VacuumFails(p) ==
  /\ Calls(p, "vacuum") \/ At(p, "sized") \/ At(p, "vacuumed")
  /\ Fails(p) /\ Reads

-----------------------------------------------------------------------------
(* watch                                                                   *)

Watching(p) == Doing(p, "watch") /\ ~At(p, "done")

\* Ctrl-C, once its context listens for it.
Interrupt(p) ==
  /\ Watching(p) /\ ~At(p, "begun")
  /\ proc' = [proc EXCEPT ![p].interrupted = TRUE]
  /\ UNCHANGED <<fileVars, removed>>

\* Mutant of Closed: only the end of the command closes the handle.
ClosedAtEnd(p) == proc[p].handle

Closed(p) == IF InSession(p) THEN proc[p].handle ELSE 0

\* The picture is drawn and the handle closed, before its error is looked at.
Draw(p) ==
  /\ Calls(p, "watch")
  /\ proc' = [proc EXCEPT ![p].phase = "drawn", ![p].handle = Closed(p)]
  /\ Reads

DrawFails(p) ==
  /\ Calls(p, "watch")
  /\ proc' = [proc EXCEPT ![p].phase = "done", ![p].handle = Closed(p), ![p].code = exitDatabase]
  /\ Reads

\* The select takes either of its cases when both are ready.
Tick(p) ==
  /\ At(p, "drawn")
  /\ Go(p, "ticked")
  /\ Reads

\* Mutant of Stopped: the select has no case for the context.
StoppedNever(p) == FALSE /\ UNCHANGED vars

Stopped(p) == At(p, "drawn") /\ proc[p].interrupted /\ Done(p, exitSuccess, Nothing) /\ Reads

-----------------------------------------------------------------------------
(* The applications, and time                                              *)

\* An application writes or deletes a row, or its time to live is over; a file
\* that was removed is still there for those who have it open.
AppWrites(f, k) ==
  /\ f <= created /\ writes < MaxWrites
  /\ writes' = writes + 1
  /\ \E i \in Rows[k] \cup {Absent} : store[f][k] # i /\ store' = [store EXCEPT ![f][k] = i]
  /\ UNCHANGED <<disk, created, proc, removed>>

AppRemoves ==
  /\ disk # 0
  /\ disk' = 0 /\ removed' = removed \cup {p \in Procs : At(p, "found")}
  /\ UNCHANGED <<created, store, writes, proc>>

AppCreates ==
  /\ disk = 0 /\ created < MaxFiles
  /\ created' = created + 1 /\ disk' = created'
  /\ UNCHANGED <<store, writes, proc, removed>>

-----------------------------------------------------------------------------

Session(p) == StartREPL(p) \/ StartUI(p) \/ Quit(p)

OpenCache(p) == UseShared(p) \/ StatMissing(p) \/ StatFound(p) \/ Open(p) \/ OpenFails(p)

OneCall(p) ==
  \/ \E i \in Items : Set(p, i)
  \/ Del(p) \/ Exists(p) \/ TTL(p) \/ Dump(p) \/ Expire(p) \/ Persist(p)
  \/ \E d \in {-1, 1} : Incr(p, d)
  \/ Statistics(p) \/ Flush(p) \/ Which(p) \/ WhichFails(p)
  \/ CallFails(p) \/ OutputFails(p)
  \/ \E evicted \in SUBSET Keys : Maintain(p, evicted)

Get(p) == InspectMiss(p) \/ InspectOnly(p) \/ Inspect(p) \/ Decode(p)

ListKeys(p) ==
  \/ \E k \in Keys : PassOver(p, k) \/ PrintKey(p, k) \/ Yield(p, k) \/ InspectKey(p, k)
  \/ Listed(p)

Vacuuming(p) == Size(p) \/ Vacuum(p) \/ Resize(p) \/ VacuumFails(p)

Redraw(p) == Draw(p) \/ DrawFails(p) \/ Tick(p)

Next ==
  \/ \E p \in Procs :
       \/ \E op \in AllOps, k \in Keys : Invoke(p, op, k)
       \/ Refused(p) \/ Declined(p) \/ End(p)
       \/ Session(p) \/ OpenCache(p) \/ OneCall(p) \/ Get(p)
       \/ ListKeys(p) \/ Vacuuming(p) \/ Redraw(p) \/ Stopped(p) \/ Interrupt(p)
  \/ \E f \in Files, k \in Keys : AppWrites(f, k)
  \/ AppRemoves \/ AppCreates

\* A watch goes on to its next picture, and select, which picks among ready cases
\* at random, does not pass over the same one for ever.
Fairness ==
  \A p \in Procs :
    /\ WF_vars(Watching(p) /\ (OpenCache(p) \/ Redraw(p)))
    /\ SF_vars(Stopped(p))

Spec == Init /\ [][Next]_vars

FairSpec == Spec /\ Fairness

-----------------------------------------------------------------------------
(* What scripts and users rely on                                          *)

\* A process as AtomicCommands sees it: its command, its answer, and what it has
\* said of each key; a key that is yielded has still no verdict.
CommandOf(r) == IF r.op = Nothing THEN Nothing ELSE [op |-> r.op, key |-> r.key]
AnswerOf(r) == IF r.code = Nothing THEN Nothing ELSE [code |-> r.code, out |-> r.out]
VerdictOf(r) == [k \in Keys |-> IF r.verdict[k] = "yielded" THEN "open" ELSE r.verdict[k]]

running == [p \in Procs |-> CommandOf(proc[p])]
held == [p \in Procs |-> proc[p].handle]
seen == [p \in Procs |-> proc[p].seen]
told == [p \in Procs |-> AnswerOf(proc[p])]
verdicts == [p \in Procs |-> VerdictOf(proc[p])]

\* Every command is one moment of one file: what it prints and its exit code are
\* true of that moment, the change it made was made then, and an error means no
\* change, whatever applications and other commands do between its steps.  The two
\* moments of get and of a value page, whose metadata may be older than the value,
\* and those of a listing are spelled out in AtomicCommands.
Commands == INSTANCE AtomicCommands WITH
  doing <- running, bound <- held, looked <- seen, answer <- told, verdict <- verdicts
OneMoment == Commands!Spec

\* db.go: a command that only reads reports a missing file "instead of letting New()
\* silently create it".  It makes one only if the file was removed after its stat.
ReadersCreateNothing ==
  [][\A p \in Procs :
       created' # created /\ At(p, "found") /\ proc'[p].phase = "open" => p \in removed]_vars

\* README.md: one-shot commands "never hold a connection open longer than
\* necessary", and watch none between its pictures; a session keeps its one handle
\* from its beginning to its end.
OpenOnlyToAct ==
  [][\A p \in Procs :
       /\ proc'[p].phase \in {"off", "drawn", "ticked"} /\ proc'[p].session = "none" =>
            proc'[p].handle = 0
       /\ InSession(p) /\ proc'[p].session # "none" => proc'[p].handle = proc[p].handle]_vars

\* Ctrl-C ends a watch, in a session too.
WatchStops ==
  \A p \in Procs : Watching(p) /\ proc[p].interrupted ~> ~(Watching(p) /\ proc[p].interrupted)
=============================================================================
