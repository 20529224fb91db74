---------------------------- MODULE ClientsProofs ----------------------------
(***************************************************************************)
(* Proofs about Clients, for any processes, keys, rows, commands and       *)
(* bounds.                                                                 *)
(***************************************************************************)
EXTENDS Clients, TLAPS

Idle == {"off", "starting", "prompt"}

\* What holds of a process by itself: between commands nothing is left of the last
\* one, an answer is there when the command is done, a handle when it is needed, and
\* a phase belongs to the commands that have it.
WellFormed(r) ==
  /\ r \in Processes
  /\ r.phase \in Idle <=> r.op = Nothing
  /\ r.key = Nothing <=> r.op = Nothing
  /\ r.phase \in Idle => r.verdict = Undecided
  /\ r.phase \notin {"inspected", "done"} => r.seen = Nothing
  /\ r.phase = "inspected" => r.seen \in Items
  /\ r.code = Nothing <=> r.phase # "done"
  /\ r.code = Nothing => r.out = Nothing
  /\ r.session # "none" \/ r.phase \in {"open", "inspected", "sized", "vacuumed"} =>
       r.handle # 0
  /\ r.session = "none" /\ r.phase \notin {"open", "inspected", "sized", "vacuumed", "done"} =>
       r.handle = 0
  /\ r.phase \in {"off", "starting", "found"} => r.session = "none"
  /\ r.phase = "prompt" => r.session # "none"
  /\ r.phase \in {"drawn", "ticked"} => r.op = "watch"
  /\ r.phase \in {"sized", "vacuumed"} => r.op = "vacuum"
  /\ r.phase = "inspected" => r.op = "get" \/ (r.op = "view" /\ r.key \notin Masked)

FilesOK ==
  /\ disk \in {0} \cup Files /\ created \in {0} \cup Files /\ disk <= created
  /\ store \in [Files -> Stores] /\ writes \in Nat

ProcsOK == proc \in [Procs -> Processes] /\ \A p \in Procs : WellFormed(proc[p])

\* What Open may find missing was removed since the stat.
RemovedSince ==
  /\ removed \subseteq Procs
  /\ \A p \in Procs : At(p, "found") /\ disk = 0 => p \in removed

ClientsInv == FilesOK /\ ProcsOK /\ RemovedSince

-----------------------------------------------------------------------------
(* The processes.                                                          *)

\* The parts of a process, and where its key and its answer are not Nothing.
LEMMA Fields ==
  ASSUME NEW r, WellFormed(r)
  PROVE  /\ r.phase \in Phases /\ r.session \in {"none", "repl", "ui"}
         /\ r.handle \in {0} \cup Files /\ r.verdict \in [Keys -> Verdicts]
         /\ r.phase \notin Idle => r.op \in AllOps /\ r.key \in Keys /\ r.op # Nothing
         /\ r.code \in {Nothing, 0, 1, 2, 3} /\ r.out \in Shown \cup {Nothing}
BY DEF WellFormed, Processes

\* A row can be shown, and so can the value of one with what is told of another.
LEMMA Showable ==
  /\ Items \subseteq Shown
  /\ \A i, j \in Items : [j EXCEPT !.n = i.n] \in Shown /\ [i EXCEPT !.type = j.type] \in Shown
BY RowsAssumption DEF Shown

\* A command and an answer are told from none.
LEMMA Something ==
  /\ \A op \in AllOps, k \in Keys : [op |-> op, key |-> k] # Nothing
  /\ \A code \in 0 .. 3, out \in Shown \cup {Nothing} :
       code # Nothing /\ [code |-> code, out |-> out] # Nothing
<1>1. ASSUME NEW op \in AllOps, NEW k \in Keys PROVE [op |-> op, key |-> k] # Nothing
  <2>1. [op |-> op, key |-> k] \in [op : AllOps, key : Keys]
    OBVIOUS
  <2> QED BY <2>1, NothingAssumption
<1>2. ASSUME NEW code \in 0 .. 3, NEW out \in Shown \cup {Nothing}
      PROVE  code # Nothing /\ [code |-> code, out |-> out] # Nothing
  <2>1. [code |-> code, out |-> out] \in [code : 0 .. 3, out : Shown \cup {Nothing}]
    OBVIOUS
  <2> QED BY <2>1, NothingAssumption
<1> QED BY <1>1, <1>2

\* What becomes of the processes, and of what AtomicCommands sees of them, when one
\* of them changes.
LEMMA Becomes ==
  ASSUME ProcsOK, NEW p \in Procs, NEW r, WellFormed(r), proc' = [proc EXCEPT ![p] = r]
  PROVE  /\ ProcsOK' /\ proc'[p] = r /\ \A q \in Procs \ {p} : proc'[q] = proc[q]
         /\ running' = [running EXCEPT ![p] = CommandOf(r)]
         /\ held' = [held EXCEPT ![p] = r.handle]
         /\ seen' = [seen EXCEPT ![p] = r.seen] /\ told' = [told EXCEPT ![p] = AnswerOf(r)]
         /\ verdicts' = [verdicts EXCEPT ![p] = VerdictOf(r)]
<1>1. /\ proc \in [Procs -> Processes] /\ r \in Processes /\ proc'[p] = r
      /\ \A q \in Procs \ {p} : proc'[q] = proc[q]
  BY DEF ProcsOK, WellFormed
<1>2. ProcsOK'
  BY <1>1 DEF ProcsOK
<1>3. running' = [running EXCEPT ![p] = CommandOf(r)]
  BY <1>1 DEF running
<1>4. held' = [held EXCEPT ![p] = r.handle]
  BY <1>1 DEF held
<1>5. seen' = [seen EXCEPT ![p] = r.seen] /\ told' = [told EXCEPT ![p] = AnswerOf(r)]
  BY <1>1 DEF seen, told
<1>6. verdicts' = [verdicts EXCEPT ![p] = VerdictOf(r)]
  BY <1>1 DEF verdicts
<1> QED BY <1>1, <1>2, <1>3, <1>4, <1>5, <1>6

\* What AtomicCommands sees of a process at work.
LEMMA AtWork ==
  ASSUME ProcsOK, NEW p \in Procs, proc[p].phase \notin Idle
  PROVE  /\ running[p] = [op |-> proc[p].op, key |-> proc[p].key] /\ running[p] # Nothing
         /\ running[p].op = proc[p].op
         /\ proc[p].op \in AllOps /\ proc[p].key \in Keys
         /\ held[p] = proc[p].handle /\ seen[p] = proc[p].seen
         /\ told[p] = Nothing <=> proc[p].phase # "done"
         /\ \A k \in Keys :
              /\ verdicts[p][k] # "open" <=> proc[p].verdict[k] \notin {"open", "yielded"}
              /\ verdicts[p][k] \in {"open", proc[p].verdict[k]}
         /\ proc[p].phase # "done" => Commands!Unanswered(p)
<1>1. WellFormed(proc[p])
  BY DEF ProcsOK
<1>2. running[p] = [op |-> proc[p].op, key |-> proc[p].key]
  BY <1>1, Fields DEF running, CommandOf
<1>3. proc[p].op \in AllOps /\ proc[p].key \in Keys /\ running[p] # Nothing
  BY <1>1, <1>2, Fields, Something
<1>4. held[p] = proc[p].handle /\ seen[p] = proc[p].seen
  BY DEF held, seen
<1>5. told[p] = Nothing <=> proc[p].phase # "done"
  <2>1. told[p] = AnswerOf(proc[p])
    BY DEF told
  <2>2. proc[p].code = Nothing <=> proc[p].phase # "done"
    BY <1>1 DEF WellFormed
  <2>3. proc[p].code # Nothing =>
          proc[p].code \in 0 .. 3 /\ proc[p].out \in Shown \cup {Nothing}
    BY <1>1, Fields
  <2> QED BY <2>1, <2>2, <2>3, Something DEF AnswerOf
<1>6. \A k \in Keys :
        /\ verdicts[p][k] # "open" <=> proc[p].verdict[k] \notin {"open", "yielded"}
        /\ verdicts[p][k] \in {"open", proc[p].verdict[k]}
  BY DEF verdicts, VerdictOf
<1>7. running[p].op = proc[p].op
  BY <1>2
<1> QED BY <1>2, <1>3, <1>4, <1>5, <1>6, <1>7 DEF Commands!Unanswered

\* A command at work that is done: it has its answer, and all else is as before.
LEMMA DoneStep ==
  ASSUME ProcsOK, NEW p \in Procs, proc[p].phase \notin Idle \cup {"done"},
         NEW c \in 0 .. 3, NEW o \in Shown \cup {Nothing}, Done(p, c, o)
  PROVE  /\ ProcsOK' /\ told' = [told EXCEPT ![p] = [code |-> c, out |-> o]]
         /\ UNCHANGED <<running, held, seen, verdicts>>
<1> DEFINE r == [proc[p] EXCEPT !.phase = "done", !.code = c, !.out = o]
<1>1. proc \in [Procs -> Processes] /\ WellFormed(proc[p]) /\ proc[p] \in Processes
  BY DEF ProcsOK, WellFormed
<1>2. proc' = [proc EXCEPT ![p] = r]
  BY DEF Done
<1>3. r \in Processes
  <2>1. c \in {Nothing, 0, 1, 2, 3} /\ "done" \in Phases
    BY DEF Phases
  <2> QED BY <1>1, <2>1 DEF Processes
<1>4. /\ r.phase = "done" /\ r.code = c /\ r.out = o
      /\ r.op = proc[p].op /\ r.key = proc[p].key /\ r.handle = proc[p].handle
      /\ r.session = proc[p].session /\ r.verdict = proc[p].verdict /\ r.seen = proc[p].seen
  BY <1>1 DEF Processes
<1>5. c # Nothing
  BY Something
<1> HIDE DEF r
<1>6. WellFormed(r)
  BY <1>1, <1>3, <1>4, <1>5 DEF WellFormed, Idle
<1>7. /\ ProcsOK' /\ running' = [running EXCEPT ![p] = CommandOf(r)]
      /\ held' = [held EXCEPT ![p] = r.handle] /\ seen' = [seen EXCEPT ![p] = r.seen]
      /\ told' = [told EXCEPT ![p] = AnswerOf(r)]
      /\ verdicts' = [verdicts EXCEPT ![p] = VerdictOf(r)]
  BY <1>2, <1>6, Becomes
<1>8. /\ running[p] = CommandOf(r) /\ held[p] = r.handle /\ verdicts[p] = VerdictOf(r)
      /\ seen[p] = r.seen
      /\ AnswerOf(r) = [code |-> c, out |-> o]
  BY <1>4, <1>5 DEF running, held, seen, verdicts, CommandOf, VerdictOf, AnswerOf
<1>9. /\ held = [q \in Procs |-> held[q]] /\ seen = [q \in Procs |-> seen[q]]
      /\ verdicts = [q \in Procs |-> verdicts[q]]
      /\ running = [q \in Procs |-> running[q]]
  BY DEF running, held, seen, verdicts
<1> QED BY <1>7, <1>8, <1>9

\* A process that goes on with its command, has said nothing yet.
LEMMA GoStep ==
  ASSUME ProcsOK, NEW p \in Procs, NEW r, WellFormed(r), proc' = [proc EXCEPT ![p] = r],
         r.op = proc[p].op, r.key = proc[p].key,
         r.code = proc[p].code, r.out = proc[p].out, r.seen = proc[p].seen,
         VerdictOf(r) = VerdictOf(proc[p])
  PROVE  /\ ProcsOK' /\ UNCHANGED <<running, seen, told, verdicts>>
         /\ held' = [held EXCEPT ![p] = r.handle]
         /\ r.handle = proc[p].handle => UNCHANGED held
<1>1. /\ ProcsOK' /\ running' = [running EXCEPT ![p] = CommandOf(r)]
      /\ held' = [held EXCEPT ![p] = r.handle] /\ seen' = [seen EXCEPT ![p] = r.seen]
      /\ told' = [told EXCEPT ![p] = AnswerOf(r)]
      /\ verdicts' = [verdicts EXCEPT ![p] = VerdictOf(r)]
  BY Becomes
<1>2. /\ running[p] = CommandOf(r) /\ held[p] = proc[p].handle /\ verdicts[p] = VerdictOf(r)
      /\ told[p] = AnswerOf(r) /\ seen[p] = r.seen
  BY DEF running, held, seen, told, verdicts, CommandOf, AnswerOf
<1>3. /\ running = [q \in Procs |-> running[q]] /\ held = [q \in Procs |-> held[q]]
      /\ seen = [q \in Procs |-> seen[q]] /\ told = [q \in Procs |-> told[q]]
      /\ verdicts = [q \in Procs |-> verdicts[q]]
  BY DEF running, held, seen, told, verdicts
<1> QED BY <1>1, <1>2, <1>3

-----------------------------------------------------------------------------
(* What a step of Clients is to AtomicCommands.                            *)

\* A step keeps the processes well formed, and is a step of AtomicCommands or nothing
\* to it.
Mapped == ProcsOK' /\ [Commands!Next]_(Commands!vars)

LEMMA NothingSeen ==
  ASSUME ProcsOK', UNCHANGED fileVars, UNCHANGED <<running, held, seen, told, verdicts>>
  PROVE  Mapped
BY DEF Mapped, Commands!vars, Commands!fileVars, fileVars

\* The outcomes of each command, in the terms of Clients.
Answers(op, k, s, row) == Commands!Outcomes([op |-> op, key |-> k], s, row)

LEMMA RowOutcome ==
  ASSUME NEW op \in {"ttl", "dump"}, NEW k, NEW s, NEW row
  PROVE  IF Has(s, k)
         THEN Commands!Says(s, 0, s[k]) \in Answers(op, k, s, row)
         ELSE Commands!Says(s, 1, Nothing) \in Answers(op, k, s, row)
BY DEF Answers, Commands!Outcomes, Commands!Looks, Commands!Miss, Commands!Has, Has

\* get and view before they have looked at a row, and when there is none.
LEMMA LookOutcome ==
  ASSUME NEW op \in {"get", "view"}, NEW k, NEW s, NEW row, op = "view" => k \notin Masked,
         row = Nothing \/ ~Has(s, k)
  PROVE  IF Has(s, k)
         THEN Commands!Says(s, 0, s[k]) \in Answers(op, k, s, row)
         ELSE Commands!Says(s, 1, Nothing) \in Answers(op, k, s, row)
BY DEF Answers, Commands!Outcomes, Commands!Reading, Commands!Looks, Commands!Miss,
   Commands!Has, Has

\* ... and when they have: the value of now with the type, and for view the expiry, of
\* then.
LEMMA TogetherOutcome ==
  ASSUME NEW op \in {"get", "view"}, NEW k, NEW s, NEW row, op = "view" => k \notin Masked,
         row # Nothing, Has(s, k), Decodes(row.type, s[k])
  PROVE  Commands!Says(s, 0, Commands!Together([op |-> op, key |-> k], row, s[k])) \in
           Answers(op, k, s, row)
<1>1. Commands!Has(s, k) /\ Commands!Decodes(row.type, s[k])
  BY DEF Has, Commands!Has, Decodes, Commands!Decodes, NonPortable, Commands!NonPortable
<1> QED BY <1>1 DEF Answers, Commands!Outcomes, Commands!Reading

LEMMA MaskedOutcome ==
  ASSUME NEW k \in Masked, NEW s, NEW row
  PROVE  Commands!Says(s, IF Has(s, k) THEN 0 ELSE 1, Nothing) \in
           Answers("view", k, s, row)
BY DEF Answers, Commands!Outcomes, Commands!Reading, Commands!Truth, Commands!Has, Has

LEMMA ExistsOutcome ==
  ASSUME NEW k, NEW s, NEW row
  PROVE  Commands!Says(s, IF Has(s, k) THEN 0 ELSE 1, Nothing) \in
           Answers("exists", k, s, row)
BY DEF Answers, Commands!Outcomes, Commands!Truth, Commands!Has, Has

LEMMA SetOutcome ==
  ASSUME NEW k, NEW s, NEW row, NEW i \in Rows[k]
  PROVE  Commands!Says(Put(s, k, i), 0, Nothing) \in
           Answers("set", k, s, row)
BY DEF Answers, Commands!Outcomes, Commands!Put, Put

LEMMA DelOutcome ==
  ASSUME NEW k, NEW s, NEW row
  PROVE  Commands!Says(Without(s, {k}), 0, Nothing) \in
           Answers("del", k, s, row)
BY DEF Answers, Commands!Outcomes, Commands!Without, Without

LEMMA ExpireOutcome ==
  ASSUME NEW k, NEW s, NEW row
  PROVE  IF Has(s, k)
         THEN Commands!Says(WithExpiry(s, k, TRUE), 0, Nothing) \in
                Answers("expire", k, s, row)
         ELSE Commands!Says(s, 1, Nothing) \in
                Answers("expire", k, s, row)
BY DEF Answers, Commands!Outcomes, Commands!Truth, Commands!Miss, Commands!Has, Has,
   Commands!WithExpiry, WithExpiry

LEMMA PersistOutcome ==
  ASSUME NEW k, NEW s, NEW row
  PROVE  /\ ~Has(s, k) => Commands!Says(s, 1, Nothing) \in
                            Answers("persist", k, s, row)
         /\ Has(s, k) /\ s[k].ttl =>
              Commands!Says(WithExpiry(s, k, FALSE), 0, Nothing) \in
                Answers("persist", k, s, row)
         /\ Has(s, k) /\ ~s[k].ttl =>
              \A c \in {0, 1} : Commands!Says(s, c, Nothing) \in
                                  Answers("persist", k, s, row)
BY DEF Answers, Commands!Outcomes, Commands!Truth, Commands!Miss, Commands!Has, Has,
   Commands!WithExpiry, WithExpiry

LEMMA IncrOutcome ==
  ASSUME NEW k, NEW s, NEW row, NEW d \in {-1, 1}, CanIncrement(s, k),
         Incremented(s, k, d) \in Rows[k]
  PROVE  Commands!Says(Put(s, k, Incremented(s, k, d)), 0, Incremented(s, k, d)) \in
           Answers("incr", k, s, row)
<1> DEFINE i == Incremented(s, k, d)
<1>1. Commands!CanIncrement(s, k) /\ i = Commands!Incremented(s, k, d)
  BY DEF CanIncrement, Commands!CanIncrement, Has, Commands!Has, Incremented,
     Commands!Incremented
<1>2. i \in Rows[k]
  OBVIOUS
<1> HIDE DEF i
<1>3. Commands!Says(Put(s, k, i), 0, i) \in Answers("incr", k, s, row)
  BY <1>1, <1>2 DEF Answers, Commands!Outcomes, Commands!Put, Put
<1> QED BY <1>3 DEF i

LEMMA FlushOutcome ==
  ASSUME NEW k, NEW s, NEW row
  PROVE  Commands!Says(Without(s, Keys), 0, Nothing) \in
           Answers("flush", k, s, row)
<1>1. Without(s, Keys) = Commands!Empty
  BY DEF Without, Commands!Empty
<1> QED BY <1>1 DEF Answers, Commands!Outcomes

LEMMA MaintainOutcome ==
  ASSUME NEW k, NEW s, NEW row, NEW evicted \in SUBSET Keys
  PROVE  Commands!Says(Without(s, evicted), 0, Nothing) \in
           Answers("maintain", k, s, row)
BY DEF Answers, Commands!Outcomes, Commands!Without, Without

LEMMA NoOutcome ==
  ASSUME NEW op \in {"stats", "vacuum"}, NEW k, NEW s, NEW row
  PROVE  Commands!Says(s, 0, Nothing) \in Answers(op, k, s, row)
BY DEF Answers, Commands!Outcomes

\* An error answers the command and does no more.
LEMMA FailStep ==
  ASSUME ClientsInv, NEW p \in Procs, proc[p].phase \notin Idle \cup {"done"},
         NEW c \in {2, 3}, Done(p, c, Nothing), UNCHANGED fileVars
  PROVE  Mapped
<1>1. ProcsOK /\ c \in 0 .. 3 /\ proc[p].phase \notin Idle /\ proc[p].phase # "done"
  BY DEF ClientsInv
<1>2. /\ ProcsOK' /\ told' = [told EXCEPT ![p] = [code |-> c, out |-> Nothing]]
      /\ UNCHANGED <<running, held, seen, verdicts>>
  BY <1>1, DoneStep
<1>3. held' = [held EXCEPT ![p] = held[p]]
  BY <1>2 DEF held
<1>4. Commands!Unanswered(p)
  BY <1>1, AtWork
<1>5. Commands!Fail(p)
  BY <1>2, <1>3, <1>4 DEF Commands!Fail, Commands!Answer, Commands!fileVars, fileVars
<1> QED BY <1>2, <1>5 DEF Mapped, Commands!Next

\* A command leaves the store s, and answers with what goes with that.
Effect(p, s, c, o) ==
  /\ c \in 0 .. 3 /\ o \in Shown \cup {Nothing} /\ Done(p, c, o)
  /\ store' = [store EXCEPT ![proc[p].handle] = s] /\ UNCHANGED <<disk, created, writes>>
  /\ Commands!Says(s, c, o) \in
       Answers(proc[p].op, proc[p].key, In(p), proc[p].seen)

\* A command takes its one effect and has the answer that goes with it.
LEMMA ActStep ==
  ASSUME ClientsInv, NEW p \in Procs, proc[p].phase \in {"open", "inspected", "vacuumed"},
         NEW s, NEW c, NEW o, Effect(p, s, c, o)
  PROVE  Mapped
<1>1. ProcsOK /\ proc[p].phase \notin Idle /\ proc[p].phase # "done"
  BY DEF ClientsInv, Idle
<1>2. /\ ProcsOK' /\ told' = [told EXCEPT ![p] = [code |-> c, out |-> o]]
      /\ UNCHANGED <<running, held, seen, verdicts>>
  BY <1>1, DoneStep DEF Effect
<1>3. held[p] # 0
  <2>1. held[p] = proc[p].handle
    BY <1>1, AtWork
  <2> QED BY <1>1, <2>1 DEF ProcsOK, WellFormed
<1> DEFINE outcome == Commands!Says(s, c, o)
<1>4. outcome.store = s /\ outcome.answer = [code |-> c, out |-> o]
  BY DEF Commands!Says
<1>5. /\ Commands!Unanswered(p) /\ held[p] = proc[p].handle
      /\ outcome \in Commands!Outcomes(running[p], store[held[p]], seen[p])
      /\ store' = [store EXCEPT ![proc[p].handle] = s] /\ UNCHANGED <<disk, created, writes>>
  BY <1>1, AtWork DEF In, Effect, Answers
<1> HIDE DEF outcome
<1>6. /\ store' = [store EXCEPT ![held[p]] = outcome.store]
      /\ told' = [told EXCEPT ![p] = outcome.answer]
  BY <1>2, <1>4, <1>5
<1>7. Commands!Act(p)
  BY <1>2, <1>3, <1>5, <1>6 DEF Commands!Act
<1> QED BY <1>2, <1>7 DEF Mapped, Commands!Next

\* A command that only reads leaves the file as it is.
LEMMA ReadsAreEffects ==
  ASSUME ClientsInv, NEW p \in Procs, UNCHANGED fileVars
  PROVE  /\ store' = [store EXCEPT ![proc[p].handle] = In(p)]
         /\ UNCHANGED <<disk, created, writes>>
BY DEF ClientsInv, FilesOK, In, fileVars

-----------------------------------------------------------------------------
(* The steps of a process, one group of actions after the other.           *)

\* A command that has a handle has a file, a key and perhaps a row of it.
LEMMA AtHandle ==
  ASSUME ClientsInv, NEW p \in Procs,
         proc[p].phase \in {"open", "inspected", "sized", "vacuumed"}
  PROVE  /\ proc[p].handle \in Files /\ In(p) \in Stores /\ Key(p) \in Keys
         /\ In(p) \in [Keys -> Items \cup {Absent}]
         /\ Has(In(p), Key(p)) => /\ In(p)[Key(p)] \in Rows[Key(p)] /\ In(p)[Key(p)] \in Items
                                  /\ In(p)[Key(p)].ttl \in BOOLEAN
<1>1. WellFormed(proc[p]) /\ proc[p].phase \notin Idle
  BY DEF ClientsInv, ProcsOK, Idle
<1>2. proc[p].handle \in {0} \cup Files /\ Key(p) \in Keys
  BY <1>1, Fields DEF Key
<1>3. proc[p].handle \in Files
  BY <1>1, <1>2 DEF WellFormed
<1>4. In(p) \in Stores
  BY <1>3 DEF ClientsInv, FilesOK, In
<1>5. /\ In(p) \in [Keys -> Items \cup {Absent}]
      /\ In(p)[Key(p)] \in Rows[Key(p)] \cup {Absent}
  BY <1>2, <1>4 DEF Stores
<1>6. Has(In(p), Key(p)) => In(p)[Key(p)] \in Rows[Key(p)] /\ In(p)[Key(p)] \in Items
  BY <1>2, <1>5 DEF Has, Items
<1> QED BY <1>2, <1>3, <1>4, <1>5, <1>6, RowsAssumption

\* A command that is one call of the library takes its outcome in that call.
LEMMA OneCallStep == ASSUME ClientsInv, NEW p \in Procs, OneCall(p) PROVE Mapped
<1> DEFINE k == Key(p)
           s == In(p)
           row == proc[p].seen
<1> USE DEF exitSuccess, exitFalseOrMiss, exitUsage, exitDatabase
<1>1. ASSUME NEW i \in Items, Set(p, i) PROVE Mapped
  <2>1. /\ proc[p].phase = "open" /\ proc[p].op = "set" /\ i \in Rows[k]
        /\ Leaves(p, Put(s, k, i)) /\ Done(p, 0, Nothing)
    BY <1>1 DEF Set, Calls, At, Doing
  <2>2. Effect(p, Put(s, k, i), 0, Nothing)
    BY <2>1, SetOutcome DEF Effect, Leaves, Key
  <2> QED BY <2>1, <2>2, ActStep
<1>2. CASE Del(p)
  <2>1. /\ proc[p].phase = "open" /\ proc[p].op = "del"
        /\ Leaves(p, Without(s, {k})) /\ Done(p, 0, Nothing)
    BY <1>2 DEF Del, Calls, At, Doing
  <2>2. Effect(p, Without(s, {k}), 0, Nothing)
    BY <2>1, DelOutcome DEF Effect, Leaves, Key
  <2> QED BY <2>1, <2>2, ActStep
<1>3. CASE Exists(p)
  <2>1. /\ proc[p].phase = "open" /\ proc[p].op = "exists" /\ UNCHANGED fileVars
        /\ Done(p, IF Has(s, k) THEN 0 ELSE 1, Nothing)
    BY <1>3 DEF Exists, PrintBool, Calls, At, Doing, Reads
  <2>2. Effect(p, s, IF Has(s, k) THEN 0 ELSE 1, Nothing)
    BY <2>1, ExistsOutcome, ReadsAreEffects DEF Effect, Key
  <2> QED BY <2>1, <2>2, ActStep
<1>4. CASE TTL(p) \/ Dump(p)
  <2>1. /\ proc[p].phase = "open" /\ proc[p].op \in {"ttl", "dump"} /\ UNCHANGED fileVars
        /\ PrintRow(p)
    BY <1>4 DEF TTL, Dump, Calls, At, Doing, Reads
  <2>2. CASE Has(s, k)
    <3>1. s[k] \in Shown /\ Done(p, 0, s[k])
      BY <2>1, <2>2, AtHandle, Showable DEF PrintRow
    <3>2. Commands!Says(s, 0, s[k]) \in Answers(proc[p].op, k, s, row)
      BY <2>1, <2>2, RowOutcome
    <3>3. Effect(p, s, 0, s[k])
      BY <2>1, <3>1, <3>2, ReadsAreEffects DEF Effect, Key
    <3> QED BY <2>1, <3>3, ActStep
  <2>3. CASE ~Has(s, k)
    <3>1. Effect(p, s, 1, Nothing)
      BY <2>1, <2>3, RowOutcome, ReadsAreEffects DEF Effect, PrintRow, Key
    <3> QED BY <2>1, <3>1, ActStep
  <2> QED BY <2>2, <2>3
<1>5. CASE Expire(p)
  <2>1. proc[p].phase = "open" /\ proc[p].op = "expire"
    BY <1>5 DEF Expire, Calls, At, Doing
  <2>2. CASE Has(s, k)
    <3> DEFINE after == WithExpiry(s, k, TRUE)
    <3>1. Leaves(p, after) /\ Done(p, 0, Nothing)
      BY <1>5, <2>2 DEF Expire, PrintBool
    <3>2. Commands!Says(after, 0, Nothing) \in
            Answers("expire", k, s, row)
      BY <2>2, ExpireOutcome
    <3> HIDE DEF after
    <3>3. Effect(p, after, 0, Nothing)
      BY <2>1, <3>1, <3>2 DEF Effect, Leaves, Key
    <3> QED BY <2>1, <3>3, ActStep
  <2>3. CASE ~Has(s, k)
    <3>1. Done(p, 1, Nothing) /\ UNCHANGED fileVars
      BY <1>5, <2>3 DEF Expire, PrintBool, Reads
    <3>2. Commands!Says(s, 1, Nothing) \in Answers("expire", k, s, row)
      BY <2>3, ExpireOutcome
    <3>3. Effect(p, s, 1, Nothing)
      BY <2>1, <3>1, <3>2, ReadsAreEffects DEF Effect, Key
    <3> QED BY <2>1, <3>3, ActStep
  <2> QED BY <2>2, <2>3
<1>6. CASE Persist(p)
  <2>1. proc[p].phase = "open" /\ proc[p].op = "persist"
    BY <1>6 DEF Persist, Calls, At, Doing
  <2>2. CASE Has(s, k)
    <3>1. PICK ok \in BOOLEAN : (s[k].ttl => ok) /\ PrintBool(p, ok)
      BY <1>6, <2>2 DEF Persist
    <3>2. Leaves(p, WithExpiry(s, k, FALSE))
      BY <1>6, <2>2 DEF Persist
    <3>3. /\ s \in [Keys -> Items \cup {Absent}] /\ k \in Keys /\ s[k].ttl \in BOOLEAN
          /\ s[k] = [type |-> s[k].type, n |-> s[k].n, ttl |-> s[k].ttl]
      BY <2>1, <2>2, AtHandle, RowsAssumption
    <3> DEFINE c == IF ok THEN 0 ELSE 1
    <3>4. Commands!Says(WithExpiry(s, k, FALSE), c, Nothing) \in
            Answers("persist", k, s, row)
      <4>1. CASE s[k].ttl
        BY <2>2, <3>1, <4>1, PersistOutcome
      <4>2. CASE ~s[k].ttl
        <5>1. [s[k] EXCEPT !.ttl = FALSE] = s[k]
          BY <3>3, <4>2
        <5>2. WithExpiry(s, k, FALSE) = s
          BY <3>3, <5>1 DEF WithExpiry
        <5> QED BY <2>2, <4>2, <5>2, PersistOutcome
      <4> QED BY <3>3, <4>1, <4>2
    <3>5. c \in 0 .. 3 /\ Done(p, c, Nothing)
      BY <3>1 DEF PrintBool
    <3>6. Effect(p, WithExpiry(s, k, FALSE), c, Nothing)
      BY <2>1, <3>2, <3>4, <3>5 DEF Effect, Leaves, Key
    <3> QED BY <2>1, <3>6, ActStep
  <2>3. CASE ~Has(s, k)
    <3>1. Done(p, 1, Nothing) /\ UNCHANGED fileVars
      BY <1>6, <2>3 DEF Persist, PrintBool, Reads
    <3>2. Commands!Says(s, 1, Nothing) \in Answers("persist", k, s, row)
      BY <2>3, PersistOutcome
    <3>3. Effect(p, s, 1, Nothing)
      BY <2>1, <3>1, <3>2, ReadsAreEffects DEF Effect, Key
    <3> QED BY <2>1, <3>3, ActStep
  <2> QED BY <2>2, <2>3
<1>7. ASSUME NEW d \in {-1, 1}, Incr(p, d) PROVE Mapped
  <2> DEFINE i == Incremented(s, k, d)
  <2>1. /\ proc[p].phase = "open" /\ proc[p].op = "incr" /\ CanIncrement(s, k) /\ i \in Rows[k]
        /\ Leaves(p, Put(s, k, i)) /\ Done(p, 0, i)
    BY <1>7 DEF Incr, Calls, At, Doing
  <2>2. k \in Keys /\ i \in Items /\ i \in Shown
    <3>1. k \in Keys
      BY <2>1, AtHandle
    <3>2. i \in Items
      BY <2>1, <3>1 DEF Items
    <3> HIDE DEF i
    <3> QED BY <3>1, <3>2, Showable
  <2>3. Commands!Says(Put(s, k, i), 0, i) \in Answers("incr", k, s, row)
    BY <2>1, IncrOutcome
  <2> HIDE DEF i
  <2>4. Effect(p, Put(s, k, i), 0, i)
    BY <2>1, <2>2, <2>3 DEF Effect, Leaves, Key
  <2> QED BY <2>1, <2>4, ActStep
<1>8. CASE Statistics(p)
  <2>1. /\ proc[p].phase = "open" /\ proc[p].op = "stats" /\ UNCHANGED fileVars
        /\ Done(p, 0, Nothing)
    BY <1>8 DEF Statistics, Calls, At, Doing, Reads
  <2>2. Effect(p, s, 0, Nothing)
    BY <2>1, NoOutcome, ReadsAreEffects DEF Effect
  <2> QED BY <2>1, <2>2, ActStep
<1>9. CASE Flush(p)
  <2>1. /\ proc[p].phase = "open" /\ proc[p].op = "flush"
        /\ Leaves(p, Without(s, Keys)) /\ Done(p, 0, Nothing)
    BY <1>9 DEF Flush, Calls, At, Doing
  <2>2. Effect(p, Without(s, Keys), 0, Nothing)
    BY <2>1, FlushOutcome DEF Effect, Leaves
  <2> QED BY <2>1, <2>2, ActStep
<1>10. ASSUME NEW evicted \in SUBSET Keys, Maintain(p, evicted) PROVE Mapped
  <2>1. /\ proc[p].phase = "open" /\ proc[p].op = "maintain"
        /\ Leaves(p, Without(s, evicted)) /\ Done(p, 0, Nothing)
    BY <1>10 DEF Maintain, Calls, At, Doing
  <2>2. Effect(p, Without(s, evicted), 0, Nothing)
    BY <2>1, MaintainOutcome DEF Effect, Leaves
  <2> QED BY <2>1, <2>2, ActStep
<1>11. CASE Which(p)
  <2>1. PICK b \in BOOLEAN : (b => disk # 0) /\ Done(p, IF b THEN 0 ELSE 1, Nothing)
    BY <1>11 DEF Which, PrintBool
  <2>2. PICK c \in {0, 1} : (c = 0 => disk # 0) /\ Done(p, c, Nothing)
    BY <2>1
  <2>3. /\ ProcsOK /\ proc[p].phase = "begun" /\ proc[p].op = "which" /\ UNCHANGED fileVars
        /\ c \in 0 .. 3 /\ Nothing \in Shown \cup {Nothing}
    BY <1>11 DEF ClientsInv, Which, At, Doing, Reads
  <2>4. /\ ProcsOK' /\ UNCHANGED <<running, held, seen, verdicts>>
        /\ told' = [told EXCEPT ![p] = [code |-> c, out |-> Nothing]]
    BY <2>2, <2>3, DoneStep DEF Idle
  <2>5. proc[p].phase \notin Idle /\ proc[p].phase # "done"
    BY <2>3 DEF Idle
  <2>6. Commands!Unanswered(p) /\ running[p].op = proc[p].op
    BY <2>3, <2>5, AtWork
  <2>7. \E found \in BOOLEAN : /\ found => disk # 0
                               /\ Commands!Answer(p, IF found THEN 0 ELSE 1, Nothing)
    BY <2>2, <2>4 DEF Commands!Answer
  <2>8. Commands!Locate(p)
    BY <2>3, <2>4, <2>6, <2>7 DEF Commands!Locate, Commands!fileVars, fileVars
  <2> QED BY <2>4, <2>8 DEF Mapped, Commands!Next
<1>12. CASE WhichFails(p) \/ CallFails(p) \/ OutputFails(p)
  <2>1. proc[p].phase \in {"begun", "open", "inspected"} /\ UNCHANGED fileVars
    BY <1>12 DEF WhichFails, CallFails, OutputFails, Calls, At, Reads
  <2>2. \E c \in {2, 3} : Done(p, c, Nothing)
    BY <1>12 DEF WhichFails, CallFails, OutputFails, Fails
  <2> QED BY <2>1, <2>2, FailStep DEF Idle
<1> QED
  BY <1>1, <1>2, <1>3, <1>4, <1>5, <1>6, <1>7, <1>8, <1>9, <1>10, <1>11, <1>12 DEF OneCall

\* A process goes on to its next phase; AtomicCommands sees nothing of it.
LEMMA GoesOn ==
  ASSUME ClientsInv, NEW p \in Procs, NEW ph, Go(p, ph), UNCHANGED fileVars,
         \/ At(p, "off") /\ ph = "starting"
         \/ proc[p].phase \in {"begun", "ticked"} /\ InSession(p) /\ ph = "open"
         \/ proc[p].phase \in {"begun", "ticked"} /\ ~InSession(p) /\ ph = "found"
         \/ Calls(p, "vacuum") /\ ph = "sized"
         \/ At(p, "sized") /\ ph = "vacuumed"
         \/ At(p, "drawn") /\ ph = "ticked"
  PROVE  Mapped
<1> DEFINE old == proc[p]
           r == [proc[p] EXCEPT !.phase = ph]
<1>1. ProcsOK /\ proc \in [Procs -> Processes] /\ WellFormed(old) /\ old \in Processes
  BY DEF ClientsInv, ProcsOK
<1>2. /\ r \in Processes /\ r.phase = ph /\ r.session = old.session /\ r.op = old.op
      /\ r.key = old.key /\ r.handle = old.handle /\ r.verdict = old.verdict
      /\ r.code = old.code /\ r.out = old.out /\ r.seen = old.seen
  BY <1>1 DEF Processes, Phases
<1>3. proc' = [proc EXCEPT ![p] = r]
  BY <1>1 DEF Go
<1>4. \/ old.phase = "off" /\ ph = "starting"
      \/ old.phase \in {"begun", "ticked"} /\ old.session # "none" /\ ph = "open"
      \/ old.phase \in {"begun", "ticked"} /\ old.session = "none" /\ ph = "found"
      \/ old.phase = "open" /\ old.op = "vacuum" /\ ph = "sized"
      \/ old.phase = "sized" /\ ph = "vacuumed"
      \/ old.phase = "drawn" /\ ph = "ticked"
  BY DEF At, InSession, Calls, Doing
<1> HIDE DEF r, old
<1>5. WellFormed(r)
  BY <1>1, <1>2, <1>4 DEF WellFormed, Idle
<1>6. VerdictOf(r) = VerdictOf(old)
  BY <1>2 DEF VerdictOf
<1>7. ProcsOK' /\ UNCHANGED <<running, held, seen, told, verdicts>>
  BY <1>1, <1>2, <1>3, <1>5, <1>6, GoStep DEF old
<1> QED BY <1>7, NothingSeen

\* get and view take their outcome when they miss, when Inspect is all they do, and
\* when the getter finds a row or none.
LEMMA GetStep == ASSUME ClientsInv, NEW p \in Procs, Get(p) PROVE Mapped
<1> DEFINE k == Key(p)
           s == In(p)
           row == proc[p].seen
<1> USE DEF exitSuccess, exitFalseOrMiss
<1>1. CASE InspectMiss(p)
  <2>1. /\ proc[p].phase = "open" /\ proc[p].op \in {"get", "view"} /\ ~Has(s, k)
        /\ UNCHANGED fileVars /\ Done(p, 1, Nothing)
    BY <1>1 DEF InspectMiss, Inspecting, Calls, At, Doing, Reads
  <2>2. Commands!Says(s, 1, Nothing) \in Answers(proc[p].op, k, s, row)
    <3>1. CASE proc[p].op = "view" /\ k \in Masked
      BY <2>1, <3>1, MaskedOutcome
    <3>2. CASE ~(proc[p].op = "view" /\ k \in Masked)
      BY <2>1, <3>2, LookOutcome
    <3> QED BY <3>1, <3>2
  <2>3. Effect(p, s, 1, Nothing)
    BY <2>1, <2>2, ReadsAreEffects DEF Effect, Key
  <2> QED BY <2>1, <2>3, ActStep
<1>2. CASE InspectOnly(p)
  <2> DEFINE o == IF Redacted(p) THEN Nothing ELSE Row(p)
  <2>1. /\ proc[p].phase = "open" /\ proc[p].op \in {"get", "view"} /\ Has(s, k)
        /\ UNCHANGED fileVars /\ Done(p, 0, o)
    BY <1>2 DEF InspectOnly, Inspecting, Calls, At, Doing, Reads
  <2>2. s[k] \in Shown /\ row = Nothing
    BY <2>1, AtHandle, Showable DEF ClientsInv, ProcsOK, WellFormed
  <2>3. Commands!Says(s, 0, o) \in Answers(proc[p].op, k, s, row)
    <3>1. CASE Redacted(p)
      BY <2>1, <3>1, MaskedOutcome DEF Redacted, Doing
    <3>2. CASE ~Redacted(p)
      <4>1. Commands!Says(s, 0, s[k]) \in Answers(proc[p].op, k, s, row)
        BY <2>1, <2>2, <3>2, LookOutcome DEF Redacted, Doing
      <4> QED BY <3>2, <4>1 DEF Row
    <3> QED BY <3>1, <3>2
  <2>4. o \in Shown \cup {Nothing}
    BY <2>2 DEF Row
  <2> HIDE DEF o
  <2>5. Effect(p, s, 0, o)
    BY <2>1, <2>3, <2>4, ReadsAreEffects DEF Effect, Key
  <2> QED BY <2>1, <2>5, ActStep
<1>3. CASE Inspect(p)
  <2> DEFINE old == proc[p]
             r == [proc[p] EXCEPT !.phase = "inspected", !.seen = Row(p)]
  <2>1. /\ old.phase = "open" /\ old.op \in {"get", "view"} /\ Has(s, k)
        /\ ~(old.op = "view" /\ old.key \in Masked) /\ UNCHANGED fileVars
    BY <1>3 DEF Inspect, Inspecting, Calls, At, Doing, Reads, Redacted, Key
  <2>2. ProcsOK /\ proc \in [Procs -> Processes] /\ WellFormed(old) /\ old \in Processes
    BY DEF ClientsInv, ProcsOK
  <2>3. Row(p) \in Items /\ Row(p) = s[k]
    BY <2>1, AtHandle DEF Row
  <2>4. /\ r \in Processes /\ r.phase = "inspected" /\ r.session = old.session /\ r.op = old.op
        /\ r.key = old.key /\ r.handle = old.handle /\ r.verdict = old.verdict
        /\ r.code = old.code /\ r.out = old.out /\ r.seen = s[k]
    BY <2>2, <2>3 DEF Processes, Phases
  <2>5. proc' = [proc EXCEPT ![p] = r]
    BY <1>3, <2>2 DEF Inspect
  <2>6. old.phase \notin Idle /\ old.phase # "done"
    BY <2>1 DEF Idle
  <2>7. /\ Commands!Unanswered(p) /\ running[p].op = old.op /\ running[p].key = k
        /\ held[p] = old.handle /\ held[p] # 0
    <3>1. old.handle # 0
      BY <2>1, <2>2 DEF WellFormed
    <3>2. running[p] = [op |-> old.op, key |-> old.key]
      BY <2>2, <2>6, AtWork
    <3> QED BY <2>2, <2>6, <3>1, <3>2, AtWork DEF Key
  <2> HIDE DEF r, old
  <2>8. WellFormed(r)
    BY <2>1, <2>2, <2>3, <2>4 DEF WellFormed, Idle
  <2>9. /\ ProcsOK' /\ running' = [running EXCEPT ![p] = CommandOf(r)]
        /\ held' = [held EXCEPT ![p] = r.handle] /\ seen' = [seen EXCEPT ![p] = r.seen]
        /\ told' = [told EXCEPT ![p] = AnswerOf(r)]
        /\ verdicts' = [verdicts EXCEPT ![p] = VerdictOf(r)]
    BY <2>2, <2>5, <2>8, Becomes
  <2>10. UNCHANGED <<running, held, told, verdicts>>
    <3>1. /\ running[p] = CommandOf(r) /\ held[p] = r.handle /\ told[p] = AnswerOf(r)
          /\ verdicts[p] = VerdictOf(r)
      BY <2>4 DEF running, held, told, verdicts, CommandOf, AnswerOf, VerdictOf, old
    <3>2. /\ running = [q \in Procs |-> running[q]] /\ held = [q \in Procs |-> held[q]]
          /\ told = [q \in Procs |-> told[q]] /\ verdicts = [q \in Procs |-> verdicts[q]]
      BY DEF running, held, told, verdicts
    <3> QED BY <2>9, <3>1, <3>2
  <2>11. store[held[p]][running[p].key] = s[k] /\ Commands!Has(store[held[p]], running[p].key)
    BY <2>1, <2>7 DEF In, Has, Commands!Has, old
  <2>12. seen' = [seen EXCEPT ![p] = store[held[p]][running[p].key]]
    BY <2>4, <2>9, <2>11
  <2>13. Commands!Look(p)
    BY <2>1, <2>7, <2>10, <2>11, <2>12 DEF Commands!Look, Commands!fileVars, fileVars
  <2> QED BY <2>9, <2>13 DEF Mapped, Commands!Next
<1>4. CASE Decode(p)
  <2>1. proc[p].phase = "inspected" /\ UNCHANGED fileVars
    BY <1>4 DEF Decode, At, Reads
  <2>2. /\ proc[p].op = "get" \/ (proc[p].op = "view" /\ k \notin Masked)
        /\ row \in Items /\ row # Nothing
    BY <2>1, NothingAssumption DEF ClientsInv, ProcsOK, WellFormed, Key
  <2>3. CASE Has(s, k)
    <3> DEFINE o == Formatted(p)
    <3>1. Done(p, 0, o) /\ Decodes(row.type, s[k]) /\ s[k] \in Items
      BY <1>4, <2>1, <2>3, AtHandle DEF Decode, Row
    <3>2. o = Commands!Together([op |-> proc[p].op, key |-> k], row, s[k])
      BY DEF Formatted, Commands!Together, Row, Doing
    <3>3. o \in Shown
      BY <2>2, <3>1, Showable DEF Formatted, Row
    <3> HIDE DEF o
    <3>4. Commands!Says(s, 0, o) \in Answers(proc[p].op, k, s, row)
      BY <2>2, <2>3, <3>1, <3>2, TogetherOutcome
    <3>5. Effect(p, s, 0, o)
      BY <2>1, <3>1, <3>3, <3>4, ReadsAreEffects DEF Effect, Key
    <3> QED BY <2>1, <3>5, ActStep
  <2>4. CASE ~Has(s, k)
    <3>1. Done(p, 1, Nothing)
      BY <1>4, <2>4 DEF Decode
    <3>2. Commands!Says(s, 1, Nothing) \in Answers(proc[p].op, k, s, row)
      BY <2>2, <2>4, LookOutcome
    <3>3. Effect(p, s, 1, Nothing)
      BY <2>1, <3>1, <3>2, ReadsAreEffects DEF Effect, Key
    <3> QED BY <2>1, <3>3, ActStep
  <2> QED BY <2>3, <2>4
<1> QED BY <1>1, <1>2, <1>3, <1>4 DEF Get

\* The verdict on a key is that of the moment it is given; a key that is only yielded
\* has none yet.
LEMMA JudgedStep ==
  ASSUME ClientsInv, NEW p \in Procs, Calls(p, "keys"), NEW k \in Keys,
         proc[p].verdict[k] \in {"open", "yielded"},
         NEW v \in {"listed", "left out", "yielded"},
         Judged(p, k, v), UNCHANGED fileVars,
         v # "yielded" => v = IF Has(In(p), k) THEN "listed" ELSE "left out"
  PROVE  Mapped
<1> DEFINE old == proc[p]
           r == [proc[p] EXCEPT !.verdict[k] = v]
<1>1. /\ ProcsOK /\ proc \in [Procs -> Processes] /\ WellFormed(old) /\ old \in Processes
      /\ old.phase = "open" /\ old.op = "keys" /\ old.verdict \in [Keys -> Verdicts]
  BY Fields DEF ClientsInv, ProcsOK, Calls, At, Doing
<1>2. proc' = [proc EXCEPT ![p] = r]
  BY <1>1 DEF Judged
<1>3. v \in Verdicts
  BY DEF Verdicts
<1>4. /\ r \in Processes /\ r.phase = old.phase /\ r.session = old.session /\ r.op = old.op
      /\ r.key = old.key /\ r.handle = old.handle /\ r.code = old.code
      /\ r.out = old.out /\ r.seen = old.seen /\ r.verdict = [old.verdict EXCEPT ![k] = v]
  BY <1>1, <1>3 DEF Processes
<1> HIDE DEF r, old
<1>5. WellFormed(r)
  BY <1>1, <1>4 DEF WellFormed, Idle
<1>6. CASE v = "yielded"
  <2>1. VerdictOf(r) = VerdictOf(old)
    BY <1>1, <1>4, <1>6 DEF VerdictOf, old
  <2>2. ProcsOK' /\ UNCHANGED <<running, held, seen, told, verdicts>>
    BY <1>1, <1>2, <1>4, <1>5, <2>1, GoStep DEF old
  <2> QED BY <2>2, NothingSeen
<1>7. CASE v # "yielded"
  <2>1. /\ ProcsOK' /\ running' = [running EXCEPT ![p] = CommandOf(r)]
        /\ held' = [held EXCEPT ![p] = r.handle] /\ seen' = [seen EXCEPT ![p] = r.seen]
        /\ told' = [told EXCEPT ![p] = AnswerOf(r)]
        /\ verdicts' = [verdicts EXCEPT ![p] = VerdictOf(r)]
    BY <1>1, <1>2, <1>5, Becomes
  <2>2. UNCHANGED <<running, held, seen, told>>
    <3>1. /\ running[p] = CommandOf(r) /\ held[p] = r.handle /\ seen[p] = r.seen
          /\ told[p] = AnswerOf(r)
      BY <1>4 DEF running, held, seen, told, CommandOf, AnswerOf, old
    <3>2. /\ running = [q \in Procs |-> running[q]] /\ held = [q \in Procs |-> held[q]]
          /\ seen = [q \in Procs |-> seen[q]] /\ told = [q \in Procs |-> told[q]]
      BY DEF running, held, seen, told
    <3> QED BY <2>1, <3>1, <3>2
  <2>3. /\ verdicts[p] = VerdictOf(old) /\ verdicts[p][k] = "open"
        /\ VerdictOf(r) = [verdicts[p] EXCEPT ![k] = v]
    BY <1>1, <1>4, <1>7 DEF verdicts, VerdictOf, old
  <2>4. verdicts' = [verdicts EXCEPT ![p][k] = v]
    BY <2>1, <2>3
  <2>5. /\ Commands!Unanswered(p) /\ running[p].op = old.op
        /\ held[p] = old.handle /\ held[p] # 0
    <3>1. proc[p].phase \notin Idle /\ proc[p].phase # "done"
      BY <1>1 DEF Idle, old
    <3>2. held[p] = old.handle
      BY <1>1, <3>1, AtWork DEF old
    <3>3. old.handle # 0
      BY <1>1 DEF WellFormed
    <3> QED BY <1>1, <3>1, <3>2, <3>3, AtWork DEF old
  <2>6. v = IF Commands!Has(store[held[p]], k) THEN "listed" ELSE "left out"
    BY <1>7, <2>5 DEF Has, Commands!Has, In, old
  <2>7. running[p].op = "keys"
    BY <1>1, <2>5
  <2>8. verdicts' = [verdicts EXCEPT ![p][k] =
                       IF Commands!Has(store[held[p]], k) THEN "listed" ELSE "left out"]
    BY <2>4, <2>6
  <2>9. Commands!Judge(p, k)
    BY <2>2, <2>3, <2>5, <2>7, <2>8 DEF Commands!Judge, Commands!fileVars, fileVars
  <2> QED BY <2>1, <2>9 DEF Mapped, Commands!Next
<1> QED BY <1>6, <1>7

\* keys judges each key, and is done when it has judged them all.
LEMMA ListKeysStep == ASSUME ClientsInv, NEW p \in Procs, ListKeys(p) PROVE Mapped
<1>1. ASSUME NEW k \in Keys, PassOver(p, k) PROVE Mapped
  BY <1>1, JudgedStep DEF PassOver, Turn, Reads
<1>2. ASSUME NEW k \in Keys, PrintKey(p, k) PROVE Mapped
  BY <1>2, JudgedStep DEF PrintKey, Turn, Reads
<1>3. ASSUME NEW k \in Keys, Yield(p, k) PROVE Mapped
  BY <1>3, JudgedStep DEF Yield, Turn, Reads
<1>4. ASSUME NEW k \in Keys, InspectKey(p, k) PROVE Mapped
  <2> DEFINE v == IF Has(In(p), k) THEN "listed" ELSE "left out"
  <2>1. /\ Calls(p, "keys") /\ proc[p].verdict[k] \in {"open", "yielded"} /\ Judged(p, k, v)
        /\ UNCHANGED fileVars /\ v \in {"listed", "left out", "yielded"}
    BY <1>4 DEF InspectKey, Reads
  <2> QED BY <2>1, JudgedStep
<1>5. CASE Listed(p)
  <2>1. /\ ProcsOK /\ proc[p].phase = "open" /\ proc[p].op = "keys" /\ UNCHANGED fileVars
        /\ \A k \in Keys : proc[p].verdict[k] \in {"listed", "left out"}
        /\ Done(p, 0, Nothing)
    BY <1>5 DEF ClientsInv, Listed, Calls, At, Doing, Reads, exitSuccess
  <2>2. proc[p].phase \notin Idle /\ proc[p].phase # "done"
    BY <2>1 DEF Idle
  <2>3. /\ ProcsOK' /\ told' = [told EXCEPT ![p] = [code |-> 0, out |-> Nothing]]
        /\ UNCHANGED <<running, held, seen, verdicts>>
    <3>1. 0 \in 0 .. 3 /\ Nothing \in Shown \cup {Nothing}
      OBVIOUS
    <3> QED BY <2>1, <2>2, <3>1, DoneStep
  <2>4. /\ Commands!Unanswered(p) /\ running[p].op = proc[p].op
        /\ \A k \in Keys : verdicts[p][k] # "open"
    BY <2>1, <2>2, AtWork
  <2>5. Commands!Answer(p, 0, Nothing)
    BY <2>3 DEF Commands!Answer
  <2>6. Commands!Listed(p)
    BY <2>1, <2>3, <2>4, <2>5 DEF Commands!Listed, Commands!fileVars, fileVars
  <2> QED BY <2>3, <2>6 DEF Mapped, Commands!Next
<1> QED BY <1>1, <1>2, <1>3, <1>4, <1>5 DEF ListKeys

\* vacuum has no effect on any key, and its outcome when it has the second size.
LEMMA VacuumingStep == ASSUME ClientsInv, NEW p \in Procs, Vacuuming(p) PROVE Mapped
<1>1. CASE Size(p)
  BY <1>1, GoesOn DEF Size, Reads
<1>2. CASE Vacuum(p)
  BY <1>2, GoesOn DEF Vacuum, Reads
<1>3. CASE Resize(p)
  <2>1. /\ proc[p].phase = "vacuumed" /\ UNCHANGED fileVars /\ Done(p, 0, Nothing)
    BY <1>3 DEF Resize, At, Reads, exitSuccess
  <2>2. proc[p].op = "vacuum"
    BY <2>1 DEF ClientsInv, ProcsOK, WellFormed
  <2>3. Effect(p, In(p), 0, Nothing)
    BY <2>1, <2>2, NoOutcome, ReadsAreEffects DEF Effect
  <2> QED BY <2>1, <2>3, ActStep
<1>4. CASE VacuumFails(p)
  <2>1. /\ proc[p].phase \in {"open", "sized", "vacuumed"} /\ UNCHANGED fileVars
        /\ Done(p, 3, Nothing)
    BY <1>4 DEF VacuumFails, Calls, At, Reads, Fails, exitDatabase
  <2> QED BY <2>1, FailStep DEF Idle
<1> QED BY <1>1, <1>2, <1>3, <1>4 DEF Vacuuming

\* flush is declined, or watch stopped.
LEMMA DeclineStep ==
  ASSUME ClientsInv, NEW p \in Procs, Declined(p) \/ Stopped(p)
  PROVE  Mapped
<1>1. \E c \in {0, 1} :
        /\ Done(p, c, Nothing) /\ UNCHANGED fileVars /\ proc[p].phase \notin Idle \cup {"done"}
        /\ (c = 1 /\ proc[p].op = "flush") \/ (c = 0 /\ proc[p].op = "watch")
  <2>1. CASE Declined(p)
    BY <2>1 DEF Declined, At, Doing, exitFalseOrMiss, Idle
  <2>2. CASE Stopped(p)
    BY <2>2 DEF Stopped, At, Reads, exitSuccess, Idle, ClientsInv, ProcsOK, WellFormed
  <2> QED BY <2>1, <2>2
<1>2. PICK c \in {0, 1} :
        /\ Done(p, c, Nothing) /\ UNCHANGED fileVars /\ proc[p].phase \notin Idle \cup {"done"}
        /\ (c = 1 /\ proc[p].op = "flush") \/ (c = 0 /\ proc[p].op = "watch")
  BY <1>1
<1>3. ProcsOK /\ c \in 0 .. 3 /\ Nothing \in Shown \cup {Nothing}
  BY DEF ClientsInv
<1>4. /\ ProcsOK' /\ told' = [told EXCEPT ![p] = [code |-> c, out |-> Nothing]]
      /\ UNCHANGED <<running, held, seen, verdicts>>
  BY <1>2, <1>3, DoneStep
<1>5. Commands!Unanswered(p) /\ running[p].op = proc[p].op
  BY <1>2, <1>3, AtWork
<1>6. Commands!Decline(p)
  BY <1>2, <1>4, <1>5
     DEF Commands!Decline, Commands!Answer, Commands!fileVars, fileVars
<1> QED BY <1>4, <1>6 DEF Mapped, Commands!Next

\* A picture lets go of a handle of its own; an error on the way does so too.
LEMMA RedrawStep == ASSUME ClientsInv, NEW p \in Procs, Redraw(p) PROVE Mapped
<1> DEFINE old == proc[p]
<1>1. /\ ProcsOK /\ proc \in [Procs -> Processes] /\ WellFormed(old) /\ old \in Processes
      /\ held[p] = old.handle
  BY DEF ClientsInv, ProcsOK, held
<1>2. CASE Draw(p)
  <2> DEFINE r == [proc[p] EXCEPT !.phase = "drawn", !.handle = Closed(p)]
  <2>1. /\ old.phase = "open" /\ old.op = "watch" /\ UNCHANGED fileVars
        /\ proc' = [proc EXCEPT ![p] = r]
    BY <1>1, <1>2 DEF Draw, Calls, At, Doing, Reads
  <2>2. /\ r \in Processes /\ r.phase = "drawn" /\ r.session = old.session /\ r.op = old.op
        /\ r.key = old.key /\ r.handle = Closed(p) /\ r.verdict = old.verdict
        /\ r.code = old.code /\ r.out = old.out /\ r.seen = old.seen
    BY <1>1 DEF Processes, Phases, Closed
  <2>3. Closed(p) = IF old.session = "none" THEN 0 ELSE old.handle
    BY DEF Closed, InSession
  <2> HIDE DEF r, old
  <2>4. WellFormed(r)
    BY <1>1, <2>1, <2>2, <2>3 DEF WellFormed, Idle
  <2>5. VerdictOf(r) = VerdictOf(old)
    BY <2>2 DEF VerdictOf
  <2>6. /\ ProcsOK' /\ UNCHANGED <<running, seen, told, verdicts>>
        /\ held' = [held EXCEPT ![p] = r.handle]
        /\ r.handle = old.handle => UNCHANGED held
    BY <1>1, <2>1, <2>2, <2>4, <2>5, GoStep DEF old
  <2>7. CASE old.session = "none"
    <3>1. old.phase \notin Idle
      BY <2>1 DEF Idle
    <3>2. running[p] # Nothing /\ running[p].op = "watch"
      BY <1>1, <2>1, <3>1, AtWork DEF old
    <3>3. held' = [held EXCEPT ![p] = 0]
      BY <2>2, <2>3, <2>6, <2>7
    <3>4. Commands!Unbind(p)
      BY <2>1, <2>6, <3>2, <3>3 DEF Commands!Unbind, Commands!fileVars, fileVars
    <3> QED BY <2>6, <3>4 DEF Mapped, Commands!Next
  <2>8. CASE old.session # "none"
    BY <2>1, <2>2, <2>3, <2>6, <2>8, NothingSeen
  <2> QED BY <2>7, <2>8
<1>3. CASE DrawFails(p)
  <2> DEFINE r == [proc[p] EXCEPT !.phase = "done", !.handle = Closed(p), !.code = 3]
  <2>1. /\ old.phase = "open" /\ old.op = "watch" /\ UNCHANGED fileVars
        /\ proc' = [proc EXCEPT ![p] = r]
    BY <1>1, <1>3 DEF DrawFails, Calls, At, Doing, Reads, exitDatabase
  <2>2. /\ r \in Processes /\ r.phase = "done" /\ r.session = old.session /\ r.op = old.op
        /\ r.key = old.key /\ r.handle = Closed(p) /\ r.verdict = old.verdict
        /\ r.code = 3 /\ r.out = old.out /\ r.seen = old.seen
    <3>1. Closed(p) \in {0} \cup Files /\ 3 \in {Nothing, 0, 1, 2, 3} /\ "done" \in Phases
      BY <1>1 DEF Processes, Phases, Closed
    <3> HIDE DEF Closed
    <3> QED BY <1>1, <3>1 DEF Processes
  <2>3. Closed(p) \in {0, old.handle} /\ (old.session # "none" => Closed(p) = old.handle)
    BY DEF Closed, InSession
  <2>4. 3 # Nothing /\ old.out = Nothing /\ old.phase \notin Idle /\ old.phase # "done"
    BY <1>1, <2>1, Something DEF WellFormed, Idle
  <2> HIDE DEF r, old
  <2>5. WellFormed(r)
    BY <1>1, <2>1, <2>2, <2>3, <2>4 DEF WellFormed, Idle
  <2>6. /\ ProcsOK' /\ running' = [running EXCEPT ![p] = CommandOf(r)]
        /\ held' = [held EXCEPT ![p] = r.handle] /\ seen' = [seen EXCEPT ![p] = r.seen]
        /\ told' = [told EXCEPT ![p] = AnswerOf(r)]
        /\ verdicts' = [verdicts EXCEPT ![p] = VerdictOf(r)]
    BY <1>1, <2>1, <2>5, Becomes
  <2>7. AnswerOf(r) = [code |-> 3, out |-> Nothing]
    BY <2>2, <2>4 DEF AnswerOf
  <2>8. UNCHANGED <<running, seen, verdicts>>
    <3>1. running[p] = CommandOf(r) /\ seen[p] = r.seen /\ verdicts[p] = VerdictOf(r)
      BY <2>2 DEF running, seen, verdicts, CommandOf, VerdictOf, old
    <3>2. /\ running = [q \in Procs |-> running[q]] /\ seen = [q \in Procs |-> seen[q]]
          /\ verdicts = [q \in Procs |-> verdicts[q]]
      BY DEF running, seen, verdicts
    <3> QED BY <2>6, <3>1, <3>2
  <2>9. Commands!Unanswered(p)
    BY <1>1, <2>4, AtWork DEF old
  <2>10. \E code \in {2, 3} : Commands!Answer(p, code, Nothing)
    BY <2>6, <2>7 DEF Commands!Answer
  <2>11. \E f \in {0, held[p]} : held' = [held EXCEPT ![p] = f]
    BY <1>1, <2>2, <2>3, <2>6
  <2>12. Commands!Fail(p)
    BY <2>1, <2>8, <2>9, <2>10, <2>11 DEF Commands!Fail, Commands!fileVars, fileVars
  <2> QED BY <2>6, <2>12 DEF Mapped, Commands!Next
<1>4. CASE Tick(p)
  BY <1>4, GoesOn DEF Tick, Reads
<1> QED BY <1>2, <1>3, <1>4 DEF Redraw

\* What a process is between two commands.
LEMMA BetweenCommands ==
  /\ WellFormed(NoProcess) /\ NoProcess.handle = 0
  /\ \A p, session, f : /\ Prompt(p, session, f).session = session
                        /\ Prompt(p, session, f).handle = f
  /\ \A p : \A session \in {"repl", "ui"}, f \in Files : WellFormed(Prompt(p, session, f))
  /\ \A p, session, f : \A r \in {NoProcess, Prompt(p, session, f)} :
       /\ r.op = Nothing /\ r.key = Nothing /\ r.code = Nothing /\ r.out = Nothing
       /\ r.seen = Nothing /\ r.verdict = Undecided
<1>1. NoProcess \in Processes /\ Undecided \in [Keys -> Verdicts]
  BY DEF NoProcess, Processes, Phases, Undecided, Verdicts
<1>2. ASSUME NEW session \in {"repl", "ui"}, NEW f \in Files, NEW p
      PROVE  Prompt(p, session, f) \in Processes
  BY <1>1, <1>2 DEF Prompt, NoProcess, Processes, Phases
<1>3. \A f \in Files : f # 0
  BY DEF Files
<1>4. /\ NoProcess.phase = "off" /\ NoProcess.session = "none" /\ NoProcess.handle = 0
      /\ NoProcess.op = Nothing /\ NoProcess.key = Nothing /\ NoProcess.code = Nothing
      /\ NoProcess.out = Nothing /\ NoProcess.seen = Nothing /\ NoProcess.verdict = Undecided
  BY DEF NoProcess
<1>5. ASSUME NEW p, NEW session, NEW f
      PROVE  LET r == Prompt(p, session, f)
             IN  /\ r.phase = "prompt" /\ r.session = session /\ r.handle = f
                 /\ r.op = Nothing /\ r.key = Nothing /\ r.code = Nothing
                 /\ r.out = Nothing /\ r.seen = Nothing /\ r.verdict = Undecided
  BY DEF NoProcess, Prompt
<1>6. WellFormed(NoProcess)
  BY <1>1, <1>4 DEF WellFormed, Idle
<1>7. ASSUME NEW session \in {"repl", "ui"}, NEW f \in Files, NEW p
      PROVE  WellFormed(Prompt(p, session, f))
  BY <1>2, <1>3, <1>5 DEF WellFormed, Idle
<1> QED BY <1>4, <1>5, <1>6, <1>7

\* A command, a session or a process ends.
LEMMA EndStep ==
  ASSUME ClientsInv, NEW p \in Procs, NEW r,
         \/ r = NoProcess
         \/ InSession(p) /\ r = Prompt(p, proc[p].session, proc[p].handle),
         proc' = [proc EXCEPT ![p] = r], UNCHANGED fileVars
  PROVE  Mapped
<1>1. ProcsOK /\ WellFormed(proc[p]) /\ held[p] = proc[p].handle
  BY DEF ClientsInv, ProcsOK, held
<1>2. WellFormed(r) /\ r.handle \in {0, held[p]}
  <2>1. CASE r = NoProcess
    BY <2>1, BetweenCommands
  <2>2. CASE InSession(p) /\ r = Prompt(p, proc[p].session, proc[p].handle)
    <3>1. proc[p].session \in {"repl", "ui"} /\ proc[p].handle \in Files
      BY <1>1, <2>2, Fields DEF InSession, WellFormed
    <3> QED BY <1>1, <2>2, <3>1, BetweenCommands
  <2> QED BY <2>1, <2>2
<1>3. r.op = Nothing /\ r.code = Nothing /\ r.seen = Nothing /\ r.verdict = Undecided
  BY BetweenCommands
<1>4. /\ ProcsOK' /\ running' = [running EXCEPT ![p] = CommandOf(r)]
      /\ held' = [held EXCEPT ![p] = r.handle] /\ seen' = [seen EXCEPT ![p] = r.seen]
      /\ told' = [told EXCEPT ![p] = AnswerOf(r)]
      /\ verdicts' = [verdicts EXCEPT ![p] = VerdictOf(r)]
  BY <1>1, <1>2, Becomes
<1>5. /\ CommandOf(r) = Nothing /\ AnswerOf(r) = Nothing /\ r.seen = Nothing
      /\ VerdictOf(r) = Commands!Undecided
  BY <1>3 DEF CommandOf, AnswerOf, VerdictOf, Undecided, Commands!Undecided
<1>6. \E f \in {0, held[p]} : held' = [held EXCEPT ![p] = f]
  BY <1>2, <1>4
<1>7. Commands!End(p)
  BY <1>4, <1>5, <1>6 DEF Commands!End, Commands!fileVars, fileVars
<1> QED BY <1>4, <1>7 DEF Mapped, Commands!Next

\* A process comes to have a handle, on the file at the path or on one it makes.
LEMMA BindStep ==
  ASSUME ClientsInv, NEW p \in Procs, NEW r, WellFormed(r), proc' = [proc EXCEPT ![p] = r],
         proc[p].handle = 0, r.handle = disk',
         r.op = proc[p].op, r.key = proc[p].key, r.code = proc[p].code, r.out = proc[p].out,
         r.seen = proc[p].seen,
         r.verdict = proc[p].verdict,
         IF disk # 0 THEN UNCHANGED <<disk, created>>
         ELSE created < MaxFiles /\ created' = created + 1 /\ disk' = created',
         UNCHANGED <<store, writes>>
  PROVE  Mapped
<1>1. ProcsOK /\ held[p] = 0 /\ VerdictOf(r) = VerdictOf(proc[p])
  BY DEF ClientsInv, held, VerdictOf
<1>2. /\ ProcsOK' /\ UNCHANGED <<running, seen, told, verdicts>>
      /\ held' = [held EXCEPT ![p] = disk']
  BY <1>1, GoStep
<1>3. IF disk # 0 THEN UNCHANGED <<disk, created>>
      ELSE created + 1 \in Files /\ created' = created + 1 /\ disk' = created'
  BY MaxFilesAssumption DEF ClientsInv, FilesOK, Files
<1>4. Commands!Bind(p)
  BY <1>1, <1>2, <1>3 DEF Commands!Bind
<1> QED BY <1>2, <1>4 DEF Mapped, Commands!Next

\* A command begins, from the shell or in its session.
LEMMA InvokeStep ==
  ASSUME ClientsInv, NEW p \in Procs, NEW op \in AllOps, NEW k \in Keys, Invoke(p, op, k)
  PROVE  Mapped
<1> DEFINE old == proc[p]
           r == [proc[p] EXCEPT !.phase = "begun", !.op = op, !.key = k]
<1>1. /\ ProcsOK /\ proc \in [Procs -> Processes] /\ WellFormed(old) /\ old \in Processes
      /\ old.phase \in {"off", "prompt"} /\ UNCHANGED fileVars
      /\ proc' = [proc EXCEPT ![p] = r]
  BY DEF ClientsInv, ProcsOK, Invoke, At
<1>2. /\ r \in Processes /\ r.phase = "begun" /\ r.session = old.session /\ r.op = op
      /\ r.key = k /\ r.handle = old.handle /\ r.verdict = old.verdict
      /\ r.code = old.code /\ r.out = old.out /\ r.seen = old.seen
  BY <1>1 DEF Processes, Phases
<1>3. op # Nothing /\ k # Nothing
  BY NothingAssumption
<1> HIDE DEF r, old
<1>4. WellFormed(r)
  BY <1>1, <1>2, <1>3 DEF WellFormed, Idle
<1>5. /\ ProcsOK' /\ running' = [running EXCEPT ![p] = CommandOf(r)]
      /\ held' = [held EXCEPT ![p] = r.handle] /\ seen' = [seen EXCEPT ![p] = r.seen]
      /\ told' = [told EXCEPT ![p] = AnswerOf(r)]
      /\ verdicts' = [verdicts EXCEPT ![p] = VerdictOf(r)]
  BY <1>1, <1>4, Becomes
<1>6. CommandOf(r) = [op |-> op, key |-> k]
  BY <1>2, <1>3 DEF CommandOf
<1>7. running[p] = Nothing
  BY <1>1 DEF running, CommandOf, WellFormed, Idle, old
<1>8. UNCHANGED <<held, seen, told, verdicts>>
  <2>1. /\ held[p] = r.handle /\ seen[p] = r.seen /\ told[p] = AnswerOf(r)
        /\ verdicts[p] = VerdictOf(r)
    BY <1>2 DEF held, seen, told, verdicts, AnswerOf, VerdictOf, old
  <2>2. /\ held = [q \in Procs |-> held[q]] /\ seen = [q \in Procs |-> seen[q]]
        /\ told = [q \in Procs |-> told[q]]
        /\ verdicts = [q \in Procs |-> verdicts[q]]
    BY DEF held, seen, told, verdicts
  <2> QED BY <1>5, <2>1, <2>2
<1>9. Commands!Begin(p)
  <2>1. [op |-> op, key |-> k] \in
          [op : {"get", "ttl", "dump", "view", "set", "del", "exists", "expire", "persist",
                 "incr", "flush", "maintain", "stats", "vacuum", "watch", "which", "keys"},
           key : Keys]
    BY DEF AllOps
  <2> QED BY <1>1, <1>5, <1>6, <1>7, <1>8, <2>1
          DEF Commands!Begin, Commands!fileVars, fileVars
<1> QED BY <1>5, <1>9 DEF Mapped, Commands!Next

\* Sessions begin with a handle or on the way to one, and end.
LEMMA SessionStep == ASSUME ClientsInv, NEW p \in Procs, Session(p) PROVE Mapped
<1>1. ProcsOK /\ proc \in [Procs -> Processes] /\ WellFormed(proc[p])
  BY DEF ClientsInv, ProcsOK
<1>2. CASE StartREPL(p)
  BY <1>2, GoesOn DEF StartREPL
<1>3. CASE StartUI(p)
  <2> DEFINE r == Prompt(p, "ui", disk)
  <2>1. /\ proc[p].phase = "off" /\ disk # 0 /\ UNCHANGED fileVars
        /\ proc' = [proc EXCEPT ![p] = r]
    BY <1>3 DEF StartUI, At
  <2>2. /\ disk \in Files /\ disk' = disk /\ created' = created
        /\ store' = store /\ writes' = writes
    BY <2>1 DEF ClientsInv, FilesOK, fileVars
  <2>3. /\ WellFormed(r) /\ r.handle = disk'
        /\ r.op = Nothing /\ r.key = Nothing /\ r.code = Nothing /\ r.out = Nothing
        /\ r.seen = Nothing /\ r.verdict = Undecided
    BY <2>2, BetweenCommands
  <2>4. /\ proc[p].handle = 0 /\ proc[p].op = Nothing /\ proc[p].key = Nothing
        /\ proc[p].code = Nothing /\ proc[p].out = Nothing /\ proc[p].seen = Nothing
        /\ proc[p].verdict = Undecided
    BY <1>1, <2>1 DEF WellFormed, Idle
  <2> HIDE DEF r
  <2> QED BY <2>1, <2>2, <2>3, <2>4, BindStep
<1>4. CASE Quit(p)
  BY <1>4, EndStep DEF Quit
<1> QED BY <1>2, <1>3, <1>4 DEF Session

\* openCache gives a command a handle, or an error.
LEMMA OpenCacheStep == ASSUME ClientsInv, NEW p \in Procs, OpenCache(p) PROVE Mapped
<1> DEFINE old == proc[p]
<1>1. ProcsOK /\ proc \in [Procs -> Processes] /\ WellFormed(old) /\ old \in Processes
  BY DEF ClientsInv, ProcsOK
<1>2. CASE UseShared(p)
  BY <1>2, GoesOn DEF UseShared, Opening, At
<1>3. CASE StatMissing(p)
  <2>1. proc[p].phase \in {"begun", "ticked"} /\ Done(p, 3, Nothing) /\ UNCHANGED fileVars
    BY <1>3 DEF StatMissing, Stats, Opening, At, Fails, exitDatabase
  <2> QED BY <2>1, FailStep DEF Idle
<1>4. CASE StatFound(p)
  BY <1>4, GoesOn DEF StatFound, Stats, Opening, At
<1>5. CASE Open(p)
  <2>1. /\ IF disk # 0 THEN UNCHANGED <<disk, created>>
           ELSE created < MaxFiles /\ created' = created + 1 /\ disk' = created'
        /\ UNCHANGED <<store, writes>>
    BY <1>5 DEF Open
  <2>2. disk' \in Files
    BY <2>1, MaxFilesAssumption DEF ClientsInv, FilesOK, Files
  <2>3. old.handle = 0 /\ old.session = "none" /\ old.phase \in {"found", "starting", "begun"}
    BY <1>1, <1>5 DEF Open, Ready, At, InSession, WellFormed
  <2>4. CASE At(p, "starting")
    <3> DEFINE r == Prompt(p, "repl", disk')
    <3>1. proc' = [proc EXCEPT ![p] = r]
      BY <1>5, <2>4 DEF Open, At
    <3>2. /\ WellFormed(r) /\ r.handle = disk'
          /\ r.op = Nothing /\ r.key = Nothing /\ r.code = Nothing /\ r.out = Nothing
          /\ r.seen = Nothing /\ r.verdict = Undecided
      BY <2>2, BetweenCommands
    <3>3. /\ old.op = Nothing /\ old.key = Nothing
          /\ old.code = Nothing /\ old.out = Nothing /\ old.seen = Nothing
          /\ old.verdict = Undecided
      BY <1>1, <2>4 DEF WellFormed, Idle, At
    <3> HIDE DEF r
    <3> QED BY <2>1, <2>3, <3>1, <3>2, <3>3, BindStep DEF old
  <2>5. CASE ~At(p, "starting")
    <3> DEFINE r == [proc[p] EXCEPT !.phase = "open", !.handle = disk']
    <3>1. proc' = [proc EXCEPT ![p] = r]
      BY <1>5, <2>5 DEF Open, At
    <3>2. /\ r \in Processes /\ r.phase = "open" /\ r.session = old.session /\ r.op = old.op
          /\ r.key = old.key /\ r.handle = disk' /\ r.verdict = old.verdict
          /\ r.code = old.code /\ r.out = old.out /\ r.seen = old.seen
      BY <1>1, <2>2 DEF Processes, Phases
    <3>3. disk' # 0 /\ old.phase \in {"found", "begun"}
      BY <2>2, <2>3, <2>5 DEF Files, At
    <3> HIDE DEF r, old
    <3>4. WellFormed(r)
      BY <1>1, <2>3, <3>2, <3>3 DEF WellFormed, Idle
    <3> QED BY <2>1, <2>3, <3>1, <3>2, <3>4, BindStep DEF old
  <2> QED BY <2>4, <2>5
<1>6. CASE OpenFails(p)
  <2>1. CASE At(p, "starting")
    BY <1>6, <2>1, EndStep DEF OpenFails
  <2>2. CASE ~At(p, "starting")
    <3>1. proc[p].phase \in {"found", "begun", "ticked"}
      BY <1>6, <2>2 DEF OpenFails, Ready, Stats, Opening, At
    <3>2. Done(p, 3, Nothing) /\ UNCHANGED fileVars
      BY <1>6, <2>2 DEF OpenFails, Fails, exitDatabase
    <3> QED BY <3>1, <3>2, FailStep DEF Idle
  <2> QED BY <2>1, <2>2
<1> QED BY <1>2, <1>3, <1>4, <1>5, <1>6 DEF OpenCache

\* Bad arguments are an error; an interrupt is not seen until watch stops.
LEMMA RefusedStep == ASSUME ClientsInv, NEW p \in Procs, Refused(p) PROVE Mapped
<1>1. proc[p].phase = "begun" /\ Done(p, 2, Nothing) /\ UNCHANGED fileVars
  BY DEF Refused, At, exitUsage
<1> QED BY <1>1, FailStep DEF Idle

LEMMA InterruptStep == ASSUME ClientsInv, NEW p \in Procs, Interrupt(p) PROVE Mapped
<1> DEFINE old == proc[p]
           r == [proc[p] EXCEPT !.interrupted = TRUE]
<1>1. /\ ProcsOK /\ proc \in [Procs -> Processes] /\ WellFormed(old) /\ old \in Processes
      /\ proc' = [proc EXCEPT ![p] = r] /\ UNCHANGED fileVars
  BY DEF ClientsInv, ProcsOK, Interrupt
<1>2. /\ r \in Processes /\ r.phase = old.phase /\ r.session = old.session /\ r.op = old.op
      /\ r.key = old.key /\ r.handle = old.handle /\ r.verdict = old.verdict
      /\ r.code = old.code /\ r.out = old.out /\ r.seen = old.seen
  BY <1>1 DEF Processes
<1> HIDE DEF r, old
<1>3. WellFormed(r) /\ VerdictOf(r) = VerdictOf(old)
  BY <1>1, <1>2 DEF WellFormed, VerdictOf
<1>4. ProcsOK' /\ UNCHANGED <<running, held, seen, told, verdicts>>
  BY <1>1, <1>2, <1>3, GoStep DEF old
<1> QED BY <1>1, <1>4, NothingSeen

\* The end of a command.
LEMMA EndsStep == ASSUME ClientsInv, NEW p \in Procs, End(p) PROVE Mapped
<1> DEFINE r == IF InSession(p) THEN Prompt(p, proc[p].session, proc[p].handle) ELSE NoProcess
<1>1. proc' = [proc EXCEPT ![p] = r] /\ UNCHANGED fileVars
  BY DEF End
<1>2. r = NoProcess \/ (InSession(p) /\ r = Prompt(p, proc[p].session, proc[p].handle))
  OBVIOUS
<1> HIDE DEF r
<1> QED BY <1>1, <1>2, EndStep

\* What the applications do, AtomicCommands has them do.
LEMMA AppsStep ==
  ASSUME ClientsInv, (\E f \in Files, k \in Keys : AppWrites(f, k)) \/ AppRemoves \/ AppCreates
  PROVE  Mapped
<1>1. ProcsOK' /\ UNCHANGED <<running, held, seen, told, verdicts>>
  <2>1. proc' = proc
    BY DEF AppWrites, AppRemoves, AppCreates
  <2> QED BY <2>1 DEF ClientsInv, ProcsOK, running, held, seen, told, verdicts
<1>2. ASSUME NEW f \in Files, NEW k \in Keys, AppWrites(f, k) PROVE Mapped
  <2>1. Commands!Write(f, k)
    BY <1>1, <1>2 DEF AppWrites, Commands!Write
  <2> QED BY <1>1, <2>1 DEF Mapped, Commands!Next
<1>3. CASE AppRemoves
  <2>1. Commands!Remove
    BY <1>1, <1>3 DEF AppRemoves, Commands!Remove
  <2> QED BY <1>1, <2>1 DEF Mapped, Commands!Next
<1>4. CASE AppCreates
  <2>1. created + 1 \in Files
    BY <1>4, MaxFilesAssumption DEF AppCreates, ClientsInv, FilesOK, Files
  <2>2. Commands!Create
    BY <1>1, <1>4, <2>1 DEF AppCreates, Commands!Create
  <2> QED BY <1>1, <2>2 DEF Mapped, Commands!Next
<1> QED BY <1>2, <1>3, <1>4

\* Every step is one of AtomicCommands, or nothing to it.
LEMMA StepMapped == ASSUME ClientsInv, [Next]_vars PROVE Mapped
<1>1. ASSUME NEW p \in Procs,
             \/ \E op \in AllOps, k \in Keys : Invoke(p, op, k)
             \/ Refused(p) \/ Declined(p) \/ End(p)
             \/ Session(p) \/ OpenCache(p) \/ OneCall(p) \/ Get(p)
             \/ ListKeys(p) \/ Vacuuming(p) \/ Redraw(p) \/ Stopped(p) \/ Interrupt(p)
      PROVE  Mapped
  BY <1>1, InvokeStep, RefusedStep, DeclineStep, EndsStep, SessionStep, OpenCacheStep,
     OneCallStep, GetStep, ListKeysStep, VacuumingStep, RedrawStep, InterruptStep
<1>2. CASE UNCHANGED vars
  <2>1. ProcsOK' /\ UNCHANGED <<running, held, seen, told, verdicts>>
    BY <1>2 DEF ClientsInv, ProcsOK, vars, running, held, seen, told, verdicts
  <2> QED BY <1>2, <2>1, NothingSeen DEF vars
<1> QED BY <1>1, <1>2, AppsStep DEF Next

-----------------------------------------------------------------------------
(* Files, and what of a process a step leaves as it is.                    *)

\* What the calls of the library make of a store is a store.
LEMMA StoreCalls ==
  ASSUME NEW s \in Stores, NEW k \in Keys
  PROVE  /\ \A i \in Rows[k] \cup {Absent} : Put(s, k, i) \in Stores
         /\ \A gone \in SUBSET Keys : Without(s, gone) \in Stores
         /\ Has(s, k) => WithExpiry(s, k, FALSE) \in Stores
<1>1. s \in [Keys -> Items \cup {Absent}] /\ \A j \in Keys : s[j] \in Rows[j] \cup {Absent}
  BY DEF Stores
<1>2. ASSUME NEW i \in Rows[k] \cup {Absent} PROVE Put(s, k, i) \in Stores
  <2>1. i \in Items \cup {Absent}
    BY DEF Items
  <2> QED BY <1>1, <2>1 DEF Put, Stores
<1>3. ASSUME NEW gone \in SUBSET Keys PROVE Without(s, gone) \in Stores
  BY <1>1 DEF Without, Stores
<1>4. ASSUME Has(s, k) PROVE WithExpiry(s, k, FALSE) \in Stores
  <2>1. s[k] \in Rows[k]
    BY <1>1, <1>4 DEF Has
  <2>2. [s[k] EXCEPT !.ttl = FALSE] \in Rows[k]
    BY <2>1, PersistAssumption
  <2>3. WithExpiry(s, k, FALSE) = Put(s, k, [s[k] EXCEPT !.ttl = FALSE])
    BY <1>1 DEF WithExpiry, Put
  <2> QED BY <1>2, <2>2, <2>3
<1> QED BY <1>2, <1>3, <1>4

LEMMA FilesKept == ASSUME FilesOK, UNCHANGED fileVars PROVE FilesOK'
BY DEF FilesOK, fileVars

LEMMA FilesLeft ==
  ASSUME FilesOK, NEW p \in Procs, NEW s \in Stores, Leaves(p, s)
  PROVE  FilesOK' /\ UNCHANGED <<disk, created, removed>>
BY DEF FilesOK, Leaves

\* Nobody comes to be between its stat and its open, and in a session everybody keeps
\* its handle.
Still ==
  \A q \in Procs : /\ proc'[q].phase = "found" => proc[q].phase = "found"
                   /\ InSession(q) /\ proc'[q].session # "none" =>
                        proc'[q].handle = proc[q].handle

LEMMA StillBy ==
  ASSUME ProcsOK, NEW p \in Procs, NEW r, proc' = [proc EXCEPT ![p] = r], r.phase # "found",
         InSession(p) /\ r.session # "none" => r.handle = proc[p].handle
  PROVE  Still
BY DEF ProcsOK, Still, InSession

LEMMA StillDone == ASSUME ProcsOK, NEW p \in Procs, NEW c, NEW o, Done(p, c, o) PROVE Still
<1> DEFINE r == [proc[p] EXCEPT !.phase = "done", !.code = c, !.out = o]
<1>1. proc' = [proc EXCEPT ![p] = r]
  BY DEF Done
<1>2. r.phase = "done" /\ r.handle = proc[p].handle
  BY DEF ProcsOK, Processes
<1> HIDE DEF r
<1> QED BY <1>1, <1>2, StillBy

LEMMA StillGo ==
  ASSUME ProcsOK, NEW p \in Procs, NEW ph, ph # "found", Go(p, ph)
  PROVE  Still
<1> DEFINE r == [proc[p] EXCEPT !.phase = ph]
<1>1. proc' = [proc EXCEPT ![p] = r]
  BY DEF Go
<1>2. r.phase = ph /\ r.handle = proc[p].handle
  BY DEF ProcsOK, Processes
<1> HIDE DEF r
<1> QED BY <1>1, <1>2, StillBy

LEMMA StillJudged ==
  ASSUME ProcsOK, NEW p \in Procs, NEW k, NEW v, proc[p].phase = "open", Judged(p, k, v)
  PROVE  Still
<1> DEFINE r == [proc[p] EXCEPT !.verdict[k] = v]
<1>1. proc' = [proc EXCEPT ![p] = r]
  BY DEF Judged
<1>2. r.phase = proc[p].phase /\ r.handle = proc[p].handle
  BY DEF ProcsOK, Processes
<1> HIDE DEF r
<1> QED BY <1>1, <1>2, StillBy

\* A step that leaves the file at the path alone.
Quiet == FilesOK' /\ Still /\ UNCHANGED <<disk, created, removed>>

LEMMA QuietOneCall == ASSUME ClientsInv, NEW p \in Procs, OneCall(p) PROVE Quiet
<1>1. FilesOK /\ ProcsOK
  BY DEF ClientsInv
<1>2. Still
  <2>1. \E c, o : Done(p, c, o)
    <3>1. ASSUME NEW i \in Items, Set(p, i) PROVE \E c, o : Done(p, c, o)
      BY <3>1 DEF Set
    <3>2. ASSUME NEW d \in {-1, 1}, Incr(p, d) PROVE \E c, o : Done(p, c, o)
      BY <3>2 DEF Incr
    <3>3. ASSUME NEW evicted \in SUBSET Keys, Maintain(p, evicted)
          PROVE  \E c, o : Done(p, c, o)
      BY <3>3 DEF Maintain
    <3>4. CASE Del(p) \/ Exists(p) \/ TTL(p) \/ Dump(p) \/ Expire(p) \/ Persist(p)
      BY <3>4 DEF Del, Exists, TTL, Dump, Expire, Persist, PrintBool, PrintRow
    <3>5. CASE \/ Statistics(p) \/ Flush(p) \/ Which(p) \/ WhichFails(p)
               \/ CallFails(p) \/ OutputFails(p)
      BY <3>5 DEF Statistics, Flush, Which, WhichFails, CallFails, OutputFails, PrintBool, Fails
    <3> QED BY <3>1, <3>2, <3>3, <3>4, <3>5 DEF OneCall
  <2> QED BY <1>1, <2>1, StillDone
<1>3. FilesOK' /\ UNCHANGED <<disk, created, removed>>
  <2>1. CASE Reads
    BY <1>1, <2>1, FilesKept DEF Reads, fileVars
  <2>2. ASSUME At(p, "open"), NEW s, s \in Stores, Leaves(p, s)
        PROVE  FilesOK' /\ UNCHANGED <<disk, created, removed>>
    BY <1>1, <2>2, FilesLeft
  <2>3. At(p, "open") => In(p) \in Stores /\ Key(p) \in Keys
    BY AtHandle DEF At
  <2>4. ASSUME NEW i \in Items, Set(p, i)
        PROVE  FilesOK' /\ UNCHANGED <<disk, created, removed>>
    <3>1. At(p, "open") /\ i \in Rows[Key(p)] /\ Leaves(p, Put(In(p), Key(p), i))
      BY <2>4 DEF Set, Calls
    <3>2. Put(In(p), Key(p), i) \in Stores
      BY <2>3, <3>1, StoreCalls
    <3> QED BY <2>2, <3>1, <3>2
  <2>5. ASSUME NEW d \in {-1, 1}, Incr(p, d)
        PROVE  FilesOK' /\ UNCHANGED <<disk, created, removed>>
    <3> DEFINE i == Incremented(In(p), Key(p), d)
    <3>1. At(p, "open") /\ i \in Rows[Key(p)] /\ Leaves(p, Put(In(p), Key(p), i))
      BY <2>5 DEF Incr, Calls
    <3> HIDE DEF i
    <3>2. Put(In(p), Key(p), i) \in Stores
      BY <2>3, <3>1, StoreCalls
    <3> QED BY <2>2, <3>1, <3>2
  <2>6. ASSUME NEW gone \in SUBSET Keys, At(p, "open"), Leaves(p, Without(In(p), gone))
        PROVE  FilesOK' /\ UNCHANGED <<disk, created, removed>>
    <3>1. Without(In(p), gone) \in Stores
      BY <2>3, <2>6, StoreCalls
    <3> QED BY <2>2, <2>6, <3>1
  <2>7. ASSUME NEW evicted \in SUBSET Keys, Maintain(p, evicted)
        PROVE  FilesOK' /\ UNCHANGED <<disk, created, removed>>
    BY <2>6, <2>7 DEF Maintain, Calls
  <2>8. CASE Del(p)
    <3>1. At(p, "open") /\ {Key(p)} \in SUBSET Keys /\ Leaves(p, Without(In(p), {Key(p)}))
      BY <2>3, <2>8 DEF Del, Calls
    <3> QED BY <2>6, <3>1
  <2>9. CASE Flush(p)
    <3>1. At(p, "open") /\ Keys \in SUBSET Keys /\ Leaves(p, Without(In(p), Keys))
      BY <2>9 DEF Flush, Calls
    <3> QED BY <2>6, <3>1
  <2>10. CASE Expire(p)
    <3>1. CASE Has(In(p), Key(p))
      BY <2>2, <2>10, <3>1 DEF Expire, Calls
    <3>2. CASE ~Has(In(p), Key(p))
      BY <2>1, <2>10, <3>2 DEF Expire
    <3> QED BY <3>1, <3>2
  <2>11. CASE Persist(p)
    <3>1. CASE Has(In(p), Key(p))
      <4>1. At(p, "open") /\ Leaves(p, WithExpiry(In(p), Key(p), FALSE))
        BY <2>11, <3>1 DEF Persist, Calls
      <4>2. WithExpiry(In(p), Key(p), FALSE) \in Stores
        BY <2>3, <3>1, <4>1, StoreCalls
      <4> QED BY <2>2, <4>1, <4>2
    <3>2. CASE ~Has(In(p), Key(p))
      BY <2>1, <2>11, <3>2 DEF Persist
    <3> QED BY <3>1, <3>2
  <2>12. CASE \/ Exists(p) \/ TTL(p) \/ Dump(p) \/ Statistics(p) \/ Which(p)
              \/ WhichFails(p) \/ CallFails(p) \/ OutputFails(p)
    BY <2>1, <2>12
       DEF Exists, TTL, Dump, Statistics, Which, WhichFails, CallFails, OutputFails
  <2> QED BY <2>4, <2>5, <2>7, <2>8, <2>9, <2>10, <2>11, <2>12 DEF OneCall
<1> QED BY <1>2, <1>3 DEF Quiet

\* The steps of a command that only reads.
LEMMA QuietReads ==
  ASSUME ClientsInv, NEW p \in Procs, Get(p) \/ ListKeys(p) \/ Vacuuming(p) \/ Redraw(p)
  PROVE  Quiet
<1>1. FilesOK /\ ProcsOK
  BY DEF ClientsInv
<1>2. Reads
  BY DEF Get, ListKeys, Vacuuming, Redraw, InspectMiss, InspectOnly, Inspect, Decode, PassOver,
     PrintKey, Yield, InspectKey, Listed, Size, Vacuum, Resize, VacuumFails, Draw, DrawFails,
     Tick
<1>3. FilesOK' /\ UNCHANGED <<disk, created, removed>>
  BY <1>1, <1>2, FilesKept DEF Reads, fileVars
<1>4. CASE \E c, o : Done(p, c, o)
  BY <1>1, <1>3, <1>4, StillDone DEF Quiet
<1>5. CASE Get(p)
  <2>1. CASE InspectMiss(p) \/ InspectOnly(p) \/ Decode(p)
    BY <1>4, <2>1 DEF InspectMiss, InspectOnly, Decode
  <2>2. CASE Inspect(p)
    <3> DEFINE r == [proc[p] EXCEPT !.phase = "inspected", !.seen = Row(p)]
    <3>1. proc' = [proc EXCEPT ![p] = r]
      BY <1>1, <2>2 DEF Inspect, ProcsOK
    <3>2. r.phase = "inspected" /\ r.handle = proc[p].handle
      BY <1>1 DEF ProcsOK, Processes
    <3> HIDE DEF r
    <3> QED BY <1>1, <1>3, <3>1, <3>2, StillBy DEF Quiet
  <2> QED BY <1>5, <2>1, <2>2 DEF Get
<1>6. CASE ListKeys(p)
  <2>1. CASE Listed(p)
    BY <1>4, <2>1 DEF Listed
  <2>2. CASE ~Listed(p)
    <3>1. proc[p].phase = "open" /\ \E k, v : Judged(p, k, v)
      BY <1>6, <2>2 DEF ListKeys, PassOver, PrintKey, Yield, InspectKey, Turn, Calls, At
    <3> QED BY <1>1, <1>3, <3>1, StillJudged DEF Quiet
  <2> QED BY <2>1, <2>2
<1>7. CASE Vacuuming(p)
  <2>1. CASE Size(p)
    BY <1>1, <1>3, <2>1, StillGo DEF Size, Quiet
  <2>2. CASE Vacuum(p)
    BY <1>1, <1>3, <2>2, StillGo DEF Vacuum, Quiet
  <2>3. CASE Resize(p) \/ VacuumFails(p)
    BY <1>4, <2>3 DEF Resize, VacuumFails, Fails
  <2> QED BY <1>7, <2>1, <2>2, <2>3 DEF Vacuuming
<1>8. CASE Redraw(p)
  <2>1. CASE Draw(p)
    <3> DEFINE r == [proc[p] EXCEPT !.phase = "drawn", !.handle = Closed(p)]
    <3>1. proc' = [proc EXCEPT ![p] = r]
      BY <1>1, <2>1 DEF Draw, ProcsOK
    <3>2. r.phase = "drawn" /\ (InSession(p) => r.handle = proc[p].handle)
      BY <1>1 DEF ProcsOK, Processes, Closed
    <3> HIDE DEF r
    <3> QED BY <1>1, <1>3, <3>1, <3>2, StillBy DEF Quiet
  <2>2. CASE DrawFails(p)
    <3> DEFINE r == [proc[p] EXCEPT !.phase = "done", !.handle = Closed(p),
                                    !.code = exitDatabase]
    <3>1. proc' = [proc EXCEPT ![p] = r]
      BY <1>1, <2>2 DEF DrawFails, ProcsOK
    <3>2. r.phase = "done" /\ (InSession(p) => r.handle = proc[p].handle)
      BY <1>1 DEF ProcsOK, Processes, Closed
    <3> HIDE DEF r
    <3> QED BY <1>1, <1>3, <3>1, <3>2, StillBy DEF Quiet
  <2>3. CASE Tick(p)
    BY <1>1, <1>3, <2>3, StillGo DEF Tick, Quiet
  <2> QED BY <1>8, <2>1, <2>2, <2>3 DEF Redraw
<1> QED BY <1>5, <1>6, <1>7, <1>8

\* The steps around a command.
LEMMA QuietAround ==
  ASSUME ClientsInv, NEW p \in Procs,
         \/ \E op \in AllOps, k \in Keys : Invoke(p, op, k)
         \/ Refused(p) \/ Declined(p) \/ Stopped(p) \/ End(p) \/ Interrupt(p)
         \/ StartREPL(p) \/ StartUI(p) \/ UseShared(p) \/ StatMissing(p)
  PROVE  Quiet
<1>1. FilesOK /\ ProcsOK
  BY DEF ClientsInv
<1>2. FilesOK' /\ UNCHANGED <<disk, created, removed>>
  <2>1. UNCHANGED <<fileVars, removed>>
    BY DEF Invoke, Refused, Declined, Stopped, Reads, End, Interrupt, StartREPL, StartUI,
       UseShared, StatMissing
  <2> QED BY <1>1, <2>1, FilesKept DEF fileVars
<1>3. CASE Refused(p) \/ Declined(p) \/ Stopped(p) \/ StatMissing(p)
  BY <1>1, <1>2, <1>3, StillDone DEF Refused, Declined, Stopped, StatMissing, Fails, Quiet
<1>4. ASSUME NEW op \in AllOps, NEW k \in Keys, Invoke(p, op, k) PROVE Quiet
  <2> DEFINE r == [proc[p] EXCEPT !.phase = "begun", !.op = op, !.key = k]
  <2>1. proc' = [proc EXCEPT ![p] = r]
    BY <1>1, <1>4 DEF Invoke, ProcsOK
  <2>2. r.phase = "begun" /\ r.handle = proc[p].handle
    BY <1>1 DEF ProcsOK, Processes
  <2> HIDE DEF r
  <2> QED BY <1>1, <1>2, <2>1, <2>2, StillBy DEF Quiet
<1>5. CASE End(p)
  <2> DEFINE r == IF InSession(p) THEN Prompt(p, proc[p].session, proc[p].handle)
                  ELSE NoProcess
  <2>1. proc' = [proc EXCEPT ![p] = r]
    BY <1>5 DEF End
  <2>2. r.phase # "found" /\ (InSession(p) => r.handle = proc[p].handle)
    BY DEF Prompt, NoProcess
  <2> HIDE DEF r
  <2> QED BY <1>1, <1>2, <2>1, <2>2, StillBy DEF Quiet
<1>6. CASE Interrupt(p)
  <2> DEFINE r == [proc[p] EXCEPT !.interrupted = TRUE]
  <2>1. proc' = [proc EXCEPT ![p] = r]
    BY <1>1, <1>6 DEF Interrupt, ProcsOK
  <2>2. r.phase = proc[p].phase /\ r.handle = proc[p].handle
    BY <1>1 DEF ProcsOK, Processes
  <2> HIDE DEF r
  <2>3. Still
    BY <1>1, <2>1, <2>2 DEF ProcsOK, Still
  <2> QED BY <1>2, <2>3 DEF Quiet
<1>7. CASE StartREPL(p) \/ UseShared(p)
  BY <1>1, <1>2, <1>7, StillGo DEF StartREPL, UseShared, Quiet
<1>8. CASE StartUI(p)
  <2>1. proc' = [proc EXCEPT ![p] = Prompt(p, "ui", disk)]
    BY <1>8 DEF StartUI
  <2>2. Prompt(p, "ui", disk).phase = "prompt"
    BY DEF Prompt, NoProcess
  <2>3. ~InSession(p)
    BY <1>1, <1>8 DEF StartUI, At, InSession, ProcsOK, WellFormed
  <2> QED BY <1>1, <1>2, <2>1, <2>2, <2>3, StillBy DEF Quiet
<1> QED BY <1>3, <1>4, <1>5, <1>6, <1>7, <1>8

-----------------------------------------------------------------------------
(* The files and the record of what was removed, step by step.             *)

HandlesKept ==
  \A q \in Procs : InSession(q) /\ proc'[q].session # "none" =>
                     proc'[q].handle = proc[q].handle

\* A file that a process found at its stat can only be gone because it was removed.
RestKept == FilesOK' /\ RemovedSince' /\ HandlesKept

LEMMA QuietKeeps == ASSUME ClientsInv, Quiet PROVE RestKept
BY DEF ClientsInv, Quiet, Still, RestKept, HandlesKept, RemovedSince, At

LEMMA OpenCacheKeeps == ASSUME ClientsInv, NEW p \in Procs, OpenCache(p) PROVE RestKept
<1>1. /\ FilesOK /\ ProcsOK /\ RemovedSince /\ proc \in [Procs -> Processes]
      /\ WellFormed(proc[p])
  BY DEF ClientsInv, ProcsOK
<1>2. CASE UseShared(p) \/ StatMissing(p)
  BY <1>2, QuietAround, QuietKeeps
<1>3. CASE StatFound(p)
  <2>1. disk # 0 /\ UNCHANGED fileVars /\ disk' = disk /\ removed' = removed
    BY <1>3 DEF StatFound, fileVars
  <2>2. HandlesKept
    <3>1. proc' = [proc EXCEPT ![p].phase = "found"]
      BY <1>3 DEF StatFound, Go
    <3>2. \A q \in Procs : proc'[q].handle = proc[q].handle
      BY <1>1, <3>1 DEF Processes
    <3> QED BY <3>2 DEF HandlesKept
  <2>3. RemovedSince'
    BY <1>1, <2>1 DEF RemovedSince
  <2> QED BY <1>1, <2>1, <2>2, <2>3, FilesKept DEF RestKept
<1>4. CASE Open(p)
  <2>1. /\ IF disk # 0 THEN UNCHANGED <<disk, created>>
           ELSE created < MaxFiles /\ created' = created + 1 /\ disk' = created'
        /\ UNCHANGED <<store, writes>> /\ removed' = removed \ {p}
    BY <1>4 DEF Open
  <2>2. FilesOK' /\ disk' # 0
    BY <1>1, <2>1, MaxFilesAssumption DEF FilesOK, Files
  <2>3. RemovedSince'
    BY <1>1, <2>1, <2>2 DEF RemovedSince
  <2>4. ~InSession(p) /\ \A q \in Procs \ {p} : proc'[q] = proc[q]
    <3>1. ~InSession(p)
      BY <1>1, <1>4 DEF Open, Ready, At, InSession, WellFormed
    <3> QED BY <1>1, <1>4, <3>1 DEF Open
  <2> QED BY <2>2, <2>3, <2>4 DEF RestKept, HandlesKept
<1>5. CASE OpenFails(p)
  <2>1. UNCHANGED fileVars /\ disk' = disk /\ removed' = removed \ {p}
    BY <1>5 DEF OpenFails, fileVars
  <2>2. Still /\ proc'[p].phase # "found"
    <3>1. CASE At(p, "starting")
      <4>1. proc' = [proc EXCEPT ![p] = NoProcess]
        BY <1>5, <3>1 DEF OpenFails
      <4>2. NoProcess.phase # "found" /\ NoProcess.session = "none"
        BY DEF NoProcess
      <4> QED BY <1>1, <4>1, <4>2, StillBy
    <3>2. CASE ~At(p, "starting")
      <4>1. Done(p, exitDatabase, Nothing)
        BY <1>5, <3>2 DEF OpenFails, Fails
      <4>2. proc'[p].phase = "done"
        BY <1>1, <4>1 DEF Done, Processes
      <4> QED BY <1>1, <4>1, <4>2, StillDone
    <3> QED BY <3>1, <3>2
  <2>3. RemovedSince'
    BY <1>1, <2>1, <2>2 DEF RemovedSince, Still, At
  <2> QED BY <1>1, <2>1, <2>2, <2>3, FilesKept DEF RestKept, Still, HandlesKept
<1> QED BY <1>2, <1>3, <1>4, <1>5 DEF OpenCache

LEMMA QuitKeeps == ASSUME ClientsInv, NEW p \in Procs, Quit(p) PROVE RestKept
<1>1. FilesOK /\ ProcsOK /\ RemovedSince /\ proc \in [Procs -> Processes]
  BY DEF ClientsInv, ProcsOK
<1>2. /\ proc' = [proc EXCEPT ![p] = NoProcess] /\ removed' = removed \ {p}
      /\ UNCHANGED fileVars /\ disk' = disk
  BY DEF Quit, fileVars
<1>3. NoProcess.phase # "found" /\ NoProcess.session = "none"
  BY DEF NoProcess
<1>4. Still /\ proc'[p].phase # "found"
  BY <1>1, <1>2, <1>3, StillBy
<1>5. RemovedSince'
  BY <1>1, <1>2, <1>4 DEF RemovedSince, Still, At
<1> QED BY <1>1, <1>2, <1>4, <1>5, FilesKept DEF RestKept, Still, HandlesKept

LEMMA AppsKeep ==
  ASSUME ClientsInv, (\E f \in Files, k \in Keys : AppWrites(f, k)) \/ AppRemoves \/ AppCreates
  PROVE  RestKept
<1>1. FilesOK /\ RemovedSince /\ proc' = proc
  BY DEF ClientsInv, AppWrites, AppRemoves, AppCreates
<1>2. ASSUME NEW f \in Files, NEW k \in Keys, AppWrites(f, k) PROVE RestKept
  <2>1. UNCHANGED <<disk, created, removed>> /\ writes' = writes + 1
    BY <1>2 DEF AppWrites
  <2>2. PICK i \in Rows[k] \cup {Absent} : store' = [store EXCEPT ![f][k] = i]
    BY <1>2 DEF AppWrites
  <2>3. store' = [store EXCEPT ![f] = Put(store[f], k, i)]
    BY <2>2 DEF Put
  <2>4. Put(store[f], k, i) \in Stores
    BY <1>1, StoreCalls DEF FilesOK
  <2>5. FilesOK'
    BY <1>1, <2>1, <2>3, <2>4 DEF FilesOK
  <2>6. RemovedSince'
    BY <1>1, <2>1 DEF RemovedSince, At
  <2> QED BY <1>1, <2>5, <2>6 DEF RestKept, HandlesKept
<1>3. CASE AppRemoves
  <2>1. /\ disk' = 0 /\ UNCHANGED <<created, store, writes>>
        /\ removed' = removed \cup {p \in Procs : At(p, "found")}
    BY <1>3 DEF AppRemoves
  <2>2. FilesOK'
    BY <1>1, <2>1, MaxFilesAssumption DEF FilesOK, Files
  <2>3. RemovedSince'
    BY <1>1, <2>1 DEF RemovedSince, At
  <2> QED BY <1>1, <2>2, <2>3 DEF RestKept, HandlesKept
<1>4. CASE AppCreates
  BY <1>1, <1>4, MaxFilesAssumption
     DEF AppCreates, FilesOK, Files, RemovedSince, At, RestKept, HandlesKept
<1> QED BY <1>2, <1>3, <1>4

LEMMA StepKeeps == ASSUME ClientsInv, [Next]_vars PROVE RestKept
<1>1. ASSUME NEW p \in Procs,
             \/ \E op \in AllOps, k \in Keys : Invoke(p, op, k)
             \/ Refused(p) \/ Declined(p) \/ End(p)
             \/ Session(p) \/ OpenCache(p) \/ OneCall(p) \/ Get(p)
             \/ ListKeys(p) \/ Vacuuming(p) \/ Redraw(p) \/ Stopped(p) \/ Interrupt(p)
      PROVE  RestKept
  <2>1. CASE OneCall(p) \/ Get(p) \/ ListKeys(p) \/ Vacuuming(p) \/ Redraw(p)
    BY <2>1, QuietOneCall, QuietReads, QuietKeeps
  <2>2. CASE OpenCache(p)
    BY <2>2, OpenCacheKeeps
  <2>3. CASE Session(p)
    BY <2>3, QuitKeeps, QuietAround, QuietKeeps DEF Session
  <2>4. CASE \/ \E op \in AllOps, k \in Keys : Invoke(p, op, k)
             \/ Refused(p) \/ Declined(p) \/ End(p) \/ Stopped(p) \/ Interrupt(p)
    BY <2>4, QuietAround, QuietKeeps
  <2> QED BY <1>1, <2>1, <2>2, <2>3, <2>4
<1>2. CASE UNCHANGED vars
  <2>1. Quiet
    BY <1>2, FilesKept DEF ClientsInv, Quiet, Still, vars, fileVars
  <2> QED BY <2>1, QuietKeeps
<1> QED BY <1>1, <1>2, AppsKeep DEF Next

-----------------------------------------------------------------------------
(* The theorems.                                                           *)

LEMMA ClientsInvInit == Init => ClientsInv
<1> SUFFICES ASSUME Init PROVE ClientsInv
  OBVIOUS
<1>1. FilesOK
  BY MaxFilesAssumption DEF Init, FilesOK, Files
<1>2. proc = [p \in Procs |-> NoProcess] /\ removed = {}
  BY DEF Init
<1>3. WellFormed(NoProcess) /\ NoProcess \in Processes /\ NoProcess.phase = "off"
  BY BetweenCommands DEF WellFormed, NoProcess
<1>4. ProcsOK
  BY <1>2, <1>3 DEF ProcsOK
<1>5. RemovedSince
  BY <1>2, <1>3 DEF RemovedSince, At
<1> QED BY <1>1, <1>4, <1>5 DEF ClientsInv

LEMMA ClientsInvStep == ClientsInv /\ [Next]_vars => ClientsInv'
BY StepMapped, StepKeeps DEF ClientsInv, Mapped, RestKept

\* What the theorems rest on: each process is in order by itself, and whoever found a
\* file that is there no more knows that it was removed.
THEOREM ClientsInvariance == Spec => []ClientsInv
BY ClientsInvInit, ClientsInvStep, PTL DEF Spec

\* The state is always of its type, and a command that is at its calls of the library
\* has the handle they are made on.
THEOREM ClientsTypeCorrect == Spec => []TypeOK
<1>1. ClientsInv => TypeOK
  BY DEF ClientsInv, FilesOK, ProcsOK, RemovedSince, WellFormed, TypeOK
<1> QED BY <1>1, ClientsInvariance, PTL

\* A command that only reads makes no file of its own, unless the one that its stat
\* found was removed before its open (openCache of db.go).
THEOREM ReadersNeverCreate == Spec => ReadersCreateNothing
<1>1. ASSUME ClientsInv, [Next]_vars, NEW p \in Procs,
             created' # created, At(p, "found"), proc'[p].phase = "open"
      PROVE  p \in removed
  <2>1. FilesOK /\ ProcsOK /\ RemovedSince /\ proc \in [Procs -> Processes]
    BY <1>1 DEF ClientsInv, ProcsOK
  <2>2. ~Quiet /\ ~UNCHANGED vars
    BY <1>1 DEF Quiet, vars, fileVars
  <2>3. proc' # proc
    BY <1>1 DEF At
  <2>4. PICK q \in Procs : Open(q)
    <3>1. \A q \in Procs : ~StatFound(q) /\ ~OpenFails(q) /\ ~Quit(q)
      BY <1>1 DEF StatFound, OpenFails, Quit, fileVars
    <3>2. ~AppRemoves /\ ~AppCreates /\ \A f \in Files, k \in Keys : ~AppWrites(f, k)
      BY <2>3 DEF AppRemoves, AppCreates, AppWrites
    <3> QED BY <1>1, <2>2, <3>1, <3>2, QuietOneCall, QuietReads, QuietAround
            DEF Next, Session, OpenCache
  <2>5. disk = 0
    BY <1>1, <2>4 DEF Open
  <2> QED BY <1>1, <2>1, <2>5 DEF RemovedSince
<1>2. ClientsInv /\ [Next]_vars =>
        [\A p \in Procs :
           created' # created /\ At(p, "found") /\ proc'[p].phase = "open" =>
             p \in removed]_vars
  BY <1>1
<1> QED BY <1>2, ClientsInvariance, PTL DEF Spec, ReadersCreateNothing

\* A one-shot command holds no handle when it is over nor between the pictures of a
\* watch, and a session keeps the handle that it began with.
THEOREM AlwaysOpenOnlyToAct == Spec => OpenOnlyToAct
<1>1. ASSUME ClientsInv, [Next]_vars, NEW p \in Procs
      PROVE  /\ proc'[p].phase \in {"off", "drawn", "ticked"} /\ proc'[p].session = "none" =>
                  proc'[p].handle = 0
             /\ InSession(p) /\ proc'[p].session # "none" => proc'[p].handle = proc[p].handle
  <2>1. ClientsInv'
    BY <1>1, ClientsInvStep
  <2>2. WellFormed(proc'[p])
    BY <2>1 DEF ClientsInv, ProcsOK
  <2>3. HandlesKept
    BY <1>1, StepKeeps DEF RestKept
  <2> QED BY <2>2, <2>3 DEF WellFormed, HandlesKept
<1>2. ClientsInv /\ [Next]_vars =>
        [\A p \in Procs :
           /\ proc'[p].phase \in {"off", "drawn", "ticked"} /\ proc'[p].session = "none" =>
                proc'[p].handle = 0
           /\ InSession(p) /\ proc'[p].session # "none" =>
                proc'[p].handle = proc[p].handle]_vars
  BY <1>1
<1> QED BY <1>2, ClientsInvariance, PTL DEF Spec, OpenOnlyToAct

\* Clients implements AtomicCommands: whatever the applications and the other commands
\* do between its steps, every command takes its one effect, and has its answer from,
\* one moment of one file; a listing has the verdict on each key from one moment; get
\* and a value page have the value from one moment, and the type (the page: the expiry
\* too) from an earlier one.
THEOREM AlwaysOneMoment == Spec => OneMoment
<1>1. Init => Commands!Init
  <2> SUFFICES ASSUME Init PROVE Commands!Init
    OBVIOUS
  <2>1. proc = [p \in Procs |-> NoProcess]
    BY DEF Init
  <2>2. /\ CommandOf(NoProcess) = Nothing /\ NoProcess.handle = 0
        /\ AnswerOf(NoProcess) = Nothing /\ NoProcess.seen = Nothing
        /\ VerdictOf(NoProcess) = Commands!Undecided
    BY DEF NoProcess, CommandOf, AnswerOf, VerdictOf, Undecided, Commands!Undecided
  <2>3. /\ running = [p \in Procs |-> Nothing] /\ held = [p \in Procs |-> 0]
        /\ seen = [p \in Procs |-> Nothing] /\ told = [p \in Procs |-> Nothing]
        /\ verdicts = [p \in Procs |-> Commands!Undecided]
    BY <2>1, <2>2 DEF running, held, seen, told, verdicts
  <2>4. Commands!Empty = Empty /\ Commands!Stores = Stores
    BY DEF Commands!Empty, Empty, Commands!Stores, Stores, Commands!Items, Items
  <2> QED BY <2>3, <2>4 DEF Init, Commands!Init
<1>2. ClientsInv /\ [Next]_vars => [Commands!Next]_(Commands!vars)
  BY StepMapped DEF Mapped
<1> QED BY <1>1, <1>2, ClientsInvariance, PTL DEF Spec, OneMoment, Commands!Spec
=============================================================================
