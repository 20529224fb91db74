-------------------------- MODULE AdminServerProofs --------------------------
(***************************************************************************)
(* Proofs about AdminServer, for any numbers of requests, sessions,        *)
(* namespaces and keys, with and without crashes.                          *)
(***************************************************************************)
EXTENDS AdminServer, TLAPS

\* What the middleware, the gate and the handler have established holds of a
\* request until its operation is called.
Admitted ==
    \A r \in Reqs :
        phase[r] = "admitted" => CsrfValid(req[r]) /\ Gate(req[r]) /\ FormValid(req[r])

\* Whoever is in flight once the databases are closed was not waited for.
Quiet == life \in {"up", "draining"} \/ InFlight \subseteq overtaken

\* The file is closed after the databases, and only what changed waits to be logged.
LogLast ==
    /\ auditOpen \/ life \in {"closed", "abandoned", "exited"}
    /\ \A r \in Reqs : phase[r] = "changed" => r \in changed

IInv == TypeOK /\ AuditComplete /\ Admitted /\ Quiet /\ LogLast

\* Every initial state satisfies the invariant.
LEMMA InitInv == Init => IInv
BY DEF Init, IInv, TypeOK, AuditComplete, Admitted, Quiet, LogLast, InFlight, Running

\* An operation is called of what was admitted, and removes some of it.
LEMMA RemovedAreStored ==
  ASSUME TypeOK, NEW r \in Reqs, phase[r] = "admitted", NEW gone \in Removals(req[r])
  PROVE  gone \subseteq InNamespace(req[r]) /\ (req[r].route = "vacuum" => gone = {})
<1> DEFINE q == req[r]
<1>1. q \in Request
  BY DEF TypeOK
<1>2. q.route \in Routes
  BY <1>1 DEF Request
<1>3. CASE q.route \in {"delete-key", "delete-keys"}
  BY <1>3 DEF Removals
<1>4. CASE q.route = "flush"
  BY <1>4 DEF Removals
<1>5. CASE q.route = "maintain"
  BY <1>5 DEF Removals
<1>6. CASE q.route = "vacuum"
  BY <1>6 DEF Removals
<1> QED BY <1>2, <1>3, <1>4, <1>5, <1>6 DEF Routes

\* A request that has changed nothing is refused, or its operation failed.
LEMMA RespondStep ==
  ASSUME IInv, NEW r \in Reqs, phase[r] # "changed", Respond(r),
         UNCHANGED <<allowDelete, mustChange, live, store, changed, Log, life, auditOpen>>,
         overtaken \subseteq overtaken', overtaken' \subseteq Reqs
  PROVE  IInv'
<1> USE DEF IInv
<1>1. phase' = [phase EXCEPT ![r] = "done"] /\ req' = [req EXCEPT ![r] = NoRequest]
  BY DEF Respond
<1>2. TypeOK'
  BY <1>1 DEF Log, TypeOK
<1>3. Admitted'
  BY <1>1 DEF TypeOK, Admitted, CsrfValid, Gate, FormValid
<1>4. InFlight' \subseteq InFlight
  BY <1>1 DEF InFlight, TypeOK
<1>5. AuditComplete' /\ LogLast'
  BY <1>1 DEF Log, TypeOK, AuditComplete, LogLast, Running
<1>6. Quiet'
  BY <1>4 DEF Quiet
<1> QED BY <1>2, <1>3, <1>5, <1>6

\* The same of a step that leaves the server alone too.
LEMMA RefusedStep ==
  ASSUME IInv, NEW r \in Reqs, phase[r] # "changed", Respond(r),
         UNCHANGED <<allowDelete, mustChange, live, store, changed, Log, Server>>
  PROVE  IInv'
<1>1. UNCHANGED <<life, auditOpen>> /\ overtaken \subseteq overtaken' /\ overtaken' \subseteq Reqs
  BY DEF Server, IInv, TypeOK
<1> QED BY <1>1, RespondStep

\* The steps of a request.
LEMMA RequestStep ==
  ASSUME IInv, NEW r \in Reqs,
         \/ \E q \in Request : Verify(r, q)
         \/ Admit(r) \/ Mutate(r) \/ MutateFails(r) \/ LogMutation(r)
  PROVE  IInv'
<1> USE DEF IInv
<1>1. ASSUME NEW q \in Request, Verify(r, q) PROVE IInv'
  <2>1. CASE q.session \in live /\ ~mustChange
    <3>1. phase' = [phase EXCEPT ![r] = "reading"] /\ req' = [req EXCEPT ![r] = q]
      BY <1>1, <2>1 DEF Verify
    <3>2. /\ phase[r] = "none" /\ overtaken \subseteq overtaken' /\ overtaken' \subseteq Reqs
          /\ life \in {"up", "draining"} \/ overtaken' = overtaken \cup {r}
          /\ UNCHANGED <<life, auditOpen, audit, unwritten, changed>>
      BY <1>1 DEF Verify, Log, IInv, TypeOK
    <3>3. TypeOK'
      <4>1. phase' \in [Reqs -> {"none", "reading", "admitted", "changed", "done"}]
        BY <3>1 DEF TypeOK
      <4>2. \A t \in Reqs :
              phase'[t] \in {"reading", "admitted", "changed"} => req'[t] \in Request
        <5> SUFFICES ASSUME NEW t \in Reqs, phase'[t] \in {"reading", "admitted", "changed"}
                     PROVE  req'[t] \in Request
          OBVIOUS
        <5>1. CASE t = r
          BY <3>1, <5>1 DEF TypeOK
        <5>2. CASE t # r
          BY <3>1, <5>2 DEF TypeOK
        <5> QED BY <5>1, <5>2
      <4>3. req' \in [Reqs -> Request \cup {NoRequest}]
        BY <3>1 DEF TypeOK
      <4> QED BY <1>1, <3>2, <4>1, <4>2, <4>3 DEF Verify, TypeOK
    <3>4. Admitted'
      BY <1>1, <3>1 DEF Verify, TypeOK, Admitted, CsrfValid, Gate, FormValid
    <3>5. AuditComplete' /\ LogLast'
      BY <3>1, <3>2 DEF TypeOK, AuditComplete, LogLast, Running
    <3>6. Quiet'
      BY <3>1, <3>2 DEF TypeOK, Quiet, InFlight
    <3> QED BY <3>3, <3>4, <3>5, <3>6
  <2>2. CASE ~(q.session \in live /\ ~mustChange)
    <3>1. /\ UNCHANGED <<allowDelete, mustChange, live, store, changed, Log, life, auditOpen>>
          /\ Respond(r) /\ phase[r] # "changed"
          /\ overtaken \subseteq overtaken' /\ overtaken' \subseteq Reqs
      BY <1>1, <2>2 DEF Verify, TypeOK
    <3> QED BY <3>1, RespondStep
  <2> QED BY <2>1, <2>2
<1>2. CASE Admit(r)
  <2>1. CASE CsrfValid(req[r]) /\ Gate(req[r]) /\ req[r].db /\ FormValid(req[r])
    BY <1>2, <2>1 DEF Admit, Log, Server, TypeOK, AuditComplete, Admitted, Quiet, LogLast,
       InFlight, Running, CsrfValid, Gate, FormValid
  <2>2. CASE ~(CsrfValid(req[r]) /\ Gate(req[r]) /\ req[r].db /\ FormValid(req[r]))
    BY <1>2, <2>2, RefusedStep DEF Admit
  <2> QED BY <2>1, <2>2
<1>3. CASE Mutate(r)
  <2>1. PICK gone \in Removals(req[r]) : store' = store \ gone
    BY <1>3 DEF Mutate
  <2>2. store' \subseteq Entries
    BY <2>1 DEF TypeOK
  <2> QED
    BY <1>3, <2>2 DEF Mutate, Log, Server, TypeOK, AuditComplete, Admitted, Quiet, LogLast,
       InFlight, Running, CsrfValid, Gate, FormValid
<1>4. CASE MutateFails(r)
  BY <1>4, RefusedStep DEF MutateFails
<1>5. CASE LogMutation(r)
  <2>1. r \in changed /\ r \in InFlight
    BY <1>5 DEF LogMutation, LogLast, InFlight
  <2>2. audit' \subseteq audit \cup {r} /\ unwritten' \subseteq unwritten \cup {r}
        /\ audit \subseteq audit' /\ unwritten \subseteq unwritten'
        /\ (auditOpen => r \in audit' \cup unwritten')
    BY <1>5 DEF LogMutation, AppendLine, Log
  <2>3. UNCHANGED <<allowDelete, mustChange, live, store, changed, life, auditOpen, overtaken>>
        /\ Respond(r) /\ Running
    BY <1>5 DEF LogMutation, Server
  <2>4. TypeOK' /\ Admitted' /\ LogLast'
    BY <2>2, <2>3 DEF Respond, TypeOK, Admitted, LogLast, CsrfValid, Gate, FormValid
  <2>5. Quiet'
    BY <2>1, <2>3 DEF Respond, Quiet, InFlight, TypeOK
  <2>6. r \in overtaken \/ auditOpen
    BY <2>1, <2>3 DEF Running, Quiet, LogLast
  <2>7. AuditComplete'
    <3>1. audit' \subseteq changed'
      BY <2>1, <2>2, <2>3 DEF AuditComplete
    <3>2. ASSUME NEW t \in changed'
          PROVE  \/ t \in audit' \cup unwritten' \cup overtaken'
                 \/ phase'[t] = "changed" /\ Running'
      <4>1. CASE t = r
        BY <2>2, <2>3, <2>6, <4>1
      <4>2. CASE t # r
        BY <2>2, <2>3, <3>2, <4>2 DEF Respond, TypeOK, AuditComplete, Running
      <4> QED BY <4>1, <4>2
    <3> QED BY <3>1, <3>2 DEF AuditComplete
  <2> QED BY <2>4, <2>5, <2>7
<1> QED BY <1>1, <1>2, <1>3, <1>4, <1>5

\* Sessions, the password and the applications' entries.
LEMMA OtherStep ==
  ASSUME IInv,
         \/ \E s \in Sessions : SessionEnds(s) \/ ChangePassword(s)
         \/ \E e \in Entries : AppSets(e)
  PROVE  IInv'
<1>1. UNCHANGED <<allowDelete, phase, req, changed, Log, Server>>
  BY DEF SessionEnds, ChangePassword, AppSets
<1>2. TypeOK'
  BY <1>1 DEF SessionEnds, ChangePassword, AppSets, IInv, TypeOK, Log, Server
<1> QED
  BY <1>1, <1>2 DEF Log, Server, IInv, AuditComplete, Admitted, Quiet, LogLast, InFlight,
     Running, CsrfValid, Gate, FormValid

\* The steps of the end of the server, and a crash.
LEMMA ShutdownStep ==
  ASSUME IInv,
         \/ Drain \/ CloseDatabases \/ CloseDatabasesForced \/ ServeFails
         \/ CloseAudit \/ Exit \/ Crash
  PROVE  IInv'
<1> USE DEF IInv
<1>1. UNCHANGED Requests
  BY DEF Drain, CloseDatabases, CloseDatabasesForced, ServeFails, CloseAudit, Exit, Crash
<1>2. UNCHANGED InFlight /\ Admitted'
  BY <1>1 DEF Requests, InFlight, Admitted, CsrfValid, Gate, FormValid
<1>3. \A r \in Reqs : phase[r] = "changed" => r \in InFlight
  BY DEF InFlight
<1>4. InFlight \subseteq Reqs
  BY DEF InFlight
<1> USE <1>1, <1>2, <1>3, <1>4 DEF Requests, Log, TypeOK, AuditComplete, Quiet, LogLast, Running
<1>5. CASE Drain
  BY <1>5 DEF Drain
<1>6. CASE CloseDatabases
  BY <1>6 DEF CloseDatabases, Drained
<1>7. CASE CloseDatabasesForced
  BY <1>7 DEF CloseDatabasesForced
<1>8. CASE ServeFails
  BY <1>8 DEF ServeFails
<1>9. CASE CloseAudit
  BY <1>9 DEF CloseAudit
<1>10. CASE Exit
  BY <1>10 DEF Exit
<1>11. CASE Crash
  BY <1>11 DEF Crash
<1> QED BY <1>5, <1>6, <1>7, <1>8, <1>9, <1>10, <1>11

\* Every step keeps the invariant.
LEMMA NextInv == IInv /\ [Next]_vars => IInv'
<1> SUFFICES ASSUME IInv, [Next]_vars PROVE IInv'
  OBVIOUS
<1>1. CASE UNCHANGED vars
  BY <1>1 DEF vars, IInv, TypeOK, AuditComplete, Admitted, Quiet, LogLast,
     InFlight, Running, CsrfValid, Gate, FormValid
<1> QED
  BY <1>1, RequestStep, OtherStep, ShutdownStep DEF Next

\* The invariant holds throughout.
THEOREM Invariance == Spec => []IInv
BY InitInv, NextInv, PTL DEF Spec

\* The requests in flight and the shutdown keep their types.
THEOREM TypeCorrect == Spec => []TypeOK
<1>1. IInv => TypeOK
  BY DEF IInv
<1> QED BY <1>1, Invariance, PTL

\* Nothing but successful writes has a line in the audit log, and each of them has,
\* unless the write of the line failed or the server did not wait for the request.
THEOREM AuditAlwaysComplete == Spec => []AuditComplete
<1>1. IInv => AuditComplete
  BY DEF IInv
<1> QED BY <1>1, Invariance, PTL

-----------------------------------------------------------------------------

\* A call of the library removes what its request was let through for.
LEMMA MutateAsked ==
  ASSUME IInv, NEW r \in Reqs, Mutate(r), NEW e \in store \ store'
  PROVE  RemovedForRequest(e)
<1>1. PICK gone \in Removals(req[r]) : store' = store \ gone
  BY DEF Mutate
<1>2. phase[r] = "admitted" /\ phase'[r] = "changed"
  BY DEF Mutate, IInv, TypeOK
<1>3. gone \subseteq InNamespace(req[r]) /\ (req[r].route = "vacuum" => gone = {})
  BY <1>1, <1>2, RemovedAreStored DEF IInv
<1>4. e \in gone /\ e[1] = req[r].ns /\ req[r].route # "vacuum"
  BY <1>1, <1>3 DEF InNamespace
<1>5. CsrfValid(req[r]) /\ Gate(req[r]) /\ FormValid(req[r])
  BY <1>2 DEF IInv, Admitted
<1>6. req[r].route \in {"delete-key", "delete-keys"} => e[2] \in req[r].keys
  BY <1>1, <1>4 DEF Removals
<1>7. req[r].route = "flush" => req[r].confirm = req[r].ns
  BY <1>5 DEF FormValid
<1> QED
  BY <1>2, <1>4, <1>5, <1>6, <1>7 DEF CsrfValid, Gate, Asks, RemovedForRequest

\* Whatever disappears from a database was asked for by a request that had
\* passed the middleware, the gate and the handler's checks.
THEOREM RemovedIsAlwaysAsked == Spec => OnlyWhatWasAsked
<1>1. IInv /\ [Next]_vars => [\A e \in store \ store' : RemovedForRequest(e)]_vars
  <2> SUFFICES ASSUME IInv, Next, NEW e \in store \ store'
               PROVE  RemovedForRequest(e)
    OBVIOUS
  <2>1. store' # store /\ ~(store \subseteq store')
    OBVIOUS
  <2>2. PICK r \in Reqs : Mutate(r)
    BY <2>1 DEF Next, Verify, Admit, MutateFails, LogMutation, SessionEnds,
       ChangePassword, AppSets, Drain, CloseDatabases, CloseDatabasesForced, ServeFails,
       CloseAudit, Exit, Crash, Requests
  <2> QED BY <2>2, MutateAsked
<1> QED
  BY <1>1, Invariance, PTL DEF Spec, OnlyWhatWasAsked
=============================================================================
