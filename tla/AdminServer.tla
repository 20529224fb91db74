----------------------------- MODULE AdminServer -----------------------------
(***************************************************************************)
(* The write requests of `lytecache ui`, from the middleware (auth.go)     *)
(* over the route's gate and the handler (mutations.go) to the audit log   *)
(* (audit.go), next to each other and to the end of the server: a shutdown *)
(* (builtUIServer.Shutdown, Server.Close) or an error of Serve (runUI).    *)
(*                                                                         *)
(* The session is verified when the headers are there; the form, with the  *)
(* CSRF token, is read after that, and nothing bounds how long its sender  *)
(* takes.  SessionManager models verify itself, DBManager the handles of   *)
(* the databases: here a session is live or not, and an operation of the   *)
(* library succeeds or fails as a whole.  One database is modelled; a      *)
(* request to one that is not configured has db = FALSE.                   *)
(***************************************************************************)
EXTENDS FiniteSets

CONSTANTS Reqs, Sessions, Namespaces, Keys, CanCrash

ASSUME CrashAssumption == CanCrash \in BOOLEAN
ASSUME SessionsAssumption == "none" \notin Sessions

Entries == Namespaces \X Keys

Routes == {"delete-key", "delete-keys", "flush", "maintain", "vacuum"}

\* What a write request carries: the session of its cookie, the one its CSRF
\* token was derived from, and the form.  (Fields of the other routes' forms are
\* left alike.)
Request ==
    {q \in [route : Routes, session : Sessions, token : Sessions \cup {"none"},
            db : BOOLEAN, ns : Namespaces, keys : SUBSET Keys, confirm : Namespaces] :
        /\ q.route \notin {"delete-key", "delete-keys"} => q.keys = {}
        /\ q.route # "flush" => q.confirm = q.ns}

NoRequest == [route |-> "none"]

VARIABLES
    allowDelete, \* --allow-delete
    mustChange,  \* forcedPasswordChangeRequired
    live,        \* the sessions that verify accepts
    store,       \* the entries of the database
    phase,       \* request -> "none", "reading", "admitted", "changed", or "done"
    req,         \* request -> what it carries, once its headers are read
    changed,     \* the requests whose operation succeeded
    audit,       \* the requests with a line in the audit log
    unwritten,   \* the requests whose line the open audit log did not take
    life,        \* "up", "draining", "closed" (the databases), "abandoned" (the
                 \* same, after an error of Serve), "exited"
    auditOpen,   \* the audit log's file is open
    overtaken    \* history: the requests the server did not wait for, in flight when
                 \* it closed the databases or ended, or begun after that

vars == <<allowDelete, mustChange, live, store, phase, req, changed, audit,
          unwritten, life, auditOpen, overtaken>>

Log == <<audit, unwritten>>
Server == <<life, auditOpen, overtaken>>

TypeOK ==
    /\ allowDelete \in BOOLEAN /\ mustChange \in BOOLEAN
    /\ live \subseteq Sessions
    /\ store \subseteq Entries
    /\ phase \in [Reqs -> {"none", "reading", "admitted", "changed", "done"}]
    /\ req \in [Reqs -> Request \cup {NoRequest}]
    /\ \A r \in Reqs : phase[r] \in {"reading", "admitted", "changed"} => req[r] \in Request
    /\ changed \subseteq Reqs /\ audit \subseteq Reqs /\ unwritten \subseteq Reqs
    /\ life \in {"up", "draining", "closed", "abandoned", "exited"}
    /\ auditOpen \in BOOLEAN /\ overtaken \subseteq Reqs

Init ==
    /\ allowDelete \in BOOLEAN
    /\ mustChange \in BOOLEAN
    /\ live = Sessions
    /\ store \in SUBSET Entries
    /\ phase = [r \in Reqs |-> "none"]
    /\ req = [r \in Reqs |-> NoRequest]
    /\ changed = {}
    /\ audit = {}
    /\ unwritten = {}
    /\ life = "up"
    /\ auditOpen = TRUE
    /\ overtaken = {}

InFlight == {r \in Reqs : phase[r] \in {"reading", "admitted", "changed"}}
Running == life # "exited"

-----------------------------------------------------------------------------
(* A write request                                                         *)

\* A bug: the return after an error page is forgotten.
RespondAndGoOn(r) ==
    /\ phase' = [phase EXCEPT ![r] = "admitted"]
    /\ req' = [req EXCEPT ![r] = NoRequest]

Respond(r) ==
    /\ phase' = [phase EXCEPT ![r] = "done"]
    /\ req' = [req EXCEPT ![r] = NoRequest]

\* authMiddleware up to its redirects: the session is live and the password
\* change is not forced, or the request is redirected.  After an error of Serve
\* nobody has told the open connections to end, and a request may come on one.
Verify(r, q) ==
    /\ life \in {"up", "abandoned"}
    /\ phase[r] = "none"
    /\ IF q.session \in live /\ ~mustChange
       THEN /\ phase' = [phase EXCEPT ![r] = "reading"]
            /\ req' = [req EXCEPT ![r] = q]
       ELSE Respond(r)
    /\ overtaken' = IF life = "abandoned" THEN overtaken \cup {r} ELSE overtaken
    /\ UNCHANGED <<allowDelete, mustChange, live, store, changed, Log, life, auditOpen>>

\* verifyCSRF, requireAllowDelete on every route but vacuum, resolveEntry, and
\* what the handler asks of the form.
CsrfValid(q) == q.token = q.session

\* A bug: the route of the flush is registered without requireAllowDelete.
GateWithoutFlush(q) == q.route \notin {"flush", "vacuum"} => allowDelete

Gate(q) == q.route # "vacuum" => allowDelete

FormValid(q) ==
    CASE q.route = "delete-key" -> Cardinality(q.keys) = 1
      [] q.route = "delete-keys" -> q.keys # {}
      [] q.route = "flush" -> q.confirm = q.ns
      [] OTHER -> TRUE

Admit(r) ==
    /\ Running
    /\ phase[r] = "reading"
    /\ IF CsrfValid(req[r]) /\ Gate(req[r]) /\ req[r].db /\ FormValid(req[r])
       THEN phase' = [phase EXCEPT ![r] = "admitted"] /\ UNCHANGED req
       ELSE Respond(r)
    /\ UNCHANGED <<allowDelete, mustChange, live, store, changed, Log, Server>>

\* The entries an operation may remove: Delete and Flush take all of theirs,
\* Maintain what is expired or over the limits, Vacuum none.
InNamespace(q) == {e \in store : e[1] = q.ns}
Removals(q) ==
    CASE q.route \in {"delete-key", "delete-keys"} ->
              {{e \in InNamespace(q) : e[2] \in q.keys}}
      [] q.route = "flush" -> {InNamespace(q)}
      [] q.route = "maintain" -> SUBSET InNamespace(q)
      [] OTHER -> {{}}

\* The call of the library.  A handle may also be opened while the databases
\* are being closed, so that it can succeed then too.
Mutate(r) ==
    /\ Running
    /\ phase[r] = "admitted"
    /\ \E gone \in Removals(req[r]) : store' = store \ gone
    /\ phase' = [phase EXCEPT ![r] = "changed"]
    /\ changed' = changed \cup {r}
    /\ UNCHANGED <<allowDelete, mustChange, live, req, Log, Server>>

\* entryCache or the call fails: an error page and no line in the audit log.
MutateFails(r) ==
    /\ Running
    /\ phase[r] = "admitted"
    /\ Respond(r)
    /\ UNCHANGED <<allowDelete, mustChange, live, store, changed, Log, Server>>

\* auditLogger.log: a line, or an error of the write (a full disk, a closed file)
\* that is ignored.
AppendLine(r) ==
    \/ auditOpen /\ audit' = audit \cup {r} /\ UNCHANGED unwritten
    \/ auditOpen /\ unwritten' = unwritten \cup {r} /\ UNCHANGED audit
    \/ ~auditOpen /\ UNCHANGED Log

\* logMutation and the redirect.
LogMutation(r) ==
    /\ Running
    /\ phase[r] = "changed"
    /\ AppendLine(r)
    /\ Respond(r)
    /\ UNCHANGED <<allowDelete, mustChange, live, store, changed, Server>>

-----------------------------------------------------------------------------
(* Other requests and other programs                                       *)

\* handleLogout, or the session's deadline.
SessionEnds(s) ==
    /\ Running
    /\ live' = live \ {s}
    /\ s \in live
    /\ UNCHANGED <<allowDelete, mustChange, store, phase, req, changed, Log, Server>>

\* handleChangePasswordSubmit, the one write open to a forced change.
ChangePassword(s) ==
    /\ life = "up"
    /\ s \in live /\ mustChange
    /\ mustChange' = FALSE
    /\ UNCHANGED <<allowDelete, live, store, phase, req, changed, Log, Server>>

\* An application writes an entry.
AppSets(e) ==
    /\ e \notin store
    /\ store' = store \cup {e}
    /\ UNCHANGED <<allowDelete, mustChange, live, phase, req, changed, Log, Server>>

-----------------------------------------------------------------------------
(* Shutdown                                                                *)

Requests == <<allowDelete, mustChange, live, store, phase, req, changed, Log>>

\* http.Server.Shutdown: no new requests.
Drain ==
    /\ life = "up"
    /\ life' = "draining"
    /\ UNCHANGED <<Requests, auditOpen, overtaken>>

\* A bug: http.Server.Close, which waits for nobody.
DrainedAtOnce == TRUE

\* Shutdown returns nil.
Drained == InFlight = {}

CloseDatabases ==
    /\ life = "draining"
    /\ Drained
    /\ life' = "closed"
    /\ UNCHANGED <<Requests, auditOpen, overtaken>>

\* A bug: Shutdown is called without a deadline.
DeadlinePassesNever == FALSE

\* The deadline of the context given to Shutdown.
DeadlinePasses == TRUE

\* Shutdown returns the error of its context, Close is called all the same.
CloseDatabasesForced ==
    /\ life = "draining"
    /\ ~Drained
    /\ DeadlinePasses
    /\ life' = "closed"
    /\ overtaken' = overtaken \cup InFlight
    /\ UNCHANGED <<Requests, auditOpen>>

\* Serve returns an error: Close at once, with no word to the requests.
ServeFails ==
    /\ life = "up"
    /\ life' = "abandoned"
    /\ overtaken' = overtaken \cup InFlight
    /\ UNCHANGED <<Requests, auditOpen>>

\* Server.Close closes the audit log last.
CloseAudit ==
    /\ life \in {"closed", "abandoned"} /\ auditOpen
    /\ auditOpen' = FALSE
    /\ UNCHANGED <<Requests, life, overtaken>>

Exit ==
    /\ life \in {"closed", "abandoned"} /\ ~auditOpen
    /\ life' = "exited"
    /\ UNCHANGED <<Requests, auditOpen, overtaken>>

Crash ==
    /\ CanCrash /\ Running
    /\ life' = "exited"
    /\ overtaken' = overtaken \cup InFlight
    /\ UNCHANGED <<Requests, auditOpen>>

Next ==
    \/ \E r \in Reqs, q \in Request : Verify(r, q)
    \/ \E r \in Reqs : Admit(r)
    \/ \E r \in Reqs : Mutate(r)
    \/ \E r \in Reqs : MutateFails(r)
    \/ \E r \in Reqs : LogMutation(r)
    \/ \E s \in Sessions : SessionEnds(s)
    \/ \E s \in Sessions : ChangePassword(s)
    \/ \E e \in Entries : AppSets(e)
    \/ Drain
    \/ CloseDatabases
    \/ CloseDatabasesForced
    \/ ServeFails
    \/ CloseAudit
    \/ Exit
    \/ Crash

Spec == Init /\ [][Next]_vars

\* The Go scheduler runs whoever can run, and a deadline passes: the handlers
\* once they have their form, and the steps of a shutdown.  Whoever sends a
\* form may never finish, and nobody has to ask for a shutdown.
Fairness ==
    /\ \A r \in Reqs : WF_vars(Mutate(r)) /\ WF_vars(LogMutation(r))
    /\ WF_vars(CloseDatabases)
    /\ WF_vars(CloseDatabasesForced)
    /\ WF_vars(CloseAudit)
    /\ WF_vars(Exit)

FairSpec == Spec /\ Fairness

-----------------------------------------------------------------------------
(* Properties                                                              *)

\* The audit log has a line for no write that did not succeed, and for each that
\* did, by its answer: only a request the server did not wait for can go without
\* one, or one whose line was lost to an error that was ignored.  The order of
\* drain, databases and log in a shutdown loses none (logMutation, Shutdown, Close).
AuditComplete ==
    /\ audit \subseteq changed
    /\ \A r \in changed :
         \/ r \in audit \cup unwritten \cup overtaken
         \/ phase[r] = "changed" /\ Running

\* docs/ui.md: "Every write action ... is appended to a log file next to ui.yaml",
\* "it's always on".  The error of the write is dropped, the answer is success.
EveryWriteIsLogged ==
    life = "up" => \A r \in changed : phase[r] = "done" => r \in audit

\* What disappears from the database was asked for by a request that was let
\* through for it, with deletion allowed: its keys, its namespace, and for a
\* flush the name of the namespace typed again (mutations.go).
Asks(q, e) ==
    /\ e[1] = q.ns
    /\ q.route \in {"delete-key", "delete-keys"} => e[2] \in q.keys
    /\ q.route = "flush" => q.confirm = q.ns
    /\ q.route # "vacuum"

RemovedForRequest(e) ==
    \E r \in Reqs :
        /\ phase[r] = "admitted" /\ phase'[r] = "changed"
        /\ allowDelete
        /\ req[r].token = req[r].session
        /\ Asks(req[r], e)

OnlyWhatWasAsked == [][\A e \in store \ store' : RemovedForRequest(e)]_vars

\* A shutdown ends whoever holds a request open.
ShutdownEnds == (life = "draining") ~> (life = "exited")
=============================================================================
