------------------------------ MODULE DBManager ------------------------------
(***************************************************************************)
(* The databases the admin UI serves: Manager and dbEntry of               *)
(* cmd/lytecache/ui/dbmanager.go, the way the handlers (handlers.go,       *)
(* viewmodel.go) and the metrics collector (metrics.go) go through them,   *)
(* and the shutdown of cmd_ui.go that closes them.                         *)
(*                                                                         *)
(* Every request runs in a goroutine of its own, and the applications that *)
(* own the database files create and remove them at any time.  dbEntry.mu  *)
(* is a lock a request holds over the several steps of Cache, and a scrape *)
(* takes it while it holds the collector's; Manager.mu makes Rescan, Names *)
(* and entry one step each.  Taking dbEntry.mu is one step with what is    *)
(* looked up or found under it, up to the stat: nobody else can change the *)
(* handles of the entry in between.                                        *)
(*                                                                         *)
(* The order of the entries is only shown, never relied on: the list of    *)
(* entries is the map byName, and a walk over it goes in any order.        *)
(***************************************************************************)
EXTENDS FiniteSets, Naturals

CONSTANTS
  Handlers,    \* requests in flight at the same time
  Names,       \* database names
  Paths,       \* paths a database file can have
  Base,        \* explicit sources (config file, --db): a map from name to path
  ScanName,    \* for each path under the --scan directories, the name it is given
  ScanDir,     \* ... and the position of its directory among the directories
  Namespaces,  \* namespaces somebody asks for
  Default,     \* the namespace "default"
  Nobody,      \* the holder of a lock nobody holds
  Nothing      \* what a request between two databases is looking at

Slots == Names \X Namespaces

ASSUME BaseAssumption == DOMAIN Base \subseteq Names /\ Base \in [DOMAIN Base -> Paths]
ASSUME ScanAssumption ==
  /\ DOMAIN ScanName \subseteq Paths /\ ScanName \in [DOMAIN ScanName -> Names]
  /\ ScanDir \in [DOMAIN ScanName -> Nat]
  /\ \A p, q \in DOMAIN ScanName :
       ScanName[p] = ScanName[q] /\ ScanDir[p] = ScanDir[q] => p = q
ASSUME DefaultAssumption == Default \in Namespaces
ASSUME NobodyAssumption == Nobody \notin Handlers
ASSUME NothingAssumption == Nothing \notin Slots

VARIABLES
  disk,      \* the paths that have a file
  removed,   \* history: the requests whose file went away since their stat
  byName,    \* Manager.byName: name -> path of the entry
  caches,    \* dbEntry.caches: <<name, namespace>> -> the path the handle was opened on
  mu,        \* dbEntry.mu: name -> who holds it
  phase,     \* where each request is
  want,      \* the <<name, namespace>> each request still has to look at
  at,        \* the one it is looking at
  unlisted,  \* the databases a search has still to ask for their namespaces
  collector, \* metricsCollector.mu: who holds it
  fresh,     \* metricsCollector has an answer younger than cacheTTL
  collected, \* history: the collections since its answer was last too old
  server,    \* whether requests are accepted, drained, or databases closed
  closing,   \* names whose handles Manager.Close has yet to close
  closed,    \* handles that were closed
  forced,    \* history: the databases are closed with requests still running
  opens      \* history: how often a handle was opened for a name and namespace

fileVars == <<disk, removed>>
shutdownVars == <<server, closing, closed, forced>>
metricsVars == <<collector, fresh, collected>>
walkVars == <<want, at, unlisted>>
requestVars == <<phase, walkVars>>
vars == <<fileVars, byName, caches, mu, requestVars, metricsVars, shutdownVars, opens>>

Phases == {"idle", "scraping", "listing", "searching", "visiting", "found", "using"}
ServerPhases == {"serving", "draining", "closing", "stopped"}

TypeOK ==
  /\ disk \subseteq Paths /\ removed \subseteq Handlers
  /\ DOMAIN byName \subseteq Names /\ byName \in [DOMAIN byName -> Paths]
  /\ DOMAIN caches \subseteq (DOMAIN byName) \X Namespaces
  /\ caches \in [DOMAIN caches -> Paths]
  /\ mu \in [Names -> Handlers \cup {Nobody}]
  /\ phase \in [Handlers -> Phases]
  /\ want \in [Handlers -> SUBSET Slots]
  /\ at \in [Handlers -> Slots \cup {Nothing}] /\ unlisted \in [Handlers -> SUBSET Names]
  /\ collector \in Handlers \cup {Nobody} /\ fresh \in BOOLEAN /\ collected \in Nat
  /\ server \in ServerPhases /\ closing \subseteq Names
  /\ closed \subseteq DOMAIN caches /\ forced \in BOOLEAN
  /\ opens \in [Slots -> Nat]

-----------------------------------------------------------------------------
(* Discovering database files.                                             *)

\* scanDBFiles over some of the directories, for one name.
Found(n, dirs) ==
  {p \in DOMAIN ScanName : ScanName[p] = n /\ ScanDir[p] \in dirs /\ p \in disk}
FoundNames(dirs) == {n \in Names : Found(n, dirs) # {}}

\* The directories are globbed in order; the first file of a name keeps it.
FirstFound(n, dirs) ==
  CHOOSE p \in Found(n, dirs) : \A q \in Found(n, dirs) : ScanDir[p] <= ScanDir[q]

\* Mutant of Rescanned: a file found again replaces the entry.
RescannedReplacing(known, dirs) ==
  [n \in DOMAIN known \cup FoundNames(dirs) |->
     IF n \in FoundNames(dirs) THEN FirstFound(n, dirs) ELSE known[n]]

\* MergeSources at startup and Rescan later: names already there win.
Rescanned(known, dirs) ==
  [n \in DOMAIN known \cup FoundNames(dirs) |->
     IF n \in DOMAIN known THEN known[n] ELSE FirstFound(n, dirs)]

\* The directories a scan gets to see: Glob finds nothing in one that cannot be read,
\* and at one whose name is no pattern Rescan returns with what it added before.
Scans == SUBSET {ScanDir[p] : p \in DOMAIN ScanName}

\* NewServer: MergeSources, NewManager, and WarmUp, which opens the default
\* namespace of what is there (all of it, unless a file is locked or has an
\* incompatible schema).
WarmedUp(known) ==
  SUBSET {<<n, Default>> : n \in {m \in DOMAIN known : known[m] \in disk}}

AllFree == [n \in Names |-> Nobody]
AllIdle == [h \in Handlers |-> "idle"]
AllEmpty == [h \in Handlers |-> {}]
AllNothing == [h \in Handlers |-> Nothing]

Init ==
  /\ disk \in SUBSET Paths /\ removed = {}
  /\ \E dirs \in Scans : byName = Rescanned(Base, dirs)
  /\ \E warm \in WarmedUp(byName) :
       /\ caches = [s \in warm |-> byName[s[1]]]
       /\ opens = [s \in Slots |-> IF s \in warm THEN 1 ELSE 0]
  /\ mu = AllFree /\ phase = AllIdle
  /\ want = AllEmpty /\ at = AllNothing /\ unlisted = AllEmpty
  /\ collector = Nobody /\ fresh = FALSE /\ collected = 0
  /\ server = "serving" /\ closing = {} /\ closed = {} /\ forced = FALSE

-----------------------------------------------------------------------------
(* The requests.                                                           *)

\* handleDashboard: Rescan, under Manager.mu; its error is logged.
Dashboard(h) ==
  /\ phase[h] = "idle" /\ server = "serving"
  /\ \E dirs \in Scans : byName' = Rescanned(byName, dirs)
  /\ phase' = [phase EXCEPT ![h] = "listing"]
  /\ UNCHANGED <<fileVars, caches, mu, walkVars, metricsVars, shutdownVars, opens>>

\* A search lists the names without a rescan.
Search(h) ==
  /\ phase[h] = "idle" /\ server = "serving"
  /\ phase' = [phase EXCEPT ![h] = "searching"]
  /\ UNCHANGED <<fileVars, byName, caches, mu, walkVars, metricsVars, shutdownVars, opens>>

\* A request for /metrics, with the bearer token if one is configured.
Scrape(h) ==
  /\ phase[h] = "idle" /\ server = "serving"
  /\ phase' = [phase EXCEPT ![h] = "scraping"]
  /\ UNCHANGED <<fileVars, byName, caches, mu, walkVars, metricsVars, shutdownVars, opens>>

\* metricsCollector.metrics, under its lock: the last answer is given again while
\* it is fresh.
AnswerAgain(h) ==
  /\ phase[h] = "scraping" /\ collector = Nobody /\ fresh
  /\ phase' = [phase EXCEPT ![h] = "idle"]
  /\ UNCHANGED <<fileVars, byName, caches, mu, walkVars, metricsVars, shutdownVars, opens>>

\* Otherwise the lock is held over the walk through all databases.
Collect(h) ==
  /\ phase[h] = "scraping" /\ collector = Nobody /\ ~fresh
  /\ collector' = h
  /\ collected' = collected + 1
  /\ phase' = [phase EXCEPT ![h] = "listing"]
  /\ UNCHANGED <<fileVars, byName, caches, mu, walkVars, fresh, shutdownVars, opens>>

\* cacheTTL is over.
AnswerAges ==
  /\ fresh
  /\ fresh' = FALSE /\ collected' = 0
  /\ UNCHANGED <<fileVars, byName, caches, mu, requestVars, collector, shutdownVars, opens>>

\* Manager.Names: the entries to visit are those there are now.
ListNames(h) ==
  /\ phase[h] \in {"listing", "searching"}
  /\ want' = [want EXCEPT ![h] = (DOMAIN byName) \X {Default}]
  /\ unlisted' = [unlisted EXCEPT ![h] = IF phase[h] = "searching" THEN DOMAIN byName ELSE {}]
  /\ phase' = [phase EXCEPT ![h] = "visiting"]
  /\ UNCHANGED <<fileVars, byName, caches, mu, at, metricsVars, shutdownVars, opens>>

\* A page or a mutation of one database and namespace (resolveEntry: 404 unless
\* the name is configured).
Page(h, n, ns) ==
  /\ phase[h] = "idle" /\ server = "serving"
  /\ n \in DOMAIN byName
  /\ want' = [want EXCEPT ![h] = {<<n, ns>>}]
  /\ phase' = [phase EXCEPT ![h] = "visiting"]
  /\ UNCHANGED <<fileVars, byName, caches, mu, at, unlisted, metricsVars, shutdownVars, opens>>

\* Mutant of Unlock: an early return without it.
UnlockForgotten(h) == UNCHANGED mu

\* The deferred dbEntry.mu.Unlock.
Unlock(h) == mu' = [mu EXCEPT ![at[h][1]] = Nobody]

Go(h, p) == phase' = [phase EXCEPT ![h] = p]

\* The request goes on to the next database, or to its end.
Leave(h) == Go(h, "visiting") /\ at' = [at EXCEPT ![h] = Nothing]

\* Manager.entry, then dbEntry.mu.Lock in Cache.
Look(h, s) ==
  /\ phase[h] = "visiting" /\ s \in want[h]
  /\ mu[s[1]] = Nobody
  /\ want' = [want EXCEPT ![h] = @ \ {s}]

\* Cache returns the handle it opened before, whatever became of the file.
Hit(h, s) ==
  /\ Look(h, s)
  /\ s \in DOMAIN caches
  /\ at' = [at EXCEPT ![h] = s] /\ Go(h, "using")
  /\ UNCHANGED <<fileVars, byName, caches, mu, unlisted, metricsVars, shutdownVars, opens>>

\* Otherwise it stats the path: an error when there is no file there, or when the stat
\* fails for another reason.
StatFails(h, s) ==
  /\ Look(h, s)
  /\ s \notin DOMAIN caches
  /\ UNCHANGED <<fileVars, byName, caches, mu, phase, at, unlisted, metricsVars, shutdownVars, opens>>

\* Mutant of StatFound: the stat is not asked.
StatIgnored(h, s) ==
  /\ Look(h, s)
  /\ s \notin DOMAIN caches
  /\ mu' = [mu EXCEPT ![s[1]] = h]
  /\ at' = [at EXCEPT ![h] = s] /\ Go(h, "found")
  /\ UNCHANGED <<fileVars, byName, caches, unlisted, metricsVars, shutdownVars, opens>>

\* With a file there it keeps the lock, to open it.
StatFound(h, s) ==
  /\ Look(h, s)
  /\ s \notin DOMAIN caches /\ byName[s[1]] \in disk
  /\ mu' = [mu EXCEPT ![s[1]] = h]
  /\ at' = [at EXCEPT ![h] = s] /\ Go(h, "found")
  /\ UNCHANGED <<fileVars, byName, caches, unlisted, metricsVars, shutdownVars, opens>>

\* Mutant of Remember: the handle is returned but not kept.
RememberNothing(s, p) == UNCHANGED caches

Remember(s, p) ==
  caches' = [t \in DOMAIN caches \cup {s} |-> IF t = s THEN p ELSE caches[t]]

Path(h) == byName[at[h][1]]

\* lytecache.New opens the file, and creates it when it is not there.
Open(h) ==
  /\ phase[h] = "found"
  /\ Remember(at[h], Path(h))
  /\ disk' = disk \cup {Path(h)} /\ removed' = removed \ {h}
  /\ opens' = [opens EXCEPT ![at[h]] = @ + 1]
  /\ Unlock(h) /\ Go(h, "using")
  /\ UNCHANGED <<byName, walkVars, metricsVars, shutdownVars>>

\* lytecache.New fails: the file is locked or has an incompatible schema.
OpenFails(h) ==
  /\ phase[h] = "found"
  /\ Unlock(h) /\ Leave(h)
  /\ removed' = removed \ {h}
  /\ UNCHANGED <<disk, byName, caches, want, unlisted, metricsVars, shutdownVars, opens>>

\* collectDatabase reads what it can off the handle and goes on.
UsedByScrape(h) ==
  /\ phase[h] = "using" /\ collector = h
  /\ Leave(h)
  /\ UNCHANGED <<fileVars, byName, caches, mu, want, unlisted, metricsVars, shutdownVars, opens>>

\* A search has the namespaces of a database from its default handle, and goes to the
\* handle of each one; that it ends early, at its caps, is a matter of Search.
ListNamespaces(h) ==
  /\ phase[h] = "using" /\ at[h][1] \in unlisted[h]
  /\ \E listed \in SUBSET Namespaces :
       want' = [want EXCEPT ![h] = @ \cup ({at[h][1]} \X listed)]
  /\ unlisted' = [unlisted EXCEPT ![h] = @ \ {at[h][1]}]
  /\ Leave(h)
  /\ UNCHANGED <<fileVars, byName, caches, mu, metricsVars, shutdownVars, opens>>

\* The handler is done with the handle.
Used(h) ==
  /\ phase[h] = "using" /\ collector # h /\ at[h][1] \notin unlisted[h]
  /\ Leave(h)
  /\ UNCHANGED <<fileVars, byName, caches, mu, want, unlisted, metricsVars, shutdownVars, opens>>

\* Mutant of Collected: computedAt is not set.
CollectedUndated(h) ==
  /\ phase[h] = "visiting" /\ want[h] = {} /\ collector = h
  /\ collector' = Nobody
  /\ Go(h, "idle")
  /\ UNCHANGED <<fileVars, byName, caches, mu, walkVars, fresh, collected, shutdownVars, opens>>

\* The answer of a scrape is kept, and the collector's lock given back.
Collected(h) ==
  /\ phase[h] = "visiting" /\ want[h] = {} /\ collector = h
  /\ collector' = Nobody /\ fresh' = TRUE
  /\ Go(h, "idle")
  /\ UNCHANGED <<fileVars, byName, caches, mu, walkVars, collected, shutdownVars, opens>>

Finish(h) ==
  /\ phase[h] = "visiting" /\ want[h] = {} /\ collector # h
  /\ Go(h, "idle") /\ unlisted' = [unlisted EXCEPT ![h] = {}]
  /\ UNCHANGED <<fileVars, byName, caches, mu, want, at, metricsVars, shutdownVars, opens>>

-----------------------------------------------------------------------------
(* The applications' files.                                                *)

AppCreates(p) ==
  /\ p \notin disk
  /\ disk' = disk \cup {p}
  /\ UNCHANGED <<removed, byName, caches, mu, requestVars, metricsVars, shutdownVars, opens>>

AppRemoves(p) ==
  /\ p \in disk
  /\ disk' = disk \ {p}
  /\ removed' = removed \cup {h \in Handlers : phase[h] = "found" /\ Path(h) = p}
  /\ UNCHANGED <<byName, caches, mu, requestVars, metricsVars, shutdownVars, opens>>

-----------------------------------------------------------------------------
(* The end of the server.                                                  *)

\* A signal: http.Server.Shutdown accepts no more requests.
Drain ==
  /\ server = "serving"
  /\ server' = "draining"
  /\ UNCHANGED <<fileVars, byName, caches, mu, requestVars, metricsVars, closing, closed, forced, opens>>

\* Mutant of Drained: nobody waits for the requests.
DrainedAtOnce == TRUE

Drained == \A h \in Handlers : phase[h] = "idle"

\* Manager.Close walks the entries there are when it starts.
StartClose ==
  /\ server' = "closing" /\ closing' = DOMAIN byName
  /\ UNCHANGED <<fileVars, byName, caches, mu, requestVars, metricsVars, closed, opens>>

CloseDrained == server = "draining" /\ Drained /\ StartClose /\ UNCHANGED forced

\* The five seconds of runUI are over, or Serve itself failed: the databases
\* are closed with requests still running.
CloseForced ==
  /\ server \in {"serving", "draining"} /\ ~Drained
  /\ StartClose
  /\ forced' = TRUE

HandlesOf(n) == {s \in DOMAIN caches : s[1] = n}

CloseEntry(n) ==
  /\ server = "closing" /\ n \in closing
  /\ mu[n] = Nobody
  /\ closed' = closed \cup HandlesOf(n)
  /\ closing' = closing \ {n}
  /\ UNCHANGED <<fileVars, byName, caches, mu, requestVars, metricsVars, server, forced, opens>>

\* The process ends, with whatever request was still running.
Exit ==
  /\ server = "closing" /\ closing = {}
  /\ server' = "stopped"
  /\ mu' = AllFree /\ collector' = Nobody /\ phase' = AllIdle
  /\ want' = AllEmpty /\ at' = AllNothing /\ unlisted' = AllEmpty /\ removed' = {}
  /\ UNCHANGED <<disk, byName, caches, fresh, collected, closing, closed, forced, opens>>

-----------------------------------------------------------------------------

Looking(h) == \E s \in Slots : Hit(h, s) \/ StatFails(h, s) \/ StatFound(h, s)
Visiting(h) ==
  \/ ListNames(h) \/ ListNamespaces(h)
  \/ Open(h) \/ OpenFails(h) \/ Used(h) \/ UsedByScrape(h) \/ Collected(h) \/ Finish(h)
Scraping(h) == AnswerAgain(h) \/ Collect(h)
Closing == (\E n \in Names : CloseEntry(n)) \/ Exit

Request(h) ==
  \/ Dashboard(h) \/ Search(h) \/ Scrape(h) \/ Scraping(h)
  \/ \E n \in Names, ns \in Namespaces : Page(h, n, ns)
  \/ Looking(h)
  \/ Visiting(h)

Next ==
  \/ \E h \in Handlers : Request(h)
  \/ \E p \in Paths : AppCreates(p) \/ AppRemoves(p)
  \/ AnswerAges
  \/ Drain \/ CloseDrained \/ CloseForced \/ Closing

\* Goroutines are scheduled, and sync.Mutex hands a lock that is released again
\* and again to a waiter in the end (its starvation mode).
Fairness == \A h \in Handlers : WF_vars(Visiting(h)) /\ SF_vars(Looking(h)) /\ SF_vars(Scraping(h))

Spec == Init /\ [][Next]_vars

FairSpec == Spec /\ Fairness

-----------------------------------------------------------------------------
(* What the manager promises.                                              *)

\* dbEntry.Cache "never silently creates a missing file": a request makes one only if
\* the file it found was removed before it was opened.
ReadersCreateNothing ==
  [][\A h \in Handlers :
       disk' # disk /\ phase[h] = "found" /\ phase'[h] = "using" => h \in removed]_vars

\* However requests race for it, a handle is opened once for each entry and
\* namespace: a second one would never be closed ("opened once and held for the
\* server's lifetime").
OpenedOnce == \A s \in Slots : opens[s] <= 1

\* "Rescan only ever adds, never replaces or removes": an entry keeps its path
\* and its handles, whatever files come and go and whoever rescans.
OnlyAdds ==
  [][/\ \A n \in DOMAIN byName : n \in DOMAIN byName' /\ byName'[n] = byName[n]
     /\ \A s \in DOMAIN caches : s \in DOMAIN caches' /\ caches'[s] = caches[s]]_vars

\* DefaultMetricsCacheTTL "bounds how often a scrape actually reads the configured
\* database files": however many scrapes come together, wait for each other and
\* find the answer too old, one of them reads the files until it is too old again.
OnceEachTTL == collected <= 1

\* Databases are closed under no request's feet, and all of them, unless the
\* shutdown had to give up on a request.
GracefulClose ==
  ~forced => /\ \A h \in Handlers : phase[h] = "using" => at[h] \notin closed
             /\ server = "stopped" => closed = DOMAIN caches

\* Every request ends: nobody keeps an entry's lock or waits for it forever,
\* whatever the other requests, the files and the shutdown do meanwhile.
RequestsEnd == \A h \in Handlers : phase[h] # "idle" ~> phase[h] = "idle"
=============================================================================
