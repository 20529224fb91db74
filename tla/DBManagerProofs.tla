--------------------------- MODULE DBManagerProofs ---------------------------
(***************************************************************************)
(* Proofs about DBManager, for any numbers of requests, names, namespaces  *)
(* and files, and any configuration and scan directories.                  *)
(***************************************************************************)
EXTENDS DBManager, WellFoundedInduction, TLAPS

\* A request that found a file holds the entry's lock until the handle is kept, and
\* the file is there unless it was removed since.
Holding ==
  \A h \in Handlers : phase[h] = "found" =>
    /\ at[h] \in Slots /\ at[h] \notin DOMAIN caches
    /\ at[h][1] \in DOMAIN byName
    /\ mu[at[h][1]] = h
    /\ Path(h) \in disk \/ h \in removed

\* A handle in use is one the manager keeps, and what is wanted is configured.
Known ==
  \A h \in Handlers :
    /\ phase[h] = "using" => at[h] \in DOMAIN caches
    /\ want[h] \subseteq (DOMAIN byName) \X Namespaces

\* Every handle opened is kept.
Counted == \A s \in Slots : opens[s] = IF s \in DOMAIN caches THEN 1 ELSE 0

\* The collector's lock is free while its answer is fresh, and once it is free
\* with an answer that is not, the next collection is the first.
CollectedOnce ==
  /\ collected <= 1
  /\ fresh => collector = Nobody
  /\ collector = Nobody /\ ~fresh /\ server # "stopped" => collected = 0

\* Nothing is closed before the databases are, and without force nobody is left
\* by then and only what has still to be closed is not.
ClosedLast ==
  /\ server \in {"serving", "draining"} => closed = {}
  /\ server = "stopped" => Drained /\ closing = {}
  /\ ~forced /\ server \in {"closing", "stopped"} =>
       Drained /\ \A s \in DOMAIN caches : s[1] \in closing \/ s \in closed

IInv == TypeOK /\ Holding /\ Known /\ Counted /\ CollectedOnce /\ ClosedLast

-----------------------------------------------------------------------------
(* Discovery                                                               *)

\* A name with a file has a first one.
LEMMA FirstFoundIsFound ==
  ASSUME NEW dirs, NEW n \in FoundNames(dirs)
  PROVE  FirstFound(n, dirs) \in Found(n, dirs)
<1> DEFINE Places == {ScanDir[p] : p \in Found(n, dirs)}
           Less == {ss \in Nat \X Nat : ss[1] < ss[2]}
<1>1. Found(n, dirs) # {} /\ Found(n, dirs) \subseteq DOMAIN ScanName
  BY DEF FoundNames, Found
<1>2. Places # {} /\ Places \subseteq Nat
  BY <1>1, ScanAssumption
<1>3. IsWellFoundedOn(Less, Nat)
  BY NatLessThanWellFounded, Zenon DEF OpToRel
<1>4. PICK least \in Places : \A y \in Places : <<y, least>> \notin Less
  <2> HIDE DEF Places, Less
  <2> QED BY <1>2, <1>3, WFMin
<1>5. PICK p \in Found(n, dirs) : ScanDir[p] = least
  OBVIOUS
<1>6. \A q \in Found(n, dirs) : ScanDir[p] <= ScanDir[q]
  <2> SUFFICES ASSUME NEW q \in Found(n, dirs) PROVE ScanDir[p] <= ScanDir[q]
    OBVIOUS
  <2>1. ScanDir[q] \in Places /\ ScanDir[q] \in Nat /\ least \in Nat
    BY <1>2
  <2>2. ~(ScanDir[q] < least)
    BY <1>4, <2>1
  <2> QED BY <1>5, <2>1, <2>2
<1> QED BY <1>6 DEF FirstFound

\* A rescan keeps the entries there are and adds those of the names found.
LEMMA RescannedAdds ==
  ASSUME NEW known, NEW dirs, DOMAIN known \subseteq Names, known \in [DOMAIN known -> Paths]
  PROVE  /\ DOMAIN Rescanned(known, dirs) = DOMAIN known \cup FoundNames(dirs)
         /\ DOMAIN Rescanned(known, dirs) \subseteq Names
         /\ Rescanned(known, dirs) \in [DOMAIN Rescanned(known, dirs) -> Paths]
         /\ \A n \in DOMAIN known : Rescanned(known, dirs)[n] = known[n]
<1>1. ASSUME NEW n \in FoundNames(dirs) PROVE FirstFound(n, dirs) \in Paths
  BY <1>1, FirstFoundIsFound, ScanAssumption DEF Found
<1>2. FoundNames(dirs) \subseteq Names
  BY DEF FoundNames
<1> QED BY <1>1, <1>2 DEF Rescanned

-----------------------------------------------------------------------------
(* The invariant                                                           *)

\* Every initial state satisfies the invariant.
LEMMA InitInv == Init => IInv
<1> SUFFICES ASSUME Init PROVE IInv
  OBVIOUS
<1>1. DOMAIN byName \subseteq Names /\ byName \in [DOMAIN byName -> Paths]
  <2>1. PICK dirs \in Scans : byName = Rescanned(Base, dirs)
    BY DEF Init
  <2> QED BY <2>1, BaseAssumption, RescannedAdds
<1>2. PICK warm \in WarmedUp(byName) :
        /\ caches = [s \in warm |-> byName[s[1]]]
        /\ opens = [s \in Slots |-> IF s \in warm THEN 1 ELSE 0]
  BY DEF Init
<1>3. DOMAIN caches = warm /\ warm \subseteq (DOMAIN byName) \X Namespaces
  BY <1>2, DefaultAssumption DEF WarmedUp
<1>4. caches \in [DOMAIN caches -> Paths]
  BY <1>1, <1>2, <1>3
<1>5. opens \in [Slots -> Nat] /\ Counted
  BY <1>2, <1>3 DEF Counted
<1>6. TypeOK
  BY <1>1, <1>3, <1>4, <1>5
  DEF Init, TypeOK, AllFree, AllIdle, AllEmpty, AllNothing, Phases, ServerPhases
<1>7. Holding /\ Known /\ CollectedOnce /\ ClosedLast
  BY DEF Init, Holding, Known, CollectedOnce, ClosedLast, AllIdle, AllEmpty
<1> QED BY <1>5, <1>6, <1>7 DEF IInv

\* A step that leaves entries, handles and locks alone, and gives no request a
\* handle, disturbs nothing but what is said of the scrapes and the shutdown.
LEMMA RequestOnly ==
  ASSUME IInv, NEW h \in Handlers, NEW p \in Phases, p \notin {"found", "using"},
         phase' = [phase EXCEPT ![h] = p],
         want' \in [Handlers -> SUBSET Slots],
         \A g \in Handlers : want'[g] \subseteq (DOMAIN byName) \X Namespaces,
         at' \in [Handlers -> Slots \cup {Nothing}], unlisted' \in [Handlers -> SUBSET Names],
         \A g \in Handlers : g # h => at'[g] = at[g],
         UNCHANGED <<fileVars, byName, caches, mu, shutdownVars, opens>>,
         collector' \in Handlers \cup {Nobody}, fresh' \in BOOLEAN, collected' \in Nat
  PROVE  TypeOK' /\ Holding' /\ Known' /\ Counted'
<1>1. TypeOK'
  BY DEF IInv, TypeOK, shutdownVars, fileVars
<1>2. Holding' /\ Known'
  BY DEF IInv, TypeOK, Holding, Known, fileVars, Path
<1>3. Counted'
  BY DEF IInv, Counted
<1> QED BY <1>1, <1>2, <1>3

\* A request under way, or one that begins, sees the databases open, unless they
\* were closed by force.
LEMMA StillOpen ==
  ASSUME IInv, NEW h \in Handlers, phase[h] # "idle" \/ server = "serving",
         UNCHANGED shutdownVars
  PROVE  ClosedLast'
<1>1. server # "stopped" /\ (forced \/ server \in {"serving", "draining"})
  BY DEF IInv, TypeOK, ClosedLast, Drained, ServerPhases
<1> QED BY <1>1 DEF IInv, ClosedLast, shutdownVars

\* Nothing is said of a scrape where the collector is left alone.
LEMMA NoScrape ==
  ASSUME IInv, UNCHANGED <<metricsVars, server>>
  PROVE  CollectedOnce'
BY DEF IInv, CollectedOnce, metricsVars

\* A request begins.
LEMMA BeginStep ==
  ASSUME IInv, NEW h \in Handlers,
         Dashboard(h) \/ Search(h) \/ Scrape(h) \/ \E n \in Names, ns \in Namespaces : Page(h, n, ns)
  PROVE  IInv'
<1> USE DEF IInv
<1>1. UNCHANGED <<metricsVars, shutdownVars>> /\ server = "serving"
  BY DEF Dashboard, Search, Scrape, Page
<1>2. CollectedOnce' /\ ClosedLast'
  BY <1>1, NoScrape, StillOpen DEF shutdownVars
<1>3. CASE Dashboard(h)
  <2>1. phase' = [phase EXCEPT ![h] = "listing"]
        /\ UNCHANGED <<fileVars, caches, mu, walkVars, opens>>
    BY <1>3 DEF Dashboard
  <2>2. DOMAIN byName \subseteq Names /\ byName \in [DOMAIN byName -> Paths]
    BY DEF TypeOK
  <2>3. /\ DOMAIN byName \subseteq DOMAIN byName' /\ DOMAIN byName' \subseteq Names
        /\ byName' \in [DOMAIN byName' -> Paths]
        /\ \A n \in DOMAIN byName : byName'[n] = byName[n]
    BY <1>3, <2>2, RescannedAdds DEF Dashboard
  <2>4. TypeOK'
    BY <1>1, <2>1, <2>3 DEF TypeOK, Phases, metricsVars, shutdownVars, walkVars, fileVars
  <2>5. Holding' /\ Known' /\ Counted'
    BY <2>1, <2>3 DEF TypeOK, Holding, Known, Counted, walkVars, fileVars, Path
  <2> QED BY <1>2, <2>4, <2>5
<1>4. CASE Search(h) \/ Scrape(h)
  <2>1. PICK p \in {"searching", "scraping"} : phase' = [phase EXCEPT ![h] = p]
    BY <1>4 DEF Search, Scrape
  <2>2. TypeOK' /\ Holding' /\ Known' /\ Counted'
    <3>1. UNCHANGED <<fileVars, byName, caches, mu, walkVars, metricsVars, shutdownVars, opens>>
      BY <1>1, <1>4 DEF Search, Scrape
    <3>2. p \in Phases /\ p \notin {"found", "using"}
      BY DEF Phases
    <3> QED BY <2>1, <3>1, <3>2, RequestOnly DEF TypeOK, Known, walkVars, metricsVars
  <2> QED BY <1>2, <2>2
<1>5. ASSUME NEW n \in Names, NEW ns \in Namespaces, Page(h, n, ns) PROVE IInv'
  <2>1. /\ n \in DOMAIN byName /\ want' = [want EXCEPT ![h] = {<<n, ns>>}]
        /\ phase' = [phase EXCEPT ![h] = "visiting"]
        /\ UNCHANGED <<fileVars, byName, caches, mu, at, unlisted, opens>>
    BY <1>5 DEF Page
  <2>2. /\ want' \in [Handlers -> SUBSET Slots]
        /\ \A g \in Handlers : want'[g] \subseteq (DOMAIN byName) \X Namespaces
    BY <2>1 DEF TypeOK, Known, Slots
  <2>3. TypeOK' /\ Holding' /\ Known' /\ Counted'
    BY <1>1, <2>1, <2>2, RequestOnly DEF TypeOK, Phases, metricsVars
  <2> QED BY <1>2, <2>3
<1> QED BY <1>3, <1>4, <1>5

\* A scrape, from its turn at the collector to its answer.
LEMMA ScrapeStep ==
  ASSUME IInv, NEW h \in Handlers,
         Scraping(h) \/ UsedByScrape(h) \/ Collected(h)
  PROVE  IInv'
<1> USE DEF IInv
<1>1. /\ UNCHANGED <<fileVars, byName, caches, mu, want, unlisted, shutdownVars, opens>>
      /\ phase[h] # "idle"
  BY DEF Scraping, AnswerAgain, Collect, UsedByScrape, Collected, walkVars
<1>2. ClosedLast'
  BY <1>1, StillOpen
<1>3. PICK p \in {"idle", "listing", "visiting"} : phase' = [phase EXCEPT ![h] = p]
  BY DEF Scraping, AnswerAgain, Collect, UsedByScrape, Collected, Go, Leave
<1>4. CASE AnswerAgain(h)
  BY <1>1, <1>2, <1>3, <1>4, NoScrape, RequestOnly
  DEF AnswerAgain, TypeOK, Known, Phases, walkVars, metricsVars, shutdownVars
<1>5. CASE Collect(h)
  <2>1. server # "stopped"
    BY <1>1 DEF ClosedLast, Drained
  <2>2. collected = 0 /\ collected' = 1 /\ collector' = h /\ ~fresh /\ ~fresh'
    BY <1>5, <2>1 DEF Collect, CollectedOnce
  <2>3. CollectedOnce'
    BY <2>2, NobodyAssumption DEF CollectedOnce
  <2>4. UNCHANGED at /\ collector' \in Handlers /\ fresh' \in BOOLEAN /\ collected' \in Nat
    BY <1>5, <2>2 DEF Collect, TypeOK, walkVars
  <2> QED BY <1>1, <1>2, <1>3, <2>3, <2>4, RequestOnly DEF TypeOK, Known, Phases
<1>6. CASE UsedByScrape(h)
  <2>1. at' = [at EXCEPT ![h] = Nothing] /\ UNCHANGED metricsVars
    BY <1>6 DEF UsedByScrape, Leave
  <2> QED BY <1>1, <1>2, <1>3, <2>1, NoScrape, RequestOnly
          DEF TypeOK, Known, Phases, metricsVars, shutdownVars
<1>7. CASE Collected(h)
  <2>1. CollectedOnce'
    BY <1>7 DEF Collected, CollectedOnce
  <2> QED BY <1>1, <1>2, <1>3, <1>7, <2>1, RequestOnly DEF Collected, TypeOK, Known, Phases, walkVars
<1> QED BY <1>4, <1>5, <1>6, <1>7 DEF Scraping

\* A request looks into an entry.
LEMMA LookStep ==
  ASSUME IInv, NEW h \in Handlers, Looking(h)
  PROVE  IInv'
<1> USE DEF IInv
<1>1. PICK s \in Slots : Hit(h, s) \/ StatFails(h, s) \/ StatFound(h, s)
  BY DEF Looking
<1>2. /\ phase[h] = "visiting" /\ s \in want[h] /\ mu[s[1]] = Nobody
      /\ want' = [want EXCEPT ![h] = @ \ {s}]
      /\ UNCHANGED <<fileVars, byName, caches, unlisted, metricsVars, shutdownVars, opens>>
  BY <1>1 DEF Hit, StatFails, StatFound, Look
<1>3. CollectedOnce' /\ ClosedLast'
  BY <1>2, NoScrape, StillOpen DEF shutdownVars
<1>4. /\ want' \in [Handlers -> SUBSET Slots]
      /\ \A g \in Handlers : want'[g] \subseteq want[g]
  BY <1>2 DEF TypeOK
<1>5. s[1] \in DOMAIN byName /\ s[1] \in Names
  BY <1>2 DEF Known, TypeOK
<1>6. CASE StatFails(h, s)
  <2>1. UNCHANGED <<mu, phase, at>> /\ phase' = [phase EXCEPT ![h] = "visiting"]
    BY <1>2, <1>6 DEF StatFails, TypeOK
  <2> QED BY <1>2, <1>3, <1>4, <2>1, RequestOnly DEF TypeOK, Known, Phases, metricsVars
<1>7. CASE Hit(h, s)
  <2>1. /\ s \in DOMAIN caches /\ at' = [at EXCEPT ![h] = s]
        /\ phase' = [phase EXCEPT ![h] = "using"] /\ UNCHANGED mu
    BY <1>7 DEF Hit, Go
  <2>2. TypeOK'
    BY <1>2, <1>4, <2>1 DEF TypeOK, Phases, metricsVars, shutdownVars, fileVars
  <2>3. Holding' /\ Known' /\ Counted'
    BY <1>2, <1>4, <2>1 DEF TypeOK, Holding, Known, Counted, fileVars, Path
  <2> QED BY <1>3, <2>2, <2>3
<1>8. CASE StatFound(h, s)
  <2>1. /\ s \notin DOMAIN caches /\ at' = [at EXCEPT ![h] = s]
        /\ phase' = [phase EXCEPT ![h] = "found"] /\ mu' = [mu EXCEPT ![s[1]] = h]
        /\ byName[s[1]] \in disk
    BY <1>8 DEF StatFound, Go
  <2>2. TypeOK'
    BY <1>2, <1>4, <2>1 DEF TypeOK, Phases, metricsVars, shutdownVars, fileVars
  <2>3. Holding'
    <3> SUFFICES ASSUME NEW g \in Handlers, phase'[g] = "found"
                 PROVE  /\ at'[g] \in Slots /\ at'[g] \notin DOMAIN caches'
                        /\ at'[g][1] \in DOMAIN byName' /\ mu'[at'[g][1]] = g
                        /\ byName'[at'[g][1]] \in disk' \/ g \in removed'
      BY DEF Holding, fileVars, Path
    <3>1. CASE g = h
      BY <1>2, <1>5, <2>1, <3>1 DEF TypeOK, fileVars
    <3>2. CASE g # h
      <4>1. /\ at'[g] = at[g] /\ at[g] \in Slots /\ at[g] \notin DOMAIN caches
            /\ at[g][1] \in DOMAIN byName /\ mu[at[g][1]] = g
            /\ byName[at[g][1]] \in disk \/ g \in removed
        BY <2>1, <3>2 DEF TypeOK, Holding, Path
      <4>2. at[g][1] # s[1]
        BY <1>2, <4>1, NobodyAssumption
      <4> QED BY <1>2, <2>1, <4>1, <4>2 DEF TypeOK, fileVars
    <3> QED BY <3>1, <3>2
  <2>4. Known' /\ Counted'
    BY <1>2, <1>4, <2>1 DEF TypeOK, Known, Counted
  <2> QED BY <1>3, <2>2, <2>3, <2>4
<1> QED BY <1>1, <1>6, <1>7, <1>8

\* Two requests that found a file found it for different entries.
LEMMA OthersHoldOthers ==
  ASSUME IInv, NEW h \in Handlers, phase[h] = "found",
         NEW g \in Handlers, g # h, phase[g] = "found"
  PROVE  at[g][1] # at[h][1]
BY DEF IInv, Holding

\* The file that was found is opened, or cannot be.
LEMMA OpenStep ==
  ASSUME IInv, NEW h \in Handlers, Open(h) \/ OpenFails(h)
  PROVE  IInv'
<1> USE DEF IInv
<1> DEFINE s == at[h]
<1>1. /\ phase[h] = "found" /\ mu' = [mu EXCEPT ![s[1]] = Nobody]
      /\ UNCHANGED <<byName, want, unlisted, metricsVars, shutdownVars>>
  BY DEF Open, OpenFails, Unlock, walkVars
<1>2. s \in Slots /\ s \notin DOMAIN caches /\ s[1] \in DOMAIN byName /\ s[1] \in Names
  BY <1>1 DEF Holding, TypeOK
<1>3. CollectedOnce' /\ ClosedLast'
  BY <1>1, NoScrape, StillOpen DEF shutdownVars
<1>4. mu' \in [Names -> Handlers \cup {Nobody}]
  BY <1>1 DEF TypeOK
<1>5. ASSUME NEW g \in Handlers, phase[g] = "found", g # h
      PROVE  mu'[at[g][1]] = g
  BY <1>1, <1>5, OthersHoldOthers DEF Holding, TypeOK
<1>6. CASE OpenFails(h)
  <2>1. /\ phase' = [phase EXCEPT ![h] = "visiting"] /\ at' = [at EXCEPT ![h] = Nothing]
        /\ removed' = removed \ {h} /\ UNCHANGED <<disk, caches, opens>>
    BY <1>6 DEF OpenFails, Leave, Go
  <2>2. TypeOK'
    BY <1>1, <1>4, <2>1 DEF TypeOK, Phases, metricsVars, shutdownVars, fileVars
  <2>3. Holding' /\ Known' /\ Counted'
    BY <1>1, <1>5, <2>1 DEF TypeOK, Holding, Known, Counted, fileVars, Path
  <2> QED BY <1>3, <2>2, <2>3
<1>7. CASE Open(h)
  <2>1. /\ phase' = [phase EXCEPT ![h] = "using"] /\ UNCHANGED at
        /\ caches' = [t \in DOMAIN caches \cup {s} |-> IF t = s THEN byName[s[1]] ELSE caches[t]]
        /\ disk' = disk \cup {byName[s[1]]} /\ removed' = removed \ {h}
        /\ opens' = [opens EXCEPT ![s] = @ + 1]
    BY <1>7 DEF Open, Go, Remember, Path, walkVars
  <2>2. DOMAIN caches' = DOMAIN caches \cup {s} /\ byName[s[1]] \in Paths
    BY <1>2, <2>1 DEF TypeOK
  <2>3. caches' \in [DOMAIN caches' -> Paths]
    BY <2>1, <2>2 DEF TypeOK
  <2>4. TypeOK'
    BY <1>1, <1>2, <1>4, <2>1, <2>2, <2>3
    DEF TypeOK, Phases, Slots, metricsVars, shutdownVars, fileVars
  <2>5. Holding'
    <3> SUFFICES ASSUME NEW g \in Handlers, phase'[g] = "found"
                 PROVE  /\ at'[g] \in Slots /\ at'[g] \notin DOMAIN caches'
                        /\ at'[g][1] \in DOMAIN byName' /\ mu'[at'[g][1]] = g
                        /\ byName'[at'[g][1]] \in disk' \/ g \in removed'
      BY DEF Holding, fileVars, Path
    <3>1. g # h /\ phase[g] = "found"
      BY <1>1, <2>1 DEF TypeOK
    <3>2. at[g] # s
      BY <1>1, <3>1, OthersHoldOthers
    <3> QED BY <1>1, <1>5, <2>1, <2>2, <3>1, <3>2 DEF Holding, Path
  <2>6. Known'
    BY <1>1, <2>1, <2>2 DEF TypeOK, Known
  <2>7. Counted'
    BY <1>2, <2>1, <2>2 DEF TypeOK, Counted
  <2> QED BY <1>3, <2>4, <2>5, <2>6, <2>7
<1> QED BY <1>6, <1>7

\* The other steps of a request on its way.
LEMMA VisitStep ==
  ASSUME IInv, NEW h \in Handlers, ListNames(h) \/ ListNamespaces(h) \/ Used(h) \/ Finish(h)
  PROVE  IInv'
<1> USE DEF IInv
<1>1. /\ UNCHANGED <<fileVars, byName, caches, mu, metricsVars, shutdownVars, opens>>
      /\ phase[h] # "idle"
  BY DEF ListNames, ListNamespaces, Used, Finish
<1>2. CollectedOnce' /\ ClosedLast'
  BY <1>1, NoScrape, StillOpen DEF shutdownVars
<1>3. PICK p \in {"idle", "visiting"} : phase' = [phase EXCEPT ![h] = p]
  BY DEF ListNames, ListNamespaces, Used, Finish, Go, Leave
<1>4. /\ want' \in [Handlers -> SUBSET Slots]
      /\ \A g \in Handlers : want'[g] \subseteq (DOMAIN byName) \X Namespaces
  <2>1. CASE ListNames(h)
    <3>1. want' = [want EXCEPT ![h] = (DOMAIN byName) \X {Default}]
      BY <2>1 DEF ListNames
    <3>2. (DOMAIN byName) \X {Default} \subseteq Slots
      BY DefaultAssumption DEF TypeOK, Slots
    <3> QED BY <3>1, <3>2, DefaultAssumption DEF TypeOK, Known
  <2>2. CASE Used(h) \/ Finish(h)
    BY <2>2 DEF Used, Finish, TypeOK, Known
  <2>3. CASE ListNamespaces(h)
    <3>1. at[h] \in DOMAIN caches
      BY <2>3 DEF ListNamespaces, Known
    <3>2. at[h][1] \in DOMAIN byName
      BY <3>1 DEF TypeOK
    <3>3. PICK listed \in SUBSET Namespaces :
            want' = [want EXCEPT ![h] = @ \cup ({at[h][1]} \X listed)]
      BY <2>3 DEF ListNamespaces
    <3>4. {at[h][1]} \X listed \subseteq (DOMAIN byName) \X Namespaces
      BY <3>2
    <3>5. (DOMAIN byName) \X Namespaces \subseteq Slots
      BY DEF TypeOK, Slots
    <3> QED BY <3>3, <3>4, <3>5 DEF TypeOK, Known
  <2> QED BY <2>1, <2>2, <2>3
<1>5. /\ at' \in [Handlers -> Slots \cup {Nothing}]
      /\ \A g \in Handlers : g # h => at'[g] = at[g]
  BY DEF ListNames, ListNamespaces, Used, Finish, Leave, TypeOK
<1>6. unlisted' \in [Handlers -> SUBSET Names]
  <2>1. CASE ListNames(h)
    <3>1. PICK left \in SUBSET Names : unlisted' = [unlisted EXCEPT ![h] = left]
      BY <2>1 DEF ListNames, TypeOK
    <3> QED BY <3>1 DEF TypeOK
  <2>2. CASE ListNamespaces(h)
    BY <2>2 DEF ListNamespaces, TypeOK
  <2>3. CASE Used(h) \/ Finish(h)
    BY <2>3 DEF Used, Finish, TypeOK
  <2> QED BY <2>1, <2>2, <2>3
<1>7. TypeOK' /\ Holding' /\ Known' /\ Counted'
  BY <1>1, <1>3, <1>4, <1>5, <1>6, RequestOnly DEF TypeOK, Phases, metricsVars
<1> QED BY <1>2, <1>7

\* The applications' files come and go, and the answer of a scrape grows old.
LEMMA OutsideStep ==
  ASSUME IInv, AnswerAges \/ \E p \in Paths : AppCreates(p) \/ AppRemoves(p)
  PROVE  IInv'
<1> USE DEF IInv
<1>1. UNCHANGED <<byName, caches, mu, requestVars, collector, shutdownVars, opens>>
  BY DEF AnswerAges, AppCreates, AppRemoves, metricsVars
<1>2. TypeOK' /\ CollectedOnce'
  <2>1. CASE AnswerAges
    <3>1. UNCHANGED fileVars /\ fresh /\ fresh' = FALSE /\ collected' = 0
      BY <2>1 DEF AnswerAges
    <3>2. fresh' \in BOOLEAN /\ collected' \in Nat
      BY <3>1
    <3> QED BY <1>1, <3>1, <3>2 DEF TypeOK, CollectedOnce, requestVars, walkVars, shutdownVars, fileVars
  <2>2. ASSUME NEW p \in Paths, AppCreates(p) \/ AppRemoves(p) PROVE TypeOK' /\ CollectedOnce'
    <3>1. disk' \subseteq Paths /\ removed' \subseteq Handlers /\ UNCHANGED metricsVars
      BY <2>2 DEF AppCreates, AppRemoves, TypeOK
    <3> QED BY <1>1, <3>1, NoScrape DEF TypeOK, requestVars, walkVars, metricsVars, shutdownVars, fileVars
  <2> QED BY <2>1, <2>2
<1>3. Known' /\ Counted'
  BY <1>1 DEF Known, Counted, requestVars, walkVars
<1>4. Holding'
  <2> SUFFICES ASSUME NEW h \in Handlers, phase[h] = "found"
               PROVE  Path(h) \in disk' \/ h \in removed'
    BY <1>1 DEF Holding, Path, requestVars, walkVars
  <2>1. Path(h) \in disk \/ h \in removed
    BY DEF Holding
  <2>2. CASE AnswerAges
    BY <2>1, <2>2 DEF AnswerAges, fileVars
  <2>3. ASSUME NEW p \in Paths, AppCreates(p) \/ AppRemoves(p)
        PROVE  Path(h) \in disk' \/ h \in removed'
    BY <2>1, <2>3 DEF AppCreates, AppRemoves
  <2> QED BY <2>2, <2>3
<1>5. ClosedLast'
  BY <1>1 DEF ClosedLast, Drained, requestVars, walkVars, shutdownVars
<1> QED BY <1>2, <1>3, <1>4, <1>5

\* The shutdown.
LEMMA ShutdownStep ==
  ASSUME IInv, Drain \/ CloseDrained \/ CloseForced \/ \E n \in Names : CloseEntry(n)
  PROVE  IInv'
<1> USE DEF IInv
<1>1. UNCHANGED <<fileVars, byName, caches, mu, requestVars, metricsVars, opens>>
  BY DEF Drain, CloseDrained, CloseForced, StartClose, CloseEntry
<1>2. Holding' /\ Known' /\ Counted'
  BY <1>1 DEF Holding, Known, Counted, requestVars, walkVars, fileVars, Path
<1>3. server # "stopped" /\ server' # "stopped"
  BY DEF Drain, CloseDrained, CloseForced, StartClose, CloseEntry
<1>4. CollectedOnce'
  BY <1>1, <1>3 DEF CollectedOnce, metricsVars
<1>5. CASE Drain
  <2>1. /\ server = "serving" /\ server' = "draining" /\ UNCHANGED <<closing, closed, forced>>
    BY <1>5 DEF Drain
  <2>2. TypeOK' /\ ClosedLast'
    BY <1>1, <2>1 DEF TypeOK, ClosedLast, ServerPhases, requestVars, walkVars, metricsVars, fileVars
  <2> QED BY <1>2, <1>4, <2>2
<1>6. CASE CloseDrained \/ CloseForced
  <2>1. server' = "closing" /\ closing' = DOMAIN byName /\ UNCHANGED closed
    BY <1>6 DEF CloseDrained, CloseForced, StartClose
  <2>2. forced' \in BOOLEAN /\ (forced' \/ Drained)
    BY <1>6 DEF CloseDrained, CloseForced, TypeOK
  <2>3. TypeOK'
    BY <1>1, <2>1, <2>2 DEF TypeOK, ServerPhases, requestVars, walkVars, metricsVars, fileVars
  <2>4. ClosedLast'
    BY <1>1, <2>1, <2>2 DEF TypeOK, ClosedLast, Drained, requestVars, walkVars
  <2> QED BY <1>2, <1>4, <2>3, <2>4
<1>7. ASSUME NEW n \in Names, CloseEntry(n) PROVE IInv'
  <2>1. /\ server = "closing" /\ closed' = closed \cup HandlesOf(n) /\ closing' = closing \ {n}
        /\ UNCHANGED <<server, forced>>
    BY <1>7 DEF CloseEntry
  <2>2. TypeOK'
    BY <1>1, <2>1 DEF TypeOK, HandlesOf, requestVars, walkVars, metricsVars, fileVars
  <2>3. ClosedLast'
    BY <1>1, <2>1 DEF ClosedLast, Drained, HandlesOf, requestVars, walkVars
  <2> QED BY <1>2, <1>4, <2>2, <2>3
<1> QED BY <1>5, <1>6, <1>7

\* The end of the process.
LEMMA ExitStep ==
  ASSUME IInv, Exit
  PROVE  IInv'
<1> USE DEF IInv
<1>1. /\ server = "closing" /\ server' = "stopped" /\ closing = {}
      /\ mu' = AllFree /\ collector' = Nobody /\ phase' = AllIdle
      /\ want' = AllEmpty /\ at' = AllNothing /\ unlisted' = AllEmpty /\ removed' = {}
      /\ UNCHANGED <<disk, byName, caches, fresh, collected, closing, closed, forced, opens>>
  BY DEF Exit
<1>2. TypeOK'
  BY <1>1 DEF TypeOK, AllFree, AllIdle, AllEmpty, AllNothing, Phases, ServerPhases, fileVars
<1>3. Holding' /\ Known' /\ Counted' /\ CollectedOnce'
  BY <1>1 DEF Holding, Known, Counted, CollectedOnce, AllIdle, AllEmpty
<1>4. ClosedLast'
  BY <1>1 DEF ClosedLast, Drained, AllIdle
<1> QED BY <1>2, <1>3, <1>4

\* Every step preserves the invariant.
LEMMA NextInv == IInv /\ [Next]_vars => IInv'
<1> SUFFICES ASSUME IInv, [Next]_vars PROVE IInv'
  OBVIOUS
<1>1. ASSUME NEW h \in Handlers, Request(h) PROVE IInv'
  BY <1>1, BeginStep, ScrapeStep, LookStep, OpenStep, VisitStep DEF Request, Visiting
<1>2. CASE UNCHANGED vars
  <2> USE <1>2 DEF IInv, vars, requestVars, walkVars, metricsVars, shutdownVars
  <2>1. TypeOK'
    BY DEF TypeOK, fileVars
  <2>2. Holding' /\ Known' /\ Counted'
    BY DEF Holding, Known, Counted, fileVars, Path
  <2>3. CollectedOnce' /\ ClosedLast'
    BY DEF CollectedOnce, ClosedLast, Drained
  <2> QED BY <2>1, <2>2, <2>3
<1> QED BY <1>1, <1>2, OutsideStep, ShutdownStep, ExitStep DEF Next, Closing

\* The invariant holds throughout.
THEOREM Invariant == Spec => []IInv
BY InitInv, NextInv, PTL DEF Spec

-----------------------------------------------------------------------------
(* What the manager promises                                               *)

\* The variables keep their types: every path in byName, those a rescan finds
\* included, is a path, and what was closed was open.
THEOREM TypeCorrect == Spec => []TypeOK
BY Invariant, PTL DEF IInv

\* dbEntry.Cache opens one handle for each entry and namespace, however many
\* requests race for it.
THEOREM AlwaysOpenedOnce == Spec => []OpenedOnce
<1>1. IInv => OpenedOnce
  BY DEF IInv, Counted, OpenedOnce
<1> QED BY <1>1, Invariant, PTL

\* metricsCollector reads the databases once for each cacheTTL, however many
\* scrapes wait for its lock.
THEOREM AlwaysOnceEachTTL == Spec => []OnceEachTTL
<1>1. IInv => OnceEachTTL
  BY DEF IInv, CollectedOnce, OnceEachTTL
<1> QED BY <1>1, Invariant, PTL

\* A shutdown that was not forced closes no handle in use and, by its end, every
\* handle there is.
THEOREM AlwaysGracefulClose == Spec => []GracefulClose
<1>1. IInv => GracefulClose
  <2> SUFFICES ASSUME IInv, ~forced PROVE GracefulClose
    BY DEF GracefulClose
  <2>1. ASSUME NEW h \in Handlers, phase[h] = "using" PROVE at[h] \notin closed
    BY <2>1 DEF IInv, TypeOK, ClosedLast, Drained, ServerPhases
  <2>2. ASSUME server = "stopped" PROVE closed = DOMAIN caches
    BY <2>2 DEF IInv, TypeOK, ClosedLast
  <2> QED BY <2>1, <2>2 DEF GracefulClose
<1> QED BY <1>1, Invariant, PTL

\* A request creates a database file only when the one it found was removed before
\* lytecache.New.
THEOREM AlwaysReadersCreateNothing == Spec => ReadersCreateNothing
<1>1. ASSUME IInv, [Next]_vars, NEW h \in Handlers,
             disk' # disk, phase[h] = "found", phase'[h] = "using"
      PROVE  h \in removed
  <2>1. PICK g \in Handlers : Request(g)
    <3>1. ~UNCHANGED requestVars /\ phase' # AllIdle
      BY <1>1 DEF requestVars, walkVars, AllIdle
    <3> QED BY <1>1, <3>1 DEF Next, AppCreates, AppRemoves, AnswerAges, Drain, CloseDrained,
            CloseForced, StartClose, Closing, CloseEntry, Exit, vars
  <2>2. Open(g)
    BY <1>1, <2>1 DEF Request, Dashboard, Search, Scrape, Scraping, AnswerAgain, Collect, Page,
       Looking, Hit, StatFails, StatFound, Visiting, ListNames, ListNamespaces, OpenFails, Used, UsedByScrape,
       Collected, Finish, fileVars
  <2>3. g = h
    BY <1>1, <2>2 DEF Open, Go, IInv, TypeOK
  <2>4. Path(h) \notin disk
    BY <1>1, <2>2, <2>3 DEF Open
  <2> QED BY <1>1, <2>4 DEF IInv, Holding
<1>2. ASSUME IInv, [Next]_vars
      PROVE  [\A h \in Handlers :
                disk' # disk /\ phase[h] = "found" /\ phase'[h] = "using" => h \in removed]_vars
  BY <1>1, <1>2
<1> QED BY <1>2, Invariant, PTL DEF Spec, ReadersCreateNothing

\* No rescan replaces or removes an entry, and none of its handles.
THEOREM AlwaysOnlyAdds == Spec => OnlyAdds
<1> DEFINE Adds ==
      /\ \A n \in DOMAIN byName : n \in DOMAIN byName' /\ byName'[n] = byName[n]
      /\ \A s \in DOMAIN caches : s \in DOMAIN caches' /\ caches'[s] = caches[s]
<1>1. ASSUME IInv, [Next]_vars PROVE [Adds]_vars
  <2>1. CASE UNCHANGED <<byName, caches>>
    BY <2>1
  <2>2. ASSUME NEW h \in Handlers, Dashboard(h) PROVE Adds
    <3>1. DOMAIN byName \subseteq Names /\ byName \in [DOMAIN byName -> Paths]
      BY <1>1 DEF IInv, TypeOK
    <3> QED BY <2>2, <3>1, RescannedAdds DEF Dashboard
  <2>3. ASSUME NEW h \in Handlers, Open(h) PROVE Adds
    <3>1. at[h] \notin DOMAIN caches
      BY <1>1, <2>3 DEF IInv, Holding, Open
    <3> QED BY <2>3, <3>1 DEF Open, Remember
  <2>4. ASSUME NEW h \in Handlers, Request(h) PROVE Adds
    <3> HIDE DEF Adds
    <3>1. Dashboard(h) \/ Open(h) \/ UNCHANGED <<byName, caches>>
      BY <2>4 DEF Request, Search, Scrape, Scraping, AnswerAgain, Collect, Page, Looking, Hit,
         StatFails, StatFound, Visiting, ListNames, ListNamespaces, OpenFails, Used, UsedByScrape, Collected, Finish
    <3> QED BY <2>1, <2>2, <2>3, <3>1 DEF Adds
  <2>5. CASE UNCHANGED vars
    BY <2>5 DEF vars
  <2> QED
    BY <1>1, <2>1, <2>4, <2>5 DEF Next, AppCreates, AppRemoves, AnswerAges, Drain, CloseDrained,
       CloseForced, StartClose, Closing, CloseEntry, Exit
<1> QED BY <1>1, Invariant, PTL DEF Spec, OnlyAdds
=============================================================================
