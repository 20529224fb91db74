# TLA+ models of lytecache-cli

`lytecache` is one Go binary: a command line over lytecache database files
(SQLite), a REPL, and `lytecache ui`, a web administration server that can also
run as a service of the operating system.  The library that owns the database
format is not part of the repository; the models treat it as external and say
what they assume of it.

This directory models the parts of the program that keep state of their own and
are hard to test: concurrent requests, files that other processes change, clocks,
failures in the middle of a save or a rotation, crashes and restarts.

## The system

| Component | Code (`src/cmd/lytecache/`) | State | Operations |
| --- | --- | --- | --- |
| Sessions | `ui/session.go`, `ui/auth.go`, `ui/auth_handlers.go` | signed cookies held by browsers; `revoked` map in memory; `session_secret` | issue, verify, refresh, revoke, restart |
| Login rate limiter | `ui/ratelimit.go` | `attempts` map in memory | allow, recordFailure, recordSuccess, gcLocked |
| Admin credentials | `ui/config.go`, `ui/auth.go`, `cmd_ui.go` | `ui.yaml`; the server's `authConfig` | bootstrap, load, save, passwd, reset-password, change-password, guardrails |
| Database manager | `ui/dbmanager.go`, `ui/handlers.go`, `ui/viewmodel.go` | `byName`, per-entry `caches` and lock | MergeSources, WarmUp, Cache, Rescan, Names, Close |
| Request path and mutations | `ui/routes.go`, `ui/auth.go`, `ui/mutations.go`, `ui/audit.go` | audit file, `--allow-delete` | authenticate, CSRF, gate, mutate, audit, shutdown |
| Views | `ui/viewmodel.go`, `ui/masking.go`, `ui/valuecodes.go` | none beyond one request | dashboard rows, key listing, sorting, paging, search, value view |
| Auto-refresh | `ui/static/poll.js` | timer, fetches and region of a page | refresh, pause |
| Metrics | `ui/metrics.go` | cached samples and their time | scrape, token check |
| Background service | `cmd_service.go`, `service/` | registration, install record, state file | install, uninstall, start, stop, restart, status, logs |
| Service log | `service/logs.go` | log file, numbered backups | write, rotate, close |
| Command line | `main.go`, `root.go`, `db.go`, `cmd_*.go`, `repl.go`, `exitcode.go`, `output.go` | the handle of one command, or of a REPL | openCache; a call or a few for each command; watch; exit codes |

How they interact: every request passes `authMiddleware`, which verifies and
refreshes the session and reads the credentials the server holds; a handler then
goes through the manager to a cache handle, and a mutation is written to the
audit log.  A login goes through the limiter to the credentials and, when it
succeeds, to the sessions.  `lytecache ui passwd` and `reset-password` are other
processes that share only `ui.yaml` with the server.  The applications that own
the databases share only the files with it.  The service manager starts and stops
the process that holds all of this, and `lytecache service` talks to that process
only through the service manager, the install record and the state file.

Hard behaviours: requests interleave freely (one goroutine each) between locks
that are held for a lookup or for several calls; processes interleave around files
with no lock at all; session decisions are made on clocks read earlier; saves and
rotations can stop half way; everything in memory is gone after a restart; the
page in the browser has several fetches under way at once.

What makes each component correct:

* Sessions: both deadlines hold whatever copies of cookies are replayed; a logout
  is final as far as the server's memory reaches; a session in use keeps working.
* Limiter: a lockout is neither cut short nor unbounded; collecting old records
  never changes what a client experiences.
* Credentials: a server reachable from outside never accepts the default
  password; no failure and no other process brings an earlier password back.
* Manager: one handle for each database and namespace; entries only grow; every
  request ends; databases are closed once nobody uses them.
* Mutations: nothing changes without session, CSRF token and `--allow-delete`,
  the audit log says nothing else, a shutdown loses none of it and ends.
* Views: what a page leaves out it admits; pages fit together.
* Metrics: however many scrapes come, the databases are read once for each TTL.
* Command line: a command acts, and its answer and exit code are true, at one moment
  of one file, next to applications that never stop writing (a value may be shown
  with what an earlier moment told of its row); what only reads creates nothing; a
  watch can be stopped.
* Auto-refresh: the page never goes back in time and catches up.
* Service and log: the control commands reach what was installed; the state file
  is the running server's; the log keeps the latest entries in order within its
  bound.

## Modules

Each component has a module with its specification, an `MC` module with the definitions
its `.cfg` needs, and its proofs in a `Proofs` module: the views (`Search`,
`KeyBrowser`, `DashboardPoll`) share `ViewProofs`, the service and its log
`ServiceProofs`.  Two components that do not interact can share a run: `MCPages` is
`Search` or `KeyBrowser`, `MCService` is `RotatingLog` or `ServiceControl`, and each of
their behaviours steps in one of the two.  Where two modules share one, the general
names of all but one carry a prefix (`BrowserInit`, `PollNext`, `ControlTypeOK`).  The
operators marked "Mutant of ..." or "A bug: ..." are plausible mistakes next to the
definition they would replace; they show that each property notices one, and no
specification uses them.  Variables marked `history` are read by properties only.

### SessionManager

One action for each step a request takes between two points where others can
interleave.  `Issue` is the end of a successful login.  `CheckTimes` is `verify`
up to the comparison of the deadlines, `LookupRevoked` the lookup under `mu`,
`Refresh` the middleware's new `LastSeen` and cookie, `Finish` the rest of the
request and `Logout` the handler of `/logout`, with the collection inside
`revoke`.  `Restart` empties the map and either keeps or redraws the secret.
`cookies` holds every value ever handed out, so that a copy can be presented at
any time.  The HMAC is abstracted to the key it was computed with, the JSON
payload to its fields.  The clock does not step back.

* `ServedWithinLifetime`: refreshing never extends the absolute lifetime.
* `DeadStaysDead`: a session with nothing in flight that passed a deadline stays
  over, whichever of its cookies is presented.
* `LogoutSticks`, which rests on `RevocationsKept`: while the server runs, no cookie of a
  logged-out session passes the lookup before the session's deadline, including
  the cookie that a request verified before the logout refreshes after it.
* `LiveSessionUsable`: a session in use has a cookie that passes all checks, also
  after a restart.

Bounds: two sessions and two requests are the least with which a logout of one
session can collect the revocation of another under a third party's lookup;
`IdleTimeout` 1, `AbsoluteLife` 2 and a clock to 4 let a session pass either
deadline first and live on past both; one restart.

### LoginRateLimiter

`Allow` is `handleLoginSubmit` up to the password check, which runs outside the
lock and takes long (Argon2); `RecordFailure`, `RecordSuccess` and `BadForm` are
its ends.  The map is changed exactly as `recordFailure` does, collection first.
`SecondShifted` computes `time.Second << shift` in two's complement: a second is
an odd factor (`SecondOdd`, 1953125 in the code) times 2^9 nanoseconds, so
`OddBits - shift` bits of the factor survive (`OddBits` is 55 in the code), the
highest of them the sign.

* `LockoutBounded`: no lockout lasts longer than `maxBackoff`.
* `LockoutNotCut`: nothing but a success brings the end of a lockout nearer.
* `CountsTheStreak`: the recorded count is the run of failures, however often
  records were collected in between.

Bounds: two addresses, so that one's failure collects the other's record; two
overlapping submissions, so that failures land during a lockout.  The run has
narrow integers, `SecondOdd` 5 and `OddBits` 6, with which the third shift turns
negative after a handful of failures, where the code needs a few dozen; the
theorems cover the code's own constants.

### AdminConfig

The file, the server and the commands, each process with the configuration it
loaded, of which the password hash is kept.  `Truncate` and `Write` are the two steps
of `os.WriteFile` another process can see.  `SaveFails` and `Exit` break a save off:
before the truncation nothing has changed, after it the file is empty, or has some
part of what was written (`BrokenOff`), or all of it where the `Chmod` fails.  An
empty file loads, and so may a part of one: no password verifies against what it
gives (`NoPassword`).  Two saves that overlap write over each other from the start of
the file, so that a shorter one leaves the end of a longer one behind
(`Overwritten`).  What does not parse (`Mixed`) is refused by `Load`.  `Listen` is
`buildUIServer` with the two guardrails, for every combination of loopback, TLS or
`--insecure`, and metrics options.  `CheckChange` is `handleChangePasswordSubmit` up
to its second lock, for any number of submissions; `ChangePassword` assigns the new
hash, whatever was put in force since the check, and saves then.  `acked` and
`failed` are histories, of the last save reported as done and of the saves that broke
off within the file since then.

* `NeverExposedWithDefault`: a server that listens beyond loopback never verifies
  logins against the default password, whatever other processes save.
* `NoOlderPassword`: when no save is under way, the next start finds the password of
  the last save that was reported as done; after a save broke off, it may also be the
  password of that save, or nothing that verifies, or a file that is refused; and two
  overlapping saves may leave a file that is refused.  An earlier password never
  comes back.  The acknowledged password itself can be lost, to a crash or a full disk
  in a later save: the file is not replaced but written in place.
* `ResetTakesEffect` (refuted): what `auth.go` and `docs/ui.md` say of
  `reset-password` next to a running server.

Bounds: the server and two commands, so that two savers overlap next to a third
process that loads; two passwords besides the default, so that there is an older and
a newer one.  The operator does not remove the file in the middle of a save.  The user
name, the session secret, the databases and the metrics token of the file are left
out.

### DBManager

`Dashboard`, `Search`, `Page` and `Scrape` are the four ways a request begins.
For each entry a request visits it takes `dbEntry.mu` and looks (`Hit`,
`StatFails`, `StatFound`), opens what it found (`Open`, `OpenFails`) and uses the
handle (`Used`).  A search has the namespaces of each database from its default
handle and goes on to the handle of each (`ListNamespaces`).  Nobody else can change
the handles of an entry whose lock is held, so taking the lock is one step with what
is found out under it; the lock stays held between the stat and `lytecache.New`,
where files still come and go.  A stat may fail with the file there.
A scrape waits for the collector's lock, answers again from what it kept
(`AnswerAgain`), or walks through the databases with the lock held (`Collect`,
`UsedByScrape`, `Collected`) while pages compete with it for the entries' locks.

`Rescanned` is the merge that `MergeSources` and `Rescan` share.  `Rescan` holds
`Manager.mu` throughout, so it is one step for other requests; that the directories are
globbed one after the other, while files come and go, is abstracted to one look at those
that can be read (`Scans`), which covers a scan that returns early: `filepath.Glob`
reports an error for a directory name that is no pattern, and finds nothing in a
directory it cannot read.  `removed` is a history: the requests whose file went away
since their stat.  Applications create and remove files at any time and without bound.
`Drain`, `CloseDrained`, `CloseForced`, `CloseEntry` and `Exit` are the shutdown.  Of
the library the model assumes that `New` creates a missing file and that a handle
outlives it.

* `OpenedOnce`, `OnlyAdds`: what requests rely on while others rescan and open.
* `OnceEachTTL`: of all the scrapes that come together, one reads the databases.
* `GracefulClose`: a shutdown that did not time out closes every handle, and none
  in use.
* `ReadersCreateNothing`: a request makes a file only where the one it found was
  removed between its stat and `lytecache.New`.
* `RequestsEnd` (liveness): every request ends, a scrape included.

`RequestsEnd` assumes weak fairness of the steps of a request (goroutines are
scheduled) and strong fairness of taking an entry's lock and the collector's: Go's
`sync.Mutex` switches to a first-come-first-served mode for a waiter that starved
for a millisecond.  Nothing is assumed of clients, applications or signals.

Bounds: two requests; one name, for which each of two `--scan` directories can hold a
file, so that what a scan gets to see and the directories' order decide which; two
namespaces, so that a search opens handles of its own.  No request holds the locks of
two entries at once, so a second name only repeats the first, and the proofs, which
cover every safety property below for any names and any configuration, need no bound.
Nothing counts up: the state space is finite without a bound on the behaviours.

### AdminServer

The life of a write request: `Verify` (the middleware, at the headers), `Admit`
(the CSRF token, `requireAllowDelete`, the database and the handler's own checks
of the form, once the form was read), `Mutate` or `MutateFails` (the call of the
library), `LogMutation` (the audit line, which may be lost to an error of the write
that is ignored, and the redirect).  Around it sessions end, a forced password change
is made, applications write, and the server is shut down: `Drain` is
`http.Server.Shutdown`, `CloseDatabases` and `CloseDatabasesForced` its two outcomes,
`CloseAudit` and `Exit` the rest of `Server.Close` and `runUI`.  When `Serve` returns
an error (`ServeFails`), the same close comes with no drain, and requests on open
connections still begin until the process ends; `Crash` can come at any time.
`overtaken` is a history, of the requests the server did not wait for; `unwritten` has
those whose line was lost with the log open.  `Request` is every
combination of route, session, token and form.

* `AuditComplete`: nothing but a successful write has a line, and each has one by its
  answer, unless the server did not wait for the request or the write of the line
  failed: the order in which a shutdown drains, closes the databases and closes the
  log loses none.
* `EveryWriteIsLogged` (refuted, `AdminServerAudit`): what `docs/ui.md` says of the
  log, of a server that is up.
* `OnlyWhatWasAsked`: whatever the server removes was asked for by an admitted
  request with deletion allowed: its keys, its namespace, the name typed again.
* `ShutdownEnds` (liveness): a shutdown ends, whoever holds a request open.

`ShutdownEnds` assumes that a handler with its form goes on, that the deadline of
the context passes and that the shutdown's own steps are taken.  A sender may
never finish its form.

Bounds: two requests, one session, two namespaces (so that `confirm` and the
namespace of a delete can be wrong) and one key.

### Search

`BuildSearch` with `searchNamespace`: the walk over databases, namespaces and
keys, any of which may fail, and the two caps in the order the code tests them
(`Capped`).  Rows are counted.

* `AdmitsWhatIsMissing`: a page that does not say it is truncated has every match,
  or names the database or namespace that failed.
* `RowsBounded`: at most one row more than `maxSearchTotal`, and no namespace over
  its own cap.

Bounds: three namespaces, then one, up to three matches each, caps of 2 and 3: a
row can reach either cap, both at once, or the second one in a later namespace.

### KeyBrowser

`BuildKeyBrowser`: `Keyed` and `ScanDone` list the keys up to `maxKeysScanned`,
`Inspect` looks each of them up, while applications write, delete and expire keys
(`Store`).  The sort (`Less`, `Before`, `Place`, `Sorted`) and the bounds of a page
(`Start`, `End`, in integers that wrap around) are operators over the rows.  The
fields that sort like `size` (access count, creation, last access) are left out.

* `StayingKeysListed`: a key that was there throughout is listed, unless the view
  says it is truncated.
* `PagesPartition`: the pages of any size cover the rows, each once, and their
  bounds lie within them, for every product that fits an integer (one that wraps
  around can give a negative bound, a panic that `net/http` recovers from).
* `OrderedTiesByKey`: every order sorts, and ties stay in key order in both
  directions, which is what makes pages of separate requests fit together.
* `NoExpiryLast` (refuted, `KeyBrowserOrder`): that keys without an expiry sort last
  in both directions.

Bounds: four keys, one more than the scan takes; one size and one time to live or
none, so that there are ties and keys without expiry; ints below 16 (`IntLimit`), so
that there are pages whose bounds wrap around.

### DashboardPoll

`Refresh` is a tick of the interval, which looks up `currentRegion` and starts a
fetch whatever became of the earlier ones; `Answer` and `Lose` are the server's
side, `Swap` and `Discard` the handler of the answer.  `attached` holds the
fetches whose region is still in the document.  The content of a region is a
version of the databases' state.

* `NeverGoesBack`: the page never shows an earlier state than it showed.
* `CatchesUp` (liveness): once the databases are left alone and the page is not
  paused, it shows their last state for good.

`CatchesUp` assumes that the interval ticks, that the server answers what reaches
it and that handlers run; a bounded number of fetches brings nothing.

Bounds: three fetches at once, three changes, two lost fetches.

### ServiceControl

A unit is a place the service can be registered at: the user's or the system's
systemd unit, the LaunchAgent, the Windows service or the Scheduled Task.
`Install`, `InstallUnrecorded`, `Uninstall` and `Stop` are the commands; the
second half of `service restart`, `service start`, a boot and the manager's own
restart are `Start`.  `Built`, `BuiltUnwritten`, `BuildFails`, `ServeFails`,
`StopFunc`, `Kill` and `End` are the process of `runUIUnderServiceManager`.
`Addressed` is the unit that the commands reach through the install record.  Pids
are given again once they are free.

* `ControlReachesInstall`: the commands reach what the last reported install
  registered, after reinstalls by other means, uninstalls and install records that
  could not be written or removed, unless it was installed with `--system`.
* `StateFollowsServer`: the state file names the server that wrote it, its
  shutdown included, and is gone after a clean stop.

Bounds: three pids for at most two units of a platform, so that a killed server's
pid can be given to the other unit's process.

### RotatingLog and BoundedLog

`Write`, `Rotate`, `Shift`, `ShiftCurrent`, `Reopen` and `AppendEntry` are the
steps of `Write` and `rotateLocked` between two calls of the file system, each of
which may fail (`CloseFails`, `RenameFails`, `ReopenFails`, `AppendFails`);
`Restart` ends the process between any two of them and opens the log again.
`BoundedLog` is the abstract log: entries are appended and the oldest ones given
up, until the file system fails to move a file.

* `InOrder`: backups and log give the entries in the order of their writes, each
  once, whatever failed.
* `FootprintBounded`: until a rename fails no file outgrows `maxBytes`, or the one
  entry that is longer itself.
* `KeepsTheLatest`: `RotatingLog` implements `BoundedLog` (`kept` is the union of
  the files).

Bounds: three backups, so that the loop of `rotateLocked` has a middle; six
entries, enough to drop the oldest backup; lengths 2 and 5 for files of 4, so that
an entry fits twice, not at all, or replaces the whole file; two faults.

### Clients, AtomicCommands and Lytecache

`Lytecache` has the calls of the library on one namespace, each of them atomic: what
`Set`, `Incr`, `Expire`, the getters and the rest do to a key's row.  It is external
and written from how the commands use it.

`Clients` is any number of processes that work through these calls: one-shot commands,
REPL sessions, and the value page of the admin UI on its server's handle.  `Invoke`
begins a command; `UseShared`, `StatMissing`, `StatFound`, `Open` and `OpenFails` are
`openCache`; then come the command's own calls, each a step: `Set` to `Which` (or
`WhichFails`) for the commands that make one, `Inspect` and `Decode` for `get` and
`BuildValueView`, `Yield` and `InspectKey` for `keys --long`, `Size`, `Vacuum` and
`Resize` for `vacuum`, `Draw`, `Tick` and `Stopped` for `watch`.  `Done` sets the exit
code as `exitcode.go` does; `End` closes what is to be closed.  Between any two steps
applications write, delete and expire rows (`AppWrites`) and remove and recreate the
file, and a process can be killed (`Quit`).  A handle stays with the file it was opened
on.

`AtomicCommands` is the abstract specification: a command takes its effect at one
moment, on a file that was at the path at some moment of it, its answer is the truth
of that moment (`Outcomes`), and an error has had no effect on any key.  A listing
judges each key at a moment of its own.  `get` and the value page look at the row
first (`Look`) and answer later: the page shows the type, the size and the expiry it
saw next to the value of the later moment, `get` prints that value in the form of the
type it saw.  `which` may take a file that it cannot stat for one that is not there.

* `OneMoment`: `Clients` implements `AtomicCommands`.  So a value that is read is one
  the key had at that moment and that the getter of the seen type decodes, a masked
  value is never read, and exit code 1 means that the key was not there, or that the
  answer is no.
* `ReadersCreateNothing`: a command that only reads makes a file only when the file
  was removed after its stat.
* `OpenOnlyToAct`: no handle is left open by a one-shot command or between the
  pictures of a watch; a session keeps its one handle throughout.
* `WatchStops` (liveness): Ctrl-C ends a watch, also when pictures take longer than
  the interval and the tick is always ready.

`WatchStops` assumes that a watch goes on to its next picture and that `select`,
which picks among its ready cases at random, does not pass over `ctx.Done()` for
ever.  Nothing is assumed of applications.

Bounds: one process, since to it any other command is one of the writes of the
applications; it may run every command, one-shot or in a session.  Key 1 can be a
counter, a JSON value with or without an expiry, or a value that Go cannot decode;
key 2 is a masked string; together they have a listing with an order.  Two writes,
so that a row can go and come back as another type within one command; two files,
so that a path can lead to another file than a handle.

## Runs

| Run | Expect | Distinct states | Shows |
| --- | --- | --- | --- |
| `SessionManager` | pass | 358,059 | deadlines, logout and use of sessions, one restart included |
| `LoginRateLimiter` | pass | 58,031 | overlapping submissions, lockouts, collection, an overflowing backoff |
| `AdminConfig` | pass | 425,656 | guardrails and saves of three processes, broken off anywhere |
| `AdminConfigReset` | violation of `ResetTakesEffect` | | the server keeps its own copy |
| `DBManager` | pass | 81,924 | discovery, handles, searches, scrapes and shutdown; every request ends |
| `AdminServer` | pass | 883,184 | admission, audit and shutdown; a shutdown ends |
| `AdminServerAudit` | violation of `EveryWriteIsLogged` | | an audit line is lost and the write is answered as done |
| `Pages` | pass | 228,706 | caps and failures of a search; listing under writes, sorting, paging |
| `KeyBrowserOrder` | violation of `NoExpiryLast` | | descending by ttl, keys without expiry come first |
| `DashboardPoll` | pass | 225,510 | answers out of order or lost; the page catches up |
| `Service` | pass | 731,142 | rotation with crashes and faults, which implements `BoundedLog`; installs, controls and processes of each platform |
| `Clients` | pass | 372,635 | every command next to live applications; implements `AtomicCommands` |

`CHECK_DEADLOCK FALSE` is set where the system stops (a server or a request ends)
or where a bound on the clock, the entries or the saves ends a behaviour.
`SYMMETRY` is set where no property is temporal beyond a single step.

## Proofs

The proofs hold for every value of the constants that satisfies the modules'
assumptions: any number of sessions, requests, addresses, processes, namespaces,
keys, files and backups, and any limits.  Each component's type invariant is proved
and the following.  Where a type invariant is proved and says nothing else, the run
does not check it again (`SessionManager`, `LoginRateLimiter`, `Search`, `DBManager`).

* `SessionManagerProofs`: `RevocationsKept`, `LogoutSticks`,
  `ServedWithinLifetime`, `DeadStaysDead`, `LiveSessionUsable`.  The invariant
  relates every copy of a session's claims, in a cookie, in a request or in the
  map, to its login: each carries the deadline fixed there, and none was seen
  after the session's last activity.  Without that link a revocation's own
  deadline would say nothing of the session's.  For the last property it adds that
  each session has a cookie with its latest activity (`Latest`) and that only what
  was logged out is revoked.
* `LoginRateLimiterProofs`: `LockoutBounded`, `CountsTheStreak` and
  `LockoutNotCut`.  The first needs only the range of `Backoff`, proved without
  evaluating the shift; the second that record and history agree on the last
  failure, and that `staleAttemptTTL` is not less than `maxBackoff`.  The third
  rests on the lockout being set by the latest failure (`LockFromLast`), so that a
  record that locks is too young to be collected, and on `BackoffGrows`: the
  backoff does not decrease from one failure to the next.  `LockoutNeverCut` assumes
  that, since it can fail for narrow integers; `LockoutNeverCutByOverflow` proves it
  for a `time.Duration` as wide as Go's (`OddBits` over 51), where the shift doubles
  up to the cap and every later one, overflowed or not, gives the cap.
* `AdminConfigProofs`: `NeverExposedWithDefault` and `NoOlderPassword`.  The invariant
  says of the file during a save what the property says of it between saves, or that
  it is empty; a server keeps the guard's verdict, since a change excludes the default.
* `ViewProofs`, search: `RowsBounded` and `AdmitsWhatIsMissing`.  The invariant splits
  the namespaces into those behind the walk (shown, named in `Errors`, or
  truncated) and those ahead (no row yet), and says how much room each loop has
  left under the total cap: a row that reaches both caps takes the last of it and
  one more.
* `ViewProofs`, auto-refresh: `NeverGoesBack`.  A fetch whose region is still in the
  document was answered no earlier than what is shown; a swap takes every other
  fetch's region out.
* `ViewProofs`, key browser: `StayingKeysListed`, `PagesPartition` and
  `OrderedTiesByKey`.  For the first the invariant follows a key that stays: it is
  listed, or still ahead of the iterator, or the scan was cut; once listed its row
  comes with its turn.  For the second a bound of a page is shown to be the product
  cut at the number of rows, since nothing that fits wraps around, and a row's page
  to be the quotient (`BoundsAssumption`: a page of the scan's size times as many
  pages fits an int).  For the third each order is a strict weak one, a row's place
  in a stable sort counts what precedes it, and places so counted are all different,
  hence all taken; no induction over the rows is needed.
* `ServiceProofs`, log: `InOrder`, `FootprintBounded` and the refinement of
  `BoundedLog`.  `OInv` is the order and what holds whatever fails; `GInv` adds,
  until a rename fails, that the file a rename overwrites has been moved itself
  (`Vacated`, `Moved`), that `w.size` is the size of the open file and that the
  entries kept have no hole.
* `ServiceProofs`, service: `StateFollowsServer`, inductive together with the fact
  that only a process past `StartFunc` wrote its state, and
  `ControlReachesInstall`.
* `AdminServerProofs`: `AuditComplete` and `OnlyWhatWasAsked`.  The invariant says
  what holds of an admitted request until its operation is called, that whoever is in
  flight once the databases are closed or the server stopped serving is `overtaken`,
  and that the audit file is closed after the databases.
* `DBManagerProofs`: `OpenedOnce`, `OnceEachTTL`, `GracefulClose`, `OnlyAdds` and
  `ReadersCreateNothing`.  The invariant says that a request that found a file
  holds the entry's lock and the handle is not kept yet, so that no two requests
  open the same one; that every handle opened is kept; that the collector's lock
  is free while its answer is fresh and that the next collection after that is the
  first; and that without force nobody is left once the databases are closed.
  That a rescan finds a first file for each name rests on the well-foundedness of
  the natural numbers.
* `ClientsProofs`: `OneMoment`, which is the refinement of `AtomicCommands`,
  `ReadersCreateNothing` and `OpenOnlyToAct`.  What the invariant says of a process
  concerns it alone (`WellFormed`): which phases belong to which commands, that an
  answer is there exactly when the command is done, and a handle until then exactly when
  it is needed, and that nothing is left of one command when the next begins.  Nothing
  relates two processes, and nothing a process knows of the file it reads has to stay
  true: that is what makes its commands safe next to each other.  The refinement has a
  lemma for each group of actions; a step is a command's one effect (`ActStep`, with a
  lemma on the outcome of each command), an error without effect (`FailStep`), a verdict
  on a key, the gain or loss of a handle, or nothing that `AtomicCommands` sees
  (`NothingSeen`).  `RemovedSince` adds, for `ReadersCreateNothing`, that a process that
  found a file and would now find none has seen it removed.  Two assumptions are made of
  the constants: `Nothing` is no value, command or answer, and a row stays a row of its
  key when it loses its expiry (`PersistAssumption`).

Model-checked only: liveness (`RequestsEnd`, `ShutdownEnds`, `CatchesUp`,
`WatchStops`), which is out of the prover's reach, and `ResetTakesEffect`,
`EveryWriteIsLogged` and `NoExpiryLast`, which the code does not have.

## Divergences

Three runs refute what a document or a comment says: `AdminConfigReset`,
`AdminServerAudit` and `KeyBrowserOrder`.  The following were met while modelling.
The others that are in a model have no run of their own: the properties above say what holds
instead.

* Sessions.  `session.go:141-142` says that "a copy of the cookie taken before
  logout can no longer be used".  The map is in memory (`session.go:54`), so a
  restart forgets every logout; and a request whose clock was read before the
  deadline (`session.go:126`) may be looked up after it, when another logout has
  collected the entry.
* Credentials.  `docs/ui.md:89` says of `passwd` "Change it any time".  A load
  between the truncation and the write of another save (`config.go:133`) succeeds
  with a configuration of zero values; the save that follows lacks the user name
  and the session secret.  When that short save overlaps a complete one, the file
  that remains does not parse.  A crash or a full disk in a save leaves an empty or cut
  file in place of the acknowledged one; the empty one loads.
* Manager.  `dbmanager.go:115` says that `Cache` "never silently creates a missing
  file".  A file that is removed between the stat and `lytecache.New`
  (`dbmanager.go:133`) is created again.  `docs/ui.md:67-70` says that a missing
  database shows an error; one that was opened before is served from the handle
  kept at `dbmanager.go:124`.
* Search.  `viewmodel.go:494` and `:534-535` speak of a total cap at which the
  search stops.  A row that reaches both caps returns at the first test
  (`viewmodel.go:545`), and the next namespace adds a row more.
  `viewmodel.go:511` ends the search at the next database whenever `Truncated` is
  set, also by the cap of one namespace, while `viewmodel.go:501-503` speaks of
  every namespace of every reachable database.
* Key browser.  `viewmodel.go:355` says that keys without expiry "sort last
  regardless of direction"; `viewmodel.go:371` exchanges the arguments for a
  descending sort, which puts them first (`KeyBrowserOrder`).
* Service log.  `logs.go:54-55` says that the constants "bound the rotated log's
  total disk footprint".  The error of a rename is ignored while `size` starts
  again from zero (`logs.go:122-130`), so a log that cannot be moved grows by
  `maxBytes` at each attempt.  After a `Close` or an `OpenFile` that fails
  (`logs.go:111`, `logs.go:124`) the writer keeps a closed file and fails for good.
* Service.  After `install --system` the command prints "start it with: lytecache
  service start" (`cmd_service.go:127`), which addresses the user's unit, as
  `stop`, `status` and `uninstall` do (`BuildConfig(nil, false)`).
  `config.go:20-23` wants a stable name so that an install does not orphan
  another; on Windows an install from an elevated shell after one from another
  (`cmd_service.go:102`) leaves both registered, and the commands reach the later.
  `docs/ui.md:416-420` says that a startup failure does not flap; with
  `Restart=on-failure` (`config.go:75`) it is retried.  `docs/ui.md:350` says that
  what `install` persists starts identically every time: a relative path is
  persisted as it was typed (`cmd_service.go:159`, `:162`) and resolved where the
  service manager starts the process.  A `Serve` that fails after `StartFunc`
  returned is only logged (`cmd_service.go:446`): the process stays and serves
  nobody (`deaf`).  `service status` trusts any live process with the recorded pid
  (`cmd_service.go:355`), where `status.go:17-20` promises to detect a process
  that died without cleaning up.
* Command line.  `main.go` takes every error that is not an `exitError` for a
  usage error; an error of writing to stdout that `get --raw`, `stats --json` or
  `keys --long` returns as it is exits with 2 as well (`OutputFails`), which
  `exitcode.go:11` keeps for bad arguments.  `get` on a key whose type changes between
  `Inspect` and the getter exits with 3, although the key was there throughout
  (`CallFails`); one that was JSON is printed in JSON form whatever portable type it has
  by then.  `vacuum` can exit with 3 after it took effect, when its second stat fails
  (`VacuumFails`).  `db.go:45-46` says that a command that only reads never creates a
  file; one that is removed after the stat is created again.  `which` says "does not
  exist yet" of a file that it cannot stat for another reason (`cmd_admin.go:217`).
* Value page.  It shows the type, the expiry and the size of one row next to the value
  of a later one, when an application writes in between (`viewmodel.go:426-477`).
* Metrics.  `lytecache_file_readable` stays 1 for a database that is served from a
  handle whose file is gone, or from a kept answer.
* Audit.  `docs/ui.md:188-189` says that every write action is appended to the
  log; the error of a line that cannot be written is ignored (`audit.go:36`,
  `AdminServerAudit`), and a write that the shutdown's deadline, a server that stops
  serving or a crash overtakes has no line either.

## Not modelled

Password hashing, HTML, CSP headers, TLS, the SQLite library, formatting of
values and of the log, the permission check of `ui.yaml` and the flags of
`cobra`.  Of the command line: the texts that are printed, the tokens of a REPL
line, the conversions of `parse.go`, and `ui` and `service` as far as their own
modules do not cover them.  Of the dashboard: the figures of a row and the health
verdict, which are functions of one handle's statistics.  Of the service: the
arguments that `install` persists, which are a plain walk over flags, and `service
logs`, which reads the end of a file.  The figures of the metrics.  A data race on
the string `PasswordHash` (`auth_handlers.go:41`), whose outcomes in a build are not
a choice between old and new.

## Plan

The order follows what the program would lose by a mistake: access control and
credentials first, then the databases, then what only displays them.

1. Done: sessions, limiter, credentials, manager with metrics, mutations and audit,
   search and key browser, auto-refresh, service control, the rotating log with its
   abstract specification, the command line with its own; every invariant and every
   action property of them proved, and both refinements.
2. To extend: `service logs` and the arguments that `install` persists; the health
   verdict of the dashboard; an abstract session store, with live and ended sessions
   only, that `SessionManager` implements while the server runs.
3. To compose: `AdminServer` over `SessionManager`, so that `live` is what
   `verify` decides.
