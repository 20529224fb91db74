--------------------------- MODULE SessionManager ---------------------------
(***************************************************************************)
(* The admin UI's sessions (cmd/lytecache/ui/session.go) and the part of   *)
(* authMiddleware (auth.go) and of the login and logout handlers           *)
(* (auth_handlers.go) that uses them.                                      *)
(*                                                                         *)
(* A session lives in signed cookies, not on the server: whoever holds a   *)
(* cookie value may present it at any time.  The server keeps only the     *)
(* revocation map, in memory.  Requests run concurrently, so verify is two *)
(* steps: it reads the clock and compares the two deadlines, then takes    *)
(* the lock and looks the session up in the revocation map.                *)
(*                                                                         *)
(* Time is the wall clock (the claims went through JSON) in units of the   *)
(* model; it never steps back.                                             *)
(***************************************************************************)
EXTENDS Naturals

CONSTANTS
  SessionIds,     \* random session ids randomToken may draw
  Requests,       \* requests in flight at the same time
  IdleTimeout,    \* Config.IdleTimeout
  AbsoluteLife,   \* Config.AbsoluteLifetime
  MaxClock,       \* bound on the clock
  MaxRestarts,    \* bound on restarts of the server
  NoClaims        \* a request that carries no claims yet

\* The claims and signature of a cookie.  IssuedAt and Username are never read
\* by verify; `key' stands for the session_secret the HMAC was computed with.
Claims == [id : SessionIds, key : Nat, expiresAt : Nat, lastSeen : Nat]

ASSUME DurationsAssumption == IdleTimeout \in Nat \ {0} /\ AbsoluteLife \in Nat \ {0}
ASSUME BoundsAssumption == MaxClock \in Nat /\ MaxRestarts \in Nat
ASSUME NoClaimsAssumption == NoClaims \notin Claims

VARIABLES
  now,        \* the wall clock
  restarts,   \* how often the server was restarted
  secret,     \* session_secret of the config file the server loaded
  cookies,    \* every cookie value ever handed out
  revoked,    \* sessionManager.revoked: session id -> its ExpiresAt
  phase,      \* where each request is in the middleware
  claims,     \* the claims each request carries
  loginAt,    \* history: session id -> time of its login
  activeAt,   \* history: session id -> time of its last authenticated request
  loggedOut,  \* history: sessions logged out, ever
  loggedOutThisRun \* history: sessions logged out since the last restart

server == <<restarts, secret>>
history == <<loginAt, activeAt, loggedOut, loggedOutThisRun>>
vars == <<now, server, cookies, revoked, phase, claims, history>>

Phases == {"idle", "timesChecked", "verified", "handling"}

IsMap(f) == DOMAIN f \subseteq SessionIds /\ f \in [DOMAIN f -> Nat]
EmptyMap == [i \in {} |-> 0]
Put(f, k, v) == [i \in DOMAIN f \cup {k} |-> IF i = k THEN v ELSE f[i]]

TypeOK ==
  /\ now \in Nat /\ restarts \in Nat /\ secret \in Nat
  /\ cookies \subseteq Claims
  /\ IsMap(revoked)
  /\ phase \in [Requests -> Phases]
  /\ claims \in [Requests -> Claims \cup {NoClaims}]
  /\ \A r \in Requests : phase[r] = "idle" <=> claims[r] = NoClaims
  /\ IsMap(loginAt) /\ activeAt \in [DOMAIN loginAt -> Nat]
  /\ loggedOutThisRun \subseteq loggedOut /\ loggedOut \subseteq SessionIds

Init ==
  /\ now = 0 /\ restarts = 0 /\ secret = 0
  /\ cookies = {} /\ revoked = EmptyMap
  /\ phase = [r \in Requests |-> "idle"]
  /\ claims = [r \in Requests |-> NoClaims]
  /\ loginAt = EmptyMap /\ activeAt = EmptyMap
  /\ loggedOut = {} /\ loggedOutThisRun = {}

-----------------------------------------------------------------------------
(* Operations of sessionManager.                                           *)

NewClaims(id) ==
  [id |-> id, key |-> secret, expiresAt |-> now + AbsoluteLife, lastSeen |-> now]

SignatureValid(c) == c.key = secret

\* Mutant of TimesValid: the idle timeout is not checked.
TimesValidNoIdle(c) == ~(now > c.expiresAt)

\* The two deadlines of verify, on one reading of the clock.
TimesValid(c) == ~(now > c.expiresAt) /\ ~(now > c.lastSeen + IdleTimeout)

IsRevoked(c) == c.id \in DOMAIN revoked

\* Mutants of Touched: the refresh also renews the deadline; it keeps LastSeen.
TouchedRenewed(c) == [c EXCEPT !.lastSeen = now, !.expiresAt = now + AbsoluteLife]
TouchedNothing(c) == c

\* The refresh of authMiddleware: same session, same deadline, seen now.
Touched(c) == [c EXCEPT !.lastSeen = now]

\* Mutant of RevokedAfter: entries are kept only until the session would have
\* been idle.
RevokedAfterUntilIdle(c) ==
  LET marked == Put(revoked, c.id, c.lastSeen + IdleTimeout)
  IN  [i \in {j \in DOMAIN marked : ~(now > marked[j])} |-> marked[i]]

\* The revocation map after revoke(c): c is added, entries past their own
\* deadline are collected.
RevokedAfter(c) ==
  LET marked == Put(revoked, c.id, c.expiresAt)
  IN  [i \in {j \in DOMAIN marked : ~(now > marked[j])} |-> marked[i]]

-----------------------------------------------------------------------------
(* The steps of the server.                                                *)

\* handleLoginSubmit after the password was accepted: sessions.issue.
Issue(id) ==
  /\ id \notin DOMAIN loginAt
  /\ cookies' = cookies \cup {NewClaims(id)}
  /\ loginAt' = Put(loginAt, id, now)
  /\ activeAt' = Put(activeAt, id, now)
  /\ UNCHANGED <<now, server, revoked, phase, claims, loggedOut, loggedOutThisRun>>

Proceed(r, p, c) ==
  /\ phase' = [phase EXCEPT ![r] = p]
  /\ claims' = [claims EXCEPT ![r] = c]

\* A request presents cookie c; verify accepts its signature and its times.
\* (A cookie that fails leaves no trace: the request is redirected to /login.)
CheckTimes(r, c) ==
  /\ phase[r] = "idle"
  /\ SignatureValid(c) /\ TimesValid(c)
  /\ Proceed(r, "timesChecked", c)
  /\ UNCHANGED <<now, server, cookies, revoked, history>>

\* The rest of verify, under sessionManager.mu.
LookupRevoked(r) ==
  /\ phase[r] = "timesChecked"
  /\ IF IsRevoked(claims[r]) THEN Proceed(r, "idle", NoClaims)
                             ELSE Proceed(r, "verified", claims[r])
  /\ UNCHANGED <<now, server, cookies, revoked, history>>

\* authMiddleware: LastSeen is set and the cookie is written again.
Refresh(r) ==
  /\ phase[r] = "verified"
  /\ Proceed(r, "handling", Touched(claims[r]))
  /\ cookies' = cookies \cup {Touched(claims[r])}
  /\ activeAt' = [activeAt EXCEPT ![claims[r].id] = now]
  /\ UNCHANGED <<now, server, revoked, loginAt, loggedOut, loggedOutThisRun>>

\* A verified GET /login only redirects; every other route ends after the
\* refresh, in its handler, in the forced redirect or in the CSRF refusal.
Finish(r) ==
  /\ phase[r] \in {"verified", "handling"}
  /\ Proceed(r, "idle", NoClaims)
  /\ UNCHANGED <<now, server, cookies, revoked, history>>

\* handleLogout: sessions.revoke of the claims the middleware put in the context.
Logout(r) ==
  /\ phase[r] = "handling"
  /\ revoked' = RevokedAfter(claims[r])
  /\ loggedOut' = loggedOut \cup {claims[r].id}
  /\ loggedOutThisRun' = loggedOutThisRun \cup {claims[r].id}
  /\ Proceed(r, "idle", NoClaims)
  /\ UNCHANGED <<now, server, cookies, loginAt, activeAt>>

\* The server process ends (with whatever was in flight) and is started again,
\* on the same config file or, when that was removed, on a new one whose
\* session_secret bootstrapAuthConfig just drew.
Restart ==
  /\ restarts < MaxRestarts
  /\ restarts' = restarts + 1
  /\ secret' \in {secret, secret + 1}
  /\ revoked' = EmptyMap
  /\ phase' = [r \in Requests |-> "idle"]
  /\ claims' = [r \in Requests |-> NoClaims]
  /\ loggedOutThisRun' = {}
  /\ UNCHANGED <<now, cookies, loginAt, activeAt, loggedOut>>

Tick ==
  /\ now < MaxClock
  /\ now' = now + 1
  /\ UNCHANGED <<server, cookies, revoked, phase, claims, history>>

Next ==
  \/ \E id \in SessionIds : Issue(id)
  \/ \E r \in Requests, c \in cookies : CheckTimes(r, c)
  \/ \E r \in Requests : LookupRevoked(r) \/ Refresh(r) \/ Finish(r) \/ Logout(r)
  \/ Restart
  \/ Tick

Spec == Init /\ [][Next]_vars

-----------------------------------------------------------------------------
(* What the sessions promise.                                              *)

PastLife(id) == now > loginAt[id] + AbsoluteLife
PastIdle(id) == now > activeAt[id] + IdleTimeout
InFlight(id) == \E r \in Requests : claims[r] # NoClaims /\ claims[r].id = id

Admitted(r) == phase[r] = "idle" /\ phase'[r] = "timesChecked"
Accepted(r) == phase[r] = "timesChecked" /\ phase'[r] = "verified"

\* However often its cookie was refreshed, and through whatever restarts, no
\* request of a session gets past verify's clock check later than
\* AbsoluteLifetime after the login ("absolute lifetime cutoff, fixed at issue
\* time").
ServedWithinLifetime ==
  [][\A r \in Requests : Admitted(r) => ~PastLife(claims'[r].id)]_vars

\* A session with nothing in flight that passed its idle or its absolute
\* deadline is over for good: no cookie of it, old or refreshed, revives it.
Dead(id) == id \in DOMAIN loginAt /\ ~InFlight(id) /\ (PastLife(id) \/ PastIdle(id))

DeadStaysDead == [][\A id \in SessionIds : Dead(id) => Dead(id)']_vars

\* Logout sticks for as long as the server runs and the session could live: the
\* lookup of verify accepts no cookie of a logged-out session, not even one that
\* an earlier request of the session refreshes after the logout.  (A request
\* whose clock check came before the deadline may be looked up after it, when
\* another logout has collected the entry; and a restart forgets every logout.)
LogoutSticks ==
  [][\A r \in Requests :
       Accepted(r) /\ claims[r].id \in loggedOutThisRun => PastLife(claims[r].id)]_vars

\* What makes that so: a logout is remembered until the session's deadline.
RevocationsKept ==
  \A id \in loggedOutThisRun : id \in DOMAIN revoked \/ PastLife(id)

\* A session in use keeps working: while it is within both deadlines, was never
\* logged out and the secret it was signed with is still the server's, one of
\* its cookies passes every check of verify, also right after a restart.
Usable(id) ==
  \E c \in cookies : c.id = id /\ SignatureValid(c) /\ TimesValid(c) /\ ~IsRevoked(c)

LiveSessionUsable ==
  \A id \in DOMAIN loginAt \ loggedOut :
    (~PastLife(id) /\ ~PastIdle(id)
       /\ \A c \in cookies : c.id = id => c.key = secret) => Usable(id)
=============================================================================
