-------------------------- MODULE LoginRateLimiter --------------------------
(***************************************************************************)
(* The failed-login limiter of the admin UI (cmd/lytecache/ui/ratelimit.go)*)
(* and the order in which handleLoginSubmit (auth_handlers.go) calls it:   *)
(* allow, then a slow password check outside the limiter's lock, then      *)
(* recordFailure or recordSuccess.  Any number of submissions, of the same *)
(* or of different addresses, are in that window at once.  Each limiter    *)
(* call runs under loginRateLimiter.mu and is one step; time is in seconds.*)
(* The map is process memory: a restart starts from Init.                  *)
(***************************************************************************)
EXTENDS Integers

CONSTANTS
  Ips,                    \* client addresses
  Submissions,            \* POST /login handlers in flight
  NoIp,                   \* a submission slot that is free
  FailuresBeforeBackoff,  \* const failuresBeforeBackoff
  MaxBackoff,             \* const maxBackoff
  StaleAttemptTTL,        \* const staleAttemptTTL
  SecondOdd,              \* the odd factor of time.Second: 1953125
  OddBits,                \* the bits of a time.Duration above its other factor, 2^9: 55
  TickSizes,              \* by how much the clock may advance in one step
  MaxClock,               \* bound on the clock
  MaxCount                \* bound on recorded failures per address

ASSUME IpsAssumption == NoIp \notin Ips
ASSUME LimitsAssumption ==
  /\ FailuresBeforeBackoff \in Nat /\ MaxBackoff \in Nat \ {0}
  /\ StaleAttemptTTL \in Nat /\ StaleAttemptTTL >= MaxBackoff
ASSUME SecondAssumption == SecondOdd \in 1..2^21 /\ OddBits \in Nat
ASSUME ClockAssumption ==
  TickSizes \subseteq Nat \ {0} /\ MaxClock \in Nat /\ MaxCount \in Nat

VARIABLES
  now,        \* the clock
  attempts,   \* loginRateLimiter.attempts: address -> loginAttempts
  checking,   \* submissions whose password is being checked: slot -> address
  streak,     \* history: failures in a row of an address (see NextStreak)
  lastFailed  \* history: time of an address's last recorded failure

vars == <<now, attempts, checking, streak, lastFailed>>

Record == [count : Nat, lockUntil : Nat, lastAttempt : Nat]

TypeOK ==
  /\ now \in Nat
  /\ DOMAIN attempts \subseteq Ips /\ attempts \in [DOMAIN attempts -> Record]
  /\ checking \in [Submissions -> Ips \cup {NoIp}]
  /\ streak \in [Ips -> Nat] /\ lastFailed \in [Ips -> Nat]

Init ==
  /\ now = 0
  /\ attempts = [ip \in {} |-> 0]
  /\ checking = [s \in Submissions |-> NoIp]
  /\ streak = [ip \in Ips |-> 0] /\ lastFailed = [ip \in Ips |-> 0]

-----------------------------------------------------------------------------
(* The backoff, as 64-bit arithmetic computes it.                          *)

\* time.Second << shift on int64, in seconds: of the odd factor OddBits - shift
\* bits survive, the highest of them the sign.  0 stands for every result that is not
\* positive, MaxBackoff + 1 for every one above the cap.
SecondShifted(shift) ==
  LET bits     == OddBits - shift
      low      == IF bits > 21 THEN SecondOdd ELSE SecondOdd % 2^bits
      negative == bits <= 21 /\ low >= 2^(bits - 1)
  IN  IF bits <= 0 \/ negative THEN 0
      ELSE IF shift > 30 \/ 2^shift > (MaxBackoff * SecondOdd) \div low
           THEN MaxBackoff + 1
           ELSE 2^shift

\* Mutants of Backoff: only the cap is tested; only the sign is tested.
BackoffSignUnchecked(count) ==
  LET backoff == SecondShifted(count - FailuresBeforeBackoff - 1)
  IN  IF backoff > MaxBackoff THEN MaxBackoff ELSE backoff
BackoffUncapped(count) ==
  LET backoff == SecondShifted(count - FailuresBeforeBackoff - 1)
  IN  IF backoff <= 0 THEN MaxBackoff ELSE backoff

Backoff(count) ==
  LET backoff == SecondShifted(count - FailuresBeforeBackoff - 1)
  IN  IF backoff \in 1..MaxBackoff THEN backoff ELSE MaxBackoff

-----------------------------------------------------------------------------
(* Operations of loginRateLimiter.                                         *)

Locked(ip) == ip \in DOMAIN attempts /\ now < attempts[ip].lockUntil

\* Mutant of Stale: a record's age is taken from lockUntil.
StaleByLock(a) == a.lockUntil < now - StaleAttemptTTL

\* gcLocked: what survives.
Stale(a) == a.lastAttempt < now - StaleAttemptTTL
Fresh == {ip \in DOMAIN attempts : ~Stale(attempts[ip])}

NoAttempts == [count |-> 0, lockUntil |-> 0, lastAttempt |-> 0]

\* One more failure on record a.
Failed(a) ==
  [count       |-> a.count + 1,
   lastAttempt |-> now,
   lockUntil   |-> IF a.count + 1 > FailuresBeforeBackoff
                   THEN now + Backoff(a.count + 1) ELSE a.lockUntil]

\* The map after recordFailure(ip): collected, then the failure counted.
AfterFailure(ip) ==
  [i \in Fresh \cup {ip} |->
     IF i # ip THEN attempts[i]
     ELSE Failed(IF ip \in Fresh THEN attempts[ip] ELSE NoAttempts)]

\* Failures count as one run of failures while no two are further apart than
\* staleAttemptTTL.
NextStreak(ip) ==
  IF now - lastFailed[ip] > StaleAttemptTTL THEN 1 ELSE streak[ip] + 1

-----------------------------------------------------------------------------
(* handleLoginSubmit.                                                      *)

\* allow: a locked address gets 429 and leaves no trace.
Allow(s, ip) ==
  /\ checking[s] = NoIp
  /\ ~Locked(ip)
  /\ checking' = [checking EXCEPT ![s] = ip]
  /\ UNCHANGED <<now, attempts, streak, lastFailed>>

\* The form does not parse: 400, nothing is recorded.
BadForm(s) ==
  /\ checking[s] # NoIp
  /\ checking' = [checking EXCEPT ![s] = NoIp]
  /\ UNCHANGED <<now, attempts, streak, lastFailed>>

\* Wrong username or password: recordFailure.
RecordFailure(s) ==
  LET ip == checking[s] IN
  /\ ip # NoIp
  /\ streak[ip] < MaxCount
  /\ attempts' = AfterFailure(ip)
  /\ streak' = [streak EXCEPT ![ip] = NextStreak(ip)]
  /\ lastFailed' = [lastFailed EXCEPT ![ip] = now]
  /\ checking' = [checking EXCEPT ![s] = NoIp]
  /\ UNCHANGED now

\* The right password: recordSuccess, then a session is issued.
RecordSuccess(s) ==
  LET ip == checking[s] IN
  /\ ip # NoIp
  /\ attempts' = [i \in DOMAIN attempts \ {ip} |-> attempts[i]]
  /\ streak' = [streak EXCEPT ![ip] = 0]
  /\ checking' = [checking EXCEPT ![s] = NoIp]
  /\ UNCHANGED <<now, lastFailed>>

Tick(d) ==
  /\ now + d <= MaxClock
  /\ now' = now + d
  /\ UNCHANGED <<attempts, checking, streak, lastFailed>>

Next ==
  \/ \E s \in Submissions :
       \/ \E ip \in Ips : Allow(s, ip)
       \/ BadForm(s) \/ RecordFailure(s) \/ RecordSuccess(s)
  \/ \E d \in TickSizes : Tick(d)

Spec == Init /\ [][Next]_vars

-----------------------------------------------------------------------------
(* What the limiter promises.                                              *)

Succeeded(ip) == \E s \in Submissions : checking[s] = ip /\ RecordSuccess(s)

\* An address that is locked out stays so until its time: no other address's
\* failure collects its record, and no late failure of its own, counted after
\* the shift overflowed or not, brings the end nearer.  Only a login that was
\* already being checked and succeeds lifts it.
LockoutNotCut ==
  [][\A ip \in Ips :
       Locked(ip) /\ ~Succeeded(ip)
         => /\ ip \in DOMAIN attempts'
            /\ attempts'[ip].lockUntil >= attempts[ip].lockUntil]_vars

\* No lockout lasts longer than maxBackoff from now, whatever is in flight
\* ("so a forgotten lockout can't grow unboundedly large").
LockoutBounded ==
  \A ip \in DOMAIN attempts : attempts[ip].lockUntil <= now + MaxBackoff

\* Collection is invisible to the escalation: the count on record is the run of
\* failures of the address, and an address without a record has none that a new
\* failure would have to continue.
CountsTheStreak ==
  \A ip \in Ips :
    IF ip \in DOMAIN attempts
    THEN attempts[ip].count = streak[ip] /\ attempts[ip].lastAttempt = lastFailed[ip]
    ELSE streak[ip] = 0 \/ now - lastFailed[ip] > StaleAttemptTTL
=============================================================================
