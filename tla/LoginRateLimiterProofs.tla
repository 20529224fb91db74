----------------------- MODULE LoginRateLimiterProofs -----------------------
(***************************************************************************)
(* Proofs about LoginRateLimiter, for any number of addresses, submissions *)
(* in flight and recorded failures, and for all limits with                *)
(* staleAttemptTTL >= maxBackoff.                                          *)
(***************************************************************************)
EXTENDS LoginRateLimiter, TLAPS

\* Whatever the shift overflowed to, the backoff is a positive time up to the cap.
LEMMA BackoffRange == ASSUME NEW count \in Nat PROVE Backoff(count) \in 1..MaxBackoff
BY LimitsAssumption DEF Backoff

\* A recorded failure leaves a record, counted one up, whose lockout ends within
\* maxBackoff of now or where it did before.
LEMMA FailedRecord ==
  ASSUME now \in Nat, NEW a \in Record
  PROVE  /\ Failed(a) \in Record
         /\ Failed(a).count = a.count + 1 /\ Failed(a).lastAttempt = now
         /\ Failed(a).lockUntil = a.lockUntil \/ Failed(a).lockUntil <= now + MaxBackoff
<1>1. Backoff(a.count + 1) \in 1..MaxBackoff
  BY BackoffRange DEF Record
<1> QED BY <1>1, LimitsAssumption DEF Failed, Record

\* The map after a failure of ip: the fresh records of the others, and ip's own.
LEMMA AfterFailureMap ==
  ASSUME TypeOK, NEW ip \in Ips
  PROVE  /\ DOMAIN AfterFailure(ip) = Fresh \cup {ip}
         /\ DOMAIN AfterFailure(ip) \subseteq Ips
         /\ AfterFailure(ip) \in [DOMAIN AfterFailure(ip) -> Record]
         /\ \A i \in Fresh : i # ip => AfterFailure(ip)[i] = attempts[i]
         /\ AfterFailure(ip)[ip] =
              Failed(IF ip \in Fresh THEN attempts[ip] ELSE NoAttempts)
<1>1. NoAttempts \in Record
  BY DEF NoAttempts, Record
<1>2. \A i \in Fresh : i \in DOMAIN attempts /\ i \in Ips /\ attempts[i] \in Record
  BY DEF Fresh, TypeOK
<1>3. Failed(IF ip \in Fresh THEN attempts[ip] ELSE NoAttempts) \in Record
  BY <1>1, <1>2, FailedRecord DEF TypeOK
<1> QED BY <1>2, <1>3 DEF AfterFailure

-----------------------------------------------------------------------------

IInv == TypeOK /\ LockoutBounded /\ CountsTheStreak

\* The inductive invariant holds initially.
LEMMA IInvInit == Init => IInv
BY ClockAssumption DEF Init, IInv, TypeOK, LockoutBounded, CountsTheStreak

\* Every step keeps the types.
LEMMA TypeStep == TypeOK /\ [Next]_vars => TypeOK'
<1> SUFFICES ASSUME TypeOK, [Next]_vars PROVE TypeOK'
  OBVIOUS
<1>1. ASSUME NEW s \in Submissions, NEW ip \in Ips, Allow(s, ip) PROVE TypeOK'
  BY <1>1 DEF TypeOK, Allow
<1>2. ASSUME NEW s \in Submissions, BadForm(s) PROVE TypeOK'
  BY <1>2 DEF TypeOK, BadForm
<1>3. ASSUME NEW s \in Submissions, RecordFailure(s) PROVE TypeOK'
  <2>1. checking[s] \in Ips
    BY <1>3 DEF RecordFailure, TypeOK
  <2>2. streak' \in [Ips -> Nat]
    BY <1>3, <2>1 DEF TypeOK, RecordFailure, NextStreak
  <2> QED BY <1>3, <2>1, <2>2, AfterFailureMap DEF TypeOK, RecordFailure
<1>4. ASSUME NEW s \in Submissions, RecordSuccess(s) PROVE TypeOK'
  BY <1>4 DEF TypeOK, RecordSuccess
<1>5. ASSUME NEW d \in TickSizes, Tick(d) PROVE TypeOK'
  BY <1>5, ClockAssumption DEF TypeOK, Tick
<1>6. CASE UNCHANGED vars
  BY <1>6 DEF TypeOK, vars
<1> QED BY <1>1, <1>2, <1>3, <1>4, <1>5, <1>6 DEF Next

\* A recorded failure keeps every lockout within maxBackoff of now and every
\* count equal to its streak.
LEMMA FailureStep ==
  ASSUME IInv, TypeOK', NEW s \in Submissions, RecordFailure(s)
  PROVE  LockoutBounded' /\ CountsTheStreak'
<1>1. PICK ip \in Ips : ip = checking[s]
  BY DEF IInv, TypeOK, RecordFailure
<1>2. /\ attempts' = AfterFailure(ip) /\ now' = now /\ now \in Nat
      /\ streak' = [streak EXCEPT ![ip] = NextStreak(ip)]
      /\ lastFailed' = [lastFailed EXCEPT ![ip] = now]
  BY <1>1 DEF RecordFailure, IInv, TypeOK
<1> DEFINE old == IF ip \in Fresh THEN attempts[ip] ELSE NoAttempts
<1>3. old \in Record /\ old.lockUntil <= now + MaxBackoff
  BY <1>2, LimitsAssumption
     DEF Fresh, IInv, TypeOK, LockoutBounded, NoAttempts, Record
<1>4. /\ attempts'[ip] = Failed(old) /\ DOMAIN attempts' = Fresh \cup {ip}
      /\ \A i \in Fresh : i # ip => attempts'[i] = attempts[i]
  BY <1>2, AfterFailureMap DEF IInv
<1>5. LockoutBounded'
  BY <1>2, <1>3, <1>4, FailedRecord DEF LockoutBounded, IInv, Fresh
<1>6. NextStreak(ip) = old.count + 1
  BY <1>2, LimitsAssumption
     DEF NextStreak, IInv, TypeOK, CountsTheStreak, Fresh, Stale, NoAttempts, Record
<1>7. CountsTheStreak'
  <2> SUFFICES ASSUME NEW i \in Ips
               PROVE  IF i \in DOMAIN attempts'
                      THEN /\ attempts'[i].count = streak'[i]
                           /\ attempts'[i].lastAttempt = lastFailed'[i]
                      ELSE streak'[i] = 0 \/ now' - lastFailed'[i] > StaleAttemptTTL
    BY DEF CountsTheStreak
  <2>1. CASE i = ip
    BY <1>2, <1>3, <1>4, <1>6, <2>1, FailedRecord DEF IInv, TypeOK
  <2>2. CASE i # ip
    BY <1>2, <1>4, <2>2, LimitsAssumption
       DEF IInv, TypeOK, CountsTheStreak, Fresh, Stale, Record
  <2> QED BY <2>1, <2>2
<1> QED BY <1>5, <1>7

\* Every step keeps the inductive invariant.
LEMMA IInvStep == IInv /\ [Next]_vars => IInv'
<1> SUFFICES ASSUME IInv, [Next]_vars PROVE IInv'
  OBVIOUS
<1>1. TypeOK /\ TypeOK'
  BY TypeStep DEF IInv
<1>2. ASSUME NEW s \in Submissions, RecordFailure(s) PROVE IInv'
  BY <1>1, <1>2, FailureStep DEF IInv
<1>3. ASSUME NEW s \in Submissions, RecordSuccess(s) PROVE IInv'
  <2>1. checking[s] \in Ips
    BY <1>1, <1>3 DEF RecordSuccess, TypeOK
  <2> QED BY <1>1, <1>3, <2>1
     DEF IInv, TypeOK, RecordSuccess, LockoutBounded, CountsTheStreak
<1>4. ASSUME NEW d \in TickSizes, Tick(d) PROVE IInv'
  <2>1. now' = now + d /\ d \in Nat /\ now \in Nat
    BY <1>1, <1>4, ClockAssumption DEF Tick, TypeOK
  <2>2. LockoutBounded'
    BY <1>1, <1>4, <2>1, LimitsAssumption DEF IInv, TypeOK, Record, LockoutBounded, Tick
  <2>3. CountsTheStreak'
    BY <1>1, <1>4, <2>1, LimitsAssumption DEF IInv, TypeOK, CountsTheStreak, Tick
  <2> QED BY <1>1, <2>2, <2>3 DEF IInv
<1>5. CASE UNCHANGED <<now, attempts, streak, lastFailed>>
  BY <1>1, <1>5 DEF IInv, LockoutBounded, CountsTheStreak
<1> QED BY <1>2, <1>3, <1>4, <1>5 DEF Next, Allow, BadForm, vars

\* The model's variables keep their types, no lockout ends later than maxBackoff
\* from now, and collecting stale records never changes what a failure counts to.
THEOREM TypeCorrect == Spec => []TypeOK
<1>1. IInv => TypeOK
  BY DEF IInv
<1> QED BY <1>1, IInvInit, IInvStep, PTL DEF Spec

\* No lockout lasts longer than maxBackoff from now.
THEOREM LockoutAlwaysBounded == Spec => []LockoutBounded
<1>1. IInv => LockoutBounded
  BY DEF IInv
<1> QED BY <1>1, IInvInit, IInvStep, PTL DEF Spec

\* The count on record is the address's run of failures: collection is invisible.
THEOREM AlwaysCountsTheStreak == Spec => []CountsTheStreak
<1>1. IInv => CountsTheStreak
  BY DEF IInv
<1> QED BY <1>1, IInvInit, IInvStep, PTL DEF Spec

-----------------------------------------------------------------------------
(* That a lockout is never cut short needs a backoff that does not shrink   *)
(* from one failure to the next, whatever the shift overflowed to: a fact   *)
(* about the arithmetic of the constants, assumed by the first theorem and  *)
(* proved for integers as wide as the code's by the second.                 *)

BackoffGrows ==
  \A n \in FailuresBeforeBackoff + 1 .. MaxCount : Backoff(n) <= Backoff(n + 1)

\* A lockout was set by the address's latest failure.
LockFromLast ==
  \A ip \in DOMAIN attempts :
    /\ attempts[ip].lastAttempt <= now
    /\ attempts[ip].lockUntil =
         IF attempts[ip].count > FailuresBeforeBackoff
         THEN attempts[ip].lastAttempt + Backoff(attempts[ip].count) ELSE 0

\* Every step keeps lockouts set by the latest failure.
LEMMA LockFromLastStep == IInv /\ LockFromLast /\ [Next]_vars => LockFromLast'
<1> SUFFICES ASSUME IInv, LockFromLast, [Next]_vars PROVE LockFromLast'
  OBVIOUS
<1>1. TypeOK
  BY DEF IInv
<1>2. ASSUME NEW s \in Submissions, RecordFailure(s) PROVE LockFromLast'
  <2>1. PICK ip \in Ips : ip = checking[s]
    BY <1>1, <1>2 DEF TypeOK, RecordFailure
  <2>2. attempts' = AfterFailure(ip) /\ now' = now /\ now \in Nat
    BY <1>1, <1>2, <2>1 DEF RecordFailure, TypeOK
  <2> DEFINE old == IF ip \in Fresh THEN attempts[ip] ELSE NoAttempts
  <2>3. /\ attempts'[ip] = Failed(old) /\ DOMAIN attempts' = Fresh \cup {ip}
        /\ \A i \in Fresh : i # ip => attempts'[i] = attempts[i]
    BY <1>1, <2>2, AfterFailureMap
  <2>4. /\ old \in Record
        /\ old.count <= FailuresBeforeBackoff => old.lockUntil = 0
    BY <1>1, LimitsAssumption DEF TypeOK, LockFromLast, Fresh, NoAttempts, Record
  <2>5. /\ Failed(old).lastAttempt = now
        /\ Failed(old).lockUntil =
             IF Failed(old).count > FailuresBeforeBackoff
             THEN now + Backoff(Failed(old).count) ELSE 0
    BY <2>4, LimitsAssumption DEF Failed, Record
  <2> QED BY <2>2, <2>3, <2>5 DEF LockFromLast, Fresh
<1>3. ASSUME NEW s \in Submissions, RecordSuccess(s) PROVE LockFromLast'
  BY <1>1, <1>3 DEF RecordSuccess, LockFromLast, TypeOK, Backoff, SecondShifted
<1>4. ASSUME NEW d \in TickSizes, Tick(d) PROVE LockFromLast'
  <2>1. now' >= now /\ attempts' = attempts /\ now \in Nat /\ now' \in Nat
    BY <1>1, <1>4, ClockAssumption DEF Tick, TypeOK
  <2> QED BY <1>1, <2>1 DEF LockFromLast, TypeOK, Record
<1>5. CASE UNCHANGED <<now, attempts>>
  BY <1>5 DEF LockFromLast
<1> QED BY <1>2, <1>3, <1>4, <1>5 DEF Next, Allow, BadForm, vars

\* A record that locks its address out is never old enough to be collected.
LEMMA LockedIsFresh ==
  ASSUME TypeOK, LockFromLast, NEW ip \in Ips, Locked(ip)
  PROVE  /\ ip \in Fresh /\ attempts[ip] \in Record
         /\ attempts[ip].count > FailuresBeforeBackoff
         /\ attempts[ip].lastAttempt <= now
         /\ attempts[ip].lockUntil = attempts[ip].lastAttempt + Backoff(attempts[ip].count)
<1>1. attempts[ip] \in Record /\ now \in Nat /\ ip \in DOMAIN attempts
  BY DEF TypeOK, Locked
<1>2. /\ attempts[ip].count > FailuresBeforeBackoff
      /\ attempts[ip].lastAttempt <= now
      /\ attempts[ip].lockUntil = attempts[ip].lastAttempt + Backoff(attempts[ip].count)
  BY <1>1 DEF LockFromLast, Locked
<1>3. Backoff(attempts[ip].count) \in 1..MaxBackoff
  BY <1>1, BackoffRange DEF Record
<1> QED BY <1>1, <1>2, <1>3, LimitsAssumption DEF Fresh, Stale, Locked, Record

\* One step never cuts a lockout short, unless its address logs in.
LEMMA NotCutStep ==
  ASSUME BackoffGrows, IInv, LockFromLast, [Next]_vars,
         NEW ip \in Ips, Locked(ip), ~Succeeded(ip)
  PROVE  ip \in DOMAIN attempts' /\ attempts'[ip].lockUntil >= attempts[ip].lockUntil
<1>1. TypeOK /\ ip \in DOMAIN attempts /\ attempts[ip].lockUntil \in Nat
  BY DEF IInv, TypeOK, Locked, Record
<1>2. ASSUME NEW s \in Submissions, RecordFailure(s)
      PROVE  ip \in DOMAIN attempts' /\ attempts'[ip].lockUntil >= attempts[ip].lockUntil
  <2>1. PICK i \in Ips : i = checking[s]
    BY <1>1, <1>2 DEF TypeOK, RecordFailure
  <2>2. attempts' = AfterFailure(i) /\ streak[i] < MaxCount /\ ip \in Fresh
    BY <1>1, <1>2, <2>1, LockedIsFresh DEF RecordFailure
  <2>3. CASE i # ip
    <3>1. ip \in DOMAIN attempts' /\ attempts'[ip] = attempts[ip]
      BY <1>1, <2>2, <2>3, AfterFailureMap
    <3> QED BY <1>1, <3>1
  <2>4. CASE i = ip
    <3>1. attempts'[ip] = Failed(attempts[ip]) /\ ip \in DOMAIN attempts'
      BY <1>1, <2>2, <2>4, AfterFailureMap
    <3>2. /\ attempts[ip].count \in FailuresBeforeBackoff + 1 .. MaxCount
          /\ attempts[ip].count + 1 > FailuresBeforeBackoff
      BY <1>1, <2>2, <2>4, LockedIsFresh, LimitsAssumption, ClockAssumption
         DEF IInv, CountsTheStreak, Record
    <3>3. /\ Backoff(attempts[ip].count) <= Backoff(attempts[ip].count + 1)
          /\ Backoff(attempts[ip].count) \in Nat
          /\ Backoff(attempts[ip].count + 1) \in Nat
      BY <3>2, BackoffRange, LimitsAssumption, ClockAssumption DEF BackoffGrows
    <3>4. /\ attempts[ip].lastAttempt <= now /\ attempts[ip] \in Record /\ now \in Nat
          /\ attempts[ip].lockUntil = attempts[ip].lastAttempt + Backoff(attempts[ip].count)
      BY <1>1, LockedIsFresh DEF TypeOK
    <3>5. Failed(attempts[ip]).lockUntil = now + Backoff(attempts[ip].count + 1)
      BY <3>2 DEF Failed
    <3> QED BY <3>1, <3>3, <3>4, <3>5 DEF Record
  <2> QED BY <2>3, <2>4
<1>3. ASSUME NEW s \in Submissions, RecordSuccess(s)
      PROVE  ip \in DOMAIN attempts' /\ attempts'[ip].lockUntil >= attempts[ip].lockUntil
  <2>1. checking[s] # ip
    BY <1>3 DEF Succeeded
  <2> QED BY <1>1, <1>3, <2>1 DEF RecordSuccess
<1>4. CASE attempts' = attempts
  BY <1>1, <1>4
<1> QED BY <1>2, <1>3, <1>4 DEF Next, Allow, BadForm, Tick, vars

\* An address that is locked out stays so until its time, unless a login of it that
\* was already being checked succeeds.
THEOREM LockoutNeverCut == ASSUME BackoffGrows PROVE Spec => LockoutNotCut
<1>1. Init => IInv /\ LockFromLast
  BY IInvInit DEF Init, LockFromLast
<1>2. IInv /\ LockFromLast /\ [Next]_vars => (IInv /\ LockFromLast)'
  BY IInvStep, LockFromLastStep
<1>3. IInv /\ LockFromLast /\ [Next]_vars
        => [\A ip \in Ips :
              Locked(ip) /\ ~Succeeded(ip)
                => /\ ip \in DOMAIN attempts'
                   /\ attempts'[ip].lockUntil >= attempts[ip].lockUntil]_vars
  BY NotCutStep
<1> QED BY <1>1, <1>2, <1>3, PTL DEF Spec, LockoutNotCut

-----------------------------------------------------------------------------
(* With OddBits = 55, as in the code, the shifts up to 30 keep the whole    *)
(* odd factor (21 bits), so that the backoff doubles up to the cap, and     *)
(* every longer shift gives the cap, overflow or not.                       *)

\* The powers of two that the model computes; the prover knows them one by one only.
LEMMA PowersDouble == ASSUME NEW n \in 0 .. 30 PROVE 2^n \in Nat \ {0} /\ 2^n <= 2^(n + 1)
<1>1.  CASE n = 0 BY <1>1
<1>2.  CASE n = 1 BY <1>2
<1>3.  CASE n = 2 BY <1>3
<1>4.  CASE n = 3 BY <1>4
<1>5.  CASE n = 4 BY <1>5
<1>6.  CASE n = 5 BY <1>6
<1>7.  CASE n = 6 BY <1>7
<1>8.  CASE n = 7 BY <1>8
<1>9.  CASE n = 8 BY <1>9
<1>10. CASE n = 9 BY <1>10
<1>11. CASE n = 10 BY <1>11
<1>12. CASE n = 11 BY <1>12
<1>13. CASE n = 12 BY <1>13
<1>14. CASE n = 13 BY <1>14
<1>15. CASE n = 14 BY <1>15
<1>16. CASE n = 15 BY <1>16
<1>17. CASE n = 16 BY <1>17
<1>18. CASE n = 17 BY <1>18
<1>19. CASE n = 18 BY <1>19
<1>20. CASE n = 19 BY <1>20
<1>21. CASE n = 20 BY <1>21
<1>22. CASE n = 21 BY <1>22
<1>23. CASE n = 22 BY <1>23
<1>24. CASE n = 23 BY <1>24
<1>25. CASE n = 24 BY <1>25
<1>26. CASE n = 25 BY <1>26
<1>27. CASE n = 26 BY <1>27
<1>28. CASE n = 27 BY <1>28
<1>29. CASE n = 28 BY <1>29
<1>30. CASE n = 29 BY <1>30
<1>31. CASE n = 30 BY <1>31
<1> QED
  BY <1>1, <1>2, <1>3, <1>4, <1>5, <1>6, <1>7, <1>8, <1>9, <1>10, <1>11, <1>12, <1>13,
     <1>14, <1>15, <1>16, <1>17, <1>18, <1>19, <1>20, <1>21, <1>22, <1>23, <1>24, <1>25,
     <1>26, <1>27, <1>28, <1>29, <1>30, <1>31

\* The shift before the cap: a power of two up to 30, nothing usable from there on.
LEMMA WideShift ==
  ASSUME OddBits > 51, NEW shift \in Nat
  PROVE  /\ shift <= 30 /\ 2^shift <= MaxBackoff => SecondShifted(shift) = 2^shift
         /\ shift > 30 \/ 2^shift > MaxBackoff =>
              SecondShifted(shift) \in {0, MaxBackoff + 1}
<1>1. SecondOdd \in Nat \ {0} /\ MaxBackoff \in Nat /\ OddBits \in Nat
  BY SecondAssumption, LimitsAssumption
<1>2. (MaxBackoff * SecondOdd) \div SecondOdd = MaxBackoff
  BY <1>1
<1>3. CASE shift <= 30
  <2>1. OddBits - shift > 21
    BY <1>1, <1>3
  <2>2. SecondShifted(shift) = IF 2^shift > MaxBackoff THEN MaxBackoff + 1 ELSE 2^shift
    BY <1>1, <1>2, <1>3, <2>1 DEF SecondShifted
  <2>3. 2^shift \in Nat
    <3>1. shift \in 0 .. 30
      BY <1>3
    <3> QED BY <3>1, PowersDouble
  <2> QED BY <1>1, <1>3, <2>2, <2>3
<1>4. CASE shift > 30
  BY <1>4 DEF SecondShifted
<1> QED BY <1>3, <1>4

LEMMA WideGrows == ASSUME OddBits > 51 PROVE BackoffGrows
<1> SUFFICES ASSUME NEW n \in FailuresBeforeBackoff + 1 .. MaxCount
             PROVE  Backoff(n) <= Backoff(n + 1)
  BY DEF BackoffGrows
<1> DEFINE shift == n - FailuresBeforeBackoff - 1
<1>1. /\ n \in Nat /\ shift \in Nat /\ (n + 1) - FailuresBeforeBackoff - 1 = shift + 1
      /\ MaxBackoff \in Nat \ {0}
  BY LimitsAssumption, ClockAssumption
<1>2. /\ Backoff(n) = IF SecondShifted(shift) \in 1 .. MaxBackoff
                      THEN SecondShifted(shift) ELSE MaxBackoff
      /\ Backoff(n + 1) = IF SecondShifted(shift + 1) \in 1 .. MaxBackoff
                          THEN SecondShifted(shift + 1) ELSE MaxBackoff
  BY <1>1 DEF Backoff
<1> HIDE DEF shift
<1>3. Backoff(n) \in 1 .. MaxBackoff /\ Backoff(n + 1) \in 1 .. MaxBackoff
  BY <1>1, BackoffRange
<1>4. CASE shift + 1 > 30 \/ 2^(shift + 1) > MaxBackoff
  <2>1. SecondShifted(shift + 1) \in {0, MaxBackoff + 1}
    BY <1>1, <1>4, WideShift
  <2>2. Backoff(n + 1) = MaxBackoff
    BY <1>1, <1>2, <2>1
  <2> QED BY <1>1, <1>3, <2>2
<1>5. CASE shift + 1 <= 30 /\ ~(2^(shift + 1) > MaxBackoff)
  <2>1. /\ shift \in 0 .. 30 /\ shift + 1 \in 0 .. 30
        /\ 2^shift \in Nat \ {0} /\ 2^(shift + 1) \in Nat \ {0} /\ 2^shift <= 2^(shift + 1)
    <3>1. shift \in 0 .. 30 /\ shift + 1 \in 0 .. 30
      BY <1>1, <1>5
    <3>2. 2^shift \in Nat \ {0} /\ 2^shift <= 2^(shift + 1)
      BY <3>1, PowersDouble
    <3> DEFINE next == shift + 1
    <3>3. 2^next \in Nat \ {0}
      <4>1. next \in 0 .. 30
        BY <3>1
      <4> HIDE DEF next
      <4> QED BY <4>1, PowersDouble
    <3> QED BY <3>1, <3>2, <3>3
  <2>2. 2^(shift + 1) <= MaxBackoff /\ 2^shift <= MaxBackoff
    BY <1>1, <1>5, <2>1
  <2>3. SecondShifted(shift) = 2^shift /\ SecondShifted(shift + 1) = 2^(shift + 1)
    BY <1>1, <1>5, <2>1, <2>2, WideShift
  <2> QED BY <1>1, <1>2, <2>1, <2>2, <2>3
<1> QED BY <1>1, <1>4, <1>5, PowersDouble

\* With a time.Duration as wide as Go's, whatever the limits are, a lockout is never
\* cut short: the shift that overflows for an address that fails and fails does not
\* let it in earlier.
THEOREM LockoutNeverCutByOverflow == ASSUME OddBits > 51 PROVE Spec => LockoutNotCut
BY WideGrows, LockoutNeverCut
=============================================================================
