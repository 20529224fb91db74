------------------------ MODULE SessionManagerProofs ------------------------
(***************************************************************************)
(* Proofs about SessionManager, for all sets of sessions and requests, all *)
(* timeouts and all bounds.                                                *)
(*                                                                         *)
(* The inductive invariant relates every copy of a session's claims (in a  *)
(* cookie, in a request, in the revocation map) to the session's history:  *)
(* all copies carry the deadline fixed at login, and none was seen later   *)
(* than the session's last authenticated request.                          *)
(***************************************************************************)
EXTENDS SessionManager, TLAPS

CopyOf(c) ==
  /\ c.id \in DOMAIN loginAt
  /\ c.expiresAt = loginAt[c.id] + AbsoluteLife
  /\ c.lastSeen <= activeAt[c.id]

CookieCopies == \A c \in cookies : CopyOf(c)
RequestCopies == \A r \in Requests : claims[r] # NoClaims => CopyOf(claims[r])
RevokedCopies ==
  \A i \in DOMAIN revoked : i \in DOMAIN loginAt /\ revoked[i] = loginAt[i] + AbsoluteLife

IInv ==
  /\ TypeOK
  /\ CookieCopies /\ RequestCopies /\ RevokedCopies
  /\ loggedOut \subseteq DOMAIN loginAt
  /\ \A i \in DOMAIN loginAt : activeAt[i] <= now
  /\ RevocationsKept

-----------------------------------------------------------------------------

\* What Put does to a map: k is bound to v, every other key keeps its value.
LEMMA PutMap ==
  ASSUME NEW f, IsMap(f), NEW k \in SessionIds, NEW v \in Nat
  PROVE  /\ IsMap(Put(f, k, v))
         /\ DOMAIN Put(f, k, v) = DOMAIN f \cup {k}
         /\ Put(f, k, v)[k] = v
         /\ \A i \in DOMAIN f : i # k => Put(f, k, v)[i] = f[i]
BY DEF IsMap, Put

\* What one logout does to the revocation map: it keeps, at their deadlines, the
\* entries that are not past them, and adds the session unless it is.
LEMMA RevokedAfterMap ==
  ASSUME IsMap(revoked), now \in Nat, NEW c \in Claims
  PROVE  /\ IsMap(RevokedAfter(c))
         /\ \A i \in DOMAIN RevokedAfter(c) :
              RevokedAfter(c)[i] = IF i = c.id THEN c.expiresAt ELSE revoked[i]
         /\ \A i \in DOMAIN RevokedAfter(c) : i = c.id \/ i \in DOMAIN revoked
         /\ \A i \in DOMAIN revoked \ {c.id} :
              i \in DOMAIN RevokedAfter(c) \/ now > revoked[i]
         /\ c.id \in DOMAIN RevokedAfter(c) \/ now > c.expiresAt
<1> DEFINE marked == Put(revoked, c.id, c.expiresAt)
           kept == {j \in DOMAIN marked : ~(now > marked[j])}
<1>1. c.id \in SessionIds /\ c.expiresAt \in Nat
  BY DEF Claims
<1>2. /\ IsMap(marked) /\ DOMAIN marked = DOMAIN revoked \cup {c.id}
      /\ marked[c.id] = c.expiresAt
      /\ \A i \in DOMAIN revoked : i # c.id => marked[i] = revoked[i]
  BY <1>1, PutMap
<1>3. RevokedAfter(c) = [i \in kept |-> marked[i]]
  BY DEF RevokedAfter
<1>4. IsMap(RevokedAfter(c))
  <2> HIDE DEF marked
  <2> QED BY <1>2, <1>3 DEF IsMap
<1> HIDE DEF marked
<1> QED BY <1>2, <1>3, <1>4

-----------------------------------------------------------------------------

\* The initial state has the declared types.
LEMMA TypeCorrectInit == Init => TypeOK
BY BoundsAssumption DEF Init, TypeOK, IsMap, EmptyMap, Phases

\* Every step keeps the types.
LEMMA TypeCorrectStep == TypeOK /\ [Next]_vars => TypeOK'
<1> SUFFICES ASSUME TypeOK, [Next]_vars PROVE TypeOK'
  OBVIOUS
<1> USE DEF TypeOK
<1>1. ASSUME NEW id \in SessionIds, Issue(id) PROVE TypeOK'
  <2>1. NewClaims(id) \in Claims
    BY DurationsAssumption DEF NewClaims, Claims, server
  <2>2. IsMap(loginAt') /\ DOMAIN loginAt' = DOMAIN loginAt \cup {id}
    BY <1>1, PutMap DEF Issue
  <2>3. activeAt' \in [DOMAIN loginAt' -> Nat]
    BY <1>1, <2>2 DEF Issue, Put
  <2> QED BY <1>1, <2>1, <2>2, <2>3 DEF Issue, server
<1>2. ASSUME NEW r \in Requests, NEW c \in cookies, CheckTimes(r, c) PROVE TypeOK'
  BY <1>2, NoClaimsAssumption DEF CheckTimes, Proceed, Phases, server, history
<1>3. ASSUME NEW r \in Requests, LookupRevoked(r) PROVE TypeOK'
  BY <1>3 DEF LookupRevoked, Proceed, Phases, server, history
<1>4. ASSUME NEW r \in Requests, Refresh(r) PROVE TypeOK'
  <2>1. claims[r] \in Claims
    BY <1>4 DEF Refresh
  <2>2. Touched(claims[r]) \in Claims
    BY <2>1 DEF Touched, Claims
  <2> QED BY <1>4, <2>1, <2>2, NoClaimsAssumption DEF Refresh, Proceed, Phases, server
<1>5. ASSUME NEW r \in Requests, Finish(r) PROVE TypeOK'
  BY <1>5 DEF Finish, Proceed, Phases, server, history
<1>6. ASSUME NEW r \in Requests, Logout(r) PROVE TypeOK'
  <2>1. claims[r] \in Claims /\ claims[r].id \in SessionIds
    BY <1>6 DEF Logout, Claims
  <2> QED BY <1>6, <2>1, RevokedAfterMap DEF Logout, Proceed, Phases, server
<1>7. CASE Restart
  BY <1>7 DEF Restart, Phases, IsMap, EmptyMap
<1>8. CASE Tick
  BY <1>8 DEF Tick, server, history
<1>9. CASE UNCHANGED vars
  BY <1>9 DEF vars, server, history
<1> QED BY <1>1, <1>2, <1>3, <1>4, <1>5, <1>6, <1>7, <1>8, <1>9 DEF Next

\* The model's variables keep their types.
THEOREM TypeCorrect == Spec => []TypeOK
BY TypeCorrectInit, TypeCorrectStep, PTL DEF Spec


-----------------------------------------------------------------------------

\* A step that leaves the history alone, or only adds to it, keeps a copy valid.
LEMMA CopyKept ==
  ASSUME NEW c \in Claims, TypeOK, TypeOK', CopyOf(c),
         DOMAIN loginAt \subseteq DOMAIN loginAt',
         \A i \in DOMAIN loginAt : loginAt'[i] = loginAt[i] /\ activeAt[i] <= activeAt'[i]
  PROVE  CopyOf(c)'
<1>1. c.id \in SessionIds /\ c.expiresAt \in Nat /\ c.lastSeen \in Nat
  BY DEF Claims
<1>2. activeAt[c.id] \in Nat /\ activeAt'[c.id] \in Nat
  BY DEF TypeOK, CopyOf
<1> QED BY <1>1, <1>2 DEF CopyOf

\* The inductive invariant holds initially.
LEMMA IInvInit == Init => IInv
BY TypeCorrectInit DEF Init, IInv, CookieCopies, RequestCopies, RevokedCopies,
   RevocationsKept, IsMap, EmptyMap

\* Every step keeps the inductive invariant.
LEMMA IInvStep == IInv /\ [Next]_vars => IInv'
<1> SUFFICES ASSUME IInv, [Next]_vars PROVE IInv'
  OBVIOUS
<1>1. TypeOK /\ TypeOK'
  BY TypeCorrectStep DEF IInv
<1>2. ASSUME NEW id \in SessionIds, Issue(id) PROVE IInv'
  <2>1. /\ id \notin DOMAIN loginAt
        /\ DOMAIN loginAt' = DOMAIN loginAt \cup {id}
        /\ loginAt'[id] = now /\ activeAt'[id] = now
        /\ \A i \in DOMAIN loginAt : loginAt'[i] = loginAt[i] /\ activeAt'[i] = activeAt[i]
    BY <1>1, <1>2 DEF Issue, Put, TypeOK
  <2>2. \A c \in Claims : CopyOf(c) => CopyOf(c)'
    BY <2>1 DEF CopyOf
  <2>3. PICK n \in Claims : n = NewClaims(id)
    <3>1. NewClaims(id) \in Claims
      BY <1>1, DurationsAssumption DEF NewClaims, Claims, TypeOK
    <3> QED BY <3>1
  <2>4. CookieCopies'
    <3>1. CopyOf(n)'
      BY <1>1, <2>1, <2>3 DEF CopyOf, NewClaims, TypeOK
    <3> QED BY <1>1, <1>2, <2>2, <2>3, <3>1 DEF IInv, CookieCopies, Issue, TypeOK
  <2>5. RequestCopies'
    BY <1>1, <1>2, <2>2 DEF IInv, RequestCopies, Issue, TypeOK
  <2>6. RevokedCopies'
    BY <1>2, <2>1 DEF IInv, RevokedCopies, Issue
  <2>7. (\A i \in DOMAIN loginAt : activeAt[i] <= now)'
    BY <1>1, <1>2, <2>1 DEF IInv, Issue, TypeOK
  <2>8. RevocationsKept'
    BY <1>1, <1>2, <2>1 DEF IInv, RevocationsKept, PastLife, Issue, TypeOK
  <2> QED BY <1>1, <1>2, <2>1, <2>4, <2>5, <2>6, <2>7, <2>8 DEF IInv, Issue
<1>3. ASSUME NEW r \in Requests, NEW c \in cookies, CheckTimes(r, c) PROVE IInv'
  <2>1. CopyOf(c)
    BY DEF IInv, CookieCopies
  <2> QED BY <1>1, <1>3, <2>1
     DEF IInv, TypeOK, CheckTimes, Proceed, server, history, CookieCopies, RequestCopies,
         RevokedCopies, RevocationsKept, CopyOf, PastLife
<1>4. ASSUME NEW r \in Requests, LookupRevoked(r) PROVE IInv'
  BY <1>1, <1>4
     DEF IInv, TypeOK, LookupRevoked, Proceed, server, history, CookieCopies,
         RequestCopies, RevokedCopies, RevocationsKept, CopyOf, PastLife
<1>5. ASSUME NEW r \in Requests, Refresh(r) PROVE IInv'
  <2>1. PICK c \in Claims : c = claims[r]
    BY <1>1, <1>5 DEF TypeOK, Refresh
  <2>2. CopyOf(c)
    BY <1>1, <1>5, <2>1, NoClaimsAssumption DEF IInv, RequestCopies
  <2>3. /\ loginAt' = loginAt /\ activeAt'[c.id] = now
        /\ \A i \in DOMAIN loginAt : activeAt[i] <= activeAt'[i] /\ activeAt'[i] <= now'
    BY <1>1, <1>5, <2>1, <2>2 DEF IInv, Refresh, TypeOK, CopyOf
  <2>4. \A d \in Claims : CopyOf(d) => CopyOf(d)'
    BY <1>1, <2>3, CopyKept
  <2>5. PICK t \in Claims : t = Touched(claims[r])
    BY <1>1, <2>1 DEF Touched, Claims, TypeOK
  <2>6. t.id = c.id /\ t.expiresAt = c.expiresAt /\ t.lastSeen = now
    BY <2>1, <2>5 DEF Touched, Claims
  <2>7. CookieCopies' /\ RequestCopies'
    <3>1. CopyOf(t)'
      BY <1>1, <2>2, <2>3, <2>6 DEF CopyOf, TypeOK
    <3>2. cookies' = cookies \cup {t} /\ claims' = [claims EXCEPT ![r] = t]
      BY <1>5, <2>5 DEF Refresh, Proceed
    <3> QED BY <1>1, <2>4, <3>1, <3>2 DEF IInv, CookieCopies, RequestCopies, TypeOK
  <2>8. RevokedCopies' /\ RevocationsKept'
    BY <1>5 DEF IInv, RevokedCopies, RevocationsKept, PastLife, Refresh
  <2> QED BY <1>1, <1>5, <2>3, <2>7, <2>8 DEF IInv, Refresh
<1>6. ASSUME NEW r \in Requests, Finish(r) PROVE IInv'
  BY <1>1, <1>6
     DEF IInv, TypeOK, Finish, Proceed, server, history, CookieCopies,
         RequestCopies, RevokedCopies, RevocationsKept, CopyOf, PastLife
<1>7. ASSUME NEW r \in Requests, Logout(r) PROVE IInv'
  <2> DEFINE c == claims[r]
  <2>1. c \in Claims /\ c.id \in DOMAIN loginAt /\ c.expiresAt = loginAt[c.id] + AbsoluteLife
    BY <1>1, <1>7 DEF IInv, TypeOK, RequestCopies, CopyOf, Logout
  <2>2. /\ revoked' = RevokedAfter(c) /\ now' = now /\ loginAt' = loginAt
        /\ loggedOutThisRun' = loggedOutThisRun \cup {c.id}
    BY <1>7 DEF Logout
  <2>3. RevokedCopies'
    BY <1>1, <2>1, <2>2, RevokedAfterMap DEF IInv, TypeOK, RevokedCopies
  <2>4. RevocationsKept'
    BY <1>1, <2>1, <2>2, RevokedAfterMap
       DEF IInv, TypeOK, RevokedCopies, RevocationsKept, PastLife
  <2>5. CookieCopies' /\ RequestCopies'
    BY <1>1, <1>7 DEF IInv, TypeOK, CookieCopies, RequestCopies, CopyOf, Logout, Proceed
  <2> QED BY <1>1, <1>7, <2>1, <2>3, <2>4, <2>5 DEF IInv, Logout
<1>8. CASE Restart
  BY <1>1, <1>8
     DEF IInv, TypeOK, Restart, server, CookieCopies, EmptyMap,
         RequestCopies, RevokedCopies, RevocationsKept, CopyOf, PastLife
<1>9. CASE Tick
  <2>1. now' = now + 1 /\ now \in Nat
    BY <1>1, <1>9 DEF Tick, TypeOK
  <2>2. CookieCopies' /\ RequestCopies' /\ RevokedCopies'
    BY <1>9 DEF IInv, Tick, history, CookieCopies, RequestCopies, RevokedCopies, CopyOf
  <2>3. (\A i \in DOMAIN loginAt : activeAt[i] <= now)'
    BY <1>1, <1>9, <2>1 DEF IInv, Tick, history, TypeOK
  <2>4. RevocationsKept'
    <3>1. \A id \in loggedOutThisRun : loginAt[id] \in Nat
      BY <1>1 DEF IInv, TypeOK, IsMap
    <3> QED BY <1>1, <1>9, <2>1, <3>1, DurationsAssumption
       DEF IInv, Tick, history, RevocationsKept, PastLife
  <2> QED BY <1>1, <1>9, <2>2, <2>3, <2>4 DEF IInv, Tick, history
<1>10. CASE UNCHANGED vars
  BY <1>1, <1>10
     DEF IInv, vars, server, history, CookieCopies,
         RequestCopies, RevokedCopies, RevocationsKept, CopyOf, PastLife
<1> QED BY <1>2, <1>3, <1>4, <1>5, <1>6, <1>7, <1>8, <1>9, <1>10 DEF Next

\* The inductive invariant is one.
LEMMA IInvAlways == Spec => []IInv
BY IInvInit, IInvStep, PTL DEF Spec

-----------------------------------------------------------------------------

\* A logout is remembered until the session's deadline.
THEOREM RevocationsAlwaysKept == Spec => []RevocationsKept
<1>1. IInv => RevocationsKept
  BY DEF IInv
<1> QED BY <1>1, IInvAlways, PTL

\* Logout sticks: verify's lookup accepts no logged-out session before its deadline.
THEOREM LogoutAlwaysSticks == Spec => LogoutSticks
<1>1. IInv /\ [Next]_vars =>
        [\A r \in Requests :
           Accepted(r) /\ claims[r].id \in loggedOutThisRun => PastLife(claims[r].id)]_vars
  <2> SUFFICES ASSUME IInv, [Next]_vars, NEW r \in Requests, Accepted(r),
                      claims[r].id \in loggedOutThisRun
               PROVE  PastLife(claims[r].id)
    OBVIOUS
  <2>1. LookupRevoked(r)
    BY DEF IInv, TypeOK, Next, Accepted, Issue, CheckTimes, LookupRevoked, Refresh, Finish,
           Logout, Restart, Tick, Proceed, Phases, vars
  <2>2. claims[r].id \notin DOMAIN revoked
    BY <2>1 DEF LookupRevoked, IsRevoked, Accepted, Proceed, IInv, TypeOK
  <2> QED BY <2>2 DEF IInv, RevocationsKept
<1> QED BY <1>1, IInvAlways, PTL DEF Spec, LogoutSticks

\* No request is admitted after the session's absolute lifetime.
THEOREM AlwaysServedWithinLifetime == Spec => ServedWithinLifetime
<1>1. IInv /\ [Next]_vars =>
        [\A r \in Requests : Admitted(r) => ~PastLife(claims'[r].id)]_vars
  <2> SUFFICES ASSUME IInv, [Next]_vars, NEW r \in Requests, Admitted(r)
               PROVE  ~PastLife(claims'[r].id)
    OBVIOUS
  <2>1. PICK c \in cookies : CheckTimes(r, c)
    BY DEF IInv, TypeOK, Next, Admitted, Issue, CheckTimes, LookupRevoked, Refresh, Finish,
           Logout, Restart, Tick, Proceed, Phases, vars
  <2>2. claims'[r] = c
    BY <2>1 DEF CheckTimes, Proceed, IInv, TypeOK
  <2> QED BY <2>1, <2>2 DEF CheckTimes, TimesValid, IInv, CookieCopies, CopyOf, PastLife
<1> QED BY <1>1, IInvAlways, PTL DEF Spec, ServedWithinLifetime

\* A session past a deadline with nothing in flight never comes back.
THEOREM DeadAlwaysStaysDead == Spec => DeadStaysDead
<1>1. IInv /\ [Next]_vars => [\A id \in SessionIds : Dead(id) => Dead(id)']_vars
  <2> SUFFICES ASSUME IInv, IInv', [Next]_vars, NEW id \in SessionIds, Dead(id)
               PROVE  Dead(id)'
    BY IInvStep
  <2>1. /\ id \in DOMAIN loginAt /\ loginAt[id] \in Nat /\ activeAt[id] \in Nat /\ now \in Nat
        /\ \A r \in Requests : claims[r] # NoClaims => claims[r].id # id
    BY DEF Dead, InFlight, IInv, TypeOK, IsMap
  <2>2. ASSUME NEW r \in Requests, NEW c \in cookies, CheckTimes(r, c) PROVE c.id # id
    BY <2>1, <2>2, DurationsAssumption
       DEF CheckTimes, TimesValid, IInv, TypeOK, Claims, CookieCopies, CopyOf,
           Dead, PastLife, PastIdle
  <2>3. /\ id \in DOMAIN loginAt' /\ loginAt'[id] = loginAt[id]
        /\ activeAt'[id] = activeAt[id]
    <3>1. ASSUME NEW new \in SessionIds, Issue(new) PROVE <2>3!:
      BY <2>1, <3>1 DEF IInv, TypeOK, Issue, Put
    <3>2. ASSUME NEW r \in Requests, Refresh(r) PROVE <2>3!:
      BY <2>1, <3>2 DEF IInv, TypeOK, Refresh
    <3>3. CASE loginAt' = loginAt /\ activeAt' = activeAt
      BY <2>1, <3>3
    <3> QED BY <3>1, <3>2, <3>3 DEF Next, CheckTimes, LookupRevoked, Finish, Logout,
               Restart, Tick, vars, history
  <2>4. now <= now'
    BY <2>1 DEF Next, Issue, CheckTimes, LookupRevoked, Refresh, Finish,
           Logout, Restart, Tick, vars
  <2>5. \A r \in Requests : claims'[r] # NoClaims => claims'[r].id # id
    BY <2>1, <2>2 DEF IInv, TypeOK, Next, Issue, CheckTimes, LookupRevoked, Refresh, Finish,
           Logout, Restart, Tick, Proceed, vars, server, history, Touched, Claims
  <2> QED BY <2>1, <2>3, <2>5, <2>4, DurationsAssumption
     DEF Dead, InFlight, PastLife, PastIdle, IInv, TypeOK
<1> QED BY <1>1, IInvAlways, PTL DEF Spec, DeadStaysDead

-----------------------------------------------------------------------------
(* A session in use                                                        *)

\* Every session has a cookie that was handed out at its last activity.
HasLatest(id) == \E c \in cookies : c.id = id /\ c.lastSeen = activeAt[id]
Latest == \A id \in DOMAIN loginAt : HasLatest(id)

\* Only logged-out sessions are revoked.
RevokedLoggedOut == DOMAIN revoked \subseteq loggedOut

\* Every step keeps a latest cookie of each session: old ones are never withdrawn,
\* and whatever counts as activity hands out a new one.
LEMMA LatestStep == IInv /\ Latest /\ [Next]_vars => Latest'
<1> SUFFICES ASSUME IInv, Latest, [Next]_vars PROVE Latest'
  OBVIOUS
<1>1. ASSUME NEW new \in SessionIds, Issue(new) PROVE Latest'
  <2>1. /\ DOMAIN loginAt' = DOMAIN loginAt \cup {new} /\ activeAt'[new] = now
        /\ \A id \in DOMAIN loginAt : id # new /\ activeAt'[id] = activeAt[id]
        /\ cookies' = cookies \cup {NewClaims(new)}
    BY <1>1 DEF Issue, Put, IInv, TypeOK
  <2>2. NewClaims(new).id = new /\ NewClaims(new).lastSeen = now
    BY DEF NewClaims
  <2>3. HasLatest(new)'
    BY <2>1, <2>2 DEF HasLatest
  <2>4. ASSUME NEW id \in DOMAIN loginAt PROVE HasLatest(id)'
    BY <2>1 DEF Latest, HasLatest
  <2> QED BY <2>1, <2>3, <2>4 DEF Latest
<1>2. ASSUME NEW r \in Requests, Refresh(r) PROVE Latest'
  <2>1. PICK c \in Claims : c = claims[r]
    BY <1>2 DEF Refresh, IInv, TypeOK
  <2>2. /\ loginAt' = loginAt /\ cookies' = cookies \cup {Touched(c)}
        /\ activeAt' = [activeAt EXCEPT ![c.id] = now]
    BY <1>2, <2>1 DEF Refresh
  <2>3. Touched(c).id = c.id /\ Touched(c).lastSeen = now
    BY <2>1 DEF Touched, Claims
  <2>4. ASSUME NEW id \in DOMAIN loginAt, id = c.id PROVE HasLatest(id)'
    BY <2>2, <2>3, <2>4 DEF HasLatest, IInv, TypeOK
  <2>5. ASSUME NEW id \in DOMAIN loginAt, id # c.id PROVE HasLatest(id)'
    BY <2>2, <2>5 DEF Latest, HasLatest, IInv, TypeOK
  <2> QED BY <2>2, <2>4, <2>5 DEF Latest
<1>3. CASE UNCHANGED <<cookies, loginAt, activeAt>>
  BY <1>3 DEF Latest, HasLatest
<1> QED BY <1>1, <1>2, <1>3
   DEF Next, CheckTimes, LookupRevoked, Finish, Logout, Restart, Tick, vars, history

\* Every step revokes only what it logs out.
LEMMA RevokedLoggedOutStep == IInv /\ RevokedLoggedOut /\ [Next]_vars => RevokedLoggedOut'
<1> SUFFICES ASSUME IInv, RevokedLoggedOut, [Next]_vars PROVE RevokedLoggedOut'
  OBVIOUS
<1>1. ASSUME NEW r \in Requests, Logout(r) PROVE RevokedLoggedOut'
  <2>1. claims[r] \in Claims
    BY <1>1 DEF Logout, IInv, TypeOK
  <2> QED BY <1>1, <2>1, RevokedAfterMap DEF Logout, IInv, TypeOK, RevokedLoggedOut
<1>2. CASE Restart
  BY <1>2 DEF Restart, RevokedLoggedOut, EmptyMap
<1>3. CASE UNCHANGED <<revoked, loggedOut>>
  BY <1>3 DEF RevokedLoggedOut
<1> QED BY <1>1, <1>2, <1>3
   DEF Next, Issue, CheckTimes, LookupRevoked, Refresh, Finish, Tick, vars, history

\* A session in use keeps working: its latest cookie passes every check of verify
\* while both deadlines are ahead, it was never logged out and the secret is kept.
THEOREM LiveSessionAlwaysUsable == Spec => []LiveSessionUsable
<1>1. Init => Latest /\ RevokedLoggedOut
  BY DEF Init, Latest, RevokedLoggedOut, EmptyMap
<1>2. IInv /\ Latest /\ RevokedLoggedOut => LiveSessionUsable
  <2> SUFFICES ASSUME IInv, Latest, RevokedLoggedOut,
                      NEW id \in DOMAIN loginAt, id \notin loggedOut,
                      ~PastLife(id), ~PastIdle(id),
                      \A c \in cookies : c.id = id => c.key = secret
               PROVE  Usable(id)
    BY DEF LiveSessionUsable
  <2>1. PICK c \in cookies : c.id = id /\ c.lastSeen = activeAt[id]
    BY DEF Latest, HasLatest
  <2>2. SignatureValid(c) /\ ~IsRevoked(c)
    BY <2>1 DEF SignatureValid, IsRevoked, RevokedLoggedOut
  <2>3. c.expiresAt = loginAt[id] + AbsoluteLife
    BY <2>1 DEF IInv, CookieCopies, CopyOf
  <2>4. TimesValid(c)
    BY <2>1, <2>3 DEF TimesValid, PastLife, PastIdle
  <2> QED BY <2>1, <2>2, <2>4 DEF Usable
<1> QED BY <1>1, <1>2, IInvAlways, LatestStep, RevokedLoggedOutStep, PTL DEF Spec
=============================================================================
