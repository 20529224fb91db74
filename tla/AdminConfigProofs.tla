-------------------------- MODULE AdminConfigProofs --------------------------
(***************************************************************************)
(* Proofs about AdminConfig, for any number of concurrent commands and any *)
(* set of passwords.                                                       *)
(***************************************************************************)
EXTENDS AdminConfig, TLAPS

\* A write leaves the configuration that was written, or one that does not parse.
LEMMA OverwrittenValues ==
  ASSUME NEW c, NEW f \in Overwritten(c)
  PROVE  f = c \/ f = Mixed
BY DEF Overwritten

\* The initial state has the declared types.
LEMMA TypeInit == Init => TypeOK
<1> SUFFICES ASSUME Init PROVE TypeOK
  OBVIOUS
<1>1. /\ pc \in [Processes -> PCs] /\ \A c \in Commands : pc[c] # "running"
      /\ cfg \in [Processes -> Config \cup {NoConfig}]
      /\ \A p \in Processes : pc[p] = "idle" <=> cfg[p] = NoConfig
  BY DEF Init, PCs, Processes
<1>2. file \in Config \cup {Absent, Mixed} /\ acked \in Config
  BY DEF Init, Config
<1> QED BY <1>1, <1>2 DEF Init, TypeOK

\* Where the processes are and what they hold.
ProcessesOK ==
  /\ pc \in [Processes -> PCs] /\ \A c \in Commands : pc[c] # "running"
  /\ cfg \in [Processes -> Config \cup {NoConfig}]
  /\ \A p \in Processes : pc[p] = "idle" <=> cfg[p] = NoConfig

\* A process goes on with a configuration, or is idle without one.
LEMMA GotoTypes ==
  ASSUME TypeOK, NEW p \in Processes, NEW l \in PCs, NEW c \in Config \cup {NoConfig},
         l = "idle" <=> c = NoConfig, l = "running" => p = Server, Goto(p, l, c)
  PROVE  ProcessesOK'
BY ProcessesAssumption DEF TypeOK, Goto, Processes, ProcessesOK

\* A process ends without a configuration.
LEMMA QuitTypes ==
  ASSUME TypeOK, NEW p \in Processes, Quit(p)
  PROVE  ProcessesOK' /\ exposed' \in BOOLEAN /\ changing' \subseteq Passwords
<1>1. ProcessesOK'
  BY GotoTypes DEF Quit, PCs
<1> QED BY <1>1 DEF Quit, TypeOK

\* A save that breaks off leaves a configuration or a file that does not parse.
LEMMA BreakOffTypes ==
  ASSUME TypeOK, NEW p \in Processes, pc[p] # "idle", BreakOff(p)
  PROVE  file' \in Config \cup {Absent, Mixed} /\ failed' \subseteq Config
<1>1. cfg[p] \in Config
  BY DEF TypeOK
<1> QED BY <1>1 DEF BreakOff, BrokenOff, TypeOK, Config

\* Every step keeps the types.
LEMMA TypeStep == TypeOK /\ [Next]_vars => TypeOK'
<1> SUFFICES ASSUME TypeOK, [Next]_vars PROVE TypeOK'
  OBVIOUS
<1> USE AbsentAssumption, MixedAssumption DEF ProcessesOK, history
<1>0. \A p \in Processes : pc[p] # "idle" => cfg[p] \in Config
  BY DEF TypeOK
<1>1. ASSUME NEW p \in Processes, Load(p) PROVE TypeOK'
  BY <1>1, GotoTypes DEF Load, TypeOK, PCs
<1>2. ASSUME NEW p \in Processes, Bootstrap(p) PROVE TypeOK'
  <2>1. PICK pw \in Passwords \cup {Default} : Goto(p, "booting", pw)
    BY <1>2 DEF Bootstrap, Bootstrapped
  <2>2. pw \in Config
    BY DEF Config
  <2> QED BY <1>2, <2>1, <2>2, GotoTypes DEF Bootstrap, TypeOK, PCs
<1>3. ASSUME NEW p \in Processes, Truncate(p) PROVE TypeOK'
  <2>1. file' \in Config
    BY <1>3 DEF Truncate, Config
  <2> QED BY <1>0, <1>3, <2>1, GotoTypes DEF Truncate, TypeOK, PCs
<1>4. ASSUME NEW p \in Processes, Write(p) PROVE TypeOK'
  <2>1. cfg[p] \in Config
    BY <1>0, <1>4 DEF Write
  <2>2. file' \in Config \cup {Absent, Mixed}
    BY <1>4, <2>1, OverwrittenValues DEF Write
  <2> QED BY <1>4, <2>1, <2>2, GotoTypes DEF Write, TypeOK, PCs
<1>5. ASSUME NEW p \in Processes, SaveFails(p) PROVE TypeOK'
  <2>1. file' \in Config \cup {Absent, Mixed} /\ failed' \subseteq Config
    BY <1>5, BreakOffTypes DEF SaveFails
  <2>2. ProcessesOK' /\ exposed' \in BOOLEAN /\ changing' \subseteq Passwords
    <3>1. CASE p = Server /\ pc[p] \in {"saving", "savingTorn"}
      <4>1. Goto(p, "running", cfg[p]) /\ UNCHANGED <<exposed, changing>>
        BY <1>5, <3>1 DEF SaveFails, AfterFailure
      <4> QED BY <1>0, <3>1, <4>1, GotoTypes DEF TypeOK, PCs
    <3>2. CASE ~(p = Server /\ pc[p] \in {"saving", "savingTorn"})
      BY <1>5, <3>2, QuitTypes DEF SaveFails, AfterFailure
    <3> QED BY <3>1, <3>2
  <2> QED BY <1>5, <2>1, <2>2 DEF SaveFails, TypeOK
<1>6. ASSUME NEW c \in Commands, NEW pw \in Passwords, SetPassword(c, pw) PROVE TypeOK'
  <2>1. c \in Processes /\ pw \in Config
    BY DEF Processes, Config
  <2> QED BY <1>6, <2>1, GotoTypes DEF SetPassword, TypeOK, PCs
<1>7. ASSUME NEW c \in Commands, ResetPassword(c) PROVE TypeOK'
  <2>1. c \in Processes /\ Default \in Config
    BY DEF Processes, Config
  <2> QED BY <1>7, <2>1, GotoTypes DEF ResetPassword, TypeOK, PCs
<1>8. ASSUME NEW a \in BOOLEAN, NEW b \in BOOLEAN, NEW c \in BOOLEAN, Listen(a, b, c)
      PROVE  TypeOK'
  <2>1. exposed' \in BOOLEAN
    BY <1>8 DEF Listen, TypeOK
  <2> QED BY <1>0, <1>8, <2>1, GotoTypes DEF Listen, TypeOK, PCs, Processes
<1>9. ASSUME NEW pw \in Passwords, CheckChange(pw) PROVE TypeOK'
  BY <1>9 DEF CheckChange, TypeOK
<1>10. ASSUME NEW pw \in Passwords, ChangePassword(pw) PROVE TypeOK'
  <2>1. Server \in Processes /\ pw \in Config
    BY DEF Processes, Config
  <2>2. changing' \subseteq Passwords
    BY <1>10 DEF ChangePassword, TypeOK
  <2> QED BY <1>10, <2>1, <2>2, GotoTypes DEF ChangePassword, TypeOK, PCs
<1>11. ASSUME NEW p \in Processes, Exit(p) PROVE TypeOK'
  BY <1>11, QuitTypes, BreakOffTypes DEF Exit, TypeOK
<1>12. CASE RemoveFile
  BY <1>12 DEF RemoveFile, TypeOK, Config
<1>13. CASE UNCHANGED vars
  BY <1>13 DEF vars, TypeOK
<1> QED BY <1>1, <1>2, <1>3, <1>4, <1>5, <1>6, <1>7, <1>8, <1>9, <1>10, <1>11, <1>12, <1>13
        DEF Next

\* The model's variables keep their types.
THEOREM TypeCorrect == Spec => []TypeOK
BY TypeInit, TypeStep, PTL DEF Spec

-----------------------------------------------------------------------------

\* The inductive form of NeverExposedWithDefault: exposed is set only while the
\* server is past its guardrails.
ExposedInv ==
  exposed => /\ pc[Server] \in {"running", "saving", "savingTorn"}
             /\ cfg[Server] # Default

\* Every step keeps it: only Listen raises exposed, behind the guardrails, and
\* only ChangePassword touches the server's password.
LEMMA ExposedStep == TypeOK /\ ExposedInv /\ [Next]_vars => ExposedInv'
<1> SUFFICES ASSUME TypeOK, ExposedInv, [Next]_vars PROVE ExposedInv'
  OBVIOUS
<1> USE DEF ExposedInv, TypeOK, Goto, Processes
<1>1. ASSUME NEW p \in Processes,
             Load(p) \/ Bootstrap(p) \/ Truncate(p) \/ Write(p) \/ SaveFails(p) \/ Exit(p)
      PROVE  ExposedInv'
  <2>1. CASE p = Server
    BY <1>1, <2>1 DEF Load, Bootstrap, Truncate, Write, SaveFails, AfterFailure, Quit, Exit
  <2>2. CASE p # Server
    BY <1>1, <2>2 DEF Load, Bootstrap, Truncate, Write, SaveFails, AfterFailure, Quit, Exit
  <2> QED BY <2>1, <2>2
<1>2. ASSUME NEW c \in Commands, ResetPassword(c) \/ \E pw \in Passwords : SetPassword(c, pw)
      PROVE  ExposedInv'
  BY <1>2, ProcessesAssumption DEF ResetPassword, SetPassword
<1>3. ASSUME NEW a \in BOOLEAN, NEW b \in BOOLEAN, NEW c \in BOOLEAN, Listen(a, b, c)
      PROVE  ExposedInv'
  BY <1>3 DEF Listen, Guarded, IsDefaultPassword
<1>4. ASSUME NEW pw \in Passwords, ChangePassword(pw) PROVE ExposedInv'
  BY <1>4, PasswordsAssumption DEF ChangePassword
<1>5. CASE (\E pw \in Passwords : CheckChange(pw)) \/ RemoveFile \/ UNCHANGED vars
  BY <1>5 DEF CheckChange, RemoveFile, vars
<1> QED BY <1>1, <1>2, <1>3, <1>4, <1>5 DEF Next

\* No server that listens beyond loopback has the default password in force, so
\* forcedPasswordChangeRequired is false in every reachable state.
THEOREM NeverExposed == Spec => []NeverExposedWithDefault
<1>1. Init => ExposedInv
  BY DEF Init, ExposedInv
<1>2. ExposedInv => NeverExposedWithDefault
  BY DEF ExposedInv, NeverExposedWithDefault, IsDefaultPassword
<1> QED BY <1>1, <1>2, ExposedStep, TypeCorrect, PTL DEF Spec

-----------------------------------------------------------------------------

\* What NoOlderPassword allows the file to be.
Accounted ==
  \/ file \in {acked, Mixed}
  \/ file = Absent /\ acked = NoPassword
  \/ failed # {} /\ file \in failed \cup {NoPassword}

\* The inductive form of NoOlderPassword: it holds of the file during a save as
\* well, except that the file may be empty.
FileInv ==
  /\ Saving => Accounted \/ file = NoPassword
  /\ ~Saving => Accounted

\* A step that leaves the file, the history and who is within a save alone.
LEMMA FileUntouched ==
  ASSUME FileInv, UNCHANGED <<file, acked, failed>>, Saving' <=> Saving
  PROVE  FileInv'
BY DEF FileInv, Accounted

\* A step of p that starts or ends within no save leaves who is in one alone.
LEMMA NotTorn ==
  ASSUME TypeOK, NEW p \in Processes, NEW l, NEW c, ~Torn(p), Goto(p, l, c),
         l \notin {"bootingTorn", "savingTorn"}
  PROVE  Saving' <=> Saving
BY DEF Saving, Torn, Goto, TypeOK

\* A save that breaks off leaves a file that is accounted for.
LEMMA BreakOffAccounted ==
  ASSUME TypeOK, FileInv, NEW p \in Processes, Torn(p), BreakOff(p), UNCHANGED acked
  PROVE  Accounted'
<1>1. Accounted \/ file = NoPassword
  BY DEF FileInv
<1>2. file' \in {file, NoPassword, cfg[p], Mixed} /\ failed' = failed \cup {cfg[p]}
  BY DEF BreakOff, BrokenOff
<1>3. CASE file' = file
  BY <1>1, <1>2, <1>3 DEF Accounted
<1>4. CASE file' # file
  BY <1>2, <1>4 DEF Accounted
<1> QED BY <1>3, <1>4

\* Every step keeps the file accounted for.
LEMMA FileStep == TypeOK /\ FileInv /\ [Next]_vars => FileInv'
<1> SUFFICES ASSUME TypeOK, FileInv, [Next]_vars PROVE FileInv'
  OBVIOUS
<1> USE DEF history
<1>1. ASSUME NEW p \in Processes, Load(p) \/ Bootstrap(p) PROVE FileInv'
  <2>1. PICK l \in {"ready", "booting"} : \E c : Goto(p, l, c)
    BY <1>1 DEF Load, Bootstrap
  <2>2. ~Torn(p) /\ UNCHANGED <<file, acked, failed>>
    BY <1>1 DEF Load, Bootstrap, Torn
  <2> QED BY <2>1, <2>2, NotTorn, FileUntouched
<1>2. ASSUME NEW p \in Processes, Truncate(p) PROVE FileInv'
  <2>1. Torn(p)' /\ file' = NoPassword
    BY <1>2 DEF Truncate, Torn, Goto, TypeOK
  <2> QED BY <2>1 DEF FileInv, Saving
<1>3. ASSUME NEW p \in Processes, Write(p) PROVE FileInv'
  <2>1. file' = cfg[p] \/ file' = Mixed
    BY <1>3, OverwrittenValues DEF Write
  <2>2. acked' = cfg[p]
    BY <1>3 DEF Write
  <2> QED BY <2>1, <2>2 DEF FileInv, Accounted
<1>4. ASSUME NEW p \in Processes, SaveFails(p) \/ Exit(p) PROVE FileInv'
  <2>1. CASE Torn(p)
    BY <1>4, <2>1, BreakOffAccounted DEF SaveFails, Exit, FileInv
  <2>2. CASE ~Torn(p)
    <3>1. UNCHANGED <<file, acked, failed>>
      BY <1>4, <2>2 DEF SaveFails, Exit, BreakOff
    <3>2. PICK l \in {"running", "idle"} : \E c : Goto(p, l, c)
      BY <1>4 DEF SaveFails, Exit, AfterFailure, Quit
    <3> QED BY <2>2, <3>1, <3>2, NotTorn, FileUntouched
  <2> QED BY <2>1, <2>2
<1>5. ASSUME NEW c \in Commands, ResetPassword(c) \/ \E pw \in Passwords : SetPassword(c, pw)
      PROVE  FileInv'
  <2>1. PICK n : Goto(c, "saving", n)
    BY <1>5 DEF ResetPassword, SetPassword
  <2>2. c \in Processes /\ ~Torn(c) /\ UNCHANGED <<file, acked, failed>>
    BY <1>5 DEF ResetPassword, SetPassword, Torn, Processes
  <2> QED BY <2>1, <2>2, NotTorn, FileUntouched
<1>6. ASSUME NEW a \in BOOLEAN, NEW b \in BOOLEAN, NEW c \in BOOLEAN, Listen(a, b, c)
      PROVE  FileInv'
  <2>1. PICK l \in {"running", "idle"} : \E n : Goto(Server, l, n)
    BY <1>6 DEF Listen
  <2>2. Server \in Processes /\ ~Torn(Server) /\ UNCHANGED <<file, acked, failed>>
    BY <1>6 DEF Listen, Torn, Processes
  <2> QED BY <2>1, <2>2, NotTorn, FileUntouched
<1>7. ASSUME NEW pw \in Passwords, ChangePassword(pw) PROVE FileInv'
  <2>1. Goto(Server, "saving", pw)
    BY <1>7 DEF ChangePassword
  <2>2. Server \in Processes /\ ~Torn(Server) /\ UNCHANGED <<file, acked, failed>>
    BY <1>7 DEF ChangePassword, Torn, Processes
  <2> QED BY <2>1, <2>2, NotTorn, FileUntouched
<1>8. CASE RemoveFile
  BY <1>8 DEF RemoveFile, FileInv, Accounted
<1>9. CASE (\E pw \in Passwords : CheckChange(pw)) \/ UNCHANGED vars
  <2>1. UNCHANGED <<file, pc, acked, failed>>
    BY <1>9 DEF CheckChange, vars
  <2>2. Saving' <=> Saving
    BY <2>1 DEF Saving, Torn
  <2> QED BY <2>1, <2>2, FileUntouched
<1> QED BY <1>1, <1>2, <1>3, <1>4, <1>5, <1>6, <1>7, <1>8, <1>9 DEF Next

\* Whatever crashes, fails and overlaps, the next start loads the password that was
\* acknowledged last, one whose save broke off since then, or none.
THEOREM AlwaysNoOlderPassword == Spec => []NoOlderPassword
<1>1. Init => FileInv
  BY DEF Init, FileInv, Accounted, Saving, Torn
<1>2. FileInv => NoOlderPassword
  BY DEF FileInv, Accounted, NoOlderPassword
<1> QED BY <1>1, <1>2, FileStep, TypeCorrect, PTL DEF Spec
=============================================================================
