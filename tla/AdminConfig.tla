----------------------------- MODULE AdminConfig -----------------------------
(***************************************************************************)
(* The admin credentials: ui.yaml on disk (cmd/lytecache/ui/config.go),    *)
(* the copy the running server keeps (Server.authConfig), and the three    *)
(* programs that load, change and save it: `lytecache ui' (cmd_ui.go,      *)
(* auth.go, auth_handlers.go), `lytecache ui passwd' and `lytecache ui     *)
(* reset-password'.  They are separate processes with no lock between them.*)
(*                                                                         *)
(* SaveAuthConfig truncates the file and then writes it: two steps that    *)
(* other processes see, the second of which a failure or a crash may       *)
(* prevent or cut short.  An empty file parses, to a configuration of zero *)
(* values, and so may the front part of one; what two overlapping saves    *)
(* leave of each other need not parse at all.                              *)
(*                                                                         *)
(* Of a configuration the password hash is kept.  The user name, the       *)
(* session secret (see SessionManager), the metrics token and the          *)
(* databases are left out, and with them the length of the file.           *)
(***************************************************************************)

CONSTANTS
  Commands,     \* invocations of passwd and reset-password
  Server,       \* the `lytecache ui' process
  Passwords,    \* acceptable passwords: eight characters or more, not the default
  Default,      \* DefaultPassword
  NoPassword,   \* an empty or cut password_hash: no password verifies against it
  Absent,       \* there is no ui.yaml
  Mixed,        \* a ui.yaml that does not parse: cut in a line, or with the end of
                \*   another save behind it
  NoConfig      \* a process that holds no configuration

ASSUME ProcessesAssumption == Server \notin Commands
ASSUME PasswordsAssumption ==
  Default \notin Passwords /\ NoPassword \notin Passwords /\ Default # NoPassword

Processes == Commands \cup {Server}

\* AuthConfig, by its password_hash.  An empty file loads as one without a password.
Config == Passwords \cup {Default, NoPassword}

ASSUME AbsentAssumption == Absent \notin Config /\ NoConfig \notin Config
ASSUME MixedAssumption == Mixed \notin Config /\ Mixed # Absent

VARIABLES
  file,     \* ui.yaml
  pc,       \* where each process is
  cfg,      \* the configuration each process holds (the server's: authConfig)
  exposed,  \* Server.nonLoopbackBind
  changing, \* new passwords of submissions that passed their check in the server
  acked,    \* history: password of the last save reported as done since the file
            \*   was removed
  failed    \* history: passwords whose save broke off within the file since then

history == <<acked, failed>>
vars == <<file, pc, cfg, exposed, changing, history>>

\* booting: a first-run configuration is about to be saved; ready: loaded;
\* saving: a changed configuration is about to be saved; *Torn: the file is
\* truncated, not written yet; running: the server listens.
PCs == {"idle", "booting", "bootingTorn", "ready", "saving", "savingTorn", "running"}

TypeOK ==
  /\ file \in Config \cup {Absent, Mixed}
  /\ pc \in [Processes -> PCs] /\ \A c \in Commands : pc[c] # "running"
  /\ cfg \in [Processes -> Config \cup {NoConfig}]
  /\ \A p \in Processes : pc[p] = "idle" <=> cfg[p] = NoConfig
  /\ exposed \in BOOLEAN /\ changing \subseteq Passwords
  /\ acked \in Config /\ failed \subseteq Config

Init ==
  /\ file = Absent
  /\ pc = [p \in Processes |-> "idle"]
  /\ cfg = [p \in Processes |-> NoConfig]
  /\ exposed = FALSE /\ changing = {}
  /\ acked = NoPassword /\ failed = {}

-----------------------------------------------------------------------------
(* Operations of config.go and auth.go.                                    *)

IsDefaultPassword(c) == c = Default

\* Mutant of Guarded: --insecure waives the password rule too.
GuardedInsecure(c, loopback, tlsOrInsecure, metricsClosed) ==
  loopback \/ (tlsOrInsecure /\ metricsClosed)

\* CheckStartupGuardrails and CheckMetricsGuardrail: beyond loopback the password
\* must have been changed, TLS or --insecure must be given, and /metrics must be
\* off or have a token.
Guarded(c, loopback, tlsOrInsecure, metricsClosed) ==
  loopback \/ (~IsDefaultPassword(c) /\ tlsOrInsecure /\ metricsClosed)

\* forcedPasswordChangeRequired.
ForcedChange == exposed /\ IsDefaultPassword(cfg[Server])

Goto(p, l, c) == pc' = [pc EXCEPT ![p] = l] /\ cfg' = [cfg EXCEPT ![p] = c]

-----------------------------------------------------------------------------
(* LoadOrCreateAuthConfig and SaveAuthConfig, as every process runs them.  *)

\* Mutant of Load: the error of yaml.Unmarshal is dropped.
LoadUnparsed(p) ==
  /\ pc[p] = "idle"
  /\ file # Absent
  /\ Goto(p, "ready", file)
  /\ UNCHANGED <<file, exposed, changing, history>>

\* A file that does not parse is refused.
Load(p) ==
  /\ pc[p] = "idle"
  /\ file \notin {Absent, Mixed}
  /\ Goto(p, "ready", file)
  /\ UNCHANGED <<file, exposed, changing, history>>

\* bootstrapAuthConfig: the default password or LYTECACHE_UI_PASSWORD.
Bootstrapped == Passwords \cup {Default}

Bootstrap(p) ==
  /\ pc[p] = "idle"
  /\ file = Absent
  /\ \E pw \in Bootstrapped : Goto(p, "booting", pw)
  /\ UNCHANGED <<file, exposed, changing, history>>

Torn(p) == pc[p] \in {"bootingTorn", "savingTorn"}

Truncate(p) ==
  /\ \/ pc[p] = "booting" /\ Goto(p, "bootingTorn", cfg[p])
     \/ pc[p] = "saving" /\ Goto(p, "savingTorn", cfg[p])
  /\ file' = NoPassword
  /\ UNCHANGED <<exposed, changing, history>>

\* What a write leaves: all of c, and behind it the end of another save, if one was
\* written since the file was truncated for this one and was longer.
Overwritten(c) == IF file = NoPassword THEN {c} ELSE {c, Mixed}

\* What a write of c leaves that breaks off: nothing of c, or a part without the
\* hash, with a piece of it or with all of it, which parses or does not.
BrokenOff(c) == {file, NoPassword, c, Mixed}

\* The configuration is on disk.  The server goes on serving, a command reports
\* success and exits; after a first-run save either goes on with what it saved.
Write(p) ==
  /\ \/ pc[p] = "bootingTorn" /\ Goto(p, "ready", cfg[p])
     \/ pc[p] = "savingTorn" /\ p = Server /\ Goto(p, "running", cfg[p])
     \/ pc[p] = "savingTorn" /\ p # Server /\ Goto(p, "idle", NoConfig)
  /\ file' \in Overwritten(cfg[p])
  /\ acked' = cfg[p] /\ failed' = {}
  /\ UNCHANGED <<exposed, changing>>

\* A save breaks off: before the truncation nothing changes, after it the file is
\* left as the write left it.
BreakOff(p) ==
  IF Torn(p)
  THEN file' \in BrokenOff(cfg[p]) /\ failed' = failed \cup {cfg[p]}
  ELSE UNCHANGED <<file, failed>>

Quit(p) ==
  /\ Goto(p, "idle", NoConfig)
  /\ exposed' = (exposed /\ p # Server)
  /\ changing' = IF p = Server THEN {} ELSE changing

\* Where a save that returns an error leaves p: 500 from a server that already
\* verifies logins against the new hash, a command or a start that exits.
AfterFailure(p) ==
  IF p = Server /\ pc[p] \in {"saving", "savingTorn"}
  THEN Goto(p, "running", cfg[p]) /\ UNCHANGED <<exposed, changing>>
  ELSE Quit(p)

\* Mutant of SaveFails: the error of the write is dropped, success is reported.
SaveFailsSilently(p) ==
  /\ pc[p] \in {"booting", "bootingTorn", "saving", "savingTorn"}
  /\ AfterFailure(p)
  /\ acked' = cfg[p] /\ failed' = {}
  /\ UNCHANGED file

\* A save fails, before or after the truncation, or at the chmod after the write.
SaveFails(p) ==
  /\ pc[p] \in {"booting", "bootingTorn", "saving", "savingTorn"}
  /\ AfterFailure(p) /\ BreakOff(p)
  /\ UNCHANGED acked

-----------------------------------------------------------------------------
(* The programs.                                                           *)

\* passwd after both prompts, reset-password at once.
SetPassword(c, pw) ==
  /\ pc[c] = "ready"
  /\ Goto(c, "saving", pw)
  /\ UNCHANGED <<file, exposed, changing, history>>

ResetPassword(c) ==
  /\ pc[c] = "ready"
  /\ Goto(c, "saving", Default)
  /\ UNCHANGED <<file, exposed, changing, history>>

\* buildUIServer after the load: it listens, or refuses and exits.
Listen(loopback, tlsOrInsecure, metricsClosed) ==
  /\ pc[Server] = "ready"
  /\ IF Guarded(cfg[Server], loopback, tlsOrInsecure, metricsClosed)
     THEN Goto(Server, "running", cfg[Server]) /\ exposed' = ~loopback
     ELSE Goto(Server, "idle", NoConfig) /\ UNCHANGED exposed
  /\ UNCHANGED <<file, changing, history>>

\* handleChangePasswordSubmit, of a request with a session, up to its second lock:
\* the new password is long enough and differs from the one in force by now.
CheckChange(pw) ==
  /\ pc[Server] \in {"running", "saving", "savingTorn"}
  /\ cfg[Server] # pw
  /\ changing' = changing \cup {pw}
  /\ UNCHANGED <<file, pc, cfg, exposed, history>>

\* The rest of it, under authMu: the new password is in force at once, whatever
\* others put in force since the check, then the server's whole copy is saved.
\* Further submissions of the same password may wait behind this one.
ChangePassword(pw) ==
  /\ pc[Server] = "running"
  /\ pw \in changing
  /\ Goto(Server, "saving", pw)
  /\ changing' \in {changing, changing \ {pw}}
  /\ UNCHANGED <<file, exposed, history>>

\* A process exits or is killed anywhere; a prompt is cancelled; a server stops.
Exit(p) ==
  /\ pc[p] # "idle"
  /\ Quit(p) /\ BreakOff(p)
  /\ UNCHANGED acked

Saving == \E p \in Processes : Torn(p)

\* The operator removes ui.yaml (or its volume is recreated), not within a save.
RemoveFile ==
  /\ file # Absent /\ ~Saving
  /\ file' = Absent /\ acked' = NoPassword /\ failed' = {}
  /\ UNCHANGED <<pc, cfg, exposed, changing>>

Next ==
  \/ \E p \in Processes :
       Load(p) \/ Bootstrap(p) \/ Truncate(p) \/ Write(p) \/ SaveFails(p) \/ Exit(p)
  \/ \E c \in Commands : ResetPassword(c) \/ \E pw \in Passwords : SetPassword(c, pw)
  \/ \E loopback, tlsOrInsecure, metricsClosed \in BOOLEAN :
       Listen(loopback, tlsOrInsecure, metricsClosed)
  \/ \E pw \in Passwords : CheckChange(pw) \/ ChangePassword(pw)
  \/ RemoveFile

Spec == Init /\ [][Next]_vars

-----------------------------------------------------------------------------
(* What the configuration promises.                                        *)

\* A server that listens beyond loopback never verifies logins against the
\* default password, whatever it loaded, whatever was saved next to it and
\* however its own saves end.
NeverExposedWithDefault ==
  exposed /\ pc[Server] \in {"running", "saving", "savingTorn"} => ~IsDefaultPassword(cfg[Server])

\* What the next start loads, when no save is under way: the password of the last
\* save that was reported as done.  A save that broke off since then (a crash or a
\* full disk after the truncation) may lose it, but only to the password of such a
\* save or to a file no password verifies against; two savers may leave a file that
\* is refused.  No history brings an earlier password back in force.
NoOlderPassword ==
  ~Saving =>
    \/ file \in {acked, Mixed}
    \/ file = Absent /\ acked = NoPassword
    \/ failed # {} /\ file \in failed \cup {NoPassword}

\* The step in which command c reports success, with its configuration on disk.
Succeeds(c) == pc[c] = "savingTorn" /\ pc'[c] = "idle" /\ file' = cfg[c]

\* docs/ui.md of reset-password: run "while already bound non-locally, every
\* authenticated route redirects to a forced change-password screen"; auth.go says
\* that "takes effect immediately".  The server reads only its own copy.
ResetTakesEffect ==
  [][\A c \in Commands :
       Succeeds(c) /\ cfg[c] = Default /\ exposed /\ pc[Server] = "running"
         => ForcedChange']_vars
=============================================================================
