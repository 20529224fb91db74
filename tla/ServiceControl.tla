--------------------------- MODULE ServiceControl ---------------------------
(***************************************************************************)
(* `lytecache service` and the server it controls: the commands of         *)
(* cmd_service.go, the install record (install_record.go), the state file  *)
(* (status.go), and the process that the OS service manager runs           *)
(* (runUIUnderServiceManager).                                             *)
(*                                                                         *)
(* A unit is a place where the service can be registered: the user's or    *)
(* the system's systemd unit on Linux, the LaunchAgent on macOS ("user"),  *)
(* the Service Control Manager or the Scheduled Task on Windows.  The OS   *)
(* runs at most one process of a unit.  All units carry the one name       *)
(* service.Name, and their processes never share a log directory (the      *)
(* system's unit and the SCM run under an account of their own).           *)
(*                                                                         *)
(* External, from how src/ uses them: kardianos/service refuses to install *)
(* a unit that is registered, `schtasks /Create /F` overwrites, and a      *)
(* process identifier is given again once it is free.                      *)
(***************************************************************************)
EXTENDS Naturals

CONSTANT Pids  \* process identifiers

ASSUME PidsAssumption == "none" \notin Pids

Platforms == {"linux", "darwin", "windows"}
Units == {"user", "system", "scm", "task"}

\* The units of a platform, and those registered through kardianos/service.
UnitsOf(os) == CASE os = "linux" -> {"user", "system"}
                 [] os = "darwin" -> {"user"}
                 [] OTHER -> {"scm", "task"}
OSUnits == Units \ {"task"}

NoPid == "none"
Stages == {"none", "launched", "serving", "deaf", "stopping"}

VARIABLES
    platform,   \* runtime.GOOS: a build is for one platform
    registered, \* the units the service managers know
    record,     \* lytecache-ui.install-method: "none", "empty", or a Method
    pid,        \* unit -> the identifier of its last process
    stage,      \* unit -> how far its process is
    wrote,      \* the units whose process wrote its State
    state,      \* unit -> the pid in the state file of its directory, or NoPid
    clean,      \* the units whose last process ended with its state file removed
    installed   \* the unit that the last `service install` reported, if still there

Registry == <<platform, registered, record, installed>>
Procs == <<pid, stage, wrote, state, clean>>
controlVars == <<Registry, Procs>>

Running(u) == stage[u] # "none"
Alive == {pid[u] : u \in {v \in Units : Running(v)}}

ControlTypeOK ==
    /\ platform \in Platforms
    /\ registered \subseteq UnitsOf(platform)
    /\ record \in {"none", "empty", "os-service", "scheduled-task"}
    /\ pid \in [Units -> Pids \cup {NoPid}]
    /\ stage \in [Units -> Stages]
    /\ wrote \subseteq Units
    /\ state \in [Units -> Pids \cup {NoPid}]
    /\ clean \subseteq Units
    /\ installed \in registered \cup {"none"}

ControlInit ==
    /\ platform \in Platforms
    /\ registered = {}
    /\ record = "none"
    /\ pid = [u \in Units |-> NoPid]
    /\ stage = [u \in Units |-> "none"]
    /\ wrote = {}
    /\ state = [u \in Units |-> NoPid]
    /\ clean = {}
    /\ installed = "none"

-----------------------------------------------------------------------------
(* The commands                                                            *)

\* ReadInstallRecord and BuildConfig(nil, false): the unit that start, stop,
\* restart, status and uninstall address.  Anything in the record but
\* MethodScheduledTask, an empty file included, means the OS service.
Addressed == IF record = "scheduled-task" THEN "task"
             ELSE IF platform = "windows" THEN "scm"
             ELSE "user"

\* A bug: a method that the readers of the record do not know.
MethodMisspelt(u) == IF u = "task" THEN "schtasks" ELSE "os-service"

Method(u) == IF u = "task" THEN "scheduled-task" ELSE "os-service"

\* A bug: the record is written only when there is none.
InstallKeepingRecord(u) ==
    /\ u \in UnitsOf(platform)
    /\ u \in OSUnits => u \notin registered
    /\ registered' = registered \cup {u}
    /\ record' = IF record = "none" THEN Method(u) ELSE record
    /\ installed' = u
    /\ UNCHANGED <<platform, Procs>>

\* service install: the OS unit of the flags, or the task when the shell is
\* not elevated.  The record is written after the registration.
Install(u) ==
    /\ u \in UnitsOf(platform)
    /\ u \in OSUnits => u \notin registered
    /\ registered' = registered \cup {u}
    /\ record' = Method(u)
    /\ installed' = u
    /\ UNCHANGED <<platform, Procs>>

\* The registration is made and WriteInstallRecord fails: install reports the
\* error, with the old record in place or truncated.
InstallUnrecorded(u) ==
    /\ u \in UnitsOf(platform)
    /\ u \in OSUnits => u \notin registered
    /\ registered' = registered \cup {u}
    /\ record' \in {record, "empty"}
    /\ installed' = "none"
    /\ UNCHANGED <<platform, Procs>>

\* service uninstall.  Whether the OS stops the process is its own affair.
Uninstall ==
    /\ Addressed \in registered
    /\ registered' = registered \ {Addressed}
    /\ record' \in {"none", record} \* RemoveInstallRecord may fail
    /\ installed' = IF installed = Addressed THEN "none" ELSE installed
    /\ UNCHANGED <<platform, Procs>>

\* service start, the second half of service restart, a boot, a logon, or the
\* service manager's restart of what exited with an error or was killed
\* (Restart=on-failure on Linux, KeepAlive on macOS).
Start(u) ==
    /\ u \in registered
    /\ ~Running(u)
    /\ \E p \in Pids \ Alive : pid' = [pid EXCEPT ![u] = p]
    /\ stage' = [stage EXCEPT ![u] = "launched"]
    /\ UNCHANGED <<Registry, wrote, state, clean>>

\* The signal, or the SCM's request, on which kardianos/service calls StopFunc.
StopSent(u) ==
    /\ u \in OSUnits
    /\ stage[u] \in {"serving", "deaf"}
    /\ stage' = [stage EXCEPT ![u] = "stopping"]
    /\ UNCHANGED <<Registry, pid, wrote, state, clean>>

\* service stop, and the first half of service restart, whose second is Start.
Stop == Addressed \in registered /\ StopSent(Addressed)

\* The host shuts down, or the user of the unit logs off.
HostStops(u) == StopSent(u)

-----------------------------------------------------------------------------
(* The process: runUIUnderServiceManager                                   *)

Exited(u) ==
    /\ stage' = [stage EXCEPT ![u] = "none"]
    /\ wrote' = wrote \ {u}
    /\ UNCHANGED <<Registry, pid>>

\* It exits and leaves the state file as it is.
ExitedAbruptly(u) ==
    /\ Exited(u)
    /\ clean' = clean \ {u}
    /\ UNCHANGED state

\* StartFunc, when buildUIServer succeeds: the server listens, the state file
\* is written, Serve runs in a goroutine of its own.
Built(u) ==
    /\ stage[u] = "launched"
    /\ stage' = [stage EXCEPT ![u] = "serving"]
    /\ wrote' = wrote \cup {u}
    /\ state' = [state EXCEPT ![u] = pid[u]]
    /\ UNCHANGED <<Registry, pid, clean>>

\* The same, when WriteState fails: only logged, the old file in place or
\* truncated, which ReadState cannot parse.
BuiltUnwritten(u) ==
    /\ stage[u] = "launched"
    /\ stage' = [stage EXCEPT ![u] = "serving"]
    /\ \E s \in {state[u], NoPid} : state' = [state EXCEPT ![u] = s]
    /\ UNCHANGED <<Registry, pid, wrote, clean>>

\* buildUIServer fails (the port is in use, the configuration is refused):
\* Run returns the error and the process exits with it.
BuildFails(u) == stage[u] = "launched" /\ ExitedAbruptly(u)

\* Serve returns an error (ServeTLS cannot load the certificate): it is
\* logged, and the process stays, its listener open and never accepted from.
ServeFails(u) ==
    /\ stage[u] = "serving"
    /\ stage' = [stage EXCEPT ![u] = "deaf"]
    /\ UNCHANGED <<Registry, pid, wrote, state, clean>>

ExitedCleanly(u) ==
    /\ Exited(u)
    /\ state' = [state EXCEPT ![u] = NoPid]
    /\ clean' = clean \cup {u}

\* A bug: the error of Shutdown is returned before the state is removed.
StopFuncEarlyReturn(u, shutdown, removed) ==
    /\ stage[u] = "stopping"
    /\ IF ~removed THEN ExitedAbruptly(u)
       ELSE IF shutdown THEN ExitedCleanly(u)
       ELSE Exited(u) /\ UNCHANGED state /\ clean' = clean \cup {u}

\* StopFunc, with shutdown the outcome of Shutdown, whose error the state
\* file does not wait for, and removed that of RemoveState.
StopFunc(u, shutdown, removed) ==
    /\ stage[u] = "stopping"
    /\ IF removed THEN ExitedCleanly(u) ELSE ExitedAbruptly(u)

\* A crash, a SIGKILL, or a power failure ends the process where it is.
Kill(u) == Running(u) /\ ExitedAbruptly(u)

\* A stop that the process does not handle: `schtasks /End`, or a signal
\* before kardianos/service listens for it.
End ==
    /\ Addressed \in registered
    /\ \/ Addressed = "task" /\ Running("task")
       \/ stage[Addressed] = "launched"
    /\ ExitedAbruptly(Addressed)

ControlNext ==
    \/ \E u \in Units : Install(u)
    \/ \E u \in Units : InstallUnrecorded(u)
    \/ Uninstall
    \/ \E u \in Units : Start(u)
    \/ Stop
    \/ \E u \in Units : HostStops(u)
    \/ \E u \in Units : Built(u)
    \/ \E u \in Units : BuiltUnwritten(u)
    \/ \E u \in Units : BuildFails(u)
    \/ \E u \in Units : ServeFails(u)
    \/ \E u \in Units, shutdown, removed \in BOOLEAN : StopFunc(u, shutdown, removed)
    \/ \E u \in Units : Kill(u)
    \/ End

ControlSpec == ControlInit /\ [][ControlNext]_controlVars

-----------------------------------------------------------------------------
(* Properties                                                              *)

\* What the last successful install registered is what start, stop, status
\* and uninstall address, through reinstalls by other means, uninstalls and
\* install records that could not be written or removed (withInstalledService),
\* unless it was installed with --system.
ControlReachesInstall == installed \notin {"none", "system"} => Addressed = installed

\* The state file names a server that wrote it for as long as it runs, its
\* shutdown included, and is gone once it has stopped cleanly, whatever was
\* left there before by one that was killed (WriteState, RemoveState).
StateFollowsServer ==
    \A u \in Units :
        /\ u \in wrote => state[u] = pid[u]
        /\ u \in clean /\ ~Running(u) => state[u] = NoPid
=============================================================================
