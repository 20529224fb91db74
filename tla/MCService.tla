------------------------------ MODULE MCService ------------------------------
(* Small instances of ServiceControl and RotatingLog: a behaviour is one of  *)
(* the service commands or one of the service's log, and leaves the          *)
(* variables of the other one alone; pids are symmetric.                     *)
EXTENDS RotatingLog, ServiceControl, TLC

VARIABLE part

PidSymmetry == Permutations(Pids)

ServiceInit ==
  \/ part = "log" /\ Init /\ ControlInit /\ platform = "linux"
  \/ part = "commands" /\ Init /\ ControlInit

ServiceNext ==
  \/ part = "log" /\ Next /\ UNCHANGED <<controlVars, part>>
  \/ part = "commands" /\ ControlNext /\ UNCHANGED <<vars, part>>

ServiceSpec == ServiceInit /\ [][ServiceNext]_<<vars, controlVars, part>>
=============================================================================
