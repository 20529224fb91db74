\* The log: three backups, six entries that fit a file twice or not at all, two faults.
\* The commands: every platform, two units where it has two, three pids for at most two
\* processes.
SPECIFICATION ServiceSpec
CONSTANTS
  MaxBytes = 4
  MaxBackups = 3
  Lengths = {2, 5}
  MaxWritten = 6
  MaxFaults = 2
  Pids = {p1, p2, p3}
SYMMETRY PidSymmetry
INVARIANTS
  TypeOK InOrder FootprintBounded
  ControlTypeOK ControlReachesInstall StateFollowsServer
PROPERTY KeepsTheLatest
CHECK_DEADLOCK FALSE
