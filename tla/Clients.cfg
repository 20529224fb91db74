\* One client next to applications that write twice, on a file that comes and goes.
SPECIFICATION FairSpec
CONSTANTS
  Keys = {1, 2}
  Rows <- TwoKeys
  Absent = Absent
  Procs = {"client"}
  Ops <- Everything
  Sessions <- EverySession
  MaxFiles = 2
  Masked = {2}
  MaxWrites = 2
  Nothing = Nothing
INVARIANTS TypeOK
PROPERTIES OneMoment ReadersCreateNothing OpenOnlyToAct WatchStops
CHECK_DEADLOCK FALSE
