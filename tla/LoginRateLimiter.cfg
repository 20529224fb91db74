\* Two addresses, two submissions in flight, backoffs 1, 2, 3 (capped), then 3 for
\* a shift that turns negative; a record forgotten 4 s after its last failure.
SPECIFICATION Spec
CONSTANTS
  Ips = {ip1, ip2}
  Submissions = {p1, p2}
  NoIp = NoIp
  FailuresBeforeBackoff = 1
  MaxBackoff = 3
  StaleAttemptTTL = 4
  SecondOdd = 5
  OddBits = 6
  TickSizes = {1}
  MaxClock = 11
  MaxCount = 5
INVARIANTS
  LockoutBounded
  CountsTheStreak
PROPERTIES
  LockoutNotCut
SYMMETRY Symmetric
CHECK_DEADLOCK FALSE
