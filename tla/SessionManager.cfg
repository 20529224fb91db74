SPECIFICATION Spec
CONSTANTS
  SessionIds = {s1, s2}
  Requests = {r1, r2}
  IdleTimeout = 1
  AbsoluteLife = 2
  MaxClock = 4
  MaxRestarts = 1
  NoClaims = NoClaims
INVARIANTS
  LiveSessionUsable
PROPERTIES
  ServedWithinLifetime
  DeadStaysDead
  LogoutSticks
SYMMETRY Symmetric
CHECK_DEADLOCK FALSE
