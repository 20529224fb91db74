\* The key browser alone, two keys.
SPECIFICATION BrowserSpec
CONSTANTS
  Keys = {1, 2}
  Sizes = {1}
  Ttls = {1}
  NoExpiry = NoExpiry
  MaxScanned = 3
  IntLimit = 16
  Absent = Absent
INVARIANT NoExpiryLast
CHECK_DEADLOCK FALSE
