\* The search: two databases with three namespaces and one, up to three matches each.
\* The key browser: four keys, one more than the cap, with and without an expiry, and
\* ints of 5 bits.
SPECIFICATION PagesSpec
CONSTANTS
  Namespaces <- ThreeThenOne
  MaxPerNamespace = 2
  MaxTotal = 3
  MaxKeys = 3
  Keys <- FourKeys
  Sizes = {1}
  Ttls = {1}
  NoExpiry = NoExpiry
  MaxScanned = 3
  IntLimit = 16
  Absent = Absent
INVARIANTS
  AdmitsWhatIsMissing RowsBounded
  BrowserTypeOK StayingKeysListed PagesPartition OrderedTiesByKey
CHECK_DEADLOCK FALSE
