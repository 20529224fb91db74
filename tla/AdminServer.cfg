\* Two requests with every route and form over two namespaces, a session, a crash.
SPECIFICATION FairSpec
CONSTANTS
  Reqs = {r1, r2}
  Sessions = {s1}
  Namespaces = {n1, n2}
  Keys = {k1}
  CanCrash = TRUE
INVARIANTS TypeOK AuditComplete
PROPERTIES OnlyWhatWasAsked ShutdownEnds
\* The server exits.
CHECK_DEADLOCK FALSE
