\* One request of a server that goes on serving.
SPECIFICATION Spec
CONSTANTS
  Reqs = {r1}
  Sessions = {s1}
  Namespaces = {n1, n2}
  Keys = {k1}
  CanCrash = FALSE
INVARIANTS EveryWriteIsLogged
\* The server exits.
CHECK_DEADLOCK FALSE
