SPECIFICATION Spec
CONSTANTS
  Commands = {c1, c2}
  Server = Server
  Passwords = {pw1, pw2}
  Default = Default
  NoPassword = NoPassword
  Absent = Absent
  Mixed = Mixed
  NoConfig = NoConfig
INVARIANTS
  TypeOK
  NeverExposedWithDefault
  NoOlderPassword
SYMMETRY Symmetric
CHECK_DEADLOCK FALSE
