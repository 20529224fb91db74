SPECIFICATION Spec
CONSTANTS
  Commands = {c1}
  Server = Server
  Passwords = {pw1, pw2}
  Default = Default
  NoPassword = NoPassword
  Absent = Absent
  Mixed = Mixed
  NoConfig = NoConfig
PROPERTIES
  ResetTakesEffect
SYMMETRY Symmetric
CHECK_DEADLOCK FALSE
