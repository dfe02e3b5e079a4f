\* A session whose client is active may be reaped.
SPECIFICATION Spec
CONSTANTS
  c1 = c1
  c2 = c2
  r1 = r1
  Conn = {c1}
  Req = {r1}
  Nobody = Nobody
  MaxEngines = 1
  MaxSessions = 1
  MaxCommands = 1
  Commands <- LiveCommands
PROPERTIES
  OnlyIdleReaped
CHECK_DEADLOCK FALSE
