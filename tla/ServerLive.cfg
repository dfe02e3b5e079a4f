\* Liveness of the server: a connection and a request over one engine.
SPECIFICATION FairSpec
CONSTANTS
  c1 = c1
  c2 = c2
  r1 = r1
  Conn = {c1}
  Req = {r1}
  Nobody = Nobody
  MaxEngines = 1
  MaxSessions = 1
  MaxCommands = 2
  Commands <- LiveCommands
PROPERTIES
  BootEnds
  SessionEnds
\* Every client may be gone.
CHECK_DEADLOCK FALSE
