\* The analysis server: two connections and a request over one engine.
SPECIFICATION Spec
CONSTANTS
  c1 = c1
  c2 = c2
  r1 = r1
  Conn = {c1, c2}
  Req = {r1}
  Nobody = Nobody
  MaxEngines = 1
  MaxSessions = 1
  MaxCommands = 3
  Commands <- MCCommands
SYMMETRY Symmetry
INVARIANTS
  OneOwner
  CapacityConserved
  PermitsConserved
  PooledIsStopped
  OwnSetup
  AnsweredInOrder
PROPERTIES
  OwnersUndisturbed
\* Every client may be gone.
CHECK_DEADLOCK FALSE
