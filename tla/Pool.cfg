SPECIFICATION Spec
CONSTANTS
  Connections = {c1, c2}
  Requests = {r1, r2, r3, r4}
  Nobody = Nobody
  Leaked = Leaked
INVARIANTS
  NeverAllWaiting
PROPERTIES
  EveryRequestEnds
CHECK_DEADLOCK FALSE
