SPECIFICATION Spec
CONSTANTS
  Slots = {s1, s2}
  MaxSessions = 3
  MaxLoads = 2
  MaxFaults = 1
INVARIANTS
  TypeOK
  KindIsTheTokens
  PlanesKept
CHECK_DEADLOCK FALSE
