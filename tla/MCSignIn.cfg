SPECIFICATION Spec
CONSTANTS
  People = {p1, p2}
  Names = {admin, anna}
  LocalName = admin
  Attempts = {a1, a2}
  Callbacks = {c1, c2}
  MaxEdits = 1
SYMMETRY Alike
INVARIANTS
  TypeOK
  OneUseOfAState
PROPERTY ShutDoorHolds
CHECK_DEADLOCK FALSE
