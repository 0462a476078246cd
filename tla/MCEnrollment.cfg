CONSTANTS
  Handlers = {h1, h2}
  Tokens = {t1, t2, t3}
  Keys = {k1, k2, k3, k4}
  None = None
  MaxAdmin = 2
  MaxFaults = 2
SPECIFICATION FairSpec
CHECK_DEADLOCK FALSE
INVARIANTS
  TypeOK
  SerialSafe
  RowAgrees
  DeletedIsGone
PROPERTIES
  Recovers
