CONSTANTS
  SignIns = {s1, s2}
  Creators = {c1, c2}
  Admins = {a1, a2}
  LeaseDays = 2
  WindowDays = 1
  MaxEdits = 2
SPECIFICATION FairSpec
INVARIANTS
  TypeOK
  DecisionStands
  RefusedStaysOut
PROPERTIES
  ReturnerRestored
  Deprovisioned
