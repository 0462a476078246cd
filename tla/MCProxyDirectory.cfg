SPECIFICATION DirectorySpec
CONSTANTS
  Users = {u1}
  Locals = {l1}
  Logicals = {g1, g2}
  Requests = {r1, r2}
  DepthLimit = 1
  MaxEdits = 6
SYMMETRY Alike
INVARIANTS
  MembersAreOneRequests
  RulesReachTheirMembers
CHECK_DEADLOCK FALSE
