CONSTANTS
  Providers = {loc, dir}
  Local = loc
  Words = {w1, w2}
  Typed = w1
  SignIns = {s1}
  Lists = {l1}
  TTL = 1
  Slow = 1
  AtOnce = 1
  MaxChanges = 2
SPECIFICATION ProvidersFairSpec
INVARIANTS
  VouchedForGetsIn
PROPERTY
  HealthSettles
CHECK_DEADLOCK FALSE
