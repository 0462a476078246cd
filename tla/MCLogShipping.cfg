CONSTANTS
  Handlers = {h1, h2}
  Counters = {c1, c2}
  Window = 3
  Chunk = 1
  MaxLines = 2
  MaxRotations = 1
  MaxFaults = 2
SPECIFICATION FairSpec
INVARIANTS
  TypeOK
  NothingSkipped
  CountedOncePerTry
PROPERTY
  Drains
CHECK_DEADLOCK FALSE
