SPECIFICATION Spec
CONSTANTS
    Looked <- MCLooked
    Rows = {1}
    MaxWrites = 2
    MaxTheirs = 1
    MaxFaults = 1
INVARIANTS ShownIsCurrent SaveKeepsTheRest OneAtATime
CHECK_DEADLOCK FALSE
