SPECIFICATION Spec
CONSTANTS
    r1 = r1
    r2 = r2
    r3 = r3
    r4 = r4
    h1 = h1
    h2 = h2
    NoHandle = NoHandle
    Requests <- MCFour
    SessionOf <- MCShared
    Handles <- MCTwo
    MaxEpoch = 0
    Abortable = {}
INVARIANT HandlesConserved
CHECK_DEADLOCK FALSE
