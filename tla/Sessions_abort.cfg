SPECIFICATION Spec
CONSTANTS
    r1 = r1
    r2 = r2
    r3 = r3
    r4 = r4
    h1 = h1
    h2 = h2
    NoHandle = NoHandle
    Requests <- MCThree
    SessionOf <- MCOwn
    Handles <- MCTwo
    MaxEpoch = 1
    Abortable = {r1}
INVARIANT AbortedStops
CHECK_DEADLOCK FALSE
