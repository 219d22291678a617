CONSTANTS
    c1 = c1
    c2 = c2
    Clients = {c1, c2}
    Setups <- MCDecode
SPECIFICATION Spec
CHECK_DEADLOCK FALSE
INVARIANT WaitersAreAnswered
