CONSTANTS
    c1 = c1
    c2 = c2
    Clients = {c1, c2}
    Setups <- MCLive
SPECIFICATION LiveSpec
CHECK_DEADLOCK FALSE
INVARIANT SleepFindsNobody
PROPERTIES
    EveryRequestEnds SleepComes
