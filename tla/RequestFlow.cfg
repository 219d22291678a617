CONSTANTS
    c1 = c1
    c2 = c2
    Clients = {c1, c2}
    Setups <- MCSafe
SPECIFICATION Spec
CHECK_DEADLOCK FALSE
SYMMETRY MCSwap
INVARIANTS
    TypeOK DeliveredAll WaitersAreAnswered NoLeak OutputsMatch
PROPERTY FinishSticks
