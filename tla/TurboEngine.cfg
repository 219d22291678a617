CONSTANTS
    r1 = r1
    r2 = r2
    r3 = r3
    Reqs = {r1, r2, r3}
    NoReq = NoReq
    Setups <- MCSetups
SPECIFICATION LiveSpec
CHECK_DEADLOCK FALSE
INVARIANTS
    OutputsRight RowsAreLive AnswersRead OutOfMemoryJustified
PROPERTY RequestsAnswered
