CONSTANTS
    NumBlocks = 5
    NumSaves = 2
    Blocks <- MCBlocks
    SaveIds <- MCSaveIds
    s1 = s1
    s2 = s2
    Seqs = {s1, s2}
    r1 = r1
    r2 = r2
    ta = ta
    tb = tb
    tc = tc
    td = td
    Gen = Gen
    Torn = Torn
    MaxBatches = 1
    Setups <- MCLive
SPECIFICATION FairSpec
CHECK_DEADLOCK FALSE
PROPERTIES
    TransfersEnd
