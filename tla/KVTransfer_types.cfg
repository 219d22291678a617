CONSTANTS
    NumBlocks = 3
    NumSaves = 2
    Blocks <- MCBlocks
    SaveIds <- MCSaveIds
    s1 = s1
    s2 = s2
    Seqs = {s1, s2}
    r1 = r1
    r2 = r2
    ta = ta
    tb = tb
    tc = tc
    td = td
    Gen = Gen
    Torn = Torn
    MaxBatches = 2
    Setups <- MCSafe
SYMMETRY MCSwap
SPECIFICATION Spec
INVARIANT TypeOK
