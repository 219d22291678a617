CONSTANTS
    Seqs = {s1, s2}
    Kinds = {"generate"}
    PromptLens = {1, 3}
    MaxLen = 4
    BlockSize = 1
    Prealloc = 1
    ChunkSize = 1
    MaxBatches = 2
    PrefillInterval = 1
    ShortTurns = 1
    Setups <- MCHasty
    MaxStale = 1
    Gone = Gone
SYMMETRY MCSymmetry
SPECIFICATION Spec
CHECK_DEADLOCK FALSE
INVARIANT WholePromptFirst
