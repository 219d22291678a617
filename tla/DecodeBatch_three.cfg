CONSTANTS
    Seqs = {s1, s2, s3}
    Kinds = {"generate"}
    PromptLens = {1, 3}
    MaxLen = 4
    BlockSize = 2
    Prealloc = 1
    ChunkSize = 2
    MaxBatches = 2
    PrefillInterval = 1
    ShortTurns = 1
    Setups <- MCRoomy
    MaxStale = 1
    Gone = Gone
SYMMETRY MCSymmetry
SPECIFICATION Spec
CHECK_DEADLOCK FALSE
INVARIANTS
    TypeOK RowsAligned SteppedOnce WholePromptFirst AwakeWhileRunning
