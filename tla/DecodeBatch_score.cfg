CONSTANTS
    Seqs = {s1, s2}
    Kinds = {"generate", "score"}
    PromptLens = {1, 3}
    MaxLen = 4
    BlockSize = 1
    Prealloc = 1
    ChunkSize = 2
    MaxBatches = 3
    PrefillInterval = 1
    ShortTurns = 1
    Setups <- MCFree
    MaxStale = 1
    Gone = Gone
SYMMETRY MCSymmetry
SPECIFICATION Spec
CHECK_DEADLOCK FALSE
INVARIANT ScoringApart
