CONSTANTS
    Blocks = {b1, b2, b3}
    Seqs = {s1, s2}
    t1 = t1
    t2 = t2
    Tokens = {t1, t2}
    Prompts <- MCPair
    BlockSize = 2
    Prealloc = 1
    MaxLen = 6
    MaxBatches = 2
    MaxPrefillTokens = 6
    PrefixCaching = TRUE
    NoSeq = NoSeq
SYMMETRY MCSymmetry
SPECIFICATION Spec
CONSTRAINT Greedy
INVARIANT MatchAligned
