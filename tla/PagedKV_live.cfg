CONSTANTS
    Blocks = {b1, b2}
    Seqs = {s1, s2}
    t1 = t1
    t2 = t2
    Tokens = {t1}
    Prompts <- MCShort
    BlockSize = 2
    Prealloc = 1
    MaxLen = 4
    MaxBatches = 2
    MaxPrefillTokens = 4
    PrefixCaching = TRUE
    NoSeq = NoSeq
SPECIFICATION LiveSpec
PROPERTY RequestsEnd
