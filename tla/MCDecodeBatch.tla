---------------------------- MODULE MCDecodeBatch ----------------------------
EXTENDS DecodeBatchProps, TLC
Setup(n, p) == [blocks |-> n, patient |-> p]
MCRoomy    == {Setup(6, TRUE)}
MCTight    == {Setup(4, TRUE), Setup(10, FALSE)}
MCHasty    == {Setup(4, FALSE)}
MCFree     == {Setup(10, TRUE)}
MCSymmetry == Permutations(Seqs)
=============================================================================
