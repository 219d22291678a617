------------------------------ MODULE MCSessions ------------------------------
EXTENDS SessionsProps, TLC

CONSTANTS r1, r2, r3, r4, h1, h2
MCThree   == {r1, r2, r3}
MCOne     == {h1}
MCTwo     == {h1, h2}
MCOwn     == [r \in MCThree |-> r]
MCFour    == {r1, r2, r3, r4}
MCShared  == [r \in MCFour |-> IF r = r2 THEN r1 ELSE r]
MCRenamed == Permutations(MCThree)
=============================================================================
