----------------------------- MODULE MCKVTransfer -----------------------------
EXTENDS KVTransferProps, TLC
CONSTANTS ta, tb, tc, td, s1, s2, r1, r2, NumBlocks, NumSaves
MCBlocks  == 1..NumBlocks
MCSaveIds == 1..NumSaves

\* Prompts: one, or two that share nothing, for every slot, or one for each.
Same  == {<<ta, tb>>}
Two   == {<<ta, tb>>, <<tc, td>>}
Both2(p) == [s \in Seqs |-> p]
Only1(p) == s1 :> p
Long     == s1 :> {<<ta, tb, tb>>} @@ s2 :> {<<tc, td, td>>}

Hybrid1(prompts) == [ranks |-> {r1}, hybrid |-> TRUE, consumer |-> TRUE, producer |-> FALSE,
                     sleeps |-> FALSE, prompts |-> prompts, patient |-> FALSE]
Loader      == Hybrid1(Both2(Two))
TwoRanks    == [Hybrid1(Both2(Same)) EXCEPT !.ranks = {r1, r2}]
Sleeper     == [Hybrid1(Both2(Same)) EXCEPT !.sleeps = TRUE]
Saver       == [Hybrid1(Both2(Two)) EXCEPT !.hybrid = FALSE, !.consumer = FALSE, !.producer = TRUE]
Both        == [Hybrid1(Only1(Same)) EXCEPT !.producer = TRUE]
Stateless   == [Hybrid1(Both2(Two)) EXCEPT !.hybrid = FALSE]
Competitors == [Hybrid1(Long) EXCEPT !.hybrid = FALSE, !.patient = TRUE]
Ender       == [Hybrid1(Only1(Same)) EXCEPT !.hybrid = FALSE, !.producer = TRUE, !.sleeps = TRUE]
MCSafe  == {Loader, TwoRanks, Sleeper, Saver, Both}
MCLive  == {Competitors, Ender}
MCStale == {Stateless}
MCSwap  == Permutations(Seqs) \cup Permutations({r1, r2})
             \cup {ta :> tc @@ tc :> ta @@ tb :> td @@ td :> tb}
=============================================================================
