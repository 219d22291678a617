---------------------------- MODULE MCRequestFlow ----------------------------
EXTENDS RequestFlowProps, TLC

CONSTANTS c1, c2
Plain    == [clients |-> {c1, c2}, tokens |-> 2, migrates |-> FALSE, preserves |-> FALSE,
             sleeps |-> FALSE, suspends |-> FALSE, crashes |-> FALSE]
Sleepy   == [Plain EXCEPT !.sleeps = TRUE]
Prefill  == [Plain EXCEPT !.preserves = TRUE, !.tokens = 1]
Decode   == [Plain EXCEPT !.migrates = TRUE]
Guided   == [Sleepy EXCEPT !.suspends = TRUE]
Fragile  == [Guided EXCEPT !.clients = {c1}, !.crashes = TRUE]
Resting  == [Decode EXCEPT !.clients = {c1}, !.sleeps = TRUE]

MCSafe    == {Sleepy, Prefill}
MCLive    == {Fragile, Resting}
MCPrefill == {Prefill}
MCDecode  == {Decode}
MCGuided  == {Guided}
MCSwap    == Permutations(Clients)
=============================================================================
