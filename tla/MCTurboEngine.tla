---------------------------- MODULE MCTurboEngine ----------------------------
EXTENDS TurboEngineProps
CONSTANTS r1, r2, r3

\* What each request brings, and a request that never comes.
Of(a, b, c) == r1 :> a @@ r2 :> b @@ r3 :> c
Without(r)  == [Of({}, {}, {}) EXCEPT ![r] = {r}]

\* Two long requests on memory that holds one and a half.
Swaps   == [phases |-> 2, blockSize |-> 1, blocks |-> 5, maxBatch |-> 2, maxForward |-> 3, maxContext |-> 6,
            sessionLen |-> 5, stream |-> TRUE, cancels |-> FALSE,
            prompt |-> Of(2, 2, 1), new |-> Of(3, 2, 1), session |-> Of(1, 2, 3), after |-> Without(r3)]
\* The same on blocks of two positions, with prompts that come in chunks.
Chunks  == [Swaps EXCEPT !.blockSize = 2, !.blocks = 3, !.prompt = Of(3, 3, 1), !.new = Of(2, 2, 1)]
\* Three requests for two places, one phase, answers only at the end.
Sync    == [Swaps EXCEPT !.phases = 1, !.stream = FALSE, !.after = Of({}, {}, {}), !.new = Of(2, 1, 1)]
\* Two requests of one session that may be cancelled, and a third.
Cancels == [Swaps EXCEPT !.cancels = TRUE, !.session = Of(1, 1, 2), !.after = Of({}, {r1}, {r3}), !.new = Of(2, 1, 1)]
\* One is too long for the session, one for the cache and the context budget,
\* and one grows until it is, unless it stops just before.
TooBig  == [Swaps EXCEPT !.blocks = 2, !.maxContext = 2, !.maxBatch = 3, !.prompt = Of(6, 3, 1), !.new = Of(1, 1, 3),
            !.sessionLen = 4, !.after = Of({}, {}, {})]
MCSetups == {Swaps, Chunks, Sync, Cancels, TooBig}
=============================================================================
