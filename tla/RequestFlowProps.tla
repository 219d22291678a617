--------------------------- MODULE RequestFlowProps ---------------------------
(***************************************************************************)
(* What the request path of the engine promises its clients.               *)
(***************************************************************************)
EXTENDS RequestFlow

\* The variables have the types their comments say.
TypeOK ==
    /\ setup \in Setups
    /\ client \in [Clients -> {"new", "gate", "recv", "stopping", "ending", "closed"}]
    /\ owes \in [Clients -> BOOLEAN]
    /\ \A c \in Clients : seen[c].tokens \in 0..setup.tokens /\ seen[c].lps \in 0..setup.tokens
    /\ answer \in [Clients -> {"none", "FINISH", "CANCEL", "SUCCESS", "STOP_ERROR"}]
    /\ resp \in [Clients -> [type : {"INIT", "SUCCESS", "FINISH", "CANCEL"}, tokens : 0..setup.tokens,
                             lps : 0..setup.tokens, done : BOOLEAN, event : BOOLEAN]]
    /\ requests \subseteq {"ADD", "STOP", "END"} \X Clients
    /\ status \in [Clients -> {"none", "WAITING", "RUNNING", "STOPPED", "TO_BE_MIGRATED",
                               "MIGRATION_WAITING", "MIGRATION_READY", "MIGRATION_DONE"}]
    /\ gen \in [Clients -> 0..setup.tokens]
    /\ pc \in {"top", "idle", "sent", "out", "drained"}
    /\ Len(mine) <= 2 /\ Len(work) <= 2 /\ Len(step) <= 1 /\ Len(outs) <= 2
    /\ mpc \in {"top", "nap", "wait", "busy", "spin", "drained"} /\ ready \subseteq Clients
    /\ slp \in {"awake", "drain", "ending", "asleep"}
    /\ {blocked, runable, mevent, sleepReq, mainAck, migAck, alive} \subseteq BOOLEAN

\* Of several outputs of a session only the newest is sent, its logprobs are
\* those of them all, and the client takes them away when it reads: every token
\* the client was handed came with its logprobs, once, and a client that reads
\* FINISH has every token its sequence generated (_send_resps, _update_logprobs,
\* async_stream_infer).
DeliveredAll ==
    \A c \in Clients : /\ ~Migrates => seen[c].lps = seen[c].tokens
                       /\ answer[c] = "FINISH" => seen[c].tokens = gen[c]

\* A client that waits for a sequence that will not run again has its last
\* answer on the way (_on_stop_session, _cancel_and_end_all_sessions).
WaitersAreAnswered ==
    \A c \in Clients :
        /\ alive /\ client[c] \in {"gate", "recv"} /\ <<"ADD", c>> \notin requests
        /\ status[c] \in {"none", "STOPPED", "TO_BE_MIGRATED"}
        => out[c].fin \/ (resp[c].event /\ resp[c].type \in {"FINISH", "CANCEL"})

\* Stopping a request that had finished by itself does not turn its FINISH
\* into a CANCEL (stopped_resp_ids in _on_stop_session); only sleep does that.
FinishSticks ==
    [][\A c \in Clients : resp[c].type = "FINISH" => resp'[c].type = "FINISH" \/ slp = "drain"]_vars

\* A client that is gone leaves no session in the scheduler (the finally of
\* async_stream_infer), whichever way it went, unless its KV is preserved.
NoLeak == \A c \in Clients : alive /\ client[c] = "closed" /\ ~Preserves => status[c] = "none"

\* The worker gives up its cache when nobody can use it any more: no session is
\* left, what was queued before sleep blocked its type is not let in
\* (process_request), and no KV is being fetched (_migration_sleep_drain_event).
SleepFindsNobody ==
    slp \in {"ending", "asleep"} => mpc # "busy" /\ \A c \in Clients : status[c] = "none"

\* The output the main loop takes is that of the batch it applies it to, also
\* after sleep dropped a batch whose forward was queued (_drain_queues).
OutputsMatch == pc = "out" /\ outs # <<>> => Head(outs) = Head(mine)

\* migration_loop always comes to an await: the engine's other tasks run.
NeverSpins == mpc # "spin"

\* No order of requests makes a handler raise, which ends the engine loop.
EngineSurvives == alive

\* Every request gets its last answer and its client returns, also when the
\* engine sleeps or its loop has died (async_recv).  In a decode engine the
\* answer may be lost (WaitersAreAnswered).
EveryRequestEnds ==
    \A c \in Clients : client[c] = "gate" /\ ~Migrates ~> client[c] = "closed"

\* Sleep, once asked for, comes to its end, however idle or busy the loops are
\* (drain_for_sleep), if migration_loop is not spinning (NeverSpins).
SleepComes == slp = "drain" ~> (slp = "asleep" \/ ~alive \/ mpc = "spin")
=============================================================================
