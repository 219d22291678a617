----------------------------- MODULE RequestFlow -----------------------------
(***************************************************************************)
(* The life of a request in lmdeploy's PyTorch engine, between the client  *)
(* coroutine that streams it and the scheduler that runs it                *)
(* (lmdeploy/pytorch/engine: request.py, engine_instance.py, the handlers  *)
(* and sleep of engine.py, the tasks of engine_loop.py).                   *)
(*                                                                         *)
(* All of it runs on one asyncio event loop: a step of this module is what *)
(* a task does between two awaits.  The tasks are the clients, the request *)
(* loop, the main loop, the migration loop, the response loop, the worker  *)
(* and, now and then, a coroutine that puts the engine to sleep.           *)
(*                                                                         *)
(* A client sends one request in a session of its own.  Blocks, batches    *)
(* and the choice of what runs are PagedKV's subject; here a pass runs any *)
(* waiting sequences, or all the running ones.                             *)
(***************************************************************************)
EXTENDS Integers, Sequences, FiniteSets

CONSTANTS
    Clients,    \* client coroutines, each with a session and one request
    Setups      \* engines and their clients, see below

\* clients: who may send.  tokens: max_new_tokens.  migrates: a decode engine,
\* requests bring KV from a prefill engine.  preserves: a prefill engine,
\* requests ask to preserve their KV.  sleeps: it may be put to sleep.
\* suspends: a worker's step waits inside (guided decoding does).  crashes: a
\* task of the engine loop may fail.
IsSetup(u) ==
    /\ u.clients \subseteq Clients /\ u.tokens \in Nat \ {0}
    /\ {u.migrates, u.preserves, u.sleeps, u.suspends, u.crashes} \subseteq BOOLEAN
    /\ u.preserves => u.tokens = 1 /\ ~u.migrates

ASSUME ConstantsAssumption == \A u \in Setups : IsSetup(u)

VARIABLES
    client,   \* where the coroutine of a client is
    owes,     \* session_added: the session must be ended
    seen,     \* tokens and logprobs handed to the client
    answer,   \* the terminal answer the client read
    resp,     \* the Response of its message
    requests, \* RequestManager.requests
    blocked,  \* RequestManager._blocked_request_types
    status,   \* the session's sequence, "none" without a session
    gen,      \* tokens it generated
    pc,       \* EngineLoop.main_loop
    runable,  \* EngineLoop.has_runable_event
    mine,     \* batches the main loop sent and has not collected
    work, step, outs,  \* the worker: queued, under way, done
    out,      \* resp_queue: the last output and new logprobs per client
    mpc, ready, mevent, \* migration_loop: control, batch, migration_event
    sleepReq, slp, mainAck, migAck, \* the sleep handshake
    alive,    \* the engine loop has not failed
    setup     \* the engine at hand

clientVars == <<client, owes, seen, answer>>
reqVars    == <<requests, blocked>>
seqVars    == <<status, gen>>
mainVars   == <<pc, runable, mine>>
workVars   == <<work, step, outs>>
migVars    == <<mpc, ready, mevent>>
sleepVars  == <<sleepReq, slp, mainAck, migAck>>
vars == <<clientVars, resp, reqVars, seqVars, mainVars, workVars, out, migVars, sleepVars, alive, setup>>

Migrates  == setup.migrates
Preserves == setup.preserves

Fresh  == [type |-> "INIT", tokens |-> 0, lps |-> 0, done |-> FALSE, event |-> FALSE]
NoOut  == [tokens |-> 0, fin |-> FALSE, lps |-> 0]

\* reject_request: the answer is CANCEL, whatever data was there.
Rejected(r) == [r EXCEPT !.type = "CANCEL", !.done = TRUE, !.event = TRUE]

WithStatus(S)  == {c \in Clients : status[c] \in S}
Runnable(st)   == \E c \in Clients : st[c] \in {"WAITING", "MIGRATION_DONE"}

\* The tasks of the engine run; a loop that never awaits starves them all.
Turns   == mpc # "spin"
Engine  == Turns /\ alive

---------------------------------------------------------------------------
(* The client: EngineInstance.async_stream_infer. *)

\* ADD_SESSION and ADD_MESSAGE are sent together, or rejected on the spot.
Infer(c) ==
    /\ Turns /\ client[c] = "new" /\ c \in setup.clients
    /\ client' = [client EXCEPT ![c] = "gate"]
    /\ IF blocked
         THEN /\ resp' = [resp EXCEPT ![c] = Rejected(@)]
              /\ UNCHANGED <<owes, requests>>
         ELSE /\ owes' = [owes EXCEPT ![c] = TRUE]
              /\ requests' = requests \cup {<<"ADD", c>>}
              /\ UNCHANGED resp
    /\ UNCHANGED <<seen, answer, blocked, seqVars, mainVars, workVars, out, migVars, sleepVars, alive, setup>>

\* prepare_send lets one receiver at a time pass.
Gate(c) ==
    /\ Turns /\ client[c] = "gate"
    /\ client' = [client EXCEPT ![c] = "recv"]
    /\ UNCHANGED <<owes, seen, answer, resp, reqVars, seqVars, mainVars, workVars, out, migVars,
                   sleepVars, alive, setup>>

\* Mutant: the coroutine returns without ending its session.
JustCloses(c) == client' = [client EXCEPT ![c] = "closed"] /\ UNCHANGED requests

\* A client that is through with its message ends its session.
Ends(c) ==
    /\ client' = [client EXCEPT ![c] = IF owes[c] THEN "ending" ELSE "closed"]
    /\ requests' = IF owes[c] THEN requests \cup {<<"END", c>>} ELSE requests

\* Mutant: the logprobs a client took stay in the response.
KeptLogprobs(r) == [r EXCEPT !.event = FALSE]

\* Reading clears the event and pops the logprobs.
Taken(r) == [r EXCEPT !.event = FALSE, !.lps = 0]

\* A SUCCESS without data is no output: the coroutine fails on it.
Continues(r) == r.type = "SUCCESS" /\ r.tokens > 0

\* The event is up: what the response says now is what the client reads.
Read(c) ==
    /\ Turns /\ client[c] = "recv" /\ resp[c].event
    /\ seen' = [seen EXCEPT ![c] = [tokens |-> resp[c].tokens, lps |-> @.lps + resp[c].lps]]
    /\ resp' = [resp EXCEPT ![c] = Taken(@)]
    /\ IF Continues(resp[c])
         THEN client' = [client EXCEPT ![c] = "gate"] /\ UNCHANGED <<answer, requests>>
         ELSE answer' = [answer EXCEPT ![c] = resp[c].type] /\ Ends(c)
    /\ UNCHANGED <<owes, blocked, seqVars, mainVars, workVars, out, migVars, sleepVars, alive, setup>>

\* Mutant: waiting for an answer has no time limit.
NeverGivesUp(c) == FALSE

\* async_recv looks every second whether the engine loop is still there.
SeesDeath(c) == ~alive /\ ~resp[c].event

NoEngine(c) ==
    /\ Turns /\ client[c] = "recv" /\ SeesDeath(c)
    /\ answer' = [answer EXCEPT ![c] = "STOP_ERROR"] /\ Ends(c)
    /\ UNCHANGED <<owes, seen, resp, blocked, seqVars, mainVars, workVars, out, migVars, sleepVars, alive, setup>>

\* The consumer goes away: safe_run cancels, then the generator is closed.
Leave(c) ==
    /\ Turns /\ client[c] \in {"gate", "recv"}
    /\ client' = [client EXCEPT ![c] = "stopping"]
    /\ requests' = requests \cup {<<"STOP", c>>}
    /\ UNCHANGED <<owes, seen, answer, resp, blocked, seqVars, mainVars, workVars, out, migVars,
                   sleepVars, alive, setup>>

\* The answer to a STOP or an END came, or never will.
Served(kind, c) == <<kind, c>> \notin requests \/ ~alive

Close(c) ==
    /\ Turns
    /\ \/ client[c] = "stopping" /\ Served("STOP", c) /\ Ends(c)
       \/ /\ client[c] = "ending" /\ Served("END", c)
          /\ client' = [client EXCEPT ![c] = "closed"] /\ UNCHANGED requests
    /\ UNCHANGED <<owes, seen, answer, resp, blocked, seqVars, mainVars, workVars, out, migVars,
                   sleepVars, alive, setup>>

\* Session.async_abort: somebody else cancels the request.
Abort(c) ==
    /\ Turns /\ client[c] \in {"gate", "recv"}
    /\ requests' = requests \cup {<<"STOP", c>>}
    /\ UNCHANGED <<clientVars, resp, blocked, seqVars, mainVars, workVars, out, migVars, sleepVars, alive, setup>>

---------------------------------------------------------------------------
(* The request loop: RequestManager.step and the handlers.  Everything queued
   is handled in one go, by type: ADD, then STOP, then END. *)

Asked(kind) == {c \in Clients : <<kind, c>> \in requests}

\* Mutant: what was queued before the types were blocked is let in.
AllAdmitted == TRUE

\* Queued requests of a blocked type are rejected as well.
Admitted == ~blocked

AfterAdd(c) == IF c \in Asked("ADD") /\ Admitted
                 THEN IF Migrates THEN "MIGRATION_WAITING" ELSE "WAITING"
                 ELSE status[c]

AfterStop(c) == IF c \in Asked("STOP") /\ AfterAdd(c) # "none" THEN "STOPPED" ELSE AfterAdd(c)

\* Mutant: whoever is stopped is cancelled, even one that had finished.
CancelsAll(c) == c \in Asked("STOP") /\ AfterAdd(c) # "none"

\* Mutant: a stop cancels nobody.
CancelsNone(c) == FALSE

\* A sequence that finished by itself is answered by its last output.
Cancels(c) == c \in Asked("STOP") /\ AfterAdd(c) \notin {"none", "STOPPED", "TO_BE_MIGRATED"}

\* seq.finish() exists in these states only.
Finishable == {"RUNNING", "TO_BE_MIGRATED", "MIGRATION_DONE"}

\* With its cache preserved a session stays until the decode engine frees it.
AfterEnd(c) ==
    IF c \notin Asked("END") THEN AfterStop(c)
    ELSE IF Preserves /\ AfterStop(c) # "none" THEN "STOPPED" ELSE "none"

Fails == \E c \in Asked("END") : Preserves /\ AfterStop(c) \notin Finishable \cup {"none"}

\* An asyncio event wakes the waiter for good, even if it is cleared again.
Woken(at, raised) == IF at = "idle" /\ raised THEN "top" ELSE at

Process ==
    /\ Engine /\ requests # {}
    /\ status' = [c \in Clients |-> AfterEnd(c)]
    /\ resp' = [c \in Clients |-> IF Cancels(c) \/ (c \in Asked("ADD") /\ ~Admitted)
                                    THEN Rejected(resp[c]) ELSE resp[c]]
    /\ alive' = ~Fails
    /\ requests' = {}
    /\ mevent' = (mevent \/ (Migrates /\ Asked("ADD") # {} /\ Admitted))
    /\ runable' = Runnable(status')
    /\ pc' = Woken(pc, runable')
    /\ UNCHANGED <<clientVars, blocked, gen, mine, workVars, out, mpc, ready, sleepVars, setup>>

\* The decode engine has fetched the KV: its free message ends the session.
RemoteFree(c) ==
    /\ Engine /\ Preserves /\ answer[c] = "FINISH"
    /\ status[c] \in {"TO_BE_MIGRATED", "STOPPED"}
    /\ status' = [status EXCEPT ![c] = "none"]
    /\ UNCHANGED <<clientVars, resp, reqVars, gen, mainVars, workVars, out, migVars, sleepVars, alive, setup>>

Crash ==
    /\ Engine /\ setup.crashes
    /\ alive' = FALSE
    /\ UNCHANGED <<clientVars, resp, reqVars, seqVars, mainVars, workVars, out, migVars, sleepVars, setup>>

---------------------------------------------------------------------------
(* The main loop. *)

\* Migrated sequences join the waiting ones first.
Resumed == [c \in Clients |-> IF status[c] = "MIGRATION_DONE" THEN "WAITING" ELSE status[c]]

\* What a pass may send: some of the waiting, or all that run.
Passes ==
    LET wait == {c \in Clients : Resumed[c] = "WAITING"}
        run  == IF Preserves THEN {} ELSE WithStatus({"RUNNING"})
    IN ({run} \cup SUBSET wait) \ {{}}

Dispatch(batch) ==
    /\ status' = [c \in Clients |-> IF c \in batch THEN "RUNNING" ELSE Resumed[c]]
    /\ mine' = Append(mine, batch) /\ work' = Append(work, batch)

Idle ==
    /\ Engine /\ pc = "top" /\ mine = <<>> /\ ~sleepReq
    /\ ~Runnable(status) /\ ~runable
    /\ pc' = "idle"
    /\ UNCHANGED <<clientVars, resp, reqVars, seqVars, runable, mine, workVars, out, migVars, sleepVars, alive, setup>>

Send(batch) ==
    /\ Engine /\ pc = "top" /\ mine = <<>> /\ ~sleepReq
    /\ Runnable(status) \/ runable
    /\ batch \in Passes
    /\ Dispatch(batch) /\ pc' = "sent"
    /\ UNCHANGED <<clientVars, resp, reqVars, gen, runable, step, outs, out, migVars, sleepVars, alive, setup>>

\* The next pass is sent before the output of this one is awaited.
Prefetch ==
    /\ Engine
    /\ pc = "sent" \/ (pc = "top" /\ mine # <<>> /\ ~sleepReq)
    /\ pc' = "out"
    /\ IF sleepReq \/ Passes = {}
         THEN UNCHANGED <<status, mine, work>>
         ELSE \E batch \in Passes : Dispatch(batch)
    /\ UNCHANGED <<clientVars, resp, reqVars, gen, runable, step, outs, out, migVars, sleepVars, alive, setup>>

\* Mutant: of several outputs of a session the oldest tokens are sent.
OldestSent(c, tokens, fin) ==
    [tokens |-> IF out[c] = NoOut THEN tokens ELSE out[c].tokens, fin |-> fin, lps |-> out[c].lps + 1]

\* The response loop will send the newest output of a session, with the
\* logprobs of them all.
Queued(c, tokens, fin) == [tokens |-> tokens, fin |-> fin, lps |-> out[c].lps + 1]

\* The output of a pass: one more token for every sequence that still runs.
Collect(finished) ==
    LET live == {c \in Head(mine) : status[c] = "RUNNING"} IN
    /\ Engine /\ pc = "out" /\ outs # <<>>
    /\ finished \subseteq live
    /\ \A c \in live \ finished : gen[c] + 1 < setup.tokens
    /\ gen' = [c \in Clients |-> IF c \in live THEN gen[c] + 1 ELSE gen[c]]
    /\ status' = [c \in Clients |-> IF c \notin finished THEN status[c]
                                    ELSE IF Preserves THEN "TO_BE_MIGRATED" ELSE "STOPPED"]
    /\ out' = [c \in Clients |-> IF c \in live THEN Queued(c, gen'[c], c \in finished) ELSE out[c]]
    /\ outs' = Tail(outs) /\ mine' = Tail(mine)
    /\ runable' = Runnable(status')
    /\ pc' = "top"
    /\ UNCHANGED <<clientVars, resp, reqVars, work, step, migVars, sleepVars, alive, setup>>

\* A safe point: what was prefetched is dropped, the sleeper may go on.
MainDrains ==
    /\ Engine /\ pc = "top" /\ sleepReq
    /\ mine' = <<>> /\ mainAck' = TRUE /\ pc' = "drained"
    /\ UNCHANGED <<clientVars, resp, reqVars, seqVars, runable, workVars, out, migVars, sleepReq, slp,
                   migAck, alive, setup>>

---------------------------------------------------------------------------
(* The worker and the response loop. *)

\* A step runs to its end, or waits inside for the grammar of its requests.
Forward ==
    /\ Engine /\ step = <<>> /\ work # <<>>
    /\ work' = Tail(work)
    /\ IF setup.suspends THEN step' = <<Head(work)>> /\ UNCHANGED outs
                   ELSE outs' = Append(outs, Head(work)) /\ UNCHANGED step
    /\ UNCHANGED <<clientVars, resp, reqVars, seqVars, mainVars, out, migVars, sleepVars, alive, setup>>

PushOutput ==
    /\ Engine /\ step # <<>>
    /\ outs' = outs \o step /\ step' = <<>>
    /\ UNCHANGED <<clientVars, resp, reqVars, seqVars, mainVars, work, out, migVars, sleepVars, alive, setup>>

\* Logprobs pile up until the client takes them.
PiledLogprobs(c) == resp[c].lps + out[c].lps

SentType(c) == IF out[c].fin THEN "FINISH" ELSE IF resp[c].done THEN resp[c].type ELSE "SUCCESS"

\* The response loop empties its queue.  A FINISH is not taken back.
Respond ==
    /\ Engine /\ \E c \in Clients : out[c] # NoOut
    /\ resp' = [c \in Clients |->
                  IF out[c] = NoOut \/ resp[c].type = "FINISH" THEN resp[c]
                  ELSE [resp[c] EXCEPT !.type = SentType(c), !.tokens = out[c].tokens,
                                       !.lps = PiledLogprobs(c), !.event = TRUE]]
    /\ out' = [c \in Clients |-> NoOut]
    /\ UNCHANGED <<clientVars, reqVars, seqVars, mainVars, workVars, migVars, sleepVars, alive, setup>>

---------------------------------------------------------------------------
(* The migration loop of a decode engine. *)

MigTop == Engine /\ Migrates /\ (mpc \in {"top", "nap"} \/ (mpc = "wait" /\ mevent))

\* Some of the waiting get blocks and their KV is fetched.
Admit(batch) ==
    /\ MigTop /\ ~sleepReq
    /\ batch # {} /\ batch \subseteq WithStatus({"MIGRATION_WAITING"})
    /\ status' = [c \in Clients |-> IF c \in batch THEN "MIGRATION_READY" ELSE status[c]]
    /\ ready' = batch /\ mevent' = FALSE /\ mpc' = "busy"
    /\ UNCHANGED <<clientVars, resp, reqVars, gen, mainVars, workVars, out, sleepVars, alive, setup>>

\* Nobody could be admitted: half a second is slept for the sake of decoding,
\* or the event is awaited; that returns at once if it is up.
NoneAdmitted ==
    /\ MigTop /\ ~sleepReq
    /\ mpc' = IF WithStatus({"MIGRATION_WAITING"}) # {} THEN "nap"
              ELSE IF mevent THEN "spin" ELSE "wait"
    /\ UNCHANGED <<clientVars, resp, reqVars, seqVars, mainVars, workVars, out, ready, mevent,
                   sleepVars, alive, setup>>

\* The KV is here: the first token comes from the prefill engine.
Migrated ==
    LET live == {c \in ready : status[c] = "MIGRATION_READY"} IN
    /\ Engine /\ mpc = "busy"
    /\ resp' = [c \in Clients |-> IF c \in ready THEN [resp[c] EXCEPT !.type = "SUCCESS"] ELSE resp[c]]
    /\ out' = [c \in Clients |-> IF c \in ready THEN [NoOut EXCEPT !.tokens = 1] ELSE out[c]]
    /\ gen' = [c \in Clients |-> IF c \in live THEN 1 ELSE gen[c]]
    /\ status' = [c \in Clients |-> IF c \in live THEN "MIGRATION_DONE" ELSE status[c]]
    /\ runable' = Runnable(status')
    /\ pc' = Woken(pc, runable')
    /\ mpc' = "top" /\ ready' = {}
    /\ UNCHANGED <<clientVars, reqVars, mine, workVars, mevent, sleepVars, alive, setup>>

MigDrains ==
    /\ MigTop /\ sleepReq
    /\ mevent' = FALSE /\ migAck' = TRUE /\ mpc' = "drained"
    /\ UNCHANGED <<clientVars, resp, reqVars, seqVars, mainVars, workVars, out, ready, sleepReq, slp,
                   mainAck, alive, setup>>

---------------------------------------------------------------------------
(* Sleep and wakeup. *)

\* Mutant: an idle main loop is not woken to see the request.
StillIdle(at) == at

\* The main loop is woken, however idle.
WokenToDrain(at) == Woken(at, TRUE)

\* Only an engine that migrates has a migration loop to wait for.
MigNeedsNoAck == ~Migrates

StartSleep ==
    /\ Engine /\ setup.sleeps /\ slp = "awake"
    /\ blocked' = TRUE /\ sleepReq' = TRUE /\ slp' = "drain"
    /\ mainAck' = FALSE /\ migAck' = MigNeedsNoAck
    /\ runable' = TRUE /\ pc' = WokenToDrain(pc)
    /\ mevent' = (mevent \/ Migrates)
    /\ UNCHANGED <<clientVars, resp, requests, seqVars, mine, workVars, out, mpc, ready, alive, setup>>

\* Responses sleep cancels: those of sessions, unless cancelled already.
Active(c) == status[c] # "none" /\ ~resp[c].done

\* Both loops are at rest: active responses are cancelled, sessions ended.
CancelAll ==
    /\ Engine /\ slp = "drain" /\ mainAck /\ migAck
    /\ resp' = [c \in Clients |-> IF Active(c) THEN Rejected(resp[c]) ELSE resp[c]]
    /\ status' = [c \in Clients |-> "none"]
    /\ slp' = "ending"
    /\ UNCHANGED <<clientVars, reqVars, gen, mainVars, workVars, out, migVars, sleepReq, mainAck,
                   migAck, alive, setup>>

\* Mutant: what the worker had queued survives.
KeptQueue(q) == q

\* ModelAgent._drain_queues.
Drained(q) == <<>>

WorkerSleeps ==
    /\ Engine /\ slp = "ending"
    /\ work' = Drained(work) /\ outs' = Drained(outs)
    /\ slp' = "asleep"
    /\ UNCHANGED <<clientVars, resp, reqVars, seqVars, mainVars, step, out, migVars, sleepReq, mainAck,
                   migAck, alive, setup>>

Wakeup ==
    /\ Engine /\ slp = "asleep"
    /\ slp' = "awake" /\ blocked' = FALSE /\ sleepReq' = FALSE
    /\ runable' = Runnable(status)
    /\ pc' = "top" /\ mpc' = IF Migrates THEN "top" ELSE mpc
    /\ UNCHANGED <<clientVars, resp, requests, seqVars, mine, workVars, out, ready, mevent, mainAck,
                   migAck, alive, setup>>

---------------------------------------------------------------------------
(* The specification. *)

Init ==
    /\ setup \in Setups
    /\ client = [c \in Clients |-> "new"] /\ owes = [c \in Clients |-> FALSE]
    /\ seen = [c \in Clients |-> [tokens |-> 0, lps |-> 0]]
    /\ answer = [c \in Clients |-> "none"] /\ resp = [c \in Clients |-> Fresh]
    /\ requests = {} /\ blocked = FALSE
    /\ status = [c \in Clients |-> "none"] /\ gen = [c \in Clients |-> 0]
    /\ pc = "top" /\ runable = FALSE /\ mine = <<>>
    /\ work = <<>> /\ step = <<>> /\ outs = <<>>
    /\ out = [c \in Clients |-> NoOut]
    /\ mpc = "top" /\ ready = {} /\ mevent = FALSE
    /\ sleepReq = FALSE /\ slp = "awake" /\ mainAck = TRUE /\ migAck = TRUE
    /\ alive = TRUE

Receive(c) == Gate(c) \/ Read(c) \/ NoEngine(c) \/ Close(c)
MainLoop ==
    \/ Idle \/ (\E batch \in SUBSET Clients : Send(batch)) \/ Prefetch
    \/ (\E finished \in SUBSET Clients : Collect(finished)) \/ MainDrains
Worker == Forward \/ PushOutput
MigrationLoop ==
    \/ (\E batch \in SUBSET Clients : Admit(batch)) \/ NoneAdmitted \/ Migrated \/ MigDrains
Sleeper == CancelAll \/ WorkerSleeps

Next ==
    \/ \E c \in Clients : Infer(c) \/ Receive(c) \/ Leave(c) \/ Abort(c) \/ RemoteFree(c)
    \/ Process \/ Crash \/ MainLoop \/ Worker \/ Respond \/ MigrationLoop
    \/ StartSleep \/ Sleeper \/ Wakeup
Spec == Init /\ [][Next]_vars

\* asyncio runs every task that can run.  Nobody has to leave, abort, sleep,
\* wake or crash.
Fairness ==
    /\ \A c \in Clients : WF_vars(Receive(c))
    /\ WF_vars(Process) /\ WF_vars(MainLoop) /\ WF_vars(Worker) /\ WF_vars(Respond)
    /\ WF_vars(MigrationLoop) /\ WF_vars(Sleeper)
LiveSpec == Spec /\ Fairness
=============================================================================
