----------------------------- MODULE TurboEngine -----------------------------
(***************************************************************************)
(* The TurboMind engine of one rank: the gateway's request queue and       *)
(* signal thread, the engine thread's loop (pop, admit, schedule, submit,  *)
(* collect), the scheduler without prefix caching or checkpoints, the      *)
(* model executor with the state it carries from batch to batch, and the   *)
(* Python coroutine that reads the answers.  With two phases the engine    *)
(* schedules a batch while the one before it still runs, on lengths it     *)
(* predicts: seq_len plus what is in flight.                               *)
(***************************************************************************)
EXTENDS Integers, FiniteSets, Sequences, SequencesExt

CONSTANTS
    Reqs,       \* the requests
    NoReq,      \* an empty slot of the engine's state
    Setups      \* the engines and workloads a run starts from

(* A forward takes at least a block of tokens. *)
IsSetup(u) ==
    /\ u.phases \in {1, 2} /\ {u.stream, u.cancels} \subseteq BOOLEAN
    /\ {u.blocks, u.maxBatch, u.maxContext, u.sessionLen} \subseteq Nat
    /\ u.blockSize \in Nat \ {0} /\ u.maxForward \in Nat /\ u.maxForward >= u.blockSize
    /\ u.prompt \in [Reqs -> Nat \ {0}] /\ u.new \in [Reqs -> Nat]
    /\ u.after \in [Reqs -> SUBSET Reqs]

ASSUME TurboEngineAssumption ==
    /\ IsFiniteSet(Reqs) /\ NoReq \notin Reqs
    /\ \A u \in Setups : IsSetup(u)

Ok == 0
Conflict == 2
TooLong == 6
Finish == 7
Canceled == 8
OutOfMemory == 11

NoSeq   == [uid |-> 0, len |-> 0, filled |-> 0, input |-> 0, active |-> FALSE, auto |-> FALSE,
            gen |-> FALSE, retiring |-> FALSE, inflight |-> 0, iin |-> 0, inew |-> 0]
NoBatch == [bs0 |-> 0, perm |-> <<>>, rows |-> <<>>, kept |-> [r \in Reqs |-> 0], res |-> <<>>]
Unsampled == [req |-> NoReq, pos |-> 0, good |-> FALSE]

\* A set in the order of a key, the entries of a sequence at some places or
\* of a set, the place of an entry, the blocks some requests hold.
Ranked(P, key)  == [i \in 1 .. Cardinality(P) |->
                      CHOOSE p \in P : Cardinality({x \in P : key[x] <= key[p]}) = i]
Entries(s, P)   == LET at == Ranked(P, [p \in P |-> p]) IN [i \in DOMAIN at |-> s[at[i]]]
Only(s, T)      == Entries(s, {i \in DOMAIN s : s[i] \in T})
Place(s, e)     == CHOOSE i \in DOMAIN s : s[i] = e
Total(W, holds) == Cardinality(UNION {{w} \X (1 .. holds[w]) : w \in W})

VARIABLES
    cfg,        \* the setup: never changes
    client,     \* the reader of each request: "idle", "reading" or, cancelled, "draining" until the
                \* answer comes, and then "done" or "gone"
    prev,       \* prev_len: the length up to which its tokens were handed on
    told,       \* the status of the state it ended with, Ok before
    sem,        \* StreamingSemaphore.val
    calls,      \* releases of it scheduled on the event loop
    state,      \* shared_state: the latest RequestState, {} once it is consumed
    flag,       \* cancel_flag: -1 cancelled, 0 queued, 1 taken by the engine
    queue,      \* RequestQueue
    signals,    \* SignalBuffer
    pc,         \* where the engine thread is: "pop", "admit", "submit", "collect"
    popped,     \* rs->infer: the requests just taken
    sigs,       \* the loop's signals that were not handed to the gateway yet
    slots,      \* State::rc, a request per slot or NoReq
    finish,     \* State::finish: slots that Retire emptied since the last Schedule
    perm,       \* State::perm: the place of each slot before the last Schedule
    nactive,    \* State::active: the leading slots that the last batch runs
    nswapout,   \* State::swapout: the slots after them that it no longer runs
    seq,        \* the Sequence of each request in slots
    held,       \* the blocks allocated to it: always its leading ones
    uids,       \* unique ids given
    outbound, inbound,  \* the queues to and from the executor
    dev,        \* per row of the batch run last: finished_, sequence_length_, autoreg_ids_
    kv,         \* the leading positions whose keys and values are right in device memory
    out         \* the tokens written to output_ids after the prompt

clientVars == <<client, prev, told, sem>>
gateVars   == <<calls, state, flag, queue, signals>>
stateVars  == <<slots, finish, perm, nactive, nswapout, seq, held>>
pipeVars   == <<outbound, inbound>>
deviceVars == <<dev, kv>>
loopVars   == <<pc, popped, sigs, uids>>
vars == <<cfg, clientVars, gateVars, loopVars, stateVars, pipeVars, deviceVars, out>>

Init ==
    /\ cfg \in Setups
    /\ client = [r \in Reqs |-> "idle"]
    /\ prev = [r \in Reqs |-> 0]
    /\ told = [r \in Reqs |-> Ok]
    /\ sem = [r \in Reqs |-> 0]
    /\ calls = [r \in Reqs |-> 0]
    /\ state = [r \in Reqs |-> {}]
    /\ flag = [r \in Reqs |-> 0]
    /\ queue = <<>> /\ signals = <<>>
    /\ pc = "pop" /\ popped = <<>> /\ sigs = <<>> /\ uids = 0
    /\ slots = <<>> /\ finish = 0 /\ perm = <<>> /\ nactive = 0 /\ nswapout = 0
    /\ seq = [r \in Reqs |-> NoSeq]
    /\ held = [r \in Reqs |-> 0]
    /\ outbound = <<>>
    /\ inbound = [i \in 1 .. cfg.phases - 1 |-> NoBatch]
    /\ dev = <<>>
    /\ kv = [r \in Reqs |-> 0]
    /\ out = [r \in Reqs |-> <<>>]

-----------------------------------------------------------------------------
(* The reader: turbomind.py's async_stream_infer.                          *)

(* forward: the request is queued.  The requests of a session follow each
   other: the next is sent when the one before it was answered. *)
Submit(r) ==
    /\ client[r] = "idle"
    /\ \A p \in cfg.after[r] : client[p] \in {"done", "gone"}
    /\ client' = [client EXCEPT ![r] = "reading"]
    /\ prev' = [prev EXCEPT ![r] = cfg.prompt[r]]
    /\ queue' = Append(queue, r)
    /\ UNCHANGED <<cfg, told, sem, calls, state, flag, signals, loopVars, stateVars, pipeVars, deviceVars, out>>

(* A release that the signal thread scheduled runs on the event loop. *)
Release(r) ==
    /\ calls[r] > 0
    /\ calls' = [calls EXCEPT ![r] = @ - 1]
    /\ sem' = [sem EXCEPT ![r] = 1]
    /\ UNCHANGED <<cfg, client, prev, told, state, flag, queue, signals, loopVars, stateVars, pipeVars,
                   deviceVars, out>>

(* acquire and consume.  Tokens are handed on while the coroutine reads,
   never while it only drains. *)
Consume(r) ==
    /\ client[r] \in {"reading", "draining"}
    /\ sem[r] = 1
    /\ \E s \in state[r] :
         /\ prev' = IF client[r] = "reading" /\ s.st \in {Ok, Finish, Canceled}
                    THEN [prev EXCEPT ![r] = s.len] ELSE prev
         /\ told' = [told EXCEPT ![r] = s.st]
         /\ client' = IF s.st = Ok THEN client
                      ELSE [client EXCEPT ![r] = IF @ = "reading" THEN "done" ELSE "gone"]
    /\ sem' = [sem EXCEPT ![r] = 0]
    /\ state' = [state EXCEPT ![r] = {}]
    /\ UNCHANGED <<cfg, calls, flag, queue, signals, loopVars, stateVars, pipeVars, deviceVars, out>>

(* Gateway::cancel: the request is answered here if no one took it yet. *)
Cancel(r) ==
    /\ flag' = [flag EXCEPT ![r] = -1]
    /\ signals' = IF flag[r] = 0 THEN Append(signals, [req |-> r, st |-> Canceled, len |-> 0]) ELSE signals

(* The consumer goes away or is cancelled: the coroutine cancels and drains. *)
Leave(r) ==
    /\ cfg.cancels
    /\ client[r] = "reading"
    /\ client' = [client EXCEPT ![r] = "draining"]
    /\ Cancel(r)
    /\ UNCHANGED <<cfg, prev, told, sem, calls, state, queue, loopVars, stateVars, pipeVars, deviceVars, out>>

(* async_cancel: the request is cancelled while its reader goes on reading. *)
AsyncCancel(r) ==
    /\ cfg.cancels
    /\ client[r] = "reading" /\ flag[r] # -1
    /\ Cancel(r)
    /\ UNCHANGED <<cfg, clientVars, calls, state, queue, loopVars, stateVars, pipeVars, deviceVars, out>>

(* The signal thread runs the oldest signal: UpdateState. *)
Signal ==
    /\ signals # <<>>
    /\ LET s == Head(signals) IN
       /\ state' = [state EXCEPT ![s.req] = {[st |-> s.st, len |-> s.len]}]
       /\ calls' = IF state[s.req] = {} THEN [calls EXCEPT ![s.req] = @ + 1] ELSE calls
    /\ signals' = Tail(signals)
    /\ UNCHANGED <<cfg, clientVars, flag, queue, loopVars, stateVars, pipeVars, deviceVars, out>>

-----------------------------------------------------------------------------
(* The engine thread: requests come in.                                    *)

(* What n_free counts: the places of a full batch that nobody holds. *)
Unused == cfg.maxBatch - Len(slots) + finish

(* RequestQueue::pop: the places of the queue it takes, until there is no
   room; a request that was cancelled meanwhile takes none. *)
Seen == {i \in DOMAIN queue : Cardinality({j \in 1 .. i - 1 : flag[queue[j]] = 0}) < Unused}

(* With nothing to run the thread waits for a request. *)
Pop ==
    /\ pc = "pop"
    /\ Unused = cfg.maxBatch => queue # <<>>
    /\ popped' = Entries(queue, {i \in Seen : flag[queue[i]] = 0})
    /\ queue' = Entries(queue, DOMAIN queue \ Seen)
    /\ flag' = [r \in Reqs |-> IF \E i \in Seen : queue[i] = r THEN 1 ELSE flag[r]]
    /\ pc' = "admit"
    /\ UNCHANGED <<cfg, clientVars, calls, state, signals, sigs, uids, stateVars, pipeVars, deviceVars, out>>

Present == Range(slots) \ {NoReq}
Twins(r) == {p \in Present \union Range(popped) : p # r /\ cfg.session[p] = cfg.session[r]}

(* Validate and Accept: how a request just taken is answered, Ok if it enters. *)
Verdict(r) ==
    IF flag[r] = -1 THEN Canceled
    ELSE IF Twins(r) # {} THEN Conflict
    ELSE IF cfg.prompt[r] > cfg.sessionLen THEN TooLong ELSE Ok

Entering == Only(popped, {r \in Range(popped) : Verdict(r) = Ok})
Refused  == Only(popped, {r \in Range(popped) : Verdict(r) # Ok})

\* Mutant: a sequence that ended and still waits for its batch is cancelled again.
DoomedAgain == Only(slots, {r \in Present : flag[r] = -1})

Doomed   == Only(slots, {r \in Present : flag[r] = -1 /\ ~seq[r].retiring})
Answers(rs, St(_), Length(_)) ==
    [i \in DOMAIN rs |-> [req |-> rs[i], st |-> St(rs[i]), len |-> Length(rs[i])]]

\* Mutant: the batch that still runs is forgotten.
OverAtOnce(q) == q.retiring

Over(q) == q.retiring /\ q.inflight = 0

(* Retire: the sequences that ended and that no batch names any more go. *)
Retire(rs, qs, hs) ==
    LET gone == {r \in Reqs : r \in Range(rs) /\ Over(qs[r])}
    IN /\ slots' = [i \in DOMAIN rs |-> IF rs[i] \in gone THEN NoReq ELSE rs[i]]
       /\ finish' = finish + Cardinality(gone)
       /\ seq' = [r \in Reqs |-> IF r \in gone THEN NoSeq ELSE qs[r]]
       /\ held' = [r \in Reqs |-> IF r \in gone THEN 0 ELSE hs[r]]

(* The sequence of a request after Accept and Cancel. *)
Admitted(r) ==
    IF r \in Range(Entering) THEN [NoSeq EXCEPT !.uid = uids + Place(popped, r), !.len = cfg.prompt[r]]
    ELSE IF r \in Range(Doomed) THEN [seq[r] EXCEPT !.retiring = TRUE] ELSE seq[r]

(* Validate, GetCanceled, Accept, Cancel, notify and Retire. *)
Admit ==
    /\ pc = "admit"
    /\ \E qs \in {[r \in Reqs |-> Admitted(r)]} : Retire(slots \o Entering, qs, held)
    /\ signals' = signals \o Answers(Refused, Verdict, LAMBDA r : 0)
                          \o Answers(Doomed, LAMBDA r : Canceled, LAMBDA r : seq[r].len)
    /\ popped' = <<>>
    /\ uids' = uids + Len(popped)
    /\ pc' = IF Len(slots') > finish' THEN "submit" ELSE "pop"
    /\ UNCHANGED <<cfg, clientVars, calls, state, flag, queue, sigs, perm, nactive, nswapout,
                   pipeVars, deviceVars, out>>

-----------------------------------------------------------------------------
(* The engine thread: Scheduler::Schedule.                                 *)

Blocks(n) == (n + cfg.blockSize - 1) \div cfg.blockSize
Lesser(a, b) == IF a < b THEN a ELSE b
Greater(a, b) == IF a > b THEN a ELSE b

(* The length a sequence has once what is in flight for it came back. *)
Context(q) == q.len + q.inew

(* PlanContinue and PlanResume: the leading positions a forward may skip.  A
   sequence that comes back reuses what it wrote and still holds, but the
   last position, which has to run for there to be logits. *)
Reusable(r) == Lesser(held[r] * cfg.blockSize, seq[r].filled)
Resume(r) == LET q == seq[r] IN
    IF q.active THEN q.filled ELSE Lesser(Reusable(r), Lesser(q.len, Context(q) - q.iin - 1))
ReadOnly(r) == IF seq[r].active THEN 0 ELSE Reusable(r) \div cfg.blockSize

(* The blocks left when r takes n of those it may: of the sequences that are
   not scheduled any more, then from the last priority on, from the tail. *)
Evict(r, holds, n) ==
    LET below == {v \in Present : seq[v].retiring \/ seq[v].uid > seq[r].uid}
        Before(a, b) == IF seq[a].retiring # seq[b].retiring THEN seq[a].retiring ELSE seq[a].uid > seq[b].uid
        Ahead(v) == Total({w \in below : Before(w, v)}, holds)
    IN [v \in Reqs |-> IF v \in below THEN holds[v] - Lesser(holds[v], Greater(0, n - Ahead(v))) ELSE holds[v]]

(* RunRequiredAdmission, a request: how far its forward runs, and whether the
   pass ends with it (full).  Budgets: tokens to forward, context to read. *)
Consider(acc, r) ==
    LET q == seq[r]
        begin == Resume(r) + q.iin
        wanted == Context(q) - begin
        cost == IF wanted > 1 \/ ~q.active THEN Context(q) ELSE 0
        granted == IF cost > acc.context THEN 0 ELSE Lesser(wanted, acc.forward)
        desired == begin + granted
        end == IF desired < Context(q) THEN cfg.blockSize * (desired \div cfg.blockSize) ELSE desired
        used == Total(Reqs, acc.holds)
        lacking == Greater(0, Blocks(Context(q)) - acc.holds[r] - (cfg.blocks - used))
        shrunk == Evict(r, acc.holds, lacking)
        hit == {v \in Present : shrunk[v] < acc.holds[v] /\ ~seq[v].retiring}
    IN IF acc.full \/ r \in acc.hit \/ granted <= 0
       THEN [acc EXCEPT !.full = TRUE]
       ELSE IF end <= begin THEN acc
       ELSE IF lacking > used - Total(Reqs, shrunk) THEN [acc EXCEPT !.full = TRUE]
       ELSE [acc EXCEPT !.hit = @ \union hit,
                        !.holds = [shrunk EXCEPT ![r] = Greater(@, Blocks(Context(q)))],
                        !.forward = @ - (end - begin),
                        !.context = @ - cost,
                        !.ends = [v \in DOMAIN @ \union {r} |-> IF v = r THEN end ELSE @[v]]]

Eligible == {r \in Present : ~seq[r].retiring}

NoPlan == [full |-> FALSE, hit |-> {}, holds |-> held, forward |-> cfg.maxForward,
           context |-> cfg.maxContext, ends |-> <<>>]

(* The pass, in the order of priority: a set of one plan. *)
Plans ==
    LET order == Ranked(Eligible, [r \in Eligible |-> seq[r].uid])
        pass[i \in 0 .. Cardinality(Eligible)] ==
            IF i = 0 THEN {NoPlan} ELSE {Consider(plan, r) : plan \in pass[i - 1], r \in {order[i]}}
    IN pass[Cardinality(Eligible)]

(* CommitResults and Engine::Schedule: the sequence after the pass. *)
Scheduled(r, plan) ==
    LET q == seq[r]
        begin == Resume(r) + q.iin
        input == plan.ends[r] - begin
    IN IF r \notin DOMAIN plan.ends
       THEN [q EXCEPT !.active = FALSE, !.input = 0]
       ELSE [q EXCEPT !.active = TRUE, !.input = input,
                      !.filled = Resume(r),
                      !.auto = q.active /\ q.gen /\ input = 1,
                      !.gen = plan.ends[r] = Context(q)]

(* The order of the slots: first the batch, what generates before what is
   still prefilled, what ran in the last batch before what comes in, then
   what was swapped out, the waiting, and the sequences that ended. *)
Class(r, qs, ends) ==
    CASE r \in DOMAIN ends            -> (IF qs[r].gen THEN 0 ELSE 2) + (IF seq[r].active THEN 0 ELSE 1)
      [] r \in Eligible \ DOMAIN ends -> IF seq[r].active THEN 4 ELSE 5
      [] OTHER                        -> 6
Order(qs, ends) ==
    Ranked(Present, [r \in Present |-> Class(r, qs, ends) * Len(slots) + Place(slots, r)])

\* Mutants: the batch in flight is not waited for; nobody is given up.
StalledAtOnce(ends) ==
    IF ends = <<>> THEN {r \in Eligible : \A p \in Eligible : seq[r].uid <= seq[p].uid} ELSE {}
StalledNever(ends) == {}

(* FailStalledHeadOfLine: nothing runs, nothing ran, nothing will. *)
Stalled(ends) ==
    IF ends = <<>> /\ \A r \in Present : seq[r].inflight = 0
    THEN {r \in Eligible : \A p \in Eligible : seq[r].uid <= seq[p].uid} ELSE {}

(* Setup, a row: what the executor is told of it. *)
Row(r, q, plan) ==
    [req |-> r, auto |-> q.auto, gen |-> q.gen, end |-> plan.ends[r], input |-> q.input,
     known |-> plan.ends[r] <= q.len, readonly |-> ReadOnly(r) * cfg.blockSize]

(* Schedule, FailStalledHeadOfLine, Setup and the push to the executor. *)
SubmitBatch ==
    /\ pc = "submit"
    /\ \E plan \in Plans :
         LET ends == plan.ends
             qs == [r \in Reqs |-> IF r \in Eligible THEN Scheduled(r, plan) ELSE seq[r]]
         IN \E order \in {Order(qs, ends)} :
              LET batch == SubSeq(order, 1, Cardinality(DOMAIN ends)) IN
              /\ slots' = order
              /\ perm' = [i \in DOMAIN order |-> Place(slots, order[i])]
              /\ nactive' = Len(batch)
              /\ nswapout' = Cardinality({r \in Eligible \ DOMAIN ends : seq[r].active})
              /\ held' = plan.holds
              /\ seq' = [r \in Reqs |->
                            IF r \in DOMAIN ends THEN [qs[r] EXCEPT !.inflight = @ + 1]
                            ELSE IF r \in Stalled(ends) THEN [qs[r] EXCEPT !.retiring = TRUE] ELSE qs[r]]
              /\ sigs' = Answers(SetToSeq(Stalled(ends)), LAMBDA r : OutOfMemory, LAMBDA r : 0)
              /\ outbound' = Append(outbound,
                    [bs0 |-> nactive, perm |-> [i \in DOMAIN batch |-> Place(slots, batch[i])],
                     rows |-> [i \in DOMAIN batch |-> Row(batch[i], qs[batch[i]], plan)],
                     kept |-> plan.holds, res |-> <<>>])
    /\ finish' = 0
    /\ pc' = "collect"
    /\ UNCHANGED <<cfg, clientVars, gateVars, popped, uids, inbound, deviceVars, out>>

-----------------------------------------------------------------------------
(* The model executor: ModelExecutor::Run on the batch in front.           *)

(* Accept: max_new_tokens is truncated to the session's length. *)
MaxLen(r) == Lesser(cfg.prompt[r] + cfg.new[r], cfg.sessionLen)

(* Prepare: a row goes on from the row it had in the last batch, or starts. *)
Carried(b, i) == b.perm[i] <= b.bs0
Forwarded(b, i, stop, left) ==
    LET row == b.rows[i]
        old == dev[b.perm[i]]
        len == IF row.auto /\ Carried(b, i) THEN old.len ELSE row.end
        input == IF row.auto THEN 1 ELSE row.input
        right == IF row.auto THEN old.tok = [req |-> row.req, pos |-> len - 1, good |-> TRUE] ELSE row.known
        good == right /\ left[row.req] >= Greater(len - input, Lesser(row.readonly, len))
        sampled == i <= Cardinality({k \in DOMAIN b.rows : b.rows[k].gen})
        grown == IF sampled THEN len + 1 ELSE len
    IN [len |-> grown,
        tok |-> IF sampled THEN [req |-> row.req, pos |-> len, good |-> good] ELSE Unsampled,
        fin |-> \/ Carried(b, i) /\ old.fin
                \/ sampled /\ (row.req \in stop \/ grown >= MaxLen(row.req)),
        kv |-> IF good THEN len ELSE Lesser(left[row.req], len - input)]

(* The memory of the blocks that were evicted for it changes hands first:
   batches run in the order they were submitted.  A stop token may come up
   in any row that samples. *)
RunBatch(stop) ==
    LET b == Head(outbound)
        left == [r \in Reqs |-> Lesser(kv[r], b.kept[r] * cfg.blockSize)]
        at(r) == {i \in DOMAIN b.rows : b.rows[i].req = r}
    IN /\ outbound # <<>>
       /\ stop \subseteq {b.rows[i].req : i \in {k \in DOMAIN b.rows : b.rows[k].gen}}
       /\ \E rows \in {[i \in DOMAIN b.rows |-> Forwarded(b, i, stop, left)]} :
            /\ dev' = rows
            /\ kv' = [r \in Reqs |-> IF at(r) = {} THEN left[r] ELSE rows[CHOOSE i \in at(r) : TRUE].kv]
            /\ inbound' = Append(inbound, [b EXCEPT !.res = rows])
       /\ outbound' = Tail(outbound)
       /\ UNCHANGED <<cfg, clientVars, gateVars, loopVars, stateVars, out>>

-----------------------------------------------------------------------------
(* The engine thread: Update, Retire and notify.                           *)

\* Mutant: the slots are taken to be where they were.
RowUnmoved(i) == i

(* The row that slot i had in a batch: with two phases one more Schedule
   has moved the slots since that batch was built. *)
RowOf(i) == IF cfg.phases > 1 THEN perm[i] ELSE i

(* A sequence after a batch it was a row of. *)
Advanced(q, row, res) ==
    LET filled == [q EXCEPT !.filled = IF row.gen THEN res.len - 1 ELSE res.len] IN
    IF row.gen /\ ~q.retiring THEN [filled EXCEPT !.len = res.len, !.retiring = res.fin] ELSE filled

(* What the batch just submitted, which is still in flight, will add. *)
InFlight(i, q) ==
    CASE cfg.phases = 1 -> q
      [] cfg.phases > 1 /\ i <= nactive -> [q EXCEPT !.iin = q.input, !.inew = IF q.gen THEN 1 ELSE 0]
      [] cfg.phases > 1 /\ i \in nactive + 1 .. nactive + nswapout -> [q EXCEPT !.iin = 0, !.inew = 0]
      [] OTHER -> q

(* Whether a batch has a row of a request, and samples for one that goes on;
   the sequence once the batch has come back. *)
In(b, r)      == RowOf(Place(slots, r)) \in DOMAIN b.rows
Samples(b, r) == In(b, r) /\ b.rows[RowOf(Place(slots, r))].gen /\ ~seq[r].retiring
After(b, r) ==
    LET i == Place(slots, r) IN
    IF ~In(b, r) THEN InFlight(i, seq[r])
    ELSE [InFlight(i, Advanced(seq[r], b.rows[RowOf(i)], b.res[RowOf(i)])) EXCEPT !.inflight = @ - 1]

Collect ==
    LET b == Head(inbound)
        sampled == {r \in Present : Samples(b, r)}
    IN /\ pc = "collect"
       /\ inbound # <<>>
       /\ out' = [r \in Reqs |-> IF r \in sampled THEN Append(out[r], b.res[RowOf(Place(slots, r))].tok) ELSE out[r]]
       /\ \E qs \in {[r \in Reqs |-> IF r \in Present THEN After(b, r) ELSE seq[r]]} :
            /\ Retire(slots, qs, held)
            /\ signals' = signals \o sigs
                 \o Answers(Only(slots, {r \in sampled : qs[r].retiring \/ cfg.stream}),
                            LAMBDA r : IF qs[r].retiring THEN Finish ELSE Ok, LAMBDA r : qs[r].len)
       /\ sigs' = <<>>
       /\ inbound' = Tail(inbound)
       /\ pc' = "pop"
       /\ UNCHANGED <<cfg, clientVars, calls, state, flag, queue, popped, uids, perm, nactive, nswapout,
                      outbound, deviceVars>>

-----------------------------------------------------------------------------
Engine == Pop \/ Admit \/ SubmitBatch \/ Collect
Executor == \E stop \in SUBSET Reqs : RunBatch(stop)
System == Engine \/ Executor \/ Signal \/ \E r \in Reqs : Release(r) \/ Consume(r)
Users == \E r \in Reqs : Submit(r) \/ Leave(r) \/ AsyncCancel(r)

Next == System \/ Users
Spec == Init /\ [][Next]_vars

(* While a thread, the GPU or the event loop has something to do, one of them
   does it; nobody has to submit or to cancel. *)
LiveSpec == Spec /\ WF_vars(System)
=============================================================================
