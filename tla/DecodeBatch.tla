----------------------------- MODULE DecodeBatch -----------------------------
(***************************************************************************)
(* Which forward the engine sends next, and whose row is whose.            *)
(*                                                                         *)
(* The host keeps the list of sequences it is decoding (running_seqs); the *)
(* worker keeps the batch of their rows (step_inputs).  The two never name *)
(* each other: a decode forward says "rows 1 and 3", by position, and the  *)
(* outputs come back by position.  In between, prefills join rows, stopped *)
(* and preempted sequences leave the list, long prompts are prefilled in   *)
(* chunks that join nothing, and scoring requests are not decoded at all   *)
(* (lmdeploy/pytorch/engine/inputs_maker.py, engine_loop.py,               *)
(* model_agent/agent.py, strategies/ar/step_inputs.py).                    *)
(*                                                                         *)
(* Memory is the number of blocks each sequence holds: which block is whose*)
(* is PagedKV's subject.  A scheduling pass has no await, so clients act   *)
(* only when pc \in Await; the worker executes forwards in sending order   *)
(* and sees nothing else of the host, so a forward is executed when its    *)
(* output is collected.                                                    *)
(***************************************************************************)
EXTENDS Integers, Sequences, FiniteSetsExt

CONSTANTS
    Seqs,            \* request slots, one sequence per session
    Kinds,           \* "generate", "logits" and "score" requests in use
    PromptLens,      \* prompt lengths clients send
    MaxLen,          \* BOUND: longest text; the worker stops there
    BlockSize,       \* tokens per block
    Prealloc,        \* tokens reserved ahead of a decode (get_prealloc_size)
    ChunkSize,       \* max_prefill_token_num
    MaxBatches,      \* scheduler_config.max_batches
    PrefillInterval, \* decode turns after which a prefill is forced
    ShortTurns,      \* short prefills per long chunk (opt_ttft_short_turns)
    Setups,          \* engines: size of the pool, and whether clients never
                     \* abandon a prompt that is being chunked
    MaxStale,        \* BOUND: dead entries of the running list for a new request
    Gone             \* a sequence that has ended and that a list still names

ASSUME DecodeBatchAssumption ==
    /\ IsFiniteSet(Seqs) /\ Gone \notin Seqs
    /\ Kinds \subseteq {"generate", "logits", "score"}
    /\ PromptLens \subseteq 1..MaxLen
    /\ {MaxLen, BlockSize, ChunkSize, MaxBatches, ShortTurns} \subseteq Nat \ {0}
    /\ {Prealloc, PrefillInterval} \subseteq Nat \ {0} /\ MaxStale \in Nat
    /\ Setups \subseteq [blocks : Nat \ {0}, patient : BOOLEAN]

VARIABLES
    len, hist,       \* seq.num_all_ids, seq.num_history_ids
    held, limit,     \* len(seq.logical_blocks), seq.kv_token_limit (0: none)
    kind, status,    \* what is asked for; seq.status, "none" without session
    arrival,         \* the live sequences by arrive_time
    running,         \* InputsMaker.running_seqs, a sequence: positions count
    toEvict,         \* InputsMaker.to_evict_seqs
    chunk,           \* LongContextChunker: its sequence and next_step
    afterChunk,      \* _last_forward_kind is "long_context_chunk"
    rounds, shorts,  \* _decode_count, _short_prefill_turns_since_long_chunk
    queue,           \* forwards sent to the worker, not yet collected
    batch, built,    \* worker: rows of step_inputs, and whether it has any yet
    setup,           \* the engine at hand
    pc, turn         \* control and locals of the scheduling pass

seqVars   == <<len, hist, held, limit, kind, status, arrival>>
makerVars == <<running, toEvict, chunk, afterChunk, rounds, shorts>>
workVars  == <<queue, batch, built, setup>>
vars      == <<seqVars, makerVars, workVars, pc, turn>>

Await   == {"send", "sent", "wait"}
NoChunk == [seq |-> Gone, step |-> -1]
NoTurn  == [plan |-> <<>>, lane |-> "none", todo |-> <<>>, batch |-> <<>>,
            used |-> 0, left |-> 0, keep |-> <<>>]

---------------------------------------------------------------------------
(* Sequences and blocks. *)

WithStatus(st) == {s \in Seqs : status[s] = st}
Waiting == WithStatus("WAITING")
Running == WithStatus("RUNNING")
Active  == WithStatus("READY") \cup Running

NumTokens(s) == len[s] - hist[s]

\* A finite set of positions in ascending order, and the entries of a list at
\* some of its positions.
InOrder(P)    == CHOOSE q \in [1..Cardinality(P) -> P] :
                   \A i, j \in DOMAIN q : i < j => q[i] < q[j]
Entries(q, P) == [i \in 1..Cardinality(P) |-> q[InOrder(P)[i]]]

\* More than one forward is needed for what is left of the prompt.
IsLong(s)  == NumTokens(s) > ChunkSize
KvLimit(s) == IF IsLong(s) THEN hist[s] + ChunkSize ELSE 0
Longs      == {s \in Waiting : IsLong(s)}

\* Blocks s still needs for extra tokens, under a kv_token_limit of lim.
Required(s, lim, extra) ==
    LET tokens == (IF lim = 0 THEN len[s] ELSE Min({len[s], lim})) + extra
    IN Max({0, (tokens + BlockSize - 1) \div BlockSize - held[s]})

HeldBy(S)    == Cardinality(UNION {{s} \X (1..held[s]) : s \in S})
FreeBlocks   == setup.blocks - HeldBy(Seqs)
Evictable(c) == {s \in (WithStatus("STOPPED") \cup Waiting) \ {c} : held[s] > 0}

\* The sequences in V lose their blocks, c's limit becomes lim and c gets
\* need blocks (RecomputeEvictionHelper, BlockManager.allocate).
Repage(V, c, lim, need) ==
    /\ held' = [s \in Seqs |-> CASE s \in V -> 0
                                 [] s = c   -> held[s] + need
                                 [] OTHER   -> held[s]]
    /\ hist' = [s \in Seqs |-> IF s \in V THEN 0 ELSE hist[s]]
    /\ limit' = [s \in Seqs |-> CASE s \in V -> 0
                                  [] s = c   -> lim
                                  [] OTHER   -> limit[s]]

\* Victims go one by one until c fits, and no further.
Allocate(c, lim, extra) ==
    LET need == Required(c, lim, extra)
    IN \E V \in SUBSET Evictable(c) :
         /\ FreeBlocks + HeldBy(V) >= need
         /\ V # {} => \E v \in V : FreeBlocks + HeldBy(V \ {v}) < need
         /\ Repage(V, c, lim, need)

\* c does not fit; whoever was asked for blocks has lost them all the same.
Refuse(c, lim, extra, lim2) ==
    /\ FreeBlocks + HeldBy(Evictable(c)) < Required(c, lim, extra)
    /\ Repage(Evictable(c), c, lim2, 0)

---------------------------------------------------------------------------
(* Client requests, handled between two awaits of the engine loop.  The
   preprocess loop then sets the runnable event, and that looks at the chunker
   when the scheduler itself has nothing to run. *)

\* Mutant: the chunker is cleared as soon as its sequence runs.
ClearedWhenStarted(st) ==
    IF chunk.seq \in Seqs /\ st[chunk.seq] = "READY" THEN chunk ELSE NoChunk

CheckEnable(st) ==
    IF chunk.seq \in Seqs /\ st[chunk.seq] = "RUNNING" THEN chunk ELSE NoChunk

SetRunnable(st) ==
    IF \E s \in Seqs : st[s] \in {"WAITING", "READY"} THEN chunk ELSE CheckEnable(st)

AddMessage(s, k, n) ==
    /\ pc \in Await
    /\ status[s] = "none" /\ n < MaxLen
    /\ Cardinality({i \in DOMAIN running : running[i] = Gone}) <= MaxStale
    /\ kind' = [kind EXCEPT ![s] = k]
    /\ len' = [len EXCEPT ![s] = n]
    /\ status' = [status EXCEPT ![s] = "WAITING"]
    /\ arrival' = Append(arrival, s)
    /\ UNCHANGED <<hist, held, limit, makerVars, workVars, pc, turn>>

StopSession(s) ==
    /\ pc \in Await
    /\ status[s] \notin {"none", "STOPPED"}
    /\ setup.patient => s # chunk.seq
    /\ status' = [status EXCEPT ![s] = "STOPPED"]
    /\ chunk' = SetRunnable(status')
    /\ UNCHANGED <<len, hist, held, limit, kind, arrival, running, toEvict, afterChunk,
                   rounds, shorts, workVars, pc, turn>>

\* A list that still names the sequence names a dead object from here on; the
\* slot may serve a new session at once.
EndSession(s) ==
    LET Gh(t)       == IF t = s THEN Gone ELSE t
        GhRows(rows) == [i \in DOMAIN rows |-> IF rows[i].seq = s
                           THEN [rows[i] EXCEPT !.seq = Gone, !.len = 0] ELSE rows[i]]
    IN /\ pc \in Await
       /\ status[s] # "none"
       /\ setup.patient => s # chunk.seq
       /\ status' = [status EXCEPT ![s] = "none"]
       /\ len' = [len EXCEPT ![s] = 0] /\ hist' = [hist EXCEPT ![s] = 0]
       /\ held' = [held EXCEPT ![s] = 0] /\ limit' = [limit EXCEPT ![s] = 0]
       /\ arrival' = Entries(arrival, {i \in DOMAIN arrival : arrival[i] # s})
       /\ running' = [i \in DOMAIN running |-> Gh(running[i])]
       /\ toEvict' = {Gh(t) : t \in toEvict}
       /\ chunk' = [SetRunnable(status') EXCEPT !.seq = Gh(@)]
       /\ queue' = [i \in DOMAIN queue |-> [queue[i] EXCEPT !.rows = GhRows(@)]]
       /\ batch' = GhRows(batch)
       /\ kind' = [kind EXCEPT ![s] = "generate"]
       /\ UNCHANGED <<afterChunk, rounds, shorts, built, setup, pc, turn>>

---------------------------------------------------------------------------
(* The start of a pass: which lanes it will try, and in which order. *)

NothingSent == IF queue = <<>> THEN "send" ELSE "wait"

LastChunkPending == chunk.seq \in Seqs /\ ~IsLong(chunk.seq)
IdlePrefill      == Waiting = {} /\ ~LastChunkPending

DoPrefill ==
    \/ LastChunkPending
    \/ /\ Waiting # {}
       /\ \/ rounds >= PrefillInterval
          \/ MapThenSumSet(NumTokens, Waiting) >= ChunkSize
          \/ 2 * Cardinality(Active) < MaxBatches

\* Mutant: short prefills are not counted against the long one.
LongTurnNever == FALSE

LongTurnDue == shorts >= ShortTurns

\* The active chunk yields its turn: a last chunk to what is running, another
\* one to the decode that its predecessor put off.
Deferred == IF ~IsLong(chunk.seq)
              THEN running # <<>> /\ ~DoPrefill
              ELSE afterChunk

ChunkPlan ==
    IF Deferred THEN IF LongTurnDue THEN <<"decode", "chunk">> ELSE <<"decode", "short", "chunk">>
    ELSE IF IsLong(chunk.seq) /\ Waiting # {} /\ ~LongTurnDue THEN <<"short", "chunk", "decode">>
    ELSE <<"chunk", "decode">>

PrefillPlan ==
    IF Longs = {} THEN <<"all", "decode">>
    ELSE IF LongTurnDue THEN <<"long", "short", "decode">>
    ELSE <<"short", "long", "decode">>

BeginPass ==
    /\ pc \in {"send", "prefetch"}
    /\ chunk' = CheckEnable(status)
    /\ pc = "send" => \/ Waiting # {} \/ WithStatus("READY") # {}
                      \/ chunk'.seq \in Seqs
    /\ rounds' = IF IdlePrefill THEN 0
                 ELSE IF DoPrefill THEN rounds ELSE rounds + 1
    /\ turn' = [NoTurn EXCEPT !.plan = IF chunk'.seq \in Seqs THEN ChunkPlan
                                       ELSE IF DoPrefill THEN PrefillPlan
                                       ELSE <<"decode">>]
    /\ pc' = "try"
    /\ UNCHANGED <<seqVars, running, toEvict, afterChunk, shorts, workVars>>

\* Every lane has been tried in vain.
EndPass ==
    /\ pc = "try"
    /\ turn.plan = <<>>
    /\ pc' = NothingSent
    /\ turn' = NoTurn
    /\ UNCHANGED <<seqVars, makerVars, workVars>>

---------------------------------------------------------------------------
(* Sending a forward. *)

\* The rows of a prefill carry their texts; gen says that the request is to be
\* decoded afterwards (max_new_tokens > 0).
PrefillRow(s, end) == [seq |-> s, len |-> end, gen |-> kind[s] = "generate"]
DecodeRow(s)       == [seq |-> s, len |-> 0, gen |-> TRUE]

RowsOf(f) == DOMAIN f.rows

\* Positions of the running list whose sequences still run.
ValidPositions == InOrder({i \in DOMAIN running : running[i] \in Running})

AllValid == \A i \in DOMAIN running : running[i] \in Running

Dispatch(f) ==
    /\ queue' = Append(queue, f)
    /\ pc' = IF queue = <<>> THEN "sent" ELSE "wait"
    /\ afterChunk' = (f.lane = "chunk")
    /\ turn' = NoTurn
    /\ UNCHANGED <<batch, built, setup>>

\* A prefill, or the last chunk of a long one, tells the worker to drop the
\* rows of sequences that no longer run, and drops them from the list.
DispatchPrefill(ss) ==
    /\ Dispatch([lane    |-> "prefill",
                 rows    |-> [i \in DOMAIN ss |-> PrefillRow(ss[i], len[ss[i]])],
                 reindex |-> ~AllValid,
                 keep    |-> IF AllValid THEN <<>> ELSE ValidPositions,
                 scoring |-> \E i \in DOMAIN ss : kind[ss[i]] = "score"])
    /\ running' = [i \in DOMAIN ValidPositions |-> running[ValidPositions[i]]]
    /\ rounds' = 0

\* A chunk that is not the last one leaves rows and list alone.
DispatchChunk(s) ==
    /\ Dispatch([lane    |-> "chunk",
                 rows    |-> <<PrefillRow(s, hist[s] + ChunkSize)>>,
                 reindex |-> FALSE, keep |-> <<>>,
                 scoring |-> kind[s] = "score"])
    /\ rounds' = 0 /\ shorts' = 0
    /\ UNCHANGED running

---------------------------------------------------------------------------
(* The prefill lanes: "all" waiting sequences by arrival, "short" ones only,
   the smallest first, or one "long" one.  A long one never joins a batch that
   has sequences already, so a lane with others passes it over. *)

Before(s, t) == \E i, j \in DOMAIN arrival : i < j /\ arrival[i] = s /\ arrival[j] = t

Precedes(lane, s, t) ==
    IF lane = "short" /\ NumTokens(s) # NumTokens(t) THEN NumTokens(s) < NumTokens(t)
                                                      ELSE Before(s, t)

\* The order is settled when the lane is entered.
Orders(lane, S) == {q \in [1..Cardinality(S) -> S] :
                      \A i, j \in DOMAIN q : i < j => q[i] # q[j] /\ Precedes(lane, q[i], q[j])}

EnterLane(lane, S) ==
    /\ pc = "try"
    /\ turn.plan # <<>> /\ Head(turn.plan) = lane
    /\ \E todo \in Orders(lane, S) :
         turn' = [NoTurn EXCEPT !.plan = Tail(turn.plan), !.lane = lane, !.todo = todo]
    /\ pc' = "admit"
    /\ UNCHANGED <<seqVars, makerVars, workVars>>

\* Which of several long ones is chosen depends on their sizes and ages.
EnterPrefill ==
    \/ \E lane \in {"all", "short"} : EnterLane(lane, Waiting \ Longs)
    \/ \E s \in Longs : EnterLane("long", {s})

Candidate(s) == /\ pc = "admit"
                /\ turn.todo # <<>> /\ s = Head(turn.todo)
                /\ Cardinality(Active) < MaxBatches

Cost(s)       == Min({NumTokens(s), ChunkSize})
OverBudget(s) == turn.batch # <<>> /\ turn.used + Cost(s) > ChunkSize

\* A short turn skips who is over the token budget, any other ends there; one
\* that this turn's own evictions have made long is skipped in both.
PassOver(s) ==
    /\ Candidate(s)
    /\ OverBudget(s)
    /\ turn' = [turn EXCEPT !.todo = IF turn.lane = "short" \/ IsLong(s) THEN Tail(@)
                                             ELSE <<>>]
    /\ UNCHANGED <<seqVars, makerVars, workVars, pc>>

Prealloced(lim) == IF lim = 0 THEN Prealloc ELSE 0

Admit(s) ==
    /\ Candidate(s)
    /\ ~OverBudget(s)
    /\ Allocate(s, KvLimit(s), Prealloced(KvLimit(s)))
    /\ status' = [status EXCEPT ![s] = "READY"]
    /\ turn' = [turn EXCEPT !.todo = IF IsLong(s) THEN <<>> ELSE Tail(@),
                            !.batch = Append(@, s),
                            !.used = @ + Cost(s)]
    /\ UNCHANGED <<len, kind, arrival, makerVars, workVars, pc>>

NoRoomPrefill(s) ==
    /\ Candidate(s)
    /\ ~OverBudget(s)
    /\ Refuse(s, KvLimit(s), Prealloced(KvLimit(s)), 0)
    /\ turn' = [turn EXCEPT !.todo = <<>>]
    /\ UNCHANGED <<len, kind, arrival, status, makerVars, workVars, pc>>

Admitted == pc = "admit" /\ (turn.todo = <<>> \/ Cardinality(Active) >= MaxBatches)

NothingAdmitted ==
    /\ Admitted
    /\ turn.batch = <<>>
    /\ pc' = "try"
    /\ turn' = [NoTurn EXCEPT !.plan = turn.plan]
    /\ UNCHANGED <<seqVars, makerVars, workVars>>

SendPrefill ==
    /\ Admitted
    /\ turn.batch # <<>> /\ ~IsLong(turn.batch[1])
    /\ DispatchPrefill(turn.batch)
    /\ shorts' = IF turn.lane = "short" THEN Min({shorts + 1, ShortTurns}) ELSE shorts
    /\ UNCHANGED <<seqVars, toEvict, chunk>>

\* The first chunk: from now on the chunker owns the sequence.
SendFirstChunk ==
    /\ Admitted
    /\ turn.batch # <<>> /\ IsLong(turn.batch[1])
    /\ chunk' = [seq |-> turn.batch[1], step |-> hist[turn.batch[1]]]
    /\ DispatchChunk(turn.batch[1])
    /\ UNCHANGED <<seqVars, toEvict>>

---------------------------------------------------------------------------
(* The chunk lane: _build_active_chunk. *)

TryChunk == pc = "try" /\ turn.plan # <<>> /\ Head(turn.plan) = "chunk"

ChunkLimit(s) == IF IsLong(s) THEN hist[s] + ChunkSize ELSE 0

SendNextChunk ==
    LET s == chunk.seq
    IN /\ TryChunk
       /\ IsLong(s)
       /\ Allocate(s, ChunkLimit(s), 0)
       /\ DispatchChunk(s)
       /\ UNCHANGED <<len, kind, status, arrival, toEvict, chunk>>

SendLastChunk ==
    LET s == chunk.seq
    IN /\ TryChunk
       /\ ~IsLong(s)
       /\ Allocate(s, 0, Prealloc)
       /\ DispatchPrefill(<<s>>)
       /\ chunk' = NoChunk /\ shorts' = 0
       /\ UNCHANGED <<len, kind, status, arrival, toEvict>>

NoRoomChunk ==
    LET s == chunk.seq
    IN /\ TryChunk
       /\ Refuse(s, ChunkLimit(s), Prealloced(ChunkLimit(s)), limit[s])
       /\ turn' = [turn EXCEPT !.plan = Tail(@)]
       /\ UNCHANGED <<len, kind, status, arrival, makerVars, workVars, pc>>

---------------------------------------------------------------------------
(* The decode lane: Scheduler.schedule_running goes through the running list
   from its end and keeps the positions that can take another token. *)

EnterDecode ==
    /\ pc = "try"
    /\ turn.plan # <<>> /\ Head(turn.plan) = "decode"
    /\ IF running = <<>>
         THEN turn' = [turn EXCEPT !.plan = Tail(@)] /\ UNCHANGED pc
         ELSE /\ turn' = [NoTurn EXCEPT !.plan = Tail(turn.plan), !.lane = "decode",
                                        !.left = Len(running)]
              /\ pc' = "grow"
    /\ UNCHANGED <<seqVars, makerVars, workVars>>

Keep(i) == turn' = [turn EXCEPT !.left = i - 1, !.keep = <<i>> \o @]
Drop(i) == turn' = [turn EXCEPT !.left = i - 1]

DropStopped ==
    /\ pc = "grow" /\ turn.left > 0
    /\ running[turn.left] \notin Running
    /\ Drop(turn.left)
    /\ UNCHANGED <<seqVars, makerVars, workVars, pc>>

KeepRow ==
    LET s == running[turn.left]
    IN /\ pc = "grow" /\ turn.left > 0
       /\ s \in Running /\ Required(s, limit[s], 1) = 0
       /\ Keep(turn.left)
       /\ UNCHANGED <<seqVars, makerVars, workVars, pc>>

GrowRow ==
    LET s == running[turn.left]
    IN /\ pc = "grow" /\ turn.left > 0
       /\ s \in Running /\ Required(s, limit[s], 1) > 0
       /\ \/ /\ Allocate(s, limit[s], Prealloc)
             /\ Keep(turn.left)
             /\ UNCHANGED status
          \/ /\ Refuse(s, limit[s], Prealloc, limit[s])
             /\ Drop(turn.left)
             /\ status' = [status EXCEPT ![s] = "WAITING"]
       /\ UNCHANGED <<len, kind, arrival, makerVars, workVars, pc>>

\* Mutant: the positions are counted among the rows that were kept.
PositionsRenumbered == [i \in DOMAIN turn.keep |-> i]

\* The positions the decode names, and the sequences it leaves out.
Positions == turn.keep
LeftOut   == {running[i] : i \in DOMAIN running \ {turn.keep[j] : j \in DOMAIN turn.keep}}

SendDecode ==
    /\ pc = "grow" /\ turn.left = 0
    /\ turn.keep # <<>>
    /\ toEvict' = LeftOut
    /\ Dispatch([lane    |-> "decode",
                 rows    |-> [i \in DOMAIN turn.keep |-> DecodeRow(running[turn.keep[i]])],
                 reindex |-> TRUE, keep |-> Positions, scoring |-> FALSE])
    /\ UNCHANGED <<seqVars, running, chunk, rounds, shorts>>

\* No row can go on: the list stays as it is.
NoDecode ==
    /\ pc = "grow" /\ turn.left = 0
    /\ turn.keep = <<>>
    /\ toEvict' = LeftOut
    /\ pc' = "try"
    /\ turn' = [NoTurn EXCEPT !.plan = turn.plan]
    /\ UNCHANGED <<seqVars, running, chunk, afterChunk, rounds, shorts, workVars>>

---------------------------------------------------------------------------
(* The engine loop: activate the forward at the head of the queue, prefetch
   the next one, then collect the head's output and apply it. *)

Head1 == queue[1]
SeqAt(i) == Head1.rows[i].seq

\* The requests of the forward that are to be decoded after it.
Joining == LET rows == Entries(Head1.rows, {i \in RowsOf(Head1) : Head1.rows[i].gen})
           IN [i \in DOMAIN rows |-> rows[i].seq]

\* Mutants: a chunk joins the list like any prefill; a prefill replaces the
\* list.
ChunkJoins ==
    IF Head1.lane = "decode" THEN [i \in RowsOf(Head1) |-> SeqAt(i)] ELSE running \o Joining
PrefillReplaces ==
    CASE Head1.lane = "decode" -> [i \in RowsOf(Head1) |-> SeqAt(i)]
      [] Head1.lane = "chunk"  -> running
      [] OTHER                 -> Joining

\* update_running_seqs: a chunk steps the chunker, if it is still enabled.
ListAfter ==
    CASE Head1.lane = "decode" -> [i \in RowsOf(Head1) |-> SeqAt(i)]
      [] Head1.lane = "chunk" /\ chunk # NoChunk -> running
      [] OTHER -> running \o Joining

Activate ==
    LET s    == chunk.seq
        step == chunk.step + ChunkSize
    IN /\ pc \in {"sent", "next"}
       /\ status' = [t \in Seqs |-> IF status[t] = "READY" /\ \E i \in RowsOf(Head1) : SeqAt(i) = t
                                      THEN "RUNNING" ELSE status[t]]
       /\ running' = ListAfter
       /\ IF Head1.lane = "chunk" /\ s \in Seqs /\ IsLong(s)
            THEN /\ chunk' = [chunk EXCEPT !.step = step]
                 /\ hist' = [hist EXCEPT ![s] = step]
            ELSE UNCHANGED <<chunk, hist>>
       /\ pc' = "prefetch"
       /\ UNCHANGED <<len, held, limit, kind, arrival, toEvict, afterChunk, rounds, shorts,
                      workVars, turn>>

\* A position past the worker's rows is an index error there.
RowAt(i) == IF i \in DOMAIN batch THEN batch[i] ELSE [seq |-> Gone, len |-> 0]

\* The worker's rows after the delta: as many positions as there are rows mean
\* all of them (index_select_model_inputs).
Reindexed(f) == IF ~f.reindex \/ Len(f.keep) = Len(batch) THEN batch
                ELSE [i \in DOMAIN f.keep |-> RowAt(f.keep[i])]

\* Each row that sampled a token grows by it; of a row that nobody owns any
\* more the length is not tracked.
Grown(rows) == [i \in DOMAIN rows |-> [seq |-> rows[i].seq,
                  len |-> IF rows[i].seq = Gone THEN 0 ELSE rows[i].len + 1]]

Stepped(f)  == IF f.lane = "decode" THEN Reindexed(f) ELSE f.rows

\* What the worker carries to the next decode: a scoring forward and a chunk
\* that is not the last leave it at the delta.
BatchAfter(f) ==
    IF f.scoring \/ f.lane = "chunk" THEN Reindexed(f)
    ELSE IF f.lane = "decode" THEN Grown(Reindexed(f))
    ELSE Reindexed(f) \o Grown(f.rows)

\* Rows that stop for sure: all of a scoring forward, and full ones.
MustStop(f) == {i \in RowsOf(f) : f.scoring \/ Stepped(f)[i].len + 1 >= MaxLen}

\* Only a sequence that still runs takes an output, and a chunk has none.
Takes(s) == /\ s \in Running /\ Head1.lane # "chunk"
            /\ \E i \in RowsOf(Head1) : SeqAt(i) = s
Generates(s) == Head1.lane = "decode" \/ kind[s] = "generate"

CollectOutput(stop) ==
    LET stops(s)  == ~Generates(s) \/ \E i \in stop : SeqAt(i) = s
        applied   == [s \in Seqs |-> IF Takes(s) /\ stops(s) THEN "STOPPED" ELSE status[s]]
        preempted == [s \in Seqs |->
                        IF s \in toEvict /\ applied[s] \in {"RUNNING", "READY", "WAITING"}
                          THEN "WAITING" ELSE applied[s]]
    IN /\ pc = "wait"
       /\ MustStop(Head1) \subseteq stop
       /\ hist' = [s \in Seqs |-> IF Takes(s) THEN len[s] ELSE hist[s]]
       /\ len' = [s \in Seqs |-> IF Takes(s) /\ Generates(s) THEN len[s] + 1 ELSE len[s]]
       /\ status' = preempted
       /\ toEvict' = {}
       /\ chunk' = SetRunnable(preempted)
       /\ batch' = BatchAfter(Head1)
       /\ built' = (built \/ (Head1.lane = "prefill" /\ ~Head1.scoring))
       /\ queue' = Tail(queue)
       /\ pc' = IF Len(queue) = 1 THEN "send" ELSE "next"
       /\ UNCHANGED <<held, limit, kind, arrival, running, afterChunk, rounds, shorts, setup, turn>>

---------------------------------------------------------------------------
Init ==
    /\ len = [s \in Seqs |-> 0] /\ hist = [s \in Seqs |-> 0]
    /\ held = [s \in Seqs |-> 0] /\ limit = [s \in Seqs |-> 0]
    /\ kind \in [Seqs -> {"generate"}] /\ status = [s \in Seqs |-> "none"]
    /\ arrival = <<>>
    /\ running = <<>> /\ toEvict = {} /\ chunk = NoChunk
    /\ afterChunk = FALSE /\ rounds = 0 /\ shorts = 0
    /\ queue = <<>> /\ batch = <<>> /\ built = FALSE /\ setup \in Setups
    /\ pc = "send" /\ turn = NoTurn

Client == \E s \in Seqs : \/ \E k \in Kinds, n \in PromptLens : AddMessage(s, k, n)
                          \/ StopSession(s)
                          \/ EndSession(s)

Pass ==
    \/ BeginPass \/ EndPass
    \/ EnterPrefill \/ NothingAdmitted \/ SendPrefill \/ SendFirstChunk
    \/ \E s \in Seqs : PassOver(s) \/ Admit(s) \/ NoRoomPrefill(s)
    \/ SendNextChunk \/ SendLastChunk \/ NoRoomChunk
    \/ EnterDecode \/ DropStopped \/ KeepRow \/ GrowRow \/ SendDecode \/ NoDecode

Loop ==
    \/ Activate
    \/ pc = "wait" /\ \E stop \in SUBSET RowsOf(Head1) : CollectOutput(stop)

Engine == Pass \/ Loop

Next == Client \/ Engine

Spec == Init /\ [][Next]_vars

\* The loop's own steps terminate; nothing is assumed of clients.
LiveSpec == Spec /\ WF_vars(Engine)
=============================================================================
