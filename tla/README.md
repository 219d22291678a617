# A TLA+ development of lmdeploy's engines

lmdeploy serves large language models. A client's request is a prompt; the
engine computes its key/value (KV) cache in *prefill* forwards, then generates
one token per *decode* forward, for many requests at once. The KV cache lives in
a pool of fixed-size blocks. Requests share blocks through a prefix trie, are
preempted when the pool is full and recomputed later, may be cancelled at any
time, and the host always schedules one forward ahead of the device. This is
where the hard behaviour of the program is, and where this development starts. The
repository has a second engine, TurboMind, written in C++: the same ideas with threads
instead of coroutines, and lengths that are predicted instead of preallocated.

## 1. Inventory

Paths are relative to `src/lmdeploy/` unless they start with `src/`.

| component | state it keeps | operations | interacts with |
|---|---|---|---|
| Logical allocator, block tables (`pytorch/paging/block_manager`, `pytorch/block.py`) | reference counts, free lists, `seq.logical_blocks` | allocate, free, add_ref_count, grow, truncate | called by scheduler, trie, load and save coordinators |
| Prefix trie (`pytorch/paging/block_trie`) | nodes (text of a block below its parent), one block reference per node, leaf index, `seq.prefix_cache.trie_cursor` | match, allocate (publish), evict | allocator; cursors of all sequences |
| SSM state checkpoints (`.../checkpoint*.py`, `state_manager.py`) | slots, pins, reservations | reserve, publish, pin, unpin, evict | trie nodes; dispatch in the engine loop |
| Recompute eviction (`.../recompute_eviction_helper.py`) | none | make capacity for one sequence | stopped and waiting sequences, trie |
| Prefill admission (`.../prefill_scheduler.py`) | one tentative match at a time | reorder, gate, match, make room, commit or roll back | trie, allocator, load coordinator |
| Scheduler, sequence states (`.../scheduler.py`, `seq_states`, `messages.py`) | sequences by status, sessions | schedule, schedule_running, activate, preempt, stop, end | all of the above |
| Remote KV (`kv_load_coordinator.py`, `kv_save_coordinator.py`, `pytorch/kv_connector`) | loads in flight with their destinations, deferred stop/end, save leases | try_load, apply results, defer, drain | workers, admission, allocator |
| Forward selection (`pytorch/engine/inputs_maker.py`) | `running_seqs`, `to_evict_seqs`, decode counter, long-context chunker | choose a lane, build a forward, update the running list | scheduler, engine loop |
| Engine loop (`pytorch/engine/engine_loop.py`) | prefetched forward, sleep handshake, response queue | send, activate, prefetch, collect, respond, migrate | executor, request manager |
| Model agent (`pytorch/engine/model_agent`, `pytorch/strategies`) | the batch carried from forward to forward, KV cells | merge a prefill, shrink to a decode, write KV, sample | receives forwards in order |
| Requests and sessions (`pytorch/engine/{engine,request,engine_instance}.py`, `serve/core`, `serve/managers`) | request queues, sessions, handle pool | add, stop, end, cancel, stream | engine loop, servers |
| Disaggregation (`pytorch/disagg`), proxy (`serve/proxy`) | migrations, connections, nodes | migrate, connect, route | two engines |
| TurboMind (`src/src/turbomind`) | request queue, signals, slots and their permutation, sequences, blocks, trie, per-row state on the device | push, pop, cancel, schedule, run, update, retire | gateway, signal, engine and executor threads; the Python coroutine of each request |
| Servers, parsers, CLI, tools, models, kernels | conversions, numerical code | | |

What makes each correct, in a line: the allocator must neither leak a block nor
give one to two owners; the trie must only offer blocks that hold the text they
stand for, and every unused node must stay reclaimable; admission must undo
exactly what it took; a decode must own the slot it writes; a token must be
computed from its own request's text and be delivered once, and never after a
stop; no request may wait for ever; remote destinations must not be reused while
a worker may write them; sleep must find nothing in flight.

What is hard: client requests arrive at every `await` of the engine loop; two
forwards are in flight and every host decision is taken one token behind the
device; blocks are freed, shared and reused while forwards that name them still
run; text is published in the trie before its KV exists; admission works on a
tentative state that a later failure takes back.

`PROJECT.json` lists the hazards one by one with the source line where each bites.

## 2. Plan

| step | modules | about | state |
|---|---|---|---|
| 1 | `PagedKV`, `Generation` | blocks, trie, admission, decode growth, preemption, in-flight forwards and the device's KV; `Generation` is what a client is promised, and `PagedKV` implements it | checked; all safety properties and the refinement proved |
| 2 | `DecodeBatch` | which forward is sent next; host list and worker rows aligned by position; long-context chunks; requests that generate nothing; scoring batches | checked; all safety properties proved |
| 3 | `KVTransfer` | remote loads and saves composed with block ownership: deferred stop and end, soft reservations, leases, results rank by rank, drain for sleep | checked; ownership, results, sleep and END proved |
| 4 | `RequestFlow` | the request queue and its handlers, the response path, the migration loop, sleep and wakeup, the death of the loop | checked; all safety properties proved |
| 5 | `Sessions` | AsyncEngine's handle pool, staleness, abort and stop of all | checked; all safety properties proved |
| 6 | `StateCheckpoint` | SSM slots and pins across dispatch, with the trie's eviction | left |
| 7 | `TurboEngine` | TurboMind's request queue, signals, engine loop, scheduler and executor, with the coroutine that reads | checked; all safety properties proved |
| 8 | prefix trie and checkpoints of TurboMind | extends `Consider` with shared blocks, producers and forks | left |
| 9 | proxy, connection pool | two engines moving a request; node registry | left |

Each component has its module, its properties in `...Props`, its instances in
`MC...`, and, where something is proved, `..._proofs`. The modules meet at
interfaces rather than in one product: `Sessions` knows of the engine only that it
stops a request when told; `RequestFlow` runs any waiting sequences, or all running
ones, where `DecodeBatch` says which; `PagedKV` owns the blocks exactly where
`DecodeBatch` counts them and `KVTransfer` derives ownership from tables, trie and
leases, which `RefCountExact` of `PagedKV` shows to be what the reference counts say.

Engines differ in what they are configured to do (roles, ranks, patience of their
clients, sleep). A module that must cover several has a constant `Setups` and a
variable `setup` that `Init` picks and no step changes: one run then covers several
engines, and a property or a theorem may say for which it holds.

Theorems worth proving next: the contents properties of `KVTransfer` (`SaveReadsRight`,
`RowsReadRight`, `CacheContentsRight`) for setups with a recurrent state.

## 3. The modules

`Generation` is the abstract service: requests with a text and a phase, four
operations (`Submit`, `Cancel`, `Close`, `Deliver`), no memory.

`PagedKV` is the engine. `PagedKVProps` states what it promises and names the
parts of the inductive invariant. `MCPagedKV` gives the prompts and the symmetry
set for TLC. Its theorems are in three modules that build on each other:
`PagedKV_proofs` (typing, ownership, refinement, the trie and the cursors in it),
`PagedKVFlow_proofs` (who runs, and what the forwards in flight are given) and
`PagedKVData_proofs` (what the blocks hold).

`DecodeBatch` is the same engine seen from forward selection: `PagedKV` keeps
exact blocks and texts and lets the scheduler take any lane, `DecodeBatch` keeps
the exact choice of the lane and the positions of rows and reduces memory to
numbers of blocks. `DecodeBatchProps` states its properties and the parts of its inductive
invariants, `MCDecodeBatch` the symmetry set, `DecodeBatchSteps` says what a step changes, as far
as the proofs look, and `DecodeBatch_proofs` proves them. The two modules share the loop (`send`,
`sent`, `wait`, prefetch) and overlap in nothing else.

`KVTransfer` is the engine with a remote KV store; its `KVTransfer_proofs` names the invariant
it needs itself, as most of it speaks of requests and reports only proofs look at. `RequestFlow` is the asyncio
program around the scheduler, `Sessions` the serving layer above it. `TurboEngine` is
the other engine, from the C++ threads to the Python coroutine that reads its answers.

### `PagedKV`: state

| variable | in the code |
|---|---|
| `ref`, `free` | `LogicalAllocator._log_mem.ref_count`, the free list |
| `table` | `seq.logical_blocks` |
| `trie` | the attached `Node`s: a node is named by the text from the root to the end of its block; the value is `block_id` |
| `leaves` | `KVBlockLifecycle.leaves` |
| `cursor` | `seq.prefix_cache.trie_cursor` as a depth in blocks; `Detached` when its node was evicted |
| `ids`, `hist` | `seq.history_cache`, `seq.num_history_ids` |
| `status` | `seq.status`; `"none"` when the session is gone |
| `arrival` | live sequences in order of `arrive_time` |
| `running`, `toEvict` | `InputsMakerAsync.running_seqs`, `to_evict_seqs` |
| `queue` | forwards sent and not collected, at most two |
| `kv` | for each cell of a block, the text whose KV it holds; the KV of a token depends on everything before it, so the text up to the token stands for it |
| `wtext` | text of a row the model agent carries to the next forward |
| `pc`, `turn` | where the scheduling pass stands, and its local variables |

### `PagedKV`: steps

The engine is one asyncio event loop. Client requests are handled between two
awaits of the main loop, hence only in the control states `send`, `sent` and
`wait`. Everything else runs without interruption; the model still gives each
paging operation of a pass its own step, so that every choice in it (which leaf,
which victim, which free block) is explored and invariants hold between them.

* `AddMessage`, `StopSession`, `EndSession`: the handlers of `engine.py` with what they
  call in `scheduler.py`.
* `BeginPrefill`, `PickCandidate`, `MatchBlock`, `EndMatch`, `GateRejects`, `GateAdmits`,
  `AcceptPrefill`, `NoRoomPrefill`, `BuildPrefill`: `_PrefillScheduler.schedule` with one
  `_PrefillAdmissionAttempt` per candidate. The code applies the budget gate, matches
  and tests it again; as a match only lowers the cost, matching first and testing once
  decides the same.
* `CapacityFound`, `Reclaim`, `EvictLeaf`, `EvictEnough`, `EvictNextVictim`:
  `RecomputeEvictionHelper.try_make_capacity_for` and `KVBlockLifecycle.evict`. The
  code takes the least recently used leaf and the victims in queue order; the model
  takes any, so what holds here does not rest on access times.
* `AllocateBlock`, `BeginPublish`, `PublishNew`, `PublishShared`, `EndPublish`:
  `BlockManager.allocate`, then `BlockTrie.allocate`.
* `BeginDecode`, `DecodeDrop`, `DecodeKeep`, `DecodeGrow`, `AcceptDecode`, `NoRoomDecode`,
  `BuildDecode`: `create_model_inputs_delta` with `Scheduler.schedule_running`. The
  code walks the running list backwards; the model in any order.
* `Activate`, `CollectOutput`: `EngineLoop.main_loop`. The device
  acts in `CollectOutput`: as forwards run in the order they were sent, a forward may
  be taken to execute when its output is collected.

Abstractions. A sampled token is any token and a row may stop after any token; it
must stop at `MaxLen` (the request's token limit). A cell that two rows of one
forward fill with different texts is blank afterwards: the build may produce
either. Blocks that are free and that no forward names are blanked as well, which
keeps states equal that differ only in garbage. A slot of `Seqs` is used again only
when no list and no forward still names its former sequence (`Referenced`): a new
session's sequence is a new object in the code.

### `PagedKV`: what the model leaves out

One request per session: `engine_instance.py` ends the session after each
generation; the kept-session path (`update_token_ids` on an existing sequence) is
not modelled. Every request generates at least one token (`max_new_tokens > 0`).
`NoChunksAssumption`: no text is longer than `max_prefill_token_num`, so no
long-context chunks. No SSM state, no remote KV, no adapters, no multimodal
identities, no sliding window, no swapping, no data parallelism. `do_prefill_default`
counts decode rounds to choose the lane; the model allows either lane at each turn.

### `DecodeBatch`: state

| variable | in the code |
|---|---|
| `len`, `hist` | `seq.num_all_ids`, `seq.num_history_ids` |
| `held`, `limit` | `len(seq.logical_blocks)`, `seq.kv_token_limit` (0 for `None`) |
| `kind` | what the request asks for: tokens, logits of the prompt (`max_new_tokens = 0`), or a score of it (`logprob_start_pos >= 0`) |
| `running`, `toEvict` | `InputsMakerAsync.running_seqs` (a list: positions matter), `to_evict_seqs` |
| `chunk` | `LongContextChunker`: its sequence and `next_step` |
| `afterChunk`, `rounds`, `shorts` | `_last_forward_kind`, `_decode_count`, `_short_prefill_turns_since_long_chunk` |
| `queue` | forwards sent and not collected: lane, rows, the positions of the delta, whether the worker takes it for scoring |
| `batch`, `built` | rows of the worker's `step_inputs`; whether `model_inputs` is not `None` |
| `pc`, `turn` | control, and the lanes and locals of the scheduling pass |

`Gone` stands for a sequence object whose session has ended and that a list or a
forward still names. Its slot may serve a new session at once, as in the code; of a
row nobody owns any more the length is not tracked.

### `DecodeBatch`: steps

* `AddMessage`, `StopSession`, `EndSession` are the client's requests. A stop or an end
  also runs `SetRunnable`, the `RunableEventAsync.set` that follows in the
  preprocess loop: if nothing waits, it asks `long_context_chunker` whether it is
  still enabled, and that clears a chunker whose sequence no longer runs.
* `BeginPass` decides the lanes and their order once (`ChunkPlan`, `PrefillPlan`,
  `DoPrefill`), as `_ForwardInputsTask.run` does; `EndPass` is a pass that sends nothing.
* `EnterPrefill`, `PassOver`, `Admit`, `NoRoomPrefill`, `NothingAdmitted`, `SendPrefill`,
  `SendFirstChunk`: one prefill lane, candidate by candidate.
* `SendNextChunk`, `SendLastChunk`, `NoRoomChunk`: `_build_active_chunk`.
* `EnterDecode`, `DropStopped`, `KeepRow`, `GrowRow`, `SendDecode`, `NoDecode`:
  `create_model_inputs_delta` and `schedule_running`, from the end of the list.
* `Activate` is `update_running_seqs` with the activation of the head of the queue;
  `CollectOutput` executes the head on the worker (`Reindexed`, `BatchAfter`) and
  applies its output, the deferred preemptions and `SetRunnable`.

Abstractions. A capacity attempt takes any minimal set of victims; which of
several long prompts goes first is free (`EnterPrefill`): what holds does not depend
on the eviction order or on the age and size rule. `Allocate` and `Refuse`
include what the victims lose, also when the attempt fails. A row may stop after any
token and must at `MaxLen`. Prefix caching is off in this model, so eviction resets a
sequence to its start.

Left out: `do_prefill_chunked`, multimodal limits on chunks, the roles of
disaggregated engines, dummy forwards of data parallelism, speculative decoding.

### `KVTransfer`: state

A token stands for one block of text, so a prompt is a path of the trie.

| variable | in the code |
|---|---|
| `status`, `text`, `table`, `hist` | `seq.status`, the prompt, `seq.logical_blocks`, computed or loaded blocks |
| `cache` | the trie: path to block |
| `load`, `target` | `KVLoadCoordinator._loads` (phase, start, remote depth, deferred clean-up), `_prefill_targets` |
| `lease` | `KVSaveCoordinator._leases` |
| `lookup`, `plan` | the lookup client's future; `_lookup_plans` |
| `pending`, `inflight`, `failed`, `nextSave` | the connector scheduler's `_pending_loads`, `_inflight_loads`, `_failed_load_requests`, `_next_save_block` |
| `queue`, `launched`, `gpu` | steps sent and not collected; how many each rank began, how many the streams ended |
| `loading`, `saving`, `done` | per rank: transfers its threads have accepted; terminal events not yet polled |
| `got` | `KVOutputAggregator`: completions by rank |
| `kv` | per rank and block, the text whose KV it holds; `Torn` after a failed transfer |

### `KVTransfer`: steps

* `AddMessage`, `StopSession`, `EndSession`: the client; a stop or an end of a loading
  request is deferred (`Defer`), and an END beats a STOP (`Cleanup`).
* `SkipPendingLookup`, `SubmitLookup`, `StartLoad`, `LoadDoesNotFit`, `AdmitLocal`, `LocalDoesNotFit`:
  one admission attempt. A load takes only the blocks it fills; the rest of the
  prefill is promised (`target`) and counts against others (`SoftReserved`).
  `Outcomes` is the effect of `try_make_capacity_for`: the stopped lose their
  blocks before the waiting, loaded requests that are ready never, the trie gives up leaves.
* `EndPass` sends a step with the transfers; it carries metadata, and so polls the
  workers, while anything is under way.
* `Launch`, `GpuRun`, `LoadRun`, `SaveRun`, `LookupDone`: the ranks. `after` is how many
  of the queued steps the streams must have ended before a transfer may start.
* `Collect`, `Publish`, `GiveUp`, `Outputs`: progress comes back with the output of a
  step: failures count at once, completion when every rank has reported; then
  publication or rollback, then tokens.
* `RequestSleep`, `NoPrefetch`, `Drain`, `FinishSleep`, `Wake`: the drain of the workers.

Abstractions. What the store holds and how a lookup answers is free, a transfer may
fail; the order among candidates that hold no load is free, as is a hybrid
model's resume depth. `Picks` and `Forget` identify states that differ only in which
of several equivalent free blocks is taken or in the garbage of free blocks nothing will
write. Left out: chunked prefill, preemption of running sequences, the
slots of snapshots themselves, multimodal identities, a second request in a stopped session.

### `RequestFlow`: state

| variable | in the code |
|---|---|
| `client`, `owes`, `seen`, `answer` | where `async_stream_infer` is, `session_added`, what it handed on, the last answer it read |
| `resp` | the `Response`: type, tokens, logprobs, `is_done`, its event |
| `requests`, `blocked` | `RequestManager.requests`, `_blocked_request_types` |
| `status`, `gen` | the session's sequence and the tokens it generated |
| `pc`, `runable`, `mine` | the main loop, `has_runable_event`, batches it sent and has not collected |
| `work`, `step`, `outs` | the worker: queued, under way, done |
| `out` | what `resp_queue` holds for a client: newest output, all logprobs |
| `mpc`, `ready`, `mevent` | `migration_loop`, its batch, `migration_event` |
| `sleepReq`, `slp`, `mainAck`, `migAck` | the sleep handshake |
| `alive` | no task of the engine loop has failed |

### `RequestFlow`: steps

A step is what one asyncio task does between two awaits.

* `Infer`, `Gate`, `Read`, `NoEngine`, `Leave`, `Close`, `Abort`: the client coroutine and
  whoever aborts it. `Read` reads what the response says at that moment, not what it
  said when its event was set.
* `Process`: `RequestManager.step`; all requests queued, by type.
* `Idle`, `Send`, `Prefetch`, `Collect`, `MainDrains`: `main_loop` and `drain_for_sleep`.
* `Forward`, `PushOutput`, `Respond`: the worker, which may be suspended inside a step
  (guided decoding awaits), and the response loop.
* `Admit`, `NoneAdmitted`, `Migrated`, `MigDrains`, `RemoteFree`: migration on the decode
  side, preservation on the prefill side.
* `StartSleep`, `CancelAll`, `WorkerSleeps`, `Wakeup`; `Crash`.

One request per session; a pass runs any waiting sequences, or all running ones.
Left out: a second message in a session, the blocking API, the back-off timers.

### `Sessions`: state and steps

`pc`, `uses`, `cancelled` belong to a request's coroutine; `known`, `stamp`, `handle`, `leaves`
are `SessionManager.sessions` and a session's `epoch`, `_handle`, `_remove_on_request_exit`; `pool`
the free handles; `epoch`, `stopping`, `stops`, `abort` the aborts under way. `Create`, `PrepFails`,
`Generate`, `Acquire`, `LeaveWait`, `Finish`, `Release` are the request's way through
`preprocess`, `generate` and `request_handle`; `AbortOne` and `AbortOneReturns` one abort,
`StopAll` and `StopAllReturns` `stop_all_session`, `EngineStops` the engine's side of both.
`Release` gives back what the session holds then, which is what the code does, and not
what the request took.

### `TurboEngine`: state

| variable | in the code |
|---|---|
| `client`, `prev`, `told` | where `async_stream_infer` is, its `prev_len`, the last status it read |
| `sem`, `calls` | `StreamingSemaphore.val`; releases scheduled by `call_soon_threadsafe` and not run |
| `state`, `flag` | `Request::state` (an atomic pointer: a newer state replaces an unread one), `Request::cancel_flag` |
| `queue`, `signals` | `RequestQueue`, `SignalBuffer` |
| `pc`, `popped`, `sigs`, `uids` | the engine thread between two calls that others can observe, and its locals |
| `slots`, `finish`, `perm`, `nactive`, `nswapout` | `State::rc`, `finish`, `perm`, `active`, `swapout` |
| `seq` | `Sequence`: `len` is `seq_len`, `filled` `filled_len`, `iin` and `inew` `inflight_input_len` and `inflight_new_tokens`, `auto` and `gen` `autoregres` and `generating` |
| `held` | how many leading blocks have memory: eviction takes from the tail, allocation fills up from there |
| `outbound`, `inbound` | the queues of batches; with two phases one empty batch starts in `inbound` |
| `dev` | per row of the last batch `finished_`, `sequence_length_`, `autoreg_ids_` |
| `kv` | the leading positions whose KV is right |
| `out` | what was written to `output_ids` after the prompt; a token is its request, its position, and whether all that it was computed from was right |

### `TurboEngine`: steps

* `Submit`, `Consume`, `Leave`, `AsyncCancel`, `Release`: the coroutine, its cancellation
  from outside and by going away, and the wake-up that the event loop runs for it.
* `Signal`: the signal thread runs `UpdateState`, which wakes the reader only if it
  replaced nothing.
* `Pop`, `Admit`: `Gateway::pop`, then `Validate`, `GetCanceled`, `Accept`, `Cancel`, `notify`, `Retire`.
  Between the two a request may be cancelled, which is why they are two steps.
* `SubmitBatch`: `Schedule`, `FailStalledHeadOfLine`, `Setup`, and the push to the executor.
  `Plans` is `Scheduler::Schedule`: `Consider` admits request by request in order of arrival,
  taking blocks from the last one first (`Evict` follows the order of the time stamps that
  `PlanRequests` writes), until a request would run on what a more important one lost.
* `RunBatch`: the executor, on another thread, moves the device's rows by `perm`, runs
  the forward and samples. A stop token may come up in any row that samples.
* `Collect`: `Update` with the batch before the one just submitted, `Retire`, `notify`.

`cfg.phases` is 2 with asynchronous execution, the default, and 1 without. With two, `Schedule` adds what is in
flight to every length (`Context`, `Resume(r) + iin`), a running decode takes its length
and its input token from the device (`auto`), and `Collect` finds the rows of the older batch through `perm`.

Left out: prefix caching (the trie, forks, producers), checkpoints of recurrent layers,
more than one rank, requests that modules reject at `kAdd`, warm-up, abort and shutdown, vision, logits outputs.

## 4. What the runs check

| run | instance | what it shows |
|---|---|---|
| `paged_kv` | 3 blocks of 2 tokens, 2 tokens, 2 sessions with prompts of 1 and 3 tokens and texts up to 6, at times a third with a prompt of 4; behaviours with `MatchAligned` | `TypeOK`, `RefCountExact`, `TrieSound` (cursors held, leaves indexed), `WritesFit`, `DeliveredTokensRight`, `CacheContentsRight`, `NobodyAsleep`, `ServiceSpec` |
| `paged_kv_misaligned` | two sessions, without that condition | finds `MatchAligned` violated |
| `paged_kv_live` | 2 blocks of 2 tokens, 2 sessions, 1 token, prompts of 1 and 2 tokens, texts up to 4 | `RequestsEnd` |
| `decode_batch` | 2 sessions, blocks and chunks of 1 token, prompts of 1 and 3 tokens, texts up to 4; 4 blocks (two full texts do not fit) with patient clients, or 10 blocks where a prompt that is being chunked may be abandoned | `RowsAligned`, `SteppedOnce`, `WholePromptFirst`, `AwakeWhileRunning`, `ChunkApart`, `ChunksEnd` under preemption and recomputation |
| `kv_transfer` | 3 blocks, 2 sessions; five engines: two loaders of different prompts, the same prompt on two ranks, one that sleeps, one that saves, one that does both | `LoadsPrivate`, `SaveReadsRight`, `RowsReadRight`, `CacheContentsRight`, `EachResultOnce`, `SleepLeavesNothing`, `EndWins` |
| `kv_transfer_live` | 5 blocks, batches of 1; two prompts of 3 blocks whose clients are patient, or one client of an engine that loads, saves and sleeps | `TransfersEnd`: transfers, sleep, and the requests whose load is ready |
| `kv_transfer_stale` | a model without a recurrent state | finds `CacheContentsRight` violated |
| `request_flow` | 2 clients; an engine that sleeps (2 tokens each), and a prefill engine | `TypeOK`, `DeliveredAll`, `WaitersAreAnswered`, `NoLeak`, `OutputsMatch`, `FinishSticks` |
| `request_live` | 1 client; a worker that may be suspended in a step and a loop that may die; a decode engine that sleeps | `SleepFindsNobody`, `EveryRequestEnds`, `SleepComes` |
| `request_lost_cancel` | 2 clients, a decode engine | finds `WaitersAreAnswered` violated |
| `sessions` | 3 requests with sessions of their own, 2 handles, one abortable, one stop of all | `HandlesConserved`, `StopAllStops`, `RequestsServed` |
| `turbo_engine` | 3 requests in five setups, see below | `OutputsRight`, `RowsAreLive`, `AnswersRead`, `OutOfMemoryJustified`, `RequestsAnswered` |

Each property is checked against a mutant of the code that it must catch; the
mutants stand in the modules just above the definition they change.

### `PagedKV`

Bounds. `MaxLen` bounds the text (the worker stops there, as the token limit does).
Three blocks hold one full text of six tokens and not two, so sharing, eviction,
preemption and reuse all happen, and a sequence that fills its second block while it
decodes can be preempted before it published it. Two vocabulary tokens give texts that share
a first block and differ in the second. The constraint `Greedy` lets the model answer
one of the two tokens, so that texts differ where their prompts do: which token a
row samples changes nothing but the text. The constraint `MatchAligned` stops at the states of the
divergence below, after which nothing about texts holds; what the run shows is said of behaviours
that never get there. Two sessions are
enough for every two-party race here (owner and evictor, publisher and matcher,
old and new user of a block); the symmetry of blocks and of sessions is sound as no
definition distinguishes them. The constraint `Crowd` lets a third session come while nothing is in flight and the texts of the
others are short: its prompt needs all three blocks whatever is cached, so that its admission
needs several victims, or waits because the batch is over the token budget. The run follows it until
its forward is sent.

`paged_kv_live` has room for one full text only, so that two requests do preempt
each other. Liveness needs three conditions, all of them real: a request alone
must fit the pool (`MaxLen - 1 + Prealloc <= Cardinality(Blocks) * BlockSize`),
submissions cease (`LoadCeases`: while they go on, admission may for ever be
preferred to the decode of what was admitted before), and fairness.

Fairness: `WF_vars(Engine)`, since the loop is the only task that runs the steps and
every one of them terminates; `SF_vars(BeginPrefill)`, since `do_prefill_default`
forces a prefill attempt after `prefill_interval` decode rounds, so a prefill that is
possible again and again is attempted. No fairness is assumed of clients.

### `DecodeBatch`

Bounds. A prompt of 3 tokens needs two chunks of 2 or three of 1, so first, middle and last
chunks all occur; `MaxLen = 4` leaves at least one decode after a long prompt and three
after a short one. Two sessions give every pair of a chunked prompt and a decoding
one, and a batch of two rows of which either may leave. `DecodeBatch_three.cfg`, too long to
be run with the others, has a third session, hence a prefill that joins a batch of two while one of its rows is
stopped, and checks `TypeOK` as well. `PrefillInterval` and `ShortTurns` are 1: their only role is to be
reached. `MaxStale` bounds how many dead entries the running list may hold when a new
request arrives; entries of one ended session and of its successor are told
apart with one. `setup.patient` says that no client stops or ends a session whose
prompt is being chunked; two of the divergences below need it false.

`ChunksEnd` assumes `WF_vars(Engine)` only: the steps of the loop are the one
task's own and each terminates. It needs no assumption about load: the turn counters
alone make a started long prompt advance, and a chunk that finds no room can
reclaim everything that waits.

### `KVTransfer`

Bounds. Three blocks let one load and one local prefill of two blocks meet in one pool
with a block too few, so destinations are wanted by others while a worker writes them.
Two ranks let every transfer finish or fail first on one of them. `SaveIds` bounds the
saves outstanding at a time (a request that could not get an id is not accepted).
The symmetry swaps sessions, ranks and the two prompts; setups that name one
session only restrict who may send, and every step treats the sessions alike.
`KVTransfer_types.cfg` checks `TypeOK` in the same instance.

In `kv_transfer_live` two prompts of three blocks, each with the block of its first
token, exceed the five blocks: without the soft reservation both loads would be admitted, and
the ready request at the head would block the one that could go on.

Fairness: the event loop (`Engine`, the collection of outputs, the sleep path), every rank's launch
loop, the streams, every transfer thread for every job (they take jobs from
queues), the lookup client; strong fairness of the prefill turn as in `PagedKV`, and of
a sequence's end, since requests have a token limit. Clients owe nothing.

### `RequestFlow`

Bounds. With two tokens and two batches in flight, an output can pile up behind another before
the response loop runs; a third client or token adds no new pair of tasks. Sleep may be
asked for again and again, with no bound. `request_live` has one client because its
properties concern one request against the tasks of the engine.

Fairness: asyncio runs every task that can run (`WF` of each client's receiver and of
each task); nobody has to leave, abort, sleep, wake or crash.

Where the properties are conditioned. `DeliveredAll` counts logprobs, and
`EveryRequestEnds` speaks, of engines that do not migrate (the output of a migration overwrites what was
there, see below). `NoLeak` exempts what a prefill engine preserves on purpose. `FinishSticks` exempts
the drain for sleep, which cancels every response. `SleepComes` allows a spinning
migration loop.

### `Sessions`

Three requests on two handles: one always waits, and whoever releases decides who
goes on. Sessions are per request, as the API server creates them; with one stop of all,
`StopAllStops` says of each request which was created before it. A request whose own
abort came too early is exempt. Fairness: a request that can go on does; nobody has to
come, leave or abort.

### `TurboEngine`

The five setups, all with three requests. `Swaps`: two requests whose full texts need more blocks
than there are, so the later one is evicted while its token is in flight, waits, and resumes on
what it kept. `Chunks`: blocks of two positions and three tokens per forward, so a prompt runs in parts that end on a
block boundary. `Sync`: one phase, answers only at the end, three requests for two places. `Cancels`: two requests of one
session, one after the other, and a third, cancelled or left at any moment. `TooBig`: one
request longer than a session, one larger than cache and context budget, and one that grows
beyond the cache unless it stops while its last token is in flight. In the first two the third
request stays away (`Without`): two sequences and two batches in flight give every swap and overlap.
`maxBatch`, `maxForward` and `maxContext` are small enough to be reached.

`OutputsRight` is the promise of the overlap: predicted lengths, permuted rows and reused memory must
together give each request its own continuation. `good` is lost as soon as a token is
computed from another row's token, at another position, or over a cache with a hole.

Fairness: `WF_vars(System)`. While any of the threads, the device or the event loop has something to do, one of
them does it. This is weaker than fairness of each, and enough, since the work that one
`Submit` creates is finite; nobody has to submit, cancel or leave.

### Known divergences

Three of them are checked as runs, the others are kept as configurations beside them; each
ends in a counterexample for the property named.

* `kv_transfer_stale`, `CacheContentsRight`. Only a load that restores a recurrent state
  records an event on the compute stream (`kv_connector/mooncake/store/worker.py:435`). In a full-attention model a
  receiver thread may fill a block before a forward launched earlier, for a request
  that has since ended, writes into it; the trie then publishes the block.
* `request_lost_cancel`, `WaitersAreAnswered`. The output of a migration sets the
  response to SUCCESS also for a request that was stopped meanwhile
  (`engine/engine_loop.py:610`); an unread CANCEL is gone and the reader waits for ever.
* `paged_kv_misaligned`, `MatchAligned`. A sequence's full blocks are published, and its cursor
  moved, only when it next needs a block (`paging/scheduler.py:358`). When it then finds no room it is
  preempted with its blocks, its history and a cursor that lags its table. Once
  another sequence has published the same text, a match appends the shared block behind the private one
  that stands for the same tokens (`block_trie/trie.py:497`), and the next prefill writes at the wrong
  places, into the cached block too. `_has_private_local_tail` (`prefill_scheduler.py:661`) explains
  this hazard, but returns `False` unless remote lookup is on, and compares with the
  history, which is ahead of the cursor here.
* `DecodeBatch_logits.cfg`, `RowsAligned`. `update_running_seqs` lists only requests that generate, the
  model agent merges every row that is not scoring. After a request for logits the worker
  has one row more than the host's list, and a decode that names position 1 by the
  host's count gets the other row.
* `DecodeBatch_score.cfg`, `ScoringApart`. `fill_logits_indices` looks at any request of the batch,
  admission does not separate scoring from generation, and the worker's scoring
  branch returns before sampling and merging.
* `DecodeBatch_reindex.cfg`, `ReindexHasBatch`. A long prompt is stopped between the sending of its chunk and
  its activation; `RunableEventAsync.set` clears the chunker, the chunk is taken for a
  prefill, and the list holds a row the worker never had. If that is the first
  request, the next prefill's delta meets `model_inputs = None`.
* `DecodeBatch_midprefill.cfg`, `WholePromptFirst` (4 blocks, impatient clients). When a decode lane finds room for nobody, the sequences
  it preempts stay listed, and chunks do not prune the list. Such a sequence, readmitted as
  a long prompt, is decoded between its chunks.
* `RequestFlow_spin.cfg`, `NeverSpins`. A decode engine whose migration event is set for a
  request that is gone awaits an event that is up, without ever yielding.
* `RequestFlow_stopped.cfg`, `EngineSurvives`. On a prefill engine, an END after a STOP finishes a
  sequence in a state that has no `finish`, and the handler raises.
* `RequestFlow_stale.cfg`, `OutputsMatch`. The drain for sleep empties the worker's queues while a
  step is suspended inside; after wakeup its output is taken for that of the next forward.
* `Sessions_abort.cfg`, `AbortedStops`. An abort of a request that waits for its handle
  unlists the session and lets the request run.
* `Sessions_shared.cfg`, `HandlesConserved`. Two requests of one session both wait for a
  handle; the second overwrites the first's. The API server gives each request its own session.
* `Sessions_stopall.cfg`, `StopAllStops` with two stops. `async_abort_all` forgets sessions
  without a handle after its await, also those created meanwhile, which the second stop then misses.

Seen while modelling `TurboEngine`, and not a property of it: `Validate` counts every sequence of the
session that still has a slot (`src/src/turbomind/engine/engine.cc:271`), also one that was
answered and waits for its last batch to come back. With two phases the next request of a session, sent right
after the answer to the one before, may therefore be refused with `kConflict`, even when that answer was the last token, which `request.h:124`
describes as "Concurrent requests to the same sequence id". `Cancels` contains this case; the refusal is an answer, so `RequestsAnswered` holds.

Seen while reading, and outside the models: preserved KV of a prefill engine may be evicted before
the decode engine has fetched it (`engine.py:412`, `recompute_eviction_helper.py:101`); a wakeup before
`sleep` has returned leaves that call waiting; an END during `executor.migrate` frees blocks the
transfer still writes (`engine_loop.py:599`).

## 5. What is proved

### `PagedKV_proofs`

For all values of the constants that satisfy `ConstantsAssumption`
(finite sets of blocks and sessions, non-empty prompts, positive block size and
preallocation):

* `TypeCorrect == Spec => []TypeOK`
* `RefCountsExact == Spec => []RefCountExact`
* `Refinement == Spec => ServiceSpec`

The proof of all three is the invariance of `Frame /\ Owned`. `Frame` is the shape of
the state with the control facts a step relies on: how many forwards are queued
where (`QueueShape`), that a candidate keeps its status between its choice and its
fate (`Control`, which is where the absence of awaits inside a pass is used), and that
the candidate's full blocks are in its table before publication reads them (`Room`).
`Owned` adds to the reference-count equation that owner sets are finite, without
which cardinalities say nothing. `RefCountExact` alone is not inductive:
`PublishShared` indexes the table at the cursor, and only `Room` says that the slot
exists. The step proofs count owners: a lemma says how slots and nodes of a block
change when one slot is appended, replaced or dropped, or a node added or removed,
and each action cites it. `Refinement` needs `Frame` for the delivered batch: rows
that take a token are running, hence active, and their texts grow by one token.

With the same `Frame`, of the trie:

* `LeavesFound == Spec => [](Rooted /\ Indexed)`: a node without children is in the
  leaf index, hence reclaimable, in every state but while a publication stands on it
  (`LeavesIndexed`, half of `TrieSound`, is `Indexed` outside publication).
* `TrieHolds == Spec /\ []MatchAligned => []TrieSound`.

The other half is `CursorHeld`: an attached cursor stands on a node, and the table
follows the trie down to it. `MatchBlock` appends the block it found to the table, and this
keeps `CursorHeld` only if the table ends at the cursor. That is
`MatchAligned`, which the code does not guarantee (see *Known divergences*), so it is a
hypothesis about the behaviour, stated as such, and not an assumption on constants. It
holds of every behaviour in which no sequence is preempted ahead of its cursor and matched again;
the run `paged_kv` explores many, the run `paged_kv_misaligned` one of the others.

### `PagedKVFlow_proofs`

Without any hypothesis, from `Frame` and the invariant `Flow`:

* `NobodySleeps` (`NobodyAsleep`): when the loop waits for a request, nobody is running.
* `WritesHaveRoom` (`WritesFit`): every position a forward writes has a slot in the row's table.
* `TextsAgree` (`ComputedTextRight`): the device computed the text the host has, for
  every row whose token is applied.

`Flow` has five parts. `Stepped`: whoever runs is in the running list, and a forward in
flight, or the pass being made, steps him. `ReadySent`: whoever was admitted is in the pass or in a
prefill that was not activated, with his whole text. `TextInStep`: the text the device
carries is the host's, one token ahead where a forward is about to be collected.
`Reserved`: what a pass scheduled, and its candidate once its blocks are allocated, has the blocks
its forward writes. `RowsFit`: so do the rows in flight, those of the second forward after the
first has added a token. The parts rest on each other: `RowsFit` of a decode that is sent
ahead needs to know, from `Stepped` and `TextInStep`, that every row it names still runs.

### `PagedKVData_proofs`

For every behaviour with `[]MatchAligned`:

* `DataHolds == Spec /\ []MatchAligned => [](Core /\ Data)`
* `DeliveredRight` (`DeliveredTokensRight`): the KV a token was computed from is, position by
  position, that of its sequence's text.
* `CacheRight` (`CacheContentsRight`): when nothing is in flight, every cell of a cached block holds
  the text of its node.

Neither property is close to inductive: blocks are freed, shared and given
away while two forwards that name them still run, and a node is published before its KV
exists. `Core` collects the invariants above. `Data` states what cells hold *after the
forward that is executing* (`Settled`), and what the second forward and the pass will add:

* `Sharing`: a block has at most one node, and behind its cursor a sequence owns its
  blocks alone. `Lengths`: how much of its text a sequence's blocks hold (`Computed`).
* `TailRight`: the cells a sequence owns alone hold its text, as far as it is computed.
* `NodesRight`: the cells of a node hold its text, or a row of the second forward
  writes them, or a sequence of the batch being built will.
* `RowsSound`: rows of one forward that share a block have the same text up to its end, and what a row
  reads is there before, or is written by a row it shares the block with. This is what makes it
  harmless that `KvAfter` leaves a cell blank when two rows differ.
* `Placed`, `Linked`: until its activation, the rows of the forward sent last are those of the
  tables and of the trie, and nobody else's tail lies in them.

A step of paging changes tables and trie and leaves `Settled` alone, but for the cells of blocks it
frees, which nothing names any more (`Sharing`, and `Owned` for what is free). A step that sends a
forward turns what `Lengths` and `NodesRight` promise of the batch into a promise of its rows.
`CollectOutput` shifts the queue: what was `Settled` becomes `kv`, and the lemmas `NodeAfter` and
`TailAfter` say that the next forward, by `RowsSound`, fills what it owes and
overwrites nothing else with a different text.

### `RequestFlow_proofs`

For every set of clients and of engines. In any setup: `NothingLeaks` (`NoLeak`),
`FinishIsKept` (`FinishSticks`), `SleepIsQuiet` (`SleepFindsNobody`). Under `NoMigration`
(no setup migrates): `NothingLost` (`DeliveredAll`), `ReadersAnswered` (`WaitersAreAnswered`).
Under `NoSuspension` (a worker does not wait inside a step): `OutputsInOrder` (`OutputsMatch`).
Under both: `TypeCorrect`. The assumptions are those whose absence the divergences above refute.

The inductive invariants: `Placed` says where each request is, in terms of its client's
position (`Arrives`, `Departs`, `Fetched`, `Finished`): a session exists only while its client
owes an END or the END is queued, which is `NoLeak`. `Quiet` relates the acknowledgements of
sleep to the positions of both loops and to the blocked request types. `Accounts`
is the ledger of outputs: tokens generated, queued, in the response and seen differ by what the places
between hold (`Counted`), and a reader of a sequence that runs no more has an answer in one of
them (`Answered`). `Piped` says that the worker's three queues, in order, are what
the main loop waits for. `Shape` is the type invariant with the lengths these need.

### `Sessions_proofs`

For every set of requests and finite set of handles: `TypeCorrect`; under `OwnSessions`
(every request has its own session) `HandlesSafe` (`HandlesConserved`), and with at most one
stop (`MaxEpoch <= 1`) `StopAllReaches` (`StopAllStops`). `Ownership` says that a holder's handle is its session's, that nobody else's session
has it, and that it is not in the pool; `StopInv` adds that a request which
waits or runs and was not stopped is listed (`Listed`), which is what a stop looks at.

### `DecodeBatch_proofs`

For all values of the constants that satisfy `DecodeBatchAssumption`:

* `SleepsOnNobody` (`AwakeWhileRunning`): the loop never waits for a request while a sequence runs.
* `EverybodyIsStepped`: the half of `SteppedOnce` that says *at least*, in every behaviour.
* `EverybodyIsSteppedOnce` (`SteppedOnce`) and `PromptsComeWhole` (`WholePromptFirst`), for
  every behaviour with `[]ChunkApart`.
* `RowsStayAligned` (`RowsAligned`), for those and with `Kinds \subseteq {"generate"}`.

`ChunkApart` says that the sequence whose prompt is being chunked is not in the running list. The
code does not ensure it (`DecodeBatch_midprefill`), so for these it is a hypothesis about the behaviour.
Requests for logits break the alignment (`DecodeBatch_logits`), hence `Kinds`. Two theorems say where the
hypothesis holds, and what follows there:

* `ChunkStaysApart` (`ChunkApart`), and from it `CalmEnginesDecodeRight` (`SteppedOnce`, `WholePromptFirst` and
  `RowsAligned` together), for engines that satisfy `CalmEngines`: all requests generate, and either any one text
  fits the pool and no client abandons a prompt that is being chunked, or all texts together fit.

That one text fits is what `Engine._get_max_session_len` (`engine.py:328`) provides for: it keeps a block
aside, which covers the reservation of a decode while that is no larger than a block. That clients are patient, or memory ample, is what the code does not ensure; the run `decode_batch`
has one engine of either sort.

The argument has five layers, each inductive given those before. `Frame`: types, how many
forwards are queued in which control state (`QueueShape`), what lanes remain (`LaneShape`). `Flow`: a running
sequence is listed, or in a prefill that was not activated, or the chunker's (`Covered`, `Joined`,
`ChunkOwned`); a decode in flight names whole prompts only (`DecodeWhole`). `Distinct`: no
sequence is twice in the running list, in a forward, or among the newcomers. `Whole`: who is listed has
its whole prompt cached. `Aligned`: rows of the worker, after the queued forwards, stand where
the host's list says. It is stated for three kinds of state: before the head executes
(`HeadAligned`: the positions of a decode lead to its rows), with a second forward queued behind it
(`PendingAligned`: so they will, once the first has moved the rows), and at the choice of the next.
Here the lemmas about `InOrder` and `Entries` are needed: an ascending enumeration exists, names
each position once, and composes.

`ChunkStaysApart` needs a sixth, `Calm`. A sequence that is refused a block for its next token is preempted, but
leaves the running list only with the next decode: until then it waits, may be admitted again, and if its
text is long by now the chunker gets it while it is listed. What prevents it is a chain of facts about
whose turn it is. A lone sequence is never refused (`Fitting`, with `HeldCover`: blocks held by all add up to no
more than the cells of a product), so somebody else is there; either he is decoded too, and the
decode drops the other from the list, or he is the chunker's (`Strays`). While the
chunker has somebody whom nobody takes away (`Attended`), no other long prompt is started, and the turn that ends
this, the last chunk, is sent with a list of running sequences only. `Bringing` says the same of
sequences that a prefill in flight is about to list, `Threats` and `Unfinished` of those that the output
being awaited will preempt, and `Resting` and `PlanShape` which lanes are still to be tried, so that
a pass does not end with a chunk that waits and nothing in flight.

### `KVTransfer_proofs`

For all values of the constants that satisfy `ConstantsAssumption`, in any setup, without a hypothesis about the
behaviour, from one inductive invariant:

* `ResultsOnce` (`EachResultOnce`): for each rank, the result of a load that is under way is at one place:
  to be launched, with a transfer thread, in the worker's events, in an output, in the aggregator, or
  being applied. So none is lost, and none counts twice.
* `DestinationsPrivate` (`LoadsPrivate`): while a worker may write a block, it is in nobody
  else's table, in no lease and not in the trie.
* `SleepIsClean` (`SleepLeavesNothing`): a drained engine has no load, lease or step left, on the host or on a rank.
* `EndIsFinal` (`EndWins`): a deferred END is never weakened to a STOP.

The invariant is `Base /\ Pipe /\ OneEach /\ Flying /\ Once /\ Private`. `Base` is typing with what a
sequence's fields say of each other (`RecordOf`: a load fills exactly the blocks behind the history,
a waiting sequence's table ends at its history), and what the loop's locals hold at each position.
`Pipe`: every rank begins the steps in order, and one that it has not begun has reported nothing.
`OneEach`: every loading sequence has exactly one request, pending or in flight, that agrees with
its table, or its result is being applied. `Flying`: what workers hold, or will be given by a
queued step, is in flight, at most one job for a sequence. `Once` is the ledger of results; `Private` says of the
destinations what `LoadsPrivate` does, in terms of the requests.

They need each other. `Once` moves results from place to place, and only `Flying` says that a new
load of a sequence finds no old result of it; `Private` survives an eviction because the
victims are sequences that do not load (`OutcomeFacts`), and an allocation because what is free is in
nobody's table. `Collect` is the long step: it takes the head of the queue, shifts every position in it (`Earlier`), and moves
what all ranks reported from the aggregator to the batch that is applied, so that a result
leaves the rows of each rank at the same time.

### `TurboEngine_proofs`

For any requests and any setups that satisfy `IsSetup`, without a hypothesis about the behaviour:

* `NoLostWakeUp` (`WakeUpsMatch`): the hand-over from the signal thread to the coroutine. It is inductive once
  the two counters are known to be 0 or 1 (`Waking`): `UpdateState` calls back only when it replaced
  nothing, so a second release is never scheduled while one is pending.
* `EveryAnswerRead` (`AnswersRead`): each answer gets through to its reader, once, and nothing follows it.
* `RowsLive` (`RowsAreLive`): no sequence is released while a batch on its way names it; its inflight
  count is the number of those batches.
* `TokensRight` (`OutputsRight`): what a client reads continues its own text, and nothing is
  computed over another row's token, a wrong position or a cache with a hole.
* `GivenUpRightly` (`OutOfMemoryJustified`): only a request that could not run with the whole engine to itself
  is told that memory is out.

`IsSetup` asks one thing the code does not check: that a forward may hold at least a block of tokens. Its size
is `max_prefill_token_num + max_batch_size`, far above a block of 64 by default.

The invariant is built in layers, each inductive given those before:

* `Frame`: types (`Shapes`), each request at one place at a time (`Places`), how many batches are on their
  way and from how many rows each starts (`Chained`).
* `Alive`: the batch submitted last runs the leading slots, and the one about to be collected is found through
  `RowOf` (`InSlots`); the inflight counts (`Counted`), which is `RowsAreLive`.
* `Speaking`: who may still be told something (`Open`) was told no answer (`Calm`), in
  what was read, what waits for the reader and what is still to be signalled (`Spoken`, `Pending`).
* `Waking`: the hand-over above.
* `Predicted`: where a sequence will be once the batches on their way came back (`Reached` for its cache,
  `Lasting` for its length) is what their rows will bring (`Foreseen`).
* `Filled`: what a batch that has not run yet will find when it does: the cache that its rows
  read, and in the row each goes on from the token at the position before (`Fed`); what came
  back is right (`Brought`); after the last, each sequence has at least the cache it believes
  in (`Kept`), and the next batch can go on from the rows that remain (`Ready`).
* `Counts`: the tokens handed on are those the sequence counts. With `Filled` this makes `OutputsRight` inductive.
* `Unfinished`: a running sequence has more to fill than the batches on their way will.

`GivenUpRightly` is an argument about one pass of the scheduler. A request is given up only when nothing is in
flight, so that its predicted length is its length. The first sequence of the pass that is
considered can be refused only for the budget of tokens or for blocks; an eviction
frees what was asked for, or everything that is not the sequence's own (`EvictFrees`); the blocks owned and free always add
up to the cache (`TotalSplit` and its neighbours). So the first is refused only if it fits in no
empty cache, and the pass, by a least counterexample over its positions, keeps what the first was given.

### Only model-checked

* The contents of blocks in `KVTransfer`: `SaveReadsRight`, `RowsReadRight`, `CacheContentsRight`. They need the order of
  the compute stream against the transfer threads, and the last fails without a recurrent state (`kv_transfer_stale`).
* `RequestsEnd`, `ChunksEnd`, `TransfersEnd`, `EveryRequestEnds`, `SleepComes`, `RequestsServed`, `RequestsAnswered`:
  liveness under fairness is outside the proof system's reach, as are `ENABLED` and induction over data.

## 6. Not modelled

SSM checkpoints and state slots (`StateCheckpoint` is next in the plan); TurboMind's prefix trie, checkpoints,
memory slabs and collective communication; speculative and diffusion
decoding; the multi-process executor; the proxy and the connection pool between
disaggregated engines. Model code, kernels, quantisation, parsers, servers' formatting, vision
and the command line keep no concurrent state: what they compute is numerical or
textual, and the state machines above take it as given.

## 7. Running

    tlc -workers 2 -config PagedKV.cfg MCPagedKV             # also _misaligned, _live
    tlc -workers 2 -config DecodeBatch.cfg MCDecodeBatch     # also _three
    tlc -workers 2 -config KVTransfer.cfg MCKVTransfer       # also _live, _types
    tlc -workers 2 -config RequestFlow.cfg MCRequestFlow     # also _live
    tlc -workers 2 -config Sessions.cfg MCSessions
    tlc -workers 2 -config TurboEngine.cfg MCTurboEngine
    tlapm PagedKV_proofs.tla                                 # also PagedKVFlow_, PagedKVData_proofs
    tlapm DecodeBatch_proofs.tla                             # also KVTransfer_, RequestFlow_, Sessions_, TurboEngine_proofs

`PagedKVData_proofs` and `KVTransfer_proofs` have about 5000 obligations each and take ten to fifteen minutes
from nothing, `DecodeBatch_proofs` and `TurboEngine_proofs` about 10000 and twenty minutes.

The configurations under *Known divergences* run the same way, with the MC module of their
component, and report the property named there.
