------------------------------ MODULE KVTransfer ------------------------------
(***************************************************************************)
(* Remote KV of lmdeploy's PyTorch engine: prompts whose prefix is fetched *)
(* from a store into freshly allocated blocks while the request waits, and *)
(* prefilled blocks that are written to the store while their request goes *)
(* on or ends (lmdeploy/pytorch/paging/kv_*_coordinator.py and             *)
(* lmdeploy/pytorch/kv_connector).                                         *)
(*                                                                         *)
(* Three kinds of actors share the blocks: the engine's event loop, which  *)
(* owns them; the GPU streams, which run forwards in dispatch order; and   *)
(* the transfer threads of every rank, which read and write blocks on      *)
(* their own.  The loop learns of a transfer only through the events a     *)
(* later step polls on every rank.                                         *)
(*                                                                         *)
(* A token stands for one block of text, so a prompt is a path of the      *)
(* prefix trie.  Who owns a block is derived from the tables, the trie and *)
(* the save leases: PagedKV shows that the reference counts say the same.  *)
(***************************************************************************)
EXTENDS Integers, Sequences, FiniteSets, FiniteSetsExt

CONSTANTS
    Blocks,      \* logical KV blocks, 1..n
    Seqs,        \* request slots, one sequence per session
    Gen,         \* the text a sequence generates
    Torn,        \* what a failed transfer leaves in a block
    SaveIds,     \* BOUND: save operations outstanding at a time, 1..n
    MaxBatches,  \* scheduler_config.max_batches
    Setups       \* engines and their clients, see below

\* ranks: the tensor-parallel workers.  hybrid: the model also keeps a
\* recurrent state per sequence.  consumer, producer: kv_transfer_config's
\* is_kv_consumer (prefixes are loaded) and is_kv_producer (blocks are saved).
\* sleeps: the engine may be put to sleep.  prompts: what the client of a slot
\* sends, as sequences of block texts.  patient: nobody stops or ends a request.
IsSetup(u) ==
    /\ IsFiniteSet(u.ranks) /\ u.ranks # {} /\ DOMAIN u.prompts \subseteq Seqs
    /\ \A s \in DOMAIN u.prompts : \A p \in u.prompts[s] :
          Len(p) >= 1 /\ p \in Seq({p[i] : i \in 1..Len(p)} \ {Gen})
    /\ {u.hybrid, u.consumer, u.producer, u.sleeps, u.patient} \subseteq BOOLEAN

ASSUME ConstantsAssumption ==
    /\ IsFiniteSet(Blocks) /\ Blocks = 1..Cardinality(Blocks)
    /\ IsFiniteSet(SaveIds) /\ SaveIds = 1..Cardinality(SaveIds)
    /\ IsFiniteSet(Seqs) /\ MaxBatches \in Nat \ {0}
    /\ \A u \in Setups : IsSetup(u)

VARIABLES
    status, text,      \* seq.status; the prompt
    table, hist,       \* seq.logical_blocks; computed or loaded blocks
    cache,             \* prefix trie: path -> block
    load,              \* KVLoadCoordinator._loads
    target,            \* KVLoadCoordinator._prefill_targets, 0 if untracked
    lease,             \* KVSaveCoordinator._leases: save id -> blocks
    lookup, plan,      \* lookup client's future; _lookup_plans, 0 if none
    pending, inflight, \* _pending_loads and _inflight_loads
    failed, nextSave,  \* _failed_load_requests and _next_save_block
    queue,             \* steps sent to the executor, not yet collected
    launched, gpu,     \* how many of them each rank began, the streams ended
    loading, saving,   \* rank -> accepted transfers its threads have not done
    done,              \* rank -> terminal events not yet polled
    setup,             \* the engine at hand
    got,               \* KVOutputAggregator: rank-wise completions
    kv,                \* rank -> block -> the text whose KV it holds
    sleeping,          \* EngineLoop._sleep_requested
    pc, todo, batch    \* control and locals of the engine loop

seqVars  == <<status, text, table, hist, cache>>
coVars   == <<load, target, lease>>
conVars  == <<lookup, plan, pending, inflight, failed, nextSave>>
stepVars == <<queue, launched, gpu>>
workVars == <<loading, saving, done, setup>>
vars     == <<seqVars, coVars, conVars, stepVars, workVars, got, kv, sleeping, pc, todo, batch>>

NoLookup == -2
Pending  == -1
NoLoad   == [phase |-> "none", start |-> 0, remote |-> 0, cleanup |-> "none"]
Blank    == <<>>
Await    == {"send", "sent", "wait"}

Ranks    == setup.ranks
Hybrid   == setup.hybrid
Consumer == setup.consumer
Producer == setup.producer
Texts    == UNION {setup.prompts[s] : s \in DOMAIN setup.prompts}

---------------------------------------------------------------------------
(* Ownership of the blocks. *)

Path(p, i)     == SubSeq(p, 1, i)
InTable(tbl)   == {tbl[i] : i \in DOMAIN tbl}
Held(tables)   == UNION {InTable(tables[s]) : s \in Seqs}
Cached(c)      == {c[p] : p \in DOMAIN c}
Leased(l)      == UNION {l[i] : i \in DOMAIN l}

FreeWith(tables, c) == Blocks \ (Held(tables) \cup Cached(c) \cup Leased(lease))
Free                == FreeWith(table, cache)

WithStatus(st) == {s \in Seqs : status[s] = st}
Waiting        == WithStatus("WAITING")
IsLoading(s)   == load[s].phase = "LOADING"
RemoteReady(s) == load[s].phase = "READY"

\* Blocks that a step or a load still under way will write.
Touched(q, ld) ==
    (UNION {UNION {InTable(q[i].rows[s].tbl) : s \in DOMAIN q[i].rows} : i \in DOMAIN q})
      \cup (UNION {UNION {InTable(w.blocks) : w \in q[i].loads} : i \in DOMAIN q})
      \cup (UNION {UNION {InTable(j.req.blocks) : j \in ld[r]} : r \in Ranks})

\* A free block nothing will write may hold anything.
Forget(device) ==
    LET blank == Free' \ Touched(queue', loading')
    IN [r \in Ranks |-> [b \in Blocks |-> IF b \in blank THEN Blank ELSE device[r][b]]]

\* The free blocks nothing will write are alike: the lowest are taken.  The
\* others may come up at any place of the free list.
Picks(free, n) ==
    LET clean == free \ Touched(queue, loading)
    IN {q \in [1..n -> free] :
          \A i \in 1..n : /\ \A j \in 1..(i - 1) : q[j] # q[i]
                          /\ q[i] \in clean =>
                               \A b \in clean : b < q[i] => \E j \in 1..(i - 1) : q[j] = b}

---------------------------------------------------------------------------
(* Making room: RecomputeEvictionHelper.try_make_capacity_for.  Victims lose
   their blocks one by one, the stopped before the waiting; after each one the
   trie gives up leaves nobody uses, as many as are missing if it can. *)

Target(s) == Len(text[s]) + 1

Victims(st, s) == {v \in WithStatus(st) \ {s} : table[v] # <<>> /\ ~RemoteReady(v)}

Without(tables, gone) == [v \in Seqs |-> IF v \in gone THEN <<>> ELSE tables[v]]
Extends(q, p)         == Len(q) >= Len(p) /\ Path(q, Len(p)) = p

Minus(c, out)         == [p \in DOMAIN c \ out |-> c[p]]

\* Trie nodes that can go, leaf after leaf, when only `tables` use blocks.
Unused(tables) ==
    {p \in DOMAIN cache : \A q \in DOMAIN cache :
        Extends(q, p) => cache[q] \notin Held(tables) \cup Leased(lease)}

NumFree(tables, out) == Cardinality(FreeWith(tables, Minus(cache, out)))
LeafClosed(out) == \A p \in out : \A q \in DOMAIN cache : Extends(q, p) => q \in out

\* Who is taken last, and who before without that being enough.
Orders(s) ==
    LET stop == Victims("STOPPED", s)
        all  == stop \cup Victims("WAITING", s)
    IN {w \in (SUBSET all) \X all :
          /\ w[2] \notin w[1]
          /\ (w[1] \cup {w[2]}) \ stop # {} => stop \subseteq w[1] \cup {w[2]}
          /\ w[1] \ stop # {} => w[2] \notin stop}

\* How making room for `need` blocks can end: whose blocks are gone, which
\* trie nodes are out, and whether there is room.
Outcomes(s, tables, need) ==
    LET all == Victims("STOPPED", s) \cup Victims("WAITING", s)
        After(gone) == Without(tables, gone)
        Short(gone) == NumFree(After(gone), Unused(After(gone))) < need
        Evict(gone, base) ==
            {out \in SUBSET Unused(After(gone)) :
                LET miss == need - NumFree(After(gone), base) IN
                /\ base \subseteq out /\ LeafClosed(out)
                /\ Cardinality(out \ base) = IF miss > 0 THEN miss ELSE 0}
        End(gone, outs, ok) == {[gone |-> gone, out |-> o, ok |-> ok] : o \in outs}
    IN IF NumFree(tables, {}) >= need THEN End({}, {{}}, TRUE)
       ELSE IF Short(all) THEN End(all, {Unused(After(all))}, FALSE)
       ELSE IF all = {} THEN End({}, Evict({}, {}), TRUE)
       ELSE UNION {LET gone == w[1] \cup {w[2]} IN
                     End(gone, Evict(gone, IF w[1] = {} THEN {} ELSE Unused(After(w[1]))), TRUE) :
                   w \in {x \in Orders(s) : /\ ~Short(x[1] \cup {x[2]})
                                            /\ x[1] # {} => Short(x[1])}}

\* The effect of an outcome on the sequences that lost their blocks, and on
\* the trie.  Their reservation goes with the blocks.
GaveRoom(o) ==
    /\ hist' = [v \in Seqs |-> IF v \in o.gone THEN 0 ELSE hist[v]]
    /\ target' = [v \in Seqs |-> IF v \in o.gone THEN 0 ELSE target[v]]
    /\ table' = Without(table, o.gone)
    /\ cache' = Minus(cache, o.out)

---------------------------------------------------------------------------
(* Client requests. *)

\* The object a list still names is not the sequence of a later session.
Referenced(s) == \E i \in DOMAIN queue : s \in DOMAIN queue[i].rows

\* BOUND: every request that has not been prefilled may still need a save id.
Prefillable == {s \in Seqs : status[s] \in {"WAITING", "LOADING"}}

AddMessage(s, prompt) ==
    /\ s \in DOMAIN setup.prompts /\ prompt \in setup.prompts[s]
    /\ pc \in Await /\ ~sleeping
    /\ status[s] = "none" /\ ~Referenced(s)
    /\ Producer => Cardinality(DOMAIN lease) + Cardinality(Prefillable) < Cardinality(SaveIds)
    /\ status' = [status EXCEPT ![s] = "WAITING"]
    /\ text' = [text EXCEPT ![s] = prompt]
    /\ UNCHANGED <<table, hist, cache, coVars, conVars, stepVars, workVars, got, kv,
                   sleeping, pc, todo, batch>>

\* A worker may still write this sequence's blocks.
Deferred(s) == IsLoading(s)

\* Sequences leave the scheduler: end_sequence and request_finished.
Remove(ended, tables, records) ==
    /\ status' = [s \in Seqs |-> IF s \in ended THEN "none" ELSE status[s]]
    /\ text' = [s \in Seqs |-> IF s \in ended THEN <<>> ELSE text[s]]
    /\ table' = Without(tables, ended)
    /\ hist' = [s \in Seqs |-> IF s \in ended THEN 0 ELSE hist[s]]
    /\ load' = [s \in Seqs |-> IF s \in ended THEN NoLoad ELSE records[s]]
    /\ target' = [s \in Seqs |-> IF s \in ended THEN 0 ELSE target[s]]
    /\ plan' = [s \in Seqs |-> IF s \in ended THEN 0 ELSE plan[s]]
    /\ inflight' = {w \in inflight : w.seq \notin ended}
    /\ failed' = failed \ ended
    /\ nextSave' = [s \in Seqs |-> IF s \in ended THEN 0 ELSE nextSave[s]]

\* Mutant: the latest request decides, a stop undoes an end.
LastCleanup(s, wish) == wish

\* The strongest request decides what follows the load.
Cleanup(s, wish) == IF load[s].cleanup = "END" THEN "END" ELSE wish

Defer(waits, wish) ==
    [s \in Seqs |-> IF s \in waits THEN [load[s] EXCEPT !.cleanup = Cleanup(s, wish)] ELSE load[s]]

StopSession(s) ==
    /\ pc \in Await /\ ~setup.patient
    /\ status[s] \notin {"none", "STOPPED"}
    /\ lookup' = [lookup EXCEPT ![s] = NoLookup]
    /\ \/ /\ Deferred(s)
          /\ load' = Defer({s}, "STOP")
          /\ UNCHANGED <<status, target>>
       \/ /\ ~Deferred(s)
          /\ status' = [status EXCEPT ![s] = "STOPPED"]
          /\ load' = [load EXCEPT ![s] = NoLoad]
          /\ target' = [target EXCEPT ![s] = 0]
    /\ UNCHANGED <<text, table, hist, cache, lease, plan, pending, inflight, failed, nextSave,
                   stepVars, workVars, got, kv, sleeping, pc, todo, batch>>

\* End every session of S, now or when its load is over.
EndAll(S) ==
    LET waits == {s \in S : Deferred(s)} IN
    /\ lookup' = [s \in Seqs |-> IF s \in S THEN NoLookup ELSE lookup[s]]
    /\ Remove(S \ waits, table, Defer(waits, "END"))
    /\ UNCHANGED <<cache, lease, pending, stepVars, workVars, got>>
    /\ kv' = Forget(kv)

EndSession(s) ==
    /\ pc \in Await /\ ~setup.patient
    /\ status[s] # "none"
    /\ EndAll({s})
    /\ UNCHANGED <<sleeping, pc, todo, batch>>

---------------------------------------------------------------------------
(* Where a scheduling pass starts. *)

\* Scheduler.has_unfinished; READY sequences are among the running ones.
HasUnfinished == Waiting \cup WithStatus("LOADING") # {} \/ DOMAIN lease # {}

\* With nothing in flight the pass was a send, otherwise a prefetch.
Unfinished == queue # <<>> \/ HasUnfinished

BeginPass(candidates) ==
    /\ pc \in {"send", "sent", "prefetch"} /\ ~sleeping
    /\ Unfinished
    /\ pc' = "pick" /\ todo' = candidates /\ batch' = {}
    /\ UNCHANGED <<seqVars, coVars, conVars, stepVars, workVars, got, kv, sleeping>>

BeginPrefill == Waiting # {} /\ BeginPass(Waiting)
BeginDecode  == BeginPass({})

---------------------------------------------------------------------------
(* Admission of one waiting sequence.  Loaded sequences come first; the order
   of the others, by arrival and by length, is left free. *)

Candidate(s) ==
    /\ pc = "pick" /\ s \in todo
    /\ Cardinality(WithStatus("RUNNING")) < MaxBatches
    /\ RemoteReady(s) \/ \A v \in todo : ~RemoteReady(v)

\* The last block of the prompt is never reused: its token must be computed.
Reusable(s) == Len(text[s]) - 1

\* How far the local match may reach.  A hybrid model can resume only where a
\* checkpoint of its state is, which this module leaves open.
Matches(s) ==
    LET deep == CHOOSE k \in hist[s]..Reusable(s) :
                  /\ \A i \in (hist[s] + 1)..k : Path(text[s], i) \in DOMAIN cache
                  /\ k < Reusable(s) => Path(text[s], k + 1) \notin DOMAIN cache
    IN IF RemoteReady(s) THEN {hist[s]} ELSE IF Hybrid THEN hist[s]..deep ELSE {deep}

MatchedTable(s, k) ==
    [i \in 1..k |-> IF i <= hist[s] THEN table[s][i] ELSE cache[Path(text[s], i)]]
Matched(s, k) == [table EXCEPT ![s] = MatchedTable(s, k)]
Missing(s, k) == Target(s) - k

\* No remote prefix is looked up for this candidate.
NoExternal(s, k) == ~Consumer \/ RemoteReady(s) \/ k >= Reusable(s) \/ s \in failed

\* The remote prefix the candidate knows of: a plan kept from an admission that
\* failed, else the answer of its lookup.
Remote(s, k) == IF plan[s] > k THEN plan[s] ELSE lookup[s]
Answered(s, k) == ~NoExternal(s, k) /\ Remote(s, k) >= 0

Polled(s, k) == lookup' = [lookup EXCEPT ![s] = IF plan[s] > k THEN @ ELSE NoLookup]

SkipPendingLookup(s) ==
    /\ Candidate(s) /\ ~RemoteReady(s)
    /\ lookup[s] = Pending
    /\ todo' = todo \ {s}
    /\ UNCHANGED <<seqVars, coVars, conVars, stepVars, workVars, got, kv, sleeping, pc, batch>>

SubmitLookup(s, k) ==
    /\ Candidate(s) /\ ~NoExternal(s, k)
    /\ plan[s] <= k /\ lookup[s] = NoLookup
    /\ lookup' = [lookup EXCEPT ![s] = Pending]
    /\ plan' = [plan EXCEPT ![s] = 0]
    /\ todo' = todo \ {s}
    /\ UNCHANGED <<seqVars, coVars, pending, inflight, failed, nextSave, stepVars, workVars,
                   got, kv, sleeping, pc, batch>>

\* Blocks other requests were promised and have not taken.
SoftReserved(s, o) ==
    LET Due(v) == IF target[v] > Len(table[v]) THEN target[v] - Len(table[v]) ELSE 0
    IN MapThenSumSet(Due, Seqs \ (o.gone \cup {s}))

LoadFits(s, k, o) ==
    /\ o.ok
    /\ Missing(s, k) + SoftReserved(s, o) <= NumFree(Without(Matched(s, k), o.gone), o.out)

\* The remote prefix is loaded into new blocks behind the local match.  Only
\* the blocks of the load are taken now; the rest of the prefill is promised.
StartLoad(s, k) ==
    LET n == Remote(s, k) IN
    /\ Candidate(s) /\ Answered(s, k) /\ n > k
    /\ \E o \in Outcomes(s, Matched(s, k), Missing(s, k)) :
         /\ LoadFits(s, k, o)
         /\ \E q \in Picks(FreeWith(Without(Matched(s, k), o.gone), Minus(cache, o.out)), n - k) :
              /\ table' = [Without(table, o.gone) EXCEPT ![s] = MatchedTable(s, k) \o q]
              /\ pending' = pending \cup {[seq |-> s, first |-> k, blocks |-> q,
                                           text |-> Path(text[s], n)]}
         /\ cache' = Minus(cache, o.out)
         /\ hist' = [v \in Seqs |-> IF v = s THEN k ELSE IF v \in o.gone THEN 0 ELSE hist[v]]
         /\ target' = [v \in Seqs |-> IF v = s THEN Target(s)
                                      ELSE IF v \in o.gone THEN 0 ELSE target[v]]
    /\ load' = [load EXCEPT ![s] = [phase |-> "LOADING", start |-> k, remote |-> n,
                                    cleanup |-> "none"]]
    /\ status' = [status EXCEPT ![s] = "LOADING"]
    /\ plan' = [plan EXCEPT ![s] = 0]
    /\ Polled(s, k)
    /\ todo' = todo \ {s}
    /\ UNCHANGED <<text, lease, inflight, failed, nextSave, stepVars, workVars, got, sleeping,
                   pc, batch>>
    /\ kv' = Forget(kv)

\* No room: the match is undone, the pass ends.  The answer is kept, and what
\* was evicted stays evicted.
LoadDoesNotFit(s, k) ==
    LET n == Remote(s, k) IN
    /\ Candidate(s) /\ Answered(s, k) /\ n > k
    /\ \E o \in Outcomes(s, Matched(s, k), Missing(s, k)) : ~LoadFits(s, k, o) /\ GaveRoom(o)
    /\ plan' = [plan EXCEPT ![s] = n]
    /\ Polled(s, k)
    /\ todo' = {}
    /\ UNCHANGED <<status, text, load, lease, pending, inflight, failed, nextSave, stepVars,
                   workVars, got, sleeping, pc, batch>>
    /\ kv' = Forget(kv)

\* The rest of the prompt is prefilled here: nothing remote was asked for, or
\* nothing beyond the local match was found.  The answer then says what need
\* not be saved again.
LocalOnly(s, k) ==
    /\ Candidate(s)
    /\ NoExternal(s, k) \/ (Answered(s, k) /\ Remote(s, k) <= k)
    /\ IF NoExternal(s, k)
         THEN UNCHANGED <<lookup, plan, nextSave>>
         ELSE /\ Polled(s, k)
              /\ plan' = [plan EXCEPT ![s] = 0]
              /\ nextSave' = [nextSave EXCEPT ![s] = IF Producer THEN Remote(s, k) ELSE @]

\* A table behind depth k: blocks the trie has for the text, then new ones.
Filled(s, k, c, q) ==
    LET new == {i \in (k + 1)..Target(s) : i = Target(s) \/ Path(text[s], i) \notin DOMAIN c}
    IN [i \in 1..Target(s) |->
          IF i \in new THEN q[Cardinality({j \in new : j <= i})]
          ELSE IF i > k THEN c[Path(text[s], i)]
          ELSE MatchedTable(s, k)[i]]
NumNew(s, k, c) ==
    1 + Cardinality({i \in (k + 1)..Len(text[s]) : Path(text[s], i) \notin DOMAIN c})

Published(s, c, tbl, depth) ==
    [p \in DOMAIN c \cup {Path(text[s], i) : i \in 1..depth} |->
        IF p \in DOMAIN c THEN c[p] ELSE tbl[Len(p)]]

AdmitLocal(s, k) ==
    /\ LocalOnly(s, k)
    /\ \E o \in Outcomes(s, Matched(s, k), Missing(s, k)) :
         LET c == Minus(cache, o.out) IN
         /\ o.ok
         /\ \E q \in Picks(FreeWith(Without(Matched(s, k), o.gone), c), NumNew(s, k, c)) :
              LET tbl == Filled(s, k, c, q) IN
              /\ table' = [Without(table, o.gone) EXCEPT ![s] = tbl]
              /\ cache' = Published(s, c, tbl, Len(text[s]))
         /\ hist' = [v \in Seqs |-> IF v = s THEN k ELSE IF v \in o.gone THEN 0 ELSE hist[v]]
         /\ target' = [v \in Seqs |-> IF v = s /\ Consumer THEN Target(s)
                                      ELSE IF v \in o.gone THEN 0 ELSE target[v]]
    /\ status' = [status EXCEPT ![s] = "RUNNING"]
    /\ load' = IF RemoteReady(s) THEN [load EXCEPT ![s].phase = "PREFILLING"] ELSE load
    /\ todo' = todo \ {s} /\ batch' = batch \cup {s}
    /\ UNCHANGED <<text, lease, pending, inflight, failed, stepVars, workVars, got, sleeping, pc>>
    /\ kv' = Forget(kv)

LocalDoesNotFit(s, k) ==
    /\ LocalOnly(s, k)
    /\ \E o \in Outcomes(s, Matched(s, k), Missing(s, k)) : ~o.ok /\ GaveRoom(o)
    /\ todo' = {}
    /\ UNCHANGED <<status, text, load, lease, pending, inflight, failed, stepVars, workVars, got,
                   sleeping, pc, batch>>
    /\ kv' = Forget(kv)

Admit(s) ==
    \/ SkipPendingLookup(s)
    \/ \E k \in Matches(s) : \/ SubmitLookup(s, k) \/ StartLoad(s, k) \/ LoadDoesNotFit(s, k)
                             \/ AdmitLocal(s, k) \/ LocalDoesNotFit(s, k)

---------------------------------------------------------------------------
(* The end of a pass: one step goes to the executor, with the transfers. *)

\* A batch's full blocks from the first unsaved one on.
Cells(s) == {<<table[s][i], Path(text[s], i)>> : i \in (nextSave[s] + 1)..Len(text[s])}

\* Mutant: the blocks of a save are not pinned.
NotPinned(save) == {}

Pinned(save) == {c[1] : c \in save.cells}

\* Mutant: only new work is worth a step.
MetaForNew(saves) == saves # {} \/ pending # {}

\* Steps carry metadata, and poll the workers, while anything is under way.
NeedsMeta(saves) == saves # {} \/ pending \cup inflight # {} \/ DOMAIN lease # {}

UnusedIds == SaveIds \ DOMAIN lease
SaveRequests(savers) ==
    LET f == CHOOSE g \in [savers -> UnusedIds] : \A u, v \in savers : u # v => g[u] # g[v]
    IN {[id |-> f[s], cells |-> Cells(s)] : s \in savers}

Prefilled(s) == [tbl |-> table[s], first |-> hist[s] + 1, text |-> text[s]]
Decoded(s)   == [tbl |-> table[s], first |-> Target(s), text |-> Append(text[s], Gen)]

\* A prefill computes the prompt behind its history, a decode what follows.
Step(saves) ==
    [kind |-> IF batch # {} THEN "prefill" ELSE IF WithStatus("RUNNING") # {} THEN "decode" ELSE "poll",
     rows |-> IF batch # {} THEN [s \in batch |-> Prefilled(s)]
                            ELSE [s \in WithStatus("RUNNING") |-> Decoded(s)],
     meta |-> NeedsMeta(saves),
     loads |-> pending, saves |-> saves,
     out |-> [r \in Ranks |-> {}]]

ToSave == {s \in batch : Producer /\ nextSave[s] < Len(text[s])}

AfterPass(sent) == IF queue # <<>> THEN "wait" ELSE IF sent THEN "sent" ELSE "send"

\* A hybrid save needs a snapshot slot, and is skipped without one.
EndPass ==
    /\ pc = "pick"
    /\ todo = {} \/ Cardinality(WithStatus("RUNNING")) >= MaxBatches
    /\ \E skipped \in SUBSET (IF Hybrid THEN ToSave ELSE {}) :
         LET savers == ToSave \ skipped
             saves  == SaveRequests(savers)
             step   == Step(saves)
             sent   == step.kind # "poll" \/ step.meta
         IN /\ queue' = IF sent THEN Append(queue, step) ELSE queue
            /\ lease' = [i \in DOMAIN lease \cup {w.id : w \in saves} |->
                           IF i \in DOMAIN lease THEN lease[i]
                           ELSE Pinned(CHOOSE w \in saves : w.id = i)]
            /\ nextSave' = [s \in Seqs |-> IF s \in savers THEN Len(text[s]) ELSE nextSave[s]]
            /\ pc' = AfterPass(sent)
    /\ inflight' = inflight \cup pending /\ pending' = {}
    /\ todo' = {} /\ batch' = {}
    /\ UNCHANGED <<seqVars, load, target, lookup, plan, failed, launched, gpu, workVars, got, kv,
                   sleeping>>

---------------------------------------------------------------------------
(* The workers.  Every rank begins the steps in order; `after` says how many
   of the queued steps the streams must have ended before a transfer. *)

\* Mutant: the events of a poll are delivered again by the next one.
KeptEvents(r, meta) == done[r]

\* get_finished hands over what has ended since the last poll.
LeftEvents(r, meta) == IF meta THEN {} ELSE done[r]

\* Mutant: the transfer does not wait for earlier forwards.
LoadAtOnce(i) == 0

\* Only a load that restores a state records an event on the compute stream.
LoadAfter(i) == IF Hybrid THEN i - 1 ELSE 0

\* Loads are accepted before the forward, saves behind its last write.
Launch(r) ==
    LET i == launched[r] + 1
        step == queue[i]
    IN /\ launched[r] < Len(queue)
       /\ launched' = [launched EXCEPT ![r] = i]
       /\ loading' = [loading EXCEPT ![r] = @ \cup
                        {[req |-> w, after |-> LoadAfter(i)] : w \in step.loads}]
       /\ saving' = [saving EXCEPT ![r] = @ \cup {[req |-> w, after |-> i] : w \in step.saves}]
       /\ queue' = [queue EXCEPT ![i].out[r] = IF step.meta THEN done[r] ELSE {}]
       /\ done' = [done EXCEPT ![r] = LeftEvents(r, step.meta)]
       /\ UNCHANGED <<seqVars, coVars, conVars, gpu, setup, got, kv, sleeping, pc, todo, batch>>

RowWrites(row) == {<<row.tbl[i], Path(row.text, i)>> : i \in row.first..Len(row.text)}
Writes(step)   == UNION {RowWrites(step.rows[s]) : s \in DOMAIN step.rows}

Written(device, cells) ==
    [b \in Blocks |-> LET W == {c[2] : c \in {x \in cells : x[1] = b}} IN
        IF W = {} THEN device[b] ELSE IF Cardinality(W) = 1 THEN CHOOSE t \in W : TRUE ELSE Torn]

\* The streams end the next step.  Collectives keep the ranks together; a
\* polling step has no work for the streams.
GpuRun ==
    /\ gpu < Len(queue) /\ \A r \in Ranks : launched[r] > gpu
    /\ gpu' = gpu + 1
    /\ UNCHANGED <<seqVars, coVars, conVars, queue, launched, workVars, got, sleeping, pc, todo, batch>>
    /\ kv' = Forget([r \in Ranks |-> Written(kv[r], Writes(queue[gpu + 1]))])

LoadCells(w) == {<<w.blocks[i], Path(w.text, w.first + i)>> : i \in DOMAIN w.blocks}
TornCells(w) == {<<b, Torn>> : b \in InTable(w.blocks)}

\* A transfer thread writes the destinations, wholly or not.
LoadRun(r, job, ok) ==
    /\ job \in loading[r] /\ job.after <= gpu
    /\ loading' = [loading EXCEPT ![r] = @ \ {job}]
    /\ done' = [done EXCEPT ![r] = @ \cup {[kind |-> "load", of |-> job.req.seq, ok |-> ok]}]
    /\ UNCHANGED <<seqVars, coVars, conVars, stepVars, saving, setup, got, sleeping, pc, todo, batch>>
    /\ kv' = Forget([kv EXCEPT ![r] = Written(@, IF ok THEN LoadCells(job.req) ELSE TornCells(job.req))])

\* A transfer thread reads the blocks of a save; failures end it as well.
SaveRun(r, job) ==
    /\ job \in saving[r] /\ job.after <= gpu
    /\ saving' = [saving EXCEPT ![r] = @ \ {job}]
    /\ done' = [done EXCEPT ![r] = @ \cup {[kind |-> "save", of |-> job.req.id, ok |-> TRUE]}]
    /\ UNCHANGED <<seqVars, coVars, conVars, stepVars, loading, setup, got, kv, sleeping, pc, todo, batch>>

\* The lookup client's thread answers, with any depth that may be reused.
LookupDone(s, n) ==
    /\ lookup[s] = Pending
    /\ n \in 0..Reusable(s)
    /\ lookup' = [lookup EXCEPT ![s] = n]
    /\ UNCHANGED <<seqVars, coVars, plan, pending, inflight, failed, nextSave, stepVars, workVars,
                   got, kv, sleeping, pc, todo, batch>>

---------------------------------------------------------------------------
(* Progress comes back with the output of a step. *)

\* Mutant: the first rank's word is enough.
OnSomeRank(key, reports) == \E r \in Ranks : <<key, r>> \in reports

\* Every rank has reported this transfer.
OnAllRanks(key, reports) == \A r \in Ranks : <<key, r>> \in reports

Head1      == queue[1]
Reports    == got \cup UNION {{<<[kind |-> e.kind, of |-> e.of], r>> : e \in Head1.out[r]} : r \in Ranks}
Complete   == {key \in {w[1] : w \in Reports} : OnAllRanks(key, Reports)}
EndedLoads == {w \in inflight : [kind |-> "load", of |-> w.seq] \in Complete}

\* Mutant: a failure is forgotten by the time the last rank reports.
FailedLast == {s \in Seqs : \E r \in Ranks : [kind |-> "load", of |-> s, ok |-> FALSE] \in Head1.out[r]}

\* Failures are remembered until the last rank is done, and beyond.
FailedSoFar == failed \cup
    {w.seq : w \in {x \in inflight : \E r \in Ranks :
                      [kind |-> "load", of |-> x.seq, ok |-> FALSE] \in Head1.out[r]}}

\* Where saving resumes after a load: behind it, or in front of what it spoilt.
SaveFrom(w, bad) == IF w.seq \notin bad THEN Len(w.text) ELSE IF Hybrid THEN 0 ELSE w.first

Collect ==
    /\ pc = "wait" /\ gpu >= 1
    /\ got' = {w \in Reports : w[1] \notin Complete}
    /\ failed' = FailedSoFar
    /\ inflight' = inflight \ EndedLoads
    /\ nextSave' = [s \in Seqs |->
                      IF Producer /\ \E w \in EndedLoads : w.seq = s
                        THEN SaveFrom(CHOOSE w \in EndedLoads : w.seq = s, FailedSoFar)
                        ELSE nextSave[s]]
    /\ lease' = [i \in {x \in DOMAIN lease : [kind |-> "save", of |-> x] \notin Complete} |-> lease[i]]
    /\ todo' = {w.seq : w \in EndedLoads}
    /\ pc' = "apply"
    /\ UNCHANGED <<seqVars, load, target, lookup, plan, pending, stepVars, workVars, sleeping, batch>>
    /\ kv' = Forget(kv)

\* Every rank has written the blocks: they join the trie, sharing what other
\* requests published meanwhile, and the request waits for its prefill.
Publish(s) ==
    LET n == load[s].remote
        tbl == [i \in 1..n |-> IF Path(text[s], i) \in DOMAIN cache
                                 THEN cache[Path(text[s], i)] ELSE table[s][i]]
    IN /\ pc = "apply" /\ s \in todo
       /\ load[s].cleanup = "none" /\ s \notin failed
       /\ table' = [table EXCEPT ![s] = tbl]
       /\ cache' = Published(s, cache, tbl, n)
       /\ hist' = [hist EXCEPT ![s] = n]
       /\ status' = [status EXCEPT ![s] = "WAITING"]
       /\ load' = [load EXCEPT ![s].phase = "READY"]
       /\ todo' = todo \ {s}
       /\ UNCHANGED <<text, target, lease, conVars, stepVars, workVars, got, sleeping, pc, batch>>
       /\ kv' = Forget(kv)

\* What stays in front of a load that is given up.
Depth(s) == IF Hybrid THEN 0 ELSE load[s].start

\* A failed or cancelled load: its blocks go, and the deferred stop or end is
\* done now.
GiveUp(s) ==
    /\ pc = "apply" /\ s \in todo
    /\ load[s].cleanup # "none" \/ s \in failed
    /\ \/ /\ load[s].cleanup = "END"
          /\ Remove({s}, table, load)
          /\ UNCHANGED cache
       \/ /\ load[s].cleanup # "END"
          /\ status' = [status EXCEPT ![s] = IF load[s].cleanup = "STOP" THEN "STOPPED" ELSE "WAITING"]
          /\ table' = [table EXCEPT ![s] = Path(@, Depth(s))]
          /\ hist' = [hist EXCEPT ![s] = Depth(s)]
          /\ load' = [load EXCEPT ![s] = NoLoad]
          /\ target' = [target EXCEPT ![s] = 0]
          /\ UNCHANGED <<text, cache, plan, inflight, failed, nextSave>>
    /\ todo' = todo \ {s}
    /\ UNCHANGED <<lease, lookup, pending, stepVars, workVars, got, sleeping, pc, batch>>
    /\ kv' = Forget(kv)

Sooner(jobs) == [r \in Ranks |-> {[j EXCEPT !.after = IF @ > 0 THEN @ - 1 ELSE 0] : j \in jobs[r]}]

\* The tokens of the step are applied: prompts are computed, some sequences
\* have generated enough.  A reservation ends with its prefill.
Outputs(finished) ==
    LET alive == {s \in DOMAIN Head1.rows : status[s] = "RUNNING"} IN
    /\ pc = "apply" /\ todo = {}
    /\ finished \subseteq alive
    /\ hist' = [s \in Seqs |-> IF s \in alive THEN Len(text[s]) ELSE hist[s]]
    /\ status' = [s \in Seqs |-> IF s \in finished THEN "STOPPED" ELSE status[s]]
    /\ target' = [s \in Seqs |-> IF s \in alive THEN 0 ELSE target[s]]
    /\ load' = [s \in Seqs |-> IF s \in alive THEN NoLoad ELSE load[s]]
    /\ queue' = Tail(queue)
    /\ launched' = [r \in Ranks |-> launched[r] - 1] /\ gpu' = gpu - 1
    /\ loading' = Sooner(loading) /\ saving' = Sooner(saving)
    /\ pc' = IF Len(queue) > 1 THEN "prefetch" ELSE "send"
    /\ UNCHANGED <<text, table, cache, lease, conVars, done, setup, got, sleeping, todo, batch>>
    /\ kv' = Forget(kv)

---------------------------------------------------------------------------
(* Sleep: the loop stops, every session ends, the workers finish what they
   accepted, and the cache is given up. *)

RequestSleep ==
    /\ setup.sleeps /\ pc \in Await /\ ~sleeping
    /\ sleeping' = TRUE
    /\ UNCHANGED <<seqVars, coVars, conVars, stepVars, workVars, got, kv, pc, todo, batch>>

\* A prefetch asked for after the request finds nothing.
NoPrefetch ==
    /\ pc = "sent" /\ sleeping
    /\ pc' = "wait"
    /\ UNCHANGED <<seqVars, coVars, conVars, stepVars, workVars, got, kv, sleeping, todo, batch>>

\* The loop drops what it prefetched, and all sessions are ended.
Drain ==
    /\ pc \in {"send", "prefetch"} /\ sleeping
    /\ EndAll({s \in Seqs : status[s] # "none"})
    /\ pc' = "drained"
    /\ UNCHANGED <<sleeping, todo, batch>>

\* Mutant: deferred ends wait for results that will not come.
NoneEnded == {}

\* Requests that ended while a worker could write their blocks.
EndedWhileLoading == {s \in Seqs : IsLoading(s) /\ load[s].cleanup = "END"}

\* The workers have shut their queues down: no transfer is left on any rank.
\* Loads whose request was ended go, and the trie is cleared.
FinishSleep ==
    /\ pc = "drained"
    /\ \A r \in Ranks : loading[r] = {} /\ saving[r] = {} /\ launched[r] = gpu
    /\ Remove(EndedWhileLoading, table, load)
    /\ lease' = <<>>
    /\ cache' = <<>>
    /\ queue' = <<>> /\ launched' = [r \in Ranks |-> 0] /\ gpu' = 0
    /\ done' = [r \in Ranks |-> {}] /\ got' = {}
    /\ kv' = [r \in Ranks |-> [b \in Blocks |-> Blank]]
    /\ pc' = "asleep"
    /\ UNCHANGED <<lookup, pending, loading, saving, setup, sleeping, todo, batch>>

Wake ==
    /\ pc = "asleep"
    /\ sleeping' = FALSE /\ pc' = "send"
    /\ UNCHANGED <<seqVars, coVars, conVars, stepVars, workVars, got, kv, todo, batch>>

---------------------------------------------------------------------------
(* The specification. *)

Init ==
    /\ setup \in Setups
    /\ status = [s \in Seqs |-> "none"] /\ text = [s \in Seqs |-> <<>>]
    /\ table = [s \in Seqs |-> <<>>] /\ hist = [s \in Seqs |-> 0]
    /\ cache = <<>>
    /\ load = [s \in Seqs |-> NoLoad] /\ target = [s \in Seqs |-> 0]
    /\ lease = <<>>
    /\ lookup = [s \in Seqs |-> NoLookup] /\ plan = [s \in Seqs |-> 0]
    /\ pending = {} /\ inflight = {} /\ failed = {}
    /\ nextSave = [s \in Seqs |-> 0]
    /\ queue = <<>> /\ launched = [r \in Ranks |-> 0] /\ gpu = 0
    /\ loading = [r \in Ranks |-> {}] /\ saving = [r \in Ranks |-> {}]
    /\ done = [r \in Ranks |-> {}] /\ got = {}
    /\ kv = [r \in Ranks |-> [b \in Blocks |-> Blank]]
    /\ sleeping = FALSE /\ pc = "send" /\ todo = {} /\ batch = {}

Client ==
    \/ \E s \in Seqs : \/ \E p \in Texts : AddMessage(s, p)
                       \/ StopSession(s) \/ EndSession(s)
    \/ RequestSleep \/ Wake

Workers ==
    \/ \E r \in Ranks : \/ Launch(r)
                        \/ \E job \in loading[r] : \E ok \in BOOLEAN : LoadRun(r, job, ok)
                        \/ \E job \in saving[r] : SaveRun(r, job)
    \/ GpuRun
    \/ \E s \in Seqs : \E n \in 0..Reusable(s) : LookupDone(s, n)

Scheduling == BeginPrefill \/ BeginDecode \/ (\E s \in todo : Admit(s)) \/ EndPass

Engine ==
    \/ Scheduling
    \/ Collect
    \/ \E s \in todo : Publish(s) \/ GiveUp(s)
    \/ \E finished \in SUBSET Seqs : Outputs(finished)
    \/ NoPrefetch \/ Drain \/ FinishSleep

Next == Client \/ Workers \/ Engine
Spec == Init /\ [][Next]_vars
=============================================================================
