------------------------------ MODULE PagedKV ------------------------------
(***************************************************************************)
(* The paged KV cache of lmdeploy's PyTorch engine: the logical block      *)
(* allocator, the block tables of the sequences, the prefix trie, prefill  *)
(* admission, decode growth and preemption, and the in-flight forwards     *)
(* whose KV writes reach the blocks later than the host's decisions        *)
(* (lmdeploy/pytorch/paging and lmdeploy/pytorch/engine).                  *)
(*                                                                         *)
(* The engine runs on one asyncio event loop.  A handler runs alone from   *)
(* one await to the next, so client requests (AddMessage, StopSession,     *)
(* EndSession) are enabled only when pc \in Await.  Between two awaits the *)
(* scheduling pass advances through pc one paging operation at a time:     *)
(*                                                                         *)
(*   send / prefetch -> pick -> match -> gate -> capacity <-> evict        *)
(*        -> alloc -> publish -> extend -> accept -> ... -> sent / wait    *)
(***************************************************************************)
EXTENDS Integers, Sequences, FiniteSets

CONSTANTS
    Blocks,           \* logical KV blocks of the pool
    Seqs,             \* request slots, one sequence per session
    Tokens,           \* vocabulary
    Prompts,          \* prompts a client may send
    BlockSize,        \* tokens per block
    Prealloc,         \* tokens reserved ahead of a decode (prefill_interval)
    MaxLen,           \* BOUND: longest text; the worker stops there
    MaxBatches,       \* scheduler_config.max_batches
    MaxPrefillTokens, \* cache_config.max_prefill_token_num
    PrefixCaching,    \* cache_config.enable_prefix_caching
    NoSeq             \* no sequence

ASSUME ConstantsAssumption ==
    /\ IsFiniteSet(Blocks) /\ IsFiniteSet(Seqs)
    /\ Prompts \subseteq Seq(Tokens) \ {<<>>}
    /\ BlockSize \in Nat \ {0} /\ Prealloc \in Nat \ {0}
    /\ MaxLen \in Nat /\ MaxBatches \in Nat
    /\ MaxPrefillTokens \in Nat
    /\ PrefixCaching \in BOOLEAN
    /\ NoSeq \notin Seqs

\* A longer text would be prefilled in chunks, which this module leaves out.
ASSUME NoChunksAssumption == MaxLen <= MaxPrefillTokens

VARIABLES
    ref, free,        \* LogicalAllocator: reference counts, free list
    table,            \* seq.logical_blocks
    trie, leaves,     \* prefix trie: path -> block; leaf-candidate index
    cursor,           \* seq.prefix_cache.trie_cursor, as a depth in blocks
    ids, hist,        \* seq.history_cache and seq.num_history_ids
    status,           \* seq.status, "none" when the session has ended
    arrival,          \* the live sequences by arrive_time
    running, toEvict, \* InputsMaker.running_seqs and to_evict_seqs
    queue,            \* forwards sent to the executor, not yet collected
    kv,               \* device: the text whose KV each cell of a block holds
    wtext,            \* device: text of a row the model agent carries
    pc, turn          \* control and locals of the scheduling pass

memVars  == <<ref, free, table, trie, leaves, cursor>>
seqVars  == <<ids, hist, status, arrival>>
loopVars == <<running, toEvict, queue>>
devVars  == <<kv, wtext>>
vars     == <<memVars, seqVars, loopVars, devVars, pc, turn>>

Detached == -1        \* a cursor whose trie node has been evicted
Await    == {"send", "sent", "wait"}
NoTurn   == [lane |-> "none", todo |-> {}, batch |-> {}, used |-> 0,
             cand |-> NoSeq, need |-> 0]

---------------------------------------------------------------------------
(* The sequences and their block arithmetic. *)

WithStatus(st) == {s \in Seqs : status[s] = st}
Waiting == WithStatus("WAITING")
Active  == WithStatus("READY") \cup WithStatus("RUNNING")

NumTokens(s) == Len(ids[s]) - hist[s]
Prefix(s, k) == SubSeq(ids[s], 1, k * BlockSize)
Excess(n, m) == IF n > m THEN n - m ELSE 0

\* Mutant: the last block is counted only when it is full.
NumRequiredFloor(s, extra) ==
    Excess((Len(ids[s]) + extra) \div BlockSize, Len(table[s]))

NumRequired(s, extra) ==
    Excess((Len(ids[s]) + extra + BlockSize - 1) \div BlockSize, Len(table[s]))

\* Mutant: waiting sequences keep what they hold.
EvictableStopped == {s \in WithStatus("STOPPED") \ {turn.cand} : table[s] # <<>>}

\* Sequences whose blocks a scheduling pass may take back.
Evictable == {s \in (WithStatus("STOPPED") \cup Waiting) \ {turn.cand} :
                table[s] # <<>>}

---------------------------------------------------------------------------
(* The trie: a node is the text from the root to the end of its block. *)

Children(p) == {q \in DOMAIN trie : /\ Len(q) = Len(p) + BlockSize
                                    /\ SubSeq(q, 1, Len(p)) = p}
Childless(p) == Children(p) = {}
Parent(p)    == SubSeq(p, 1, Len(p) - BlockSize)

\* The nodes that become leaves when leaf p goes.
NewLeaves(p) == {q \in {Parent(p)} \ {<<>>} : Children(q) = {p}}

\* Mutant: a leaf is evicted although sequences still use its block.
EvictionOfUsed == {p \in leaves \cap DOMAIN trie : Childless(p)}

EvictionCandidates == {p \in leaves \cap DOMAIN trie :
                         Childless(p) /\ ref[trie[p]] = 1}

---------------------------------------------------------------------------
(* Dropping every block of a sequence: BlockManager.free with the resets of
   release_paging_resources. *)

Uses(s, b)  == {i \in DOMAIN table[s] : table[s][i] = b}
\* Mutant: every block of the table is freed, shared or not.
FreedAll(s) == {b \in Blocks : Uses(s, b) # {}}

FreedBy(s)  == {b \in Blocks : Uses(s, b) # {} /\ ref[b] = Cardinality(Uses(s, b))}

\* Mutant: the cursor survives the table it describes.
ReleaseKeepingCursor(s) ==
    /\ ref' = [b \in Blocks |-> ref[b] - Cardinality(Uses(s, b))]
    /\ free' = free \cup FreedBy(s)
    /\ table' = [table EXCEPT ![s] = <<>>]
    /\ hist' = [hist EXCEPT ![s] = 0]
    /\ UNCHANGED <<cursor, trie, leaves>>

ReleasePaging(s) ==
    /\ ref' = [b \in Blocks |-> ref[b] - Cardinality(Uses(s, b))]
    /\ free' = free \cup FreedBy(s)
    /\ table' = [table EXCEPT ![s] = <<>>]
    /\ cursor' = [cursor EXCEPT ![s] = 0]
    /\ hist' = [hist EXCEPT ![s] = 0]
    /\ UNCHANGED <<trie, leaves>>

---------------------------------------------------------------------------
(* The device.  Forwards execute in dispatch order.  A forward first writes
   the KV of its own tokens into the cells its block table names, then
   attends over the whole text.  A cell that two rows of one forward fill
   differently is left blank: its contents cannot be relied on. *)

Blank == [o \in 0..(BlockSize - 1) |-> <<>>]

RowText(f, s)  == IF f.kind = "prefill" THEN f.rows[s].text ELSE wtext[s]
RowFirst(f, s) == IF f.kind = "prefill" THEN f.rows[s].first
                                        ELSE Len(wtext[s]) - 1
BlockOf(tbl, p) == tbl[p \div BlockSize + 1]
Holds(tbl, p)   == p \div BlockSize < Len(tbl)

\* The positions of its text that row s writes into cell o of block b.
Fills(f, s, b, o) ==
    {p \in 0..(Len(RowText(f, s)) - 1) :
        /\ p >= RowFirst(f, s) /\ p % BlockSize = o
        /\ Holds(f.rows[s].tbl, p) /\ BlockOf(f.rows[s].tbl, p) = b}

Written(f, b, o) ==
    UNION {{SubSeq(RowText(f, s), 1, p + 1) : p \in Fills(f, s, b, o)} : s \in DOMAIN f.rows}

KvAfter(f) ==
    [b \in Blocks |-> [o \in 0..(BlockSize - 1) |->
        LET W == Written(f, b, o) IN
        CASE W = {} -> kv[b][o]
          [] Cardinality(W) = 1 -> CHOOSE t \in W : TRUE
          [] OTHER -> <<>>]]

\* Row s of forward f is computed from exactly its own text: every token up
\* to the last has its KV in the cell the block table names for it.
RowRight(f, s) ==
    LET text == RowText(f, s)
        tbl  == f.rows[s].tbl
        after == KvAfter(f)
    IN \A p \in 0..(Len(text) - 1) :
         /\ Holds(tbl, p)
         /\ after[BlockOf(tbl, p)][p % BlockSize] = SubSeq(text, 1, p + 1)

\* Blocks that are free and that no later forward names may hold anything.
Named(f, b)   == \E s \in DOMAIN f.rows : b \in {f.rows[s].tbl[i] : i \in DOMAIN f.rows[s].tbl}
Forgotten(q)  == {b \in free : \A i \in DOMAIN q : ~Named(q[i], b)}

---------------------------------------------------------------------------
(* Client requests, handled between two awaits of the engine loop. *)

\* The object a list still names is not the sequence of a later session.
Referenced(s) == \/ s \in running \cup toEvict
                 \/ \E i \in DOMAIN queue : s \in DOMAIN queue[i].rows

AddMessage(s, prompt) ==
    /\ pc \in Await
    /\ status[s] = "none" /\ ~Referenced(s)
    /\ ids' = [ids EXCEPT ![s] = prompt]
    /\ status' = [status EXCEPT ![s] = "WAITING"]
    /\ arrival' = Append(arrival, s)
    /\ UNCHANGED <<memVars, hist, loopVars, devVars, pc, turn>>

StopSession(s) ==
    /\ pc \in Await
    /\ status[s] \notin {"none", "STOPPED"}
    /\ status' = [status EXCEPT ![s] = "STOPPED"]
    /\ UNCHANGED <<memVars, ids, hist, arrival, loopVars, devVars, pc, turn>>

EndSession(s) ==
    /\ pc \in Await
    /\ status[s] # "none"
    /\ ReleasePaging(s)
    /\ status' = [status EXCEPT ![s] = "none"]
    /\ ids' = [ids EXCEPT ![s] = <<>>]
    /\ arrival' = SelectSeq(arrival, LAMBDA t : t # s)
    /\ UNCHANGED <<loopVars, devVars, pc, turn>>

---------------------------------------------------------------------------
(* Where a pass starts and where it ends. *)

\* With nothing in flight the pass was a send, otherwise a prefetch.
NothingSent == IF queue = <<>> THEN "send" ELSE "wait"

\* Mutant: a prefetched forward is activated in front of the one in flight.
SentAlways  == "sent"

Sent        == IF queue = <<>> THEN "sent" ELSE "wait"

BeginPrefill ==
    /\ pc \in {"send", "prefetch"}
    /\ Waiting # {}
    /\ Cardinality(Active) < MaxBatches
    /\ pc' = "pick"
    /\ turn' = [NoTurn EXCEPT !.lane = "prefill", !.todo = Waiting]
    /\ UNCHANGED <<memVars, seqVars, loopVars, devVars>>

\* A prefetch always finds the list non-empty: the forward in flight runs.
BeginDecode ==
    /\ pc \in {"send", "prefetch"}
    /\ running # {}
    /\ pc' = "decode"
    /\ turn' = [NoTurn EXCEPT !.lane = "decode", !.todo = running]
    /\ UNCHANGED <<memVars, seqVars, loopVars, devVars>>

---------------------------------------------------------------------------
(* Prefill admission of one waiting sequence, the candidate. *)

\* The candidate does not fit the batch's token budget next to the others.
OverBudget(s) == /\ turn.batch # {}
                 /\ turn.used + NumTokens(s) > MaxPrefillTokens

Before(s, t) == \E i, j \in DOMAIN arrival : i < j /\ arrival[i] = s /\ arrival[j] = t

PickCandidate(s) ==
    /\ pc = "pick"
    /\ s \in turn.todo /\ \A t \in turn.todo \ {s} : Before(s, t)
    /\ Cardinality(Active) < MaxBatches
    /\ turn' = [turn EXCEPT !.todo = @ \ {s}, !.cand = s]
    /\ pc' = "match"
    /\ UNCHANGED <<memVars, seqVars, loopVars, devVars>>

EndPick ==
    /\ pc = "pick"
    /\ \/ turn.todo = {}
       \/ Cardinality(Active) >= MaxBatches
    /\ pc' = "build"
    /\ UNCHANGED <<memVars, seqVars, loopVars, devVars, turn>>

\* The next block of the candidate's text is cached below its cursor.
NextPath(s) == Prefix(s, cursor[s] + 1)
CanMatch(s) == /\ PrefixCaching
               /\ cursor[s] # Detached
               /\ (cursor[s] + 1) * BlockSize < Len(ids[s])
               /\ NextPath(s) \in DOMAIN trie

MatchBlock ==
    LET s == turn.cand
        b == trie[NextPath(s)]
    IN /\ pc = "match"
       /\ CanMatch(s)
       /\ ref' = [ref EXCEPT ![b] = @ + 1]
       /\ table' = [table EXCEPT ![s] = Append(@, b)]
       /\ cursor' = [cursor EXCEPT ![s] = @ + 1]
       /\ hist' = [hist EXCEPT ![s] = (cursor[s] + 1) * BlockSize]
       /\ UNCHANGED <<free, trie, leaves, ids, status, arrival, loopVars, devVars, pc, turn>>

EndMatch ==
    /\ pc = "match"
    /\ ~CanMatch(turn.cand)
    /\ pc' = "gate"
    /\ UNCHANGED <<memVars, seqVars, loopVars, devVars, turn>>

\* A rejected candidate loses its tentative match, and with it every block it
\* kept from before.  It ends the batch: no later arrival overtakes it.
Rollback(s) == IF PrefixCaching
                 THEN ReleasePaging(s)
                 ELSE UNCHANGED <<memVars, hist>>

GateRejects ==
    /\ pc = "gate"
    /\ OverBudget(turn.cand)
    /\ Rollback(turn.cand)
    /\ pc' = "build"
    /\ turn' = [turn EXCEPT !.cand = NoSeq]
    /\ UNCHANGED <<ids, status, arrival, loopVars, devVars>>

GateAdmits ==
    /\ pc = "gate"
    /\ ~OverBudget(turn.cand)
    /\ turn' = [turn EXCEPT !.need = NumRequired(turn.cand, Prealloc)]
    /\ pc' = "capacity"
    /\ UNCHANGED <<memVars, seqVars, loopVars, devVars>>

---------------------------------------------------------------------------
(* Making room: RecomputeEvictionHelper.try_make_capacity_for. *)

Enough == Cardinality(free) >= turn.need

CapacityFound ==
    /\ pc = "capacity"
    /\ Enough
    /\ pc' = "alloc"
    /\ UNCHANGED <<memVars, seqVars, loopVars, devVars, turn>>

\* Take back every block of one stopped or waiting sequence.
Reclaim(v) ==
    /\ pc = "capacity"
    /\ ~Enough
    /\ v \in Evictable
    /\ ReleasePaging(v)
    /\ pc' = "evict"
    /\ UNCHANGED <<ids, status, arrival, loopVars, devVars, turn>>

NothingToReclaim ==
    /\ pc = "capacity"
    /\ ~Enough
    /\ Evictable = {}
    /\ pc' = "evict"
    /\ UNCHANGED <<memVars, seqVars, loopVars, devVars, turn>>

\* Evict one leaf only the trie refers to; its parent may become a leaf.
EvictLeaf(p) ==
    LET b == trie[p]
        rest == {q \in leaves \cap DOMAIN trie : Childless(q)} \ {p}
    IN /\ pc = "evict"
       /\ ~Enough
       /\ p \in EvictionCandidates
       /\ ref' = [ref EXCEPT ![b] = @ - 1]
       /\ free' = free \cup {b}
       /\ trie' = [q \in DOMAIN trie \ {p} |-> trie[q]]
       /\ leaves' = rest \cup NewLeaves(p)
       /\ cursor' = [s \in Seqs |->
                       IF cursor[s] # Detached /\ Prefix(s, cursor[s]) = p
                         THEN Detached ELSE cursor[s]]
       /\ UNCHANGED <<table, seqVars, loopVars, devVars, pc, turn>>

EvictEnough ==
    /\ pc = "evict"
    /\ Enough
    /\ pc' = "alloc"
    /\ UNCHANGED <<memVars, seqVars, loopVars, devVars, turn>>

EvictNextVictim ==
    /\ pc = "evict"
    /\ ~Enough /\ EvictionCandidates = {} /\ Evictable # {}
    /\ pc' = "capacity"
    /\ UNCHANGED <<memVars, seqVars, loopVars, devVars, turn>>

\* No room for a prefill: undo the match and end the batch.
NoRoomPrefill ==
    /\ pc = "evict" /\ turn.lane = "prefill"
    /\ ~Enough /\ EvictionCandidates = {} /\ Evictable = {}
    /\ Rollback(turn.cand)
    /\ pc' = "build"
    /\ turn' = [turn EXCEPT !.cand = NoSeq]
    /\ UNCHANGED <<ids, status, arrival, loopVars, devVars>>

\* No room for a decode: preempt the sequence, which keeps its blocks.
NoRoomDecode ==
    /\ pc = "evict" /\ turn.lane = "decode"
    /\ ~Enough /\ EvictionCandidates = {} /\ Evictable = {}
    /\ status' = [status EXCEPT ![turn.cand] = "WAITING"]
    /\ pc' = "decode"
    /\ turn' = [turn EXCEPT !.cand = NoSeq]
    /\ UNCHANGED <<memVars, ids, hist, arrival, loopVars, devVars>>

---------------------------------------------------------------------------
(* Allocation, and publication of the sequence's full blocks in the trie. *)

AllocateBlock(b) ==
    LET s == turn.cand IN
    /\ pc = "alloc"
    /\ turn.need > 0
    /\ b \in free
    /\ free' = free \ {b}
    /\ ref' = [ref EXCEPT ![b] = 1]
    /\ table' = [table EXCEPT ![s] = Append(@, b)]
    /\ turn' = [turn EXCEPT !.need = @ - 1]
    /\ UNCHANGED <<trie, leaves, cursor, seqVars, loopVars, devVars, pc>>

Depth(s)       == IF cursor[s] = Detached THEN 0 ELSE cursor[s]
FullBlocks(s)  == Len(ids[s]) \div BlockSize
ToPublish(s)   == PrefixCaching /\ Depth(s) < FullBlocks(s)

\* A leaf about to gain a child leaves the candidate index.
BeginPublish ==
    LET s == turn.cand
        node == Prefix(s, Depth(s))
    IN /\ pc = "alloc"
       /\ turn.need = 0
       /\ cursor' = [cursor EXCEPT ![s] = Depth(s)]
       /\ IF ToPublish(s)
            THEN /\ leaves' = IF node # <<>> /\ Childless(node)
                                THEN leaves \ {node} ELSE leaves
                 /\ pc' = "publish"
            ELSE /\ pc' = "accept"
                 /\ UNCHANGED leaves
       /\ UNCHANGED <<ref, free, table, trie, seqVars, loopVars, devVars, turn>>

\* The block becomes the trie's as well.
PublishNew ==
    LET s == turn.cand
        k == cursor[s] + 1
        b == table[s][k]
    IN /\ pc = "publish"
       /\ ToPublish(s)
       /\ Prefix(s, k) \notin DOMAIN trie
       /\ trie' = [q \in DOMAIN trie \cup {Prefix(s, k)} |->
                     IF q = Prefix(s, k) THEN b ELSE trie[q]]
       /\ ref' = [ref EXCEPT ![b] = @ + 1]
       /\ cursor' = [cursor EXCEPT ![s] = k]
       /\ UNCHANGED <<free, table, leaves, seqVars, loopVars, devVars, pc, turn>>

\* The text is cached already: the sequence takes the cached block and gives
\* its own one back.
PublishShared ==
    LET s == turn.cand
        k == cursor[s] + 1
        own == table[s][k]
        shared == trie[Prefix(s, k)]
    IN /\ pc = "publish"
       /\ ToPublish(s)
       /\ Prefix(s, k) \in DOMAIN trie
       /\ cursor' = [cursor EXCEPT ![s] = k]
       /\ IF own = shared
            THEN UNCHANGED <<ref, free, table>>
            ELSE /\ ref' = [ref EXCEPT ![own] = @ - 1, ![shared] = @ + 1]
                 /\ table' = [table EXCEPT ![s] = [@ EXCEPT ![k] = shared]]
                 /\ free' = IF ref[own] = 1 THEN free \cup {own} ELSE free
       /\ UNCHANGED <<trie, leaves, seqVars, loopVars, devVars, pc, turn>>

EndPublish ==
    LET node == Prefix(turn.cand, cursor[turn.cand]) IN
    /\ pc = "publish"
    /\ ~ToPublish(turn.cand)
    /\ leaves' = IF Childless(node) THEN leaves \cup {node} ELSE leaves
    /\ pc' = "accept"
    /\ UNCHANGED <<ref, free, table, trie, cursor, seqVars, loopVars, devVars, turn>>

AcceptPrefill ==
    LET s == turn.cand IN
    /\ pc = "accept" /\ turn.lane = "prefill"
    /\ status' = [status EXCEPT ![s] = "READY"]
    /\ turn' = [turn EXCEPT !.batch = @ \cup {s}, !.used = @ + NumTokens(s),
                            !.cand = NoSeq]
    /\ pc' = "pick"
    /\ UNCHANGED <<memVars, ids, hist, arrival, loopVars, devVars>>

AcceptDecode ==
    /\ pc = "accept" /\ turn.lane = "decode"
    /\ turn' = [turn EXCEPT !.batch = @ \cup {turn.cand}, !.cand = NoSeq]
    /\ pc' = "decode"
    /\ UNCHANGED <<memVars, seqVars, loopVars, devVars>>

---------------------------------------------------------------------------
(* Building the forward of the pass and sending it to the executor. *)

Forward(kind, batch) ==
    [kind |-> kind,
     rows |-> [s \in batch |-> [tbl   |-> table[s],
                                first |-> IF kind = "prefill" THEN hist[s] ELSE 0,
                                text  |-> IF kind = "prefill" THEN ids[s] ELSE <<>>]]]

\* The build of a prefill also prunes the local list of running sequences.
BuildPrefill ==
    /\ pc = "build"
    /\ turn.batch # {}
    /\ queue' = Append(queue, Forward("prefill", turn.batch))
    /\ running' = running \cap WithStatus("RUNNING")
    /\ pc' = Sent
    /\ turn' = NoTurn
    /\ UNCHANGED <<memVars, seqVars, toEvict, devVars>>

\* Nothing admitted: the pass falls through to the decode lane.
FallBackToDecode ==
    /\ pc = "build"
    /\ turn.batch = {}
    /\ IF running # {}
         THEN /\ pc' = "decode"
              /\ turn' = [NoTurn EXCEPT !.lane = "decode", !.todo = running]
         ELSE /\ pc' = NothingSent
              /\ turn' = NoTurn
    /\ UNCHANGED <<memVars, seqVars, loopVars, devVars>>

\* Scheduler.schedule_running visits the running list: a sequence that stopped
\* is dropped, one whose next token has a slot stays as it is, and one that
\* needs a block goes through capacity, allocation and publication.
DecodeDrop(s) ==
    /\ pc = "decode"
    /\ s \in turn.todo
    /\ status[s] # "RUNNING"
    /\ turn' = [turn EXCEPT !.todo = @ \ {s}]
    /\ UNCHANGED <<memVars, seqVars, loopVars, devVars, pc>>

DecodeKeep(s) ==
    /\ pc = "decode"
    /\ s \in turn.todo
    /\ status[s] = "RUNNING" /\ NumRequired(s, 1) = 0
    /\ turn' = [turn EXCEPT !.todo = @ \ {s}, !.batch = @ \cup {s}]
    /\ UNCHANGED <<memVars, seqVars, loopVars, devVars, pc>>

DecodeGrow(s) ==
    /\ pc = "decode"
    /\ s \in turn.todo
    /\ status[s] = "RUNNING" /\ NumRequired(s, 1) > 0
    /\ turn' = [turn EXCEPT !.todo = @ \ {s}, !.cand = s,
                            !.need = NumRequired(s, Prealloc)]
    /\ pc' = "capacity"
    /\ UNCHANGED <<memVars, seqVars, loopVars, devVars>>

BuildDecode ==
    /\ pc = "decode"
    /\ turn.todo = {}
    /\ toEvict' = running \ turn.batch
    /\ IF turn.batch # {}
         THEN /\ queue' = Append(queue, Forward("decode", turn.batch))
              /\ pc' = Sent
         ELSE /\ pc' = NothingSent
              /\ UNCHANGED queue
    /\ turn' = NoTurn
    /\ UNCHANGED <<memVars, seqVars, running, devVars>>

---------------------------------------------------------------------------
(* The engine loop: activate the forward at the head of the queue, prefetch
   the next one, then collect the head's output and apply it. *)

Head1 == queue[1]
Rows1 == DOMAIN Head1.rows

\* Mutant: a prefill replaces the running list instead of joining it.
OnlyTheseRun == Rows1

NowRunning == IF Head1.kind = "decode" THEN Rows1 ELSE running \cup Rows1

Activate ==
    /\ pc \in {"sent", "next"}
    /\ status' = [s \in Seqs |-> IF s \in Rows1 /\ status[s] = "READY"
                                 THEN "RUNNING" ELSE status[s]]
    /\ running' = NowRunning
    /\ pc' = "prefetch"
    /\ UNCHANGED <<memVars, ids, hist, arrival, toEvict, queue, devVars, turn>>

\* The worker samples one token per row and says which rows stop there.
Sampled == [Rows1 -> Tokens]
MustStop == {s \in Rows1 : Len(RowText(Head1, s)) + 1 >= MaxLen}

\* Mutant: a stop that came after the dispatch is not noticed.
AppliedStopped == Rows1 \cap (WithStatus("RUNNING") \cup WithStatus("STOPPED"))

\* Only a row whose sequence still runs takes its token.
Applied == Rows1 \cap WithStatus("RUNNING")

\* Rows of the model agent that a later forward will extend.
Carried(st) == {s \in Seqs : \/ s \in running /\ st[s] = "RUNNING"
                             \/ /\ Len(queue) = 2
                                /\ queue[2].kind = "decode"
                                /\ s \in DOMAIN queue[2].rows}

\* preempt_invalid_decode_seqs, after the outputs.
Preempted(st) == [s \in Seqs |->
    IF s \in toEvict /\ st[s] \in {"RUNNING", "READY", "WAITING"}
      THEN "WAITING" ELSE st[s]]

CollectOutput(tok, stop) ==
    LET finished == [s \in Seqs |-> IF s \in Applied /\ s \in stop
                                      THEN "STOPPED" ELSE status[s]]
    IN /\ pc = "wait"
       /\ MustStop \subseteq stop
       /\ kv' = [b \in Blocks |-> IF b \in Forgotten(Tail(queue))
                                   THEN Blank ELSE KvAfter(Head1)[b]]
       /\ wtext' = [s \in Seqs |->
                      CASE s \notin Carried(finished) -> <<>>
                        [] s \in Rows1 -> Append(RowText(Head1, s), tok[s])
                        [] OTHER -> wtext[s]]
       /\ hist' = [s \in Seqs |-> IF s \in Applied THEN Len(ids[s]) ELSE hist[s]]
       /\ ids' = [s \in Seqs |-> IF s \in Applied THEN Append(ids[s], tok[s]) ELSE ids[s]]
       /\ status' = Preempted(finished)
       /\ toEvict' = {}
       /\ queue' = Tail(queue)
       /\ pc' = IF Len(queue) = 1 THEN "send" ELSE "next"
       /\ UNCHANGED <<memVars, arrival, running, turn>>

---------------------------------------------------------------------------
Init ==
    /\ ref = [b \in Blocks |-> 0] /\ free = Blocks
    /\ table = [s \in Seqs |-> <<>>]
    /\ trie = <<>> /\ leaves = {}
    /\ cursor = [s \in Seqs |-> 0]
    /\ ids = [s \in Seqs |-> <<>>] /\ hist = [s \in Seqs |-> 0]
    /\ status = [s \in Seqs |-> "none"] /\ arrival = <<>>
    /\ running = {} /\ toEvict = {} /\ queue = <<>>
    /\ kv = [b \in Blocks |-> Blank]
    /\ wtext = [s \in Seqs |-> <<>>]
    /\ pc = "send" /\ turn = NoTurn

Client == \E s \in Seqs : \/ \E prompt \in Prompts : AddMessage(s, prompt)
                          \/ StopSession(s)
                          \/ EndSession(s)

Prefill ==
    \/ BeginPrefill \/ EndPick \/ MatchBlock \/ EndMatch
    \/ GateRejects \/ GateAdmits \/ NoRoomPrefill
    \/ AcceptPrefill \/ BuildPrefill \/ FallBackToDecode
    \/ \E s \in Seqs : PickCandidate(s)

Capacity ==
    \/ CapacityFound \/ NothingToReclaim \/ EvictEnough \/ EvictNextVictim
    \/ \E v \in Seqs : Reclaim(v)
    \/ \E p \in leaves : EvictLeaf(p)

Publish ==
    \/ BeginPublish \/ PublishNew \/ PublishShared \/ EndPublish
    \/ \E b \in Blocks : AllocateBlock(b)

Decode ==
    \/ BeginDecode \/ NoRoomDecode \/ AcceptDecode \/ BuildDecode
    \/ \E s \in Seqs : DecodeDrop(s) \/ DecodeKeep(s) \/ DecodeGrow(s)

Loop ==
    \/ Activate
    \/ pc = "wait" /\ \E tok \in Sampled, stop \in SUBSET Rows1 : CollectOutput(tok, stop)

Engine == Prefill \/ Capacity \/ Publish \/ Decode \/ Loop

Next == Client \/ Engine

Spec == Init /\ [][Next]_vars

\* The loop never blocks for good on its own work, and it cannot decode past
\* waiting requests forever: do_prefill_default forces a prefill attempt after
\* prefill_interval decode turns.
Fairness == WF_vars(Engine) /\ SF_vars(BeginPrefill)

LiveSpec == Spec /\ Fairness
=============================================================================
