---------------------------- MODULE PagedKVProps ----------------------------
(***************************************************************************)
(* What the paged KV cache promises.                                       *)
(***************************************************************************)
EXTENDS PagedKV

Statuses == {"none", "WAITING", "READY", "RUNNING", "STOPPED"}
Lanes    == {"none", "prefill", "decode"}
Row      == [tbl : Seq(Blocks), first : Nat, text : Seq(Tokens)]
IsForward(f) == /\ f.kind \in {"prefill", "decode"}
                /\ DOMAIN f.rows \subseteq Seqs /\ f.rows \in [DOMAIN f.rows -> Row]
Turns    == [lane : Lanes, todo : SUBSET Seqs, batch : SUBSET Seqs, used : Int,
             cand : Seqs \cup {NoSeq}, need : Nat]

\* Every variable but ref, arrival, queue and kv has its shape.
Shapes ==
    /\ free \subseteq Blocks
    /\ table \in [Seqs -> Seq(Blocks)]
    /\ trie \in [DOMAIN trie -> Blocks] /\ DOMAIN trie \subseteq Seq(Tokens)
    /\ cursor \in [Seqs -> Nat \cup {Detached}]
    /\ ids \in [Seqs -> Seq(Tokens)] /\ hist \in [Seqs -> Nat]
    /\ status \in [Seqs -> Statuses]
    /\ running \subseteq Seqs /\ toEvict \subseteq Seqs
    /\ wtext \in [Seqs -> Seq(Tokens)]
    /\ turn \in Turns

\* The type invariant: the counters never go below zero, and one forward is
\* prefetched at most (EngineLoop keeps two in flight).
TypeOK ==
    /\ Shapes
    /\ ref \in [Blocks -> Nat]
    /\ Len(queue) <= 2 /\ \A i \in DOMAIN queue : IsForward(queue[i])

\* The owners of a block: the table slots and the trie nodes that name it.
SlotsOf(s, b) == {<<s, i>> : i \in Uses(s, b)}
Slots(b) == UNION {SlotsOf(s, b) : s \in Seqs}
Nodes(b) == {p \in DOMAIN trie : trie[p] = b}

\* A block's reference count is the number of its owners, and the free list
\* is exactly the blocks nobody owns: no leak, no double free, no block
\* handed out while somebody still uses it (LogicalAllocator.free and
\* add_ref_count, called from match, publication, eviction and release).
RefCountExact ==
    \A b \in Blocks : /\ ref[b] = Cardinality(Slots(b)) + Cardinality(Nodes(b))
                      /\ b \in free <=> ref[b] = 0

\* A sequence's cursor stands on a live node, and its table names, block by
\* block, the trie's blocks down to that node (BlockTrie.match and allocate).
CursorHeld ==
    \A s \in Seqs : /\ cursor[s] \in 0..Len(table[s])
                    /\ \A k \in 1..cursor[s] :
                         /\ Prefix(s, k) \in DOMAIN trie
                         /\ trie[Prefix(s, k)] = table[s][k]

\* Every cached node that nothing hangs from can be found by eviction, outside
\* the publication that is about to enter it (KVLifecycle's leaf index).
LeavesIndexed ==
    pc # "publish" => \A p \in DOMAIN trie : Childless(p) => p \in leaves

\* The trie, the tables that follow it and the index of its leaves stay one
\* structure through matches, rollbacks, evictions and publications.
TrieSound == CursorHeld /\ LeavesIndexed

\* A match extends a table only at its end: a candidate about to take a cached
\* block holds none beyond its cursor, or the block would stand for the wrong
\* text (_PrefillAdmissionAttempt._has_private_local_tail).  A preempted
\* sequence can break it: blocks it filled are published only when it next
\* needs a block, and its cursor lags behind them when it finds no room.
MatchAligned ==
    pc = "match" /\ CanMatch(turn.cand) => Len(table[turn.cand]) = cursor[turn.cand]

\* A row's slot for every token it writes was reserved when it was scheduled,
\* although the host's length lags the device by the forward in flight
\* (schedule_running reserves for num_required_tokens).
WritesFit ==
    pc = "wait" => \A s \in Rows1 : Len(RowText(Head1, s)) <= BlockSize * Len(Head1.rows[s].tbl)

\* The device computes the text the host has of every row it will take a token
\* from, although the host counts the token of the forward in flight only when
\* it is collected (EngineLoop._finish_forward_output).
ComputedTextRight ==
    pc = "wait" => \A s \in Applied : RowText(Head1, s) = ids[s]

\* A token is delivered only if it was computed from the KV of exactly the
\* sequence's own text, whatever was shared, evicted, preempted or reused
\* between dispatch and output (EngineLoop._finish_forward_output).
DeliveredTokensRight ==
    ComputedTextRight /\ (pc = "wait" => \A s \in Applied : RowRight(Head1, s))

\* With no forward in flight, every block the trie keeps holds the KV of its
\* node's text, also when the sequence that published it before computing it
\* was stopped, preempted or ended meanwhile (BlockTrie.allocate).
CacheContentsRight ==
    queue = <<>> /\ pc = "send" =>
        \A p \in DOMAIN trie : \A o \in 0..(BlockSize - 1) :
            kv[trie[p]][o] = SubSeq(p, 1, Len(p) - BlockSize + o + 1)

\* The loop sleeps on the runnable event when Scheduler.has_unfinished is
\* false, which does not count RUNNING sequences: none may then be left.
NobodyAsleep ==
    pc = "send" /\ Waiting = {} /\ WithStatus("READY") = {} => WithStatus("RUNNING") = {}

---------------------------------------------------------------------------
(* The parts of the inductive invariant behind the proofs. *)

Candidate == {"match", "gate", "capacity", "evict", "alloc", "publish", "accept"}

\* The forwards in flight where the loop stands.
QueueShape ==
    /\ pc \notin {"sent", "next", "prefetch", "wait"} => Len(queue) <= 1
    /\ pc = "send" => queue = <<>>
    /\ pc \in {"sent", "next", "prefetch"} => Len(queue) = 1
    /\ pc = "wait" => 1 <= Len(queue) /\ Len(queue) <= 2

\* No client request comes between the choice of a candidate and its fate.
Control ==
    /\ pc = "decode" => turn.lane = "decode"
    /\ pc = "pick" => turn.lane = "prefill"
    /\ pc \in {"match", "gate"} => turn.lane = "prefill"
    /\ pc \in Candidate => /\ turn.cand \in Seqs /\ turn.cand \notin turn.todo
                           /\ turn.lane \in {"prefill", "decode"}
                           /\ turn.lane = "prefill" => status[turn.cand] = "WAITING"
                           /\ turn.lane = "decode" => status[turn.cand] = "RUNNING"
    /\ pc \in Candidate \cup {"pick"} /\ turn.lane = "prefill" => turn.todo \subseteq Waiting

\* The candidate's full blocks are in its table, or about to be allocated.
Room ==
    /\ pc \in {"capacity", "evict", "alloc"} =>
         FullBlocks(turn.cand) <= Len(table[turn.cand]) + turn.need
    /\ pc = "publish" => /\ cursor[turn.cand] \in Nat
                         /\ FullBlocks(turn.cand) <= Len(table[turn.cand])

\* A cursor stands within the text, an idle one at the root, and the root is
\* not a node.
Rooted ==
    /\ <<>> \notin DOMAIN trie
    /\ \A s \in Seqs : /\ cursor[s] * BlockSize <= Len(ids[s])
                       /\ status[s] = "none" => cursor[s] = 0

\* LeavesIndexed in every control state: only the node a publication stands
\* on may be missing from the index.
Indexed ==
    \A p \in DOMAIN trie : Childless(p) =>
        \/ p \in leaves
        \/ pc = "publish" /\ p = Prefix(turn.cand, cursor[turn.cand])

\* The forward sent last, while its rows have not been activated.
Unstarted == IF pc \in {"sent", "next"} \/ Len(queue) = 2 THEN {queue[Len(queue)]} ELSE {}

\* Within a pass.
Passing == {"pick", "build", "decode"} \cup Candidate

\* Nobody runs but those listed, and a forward in flight or being built steps
\* each of them: a prefetched decode has them all, else the loop is in a pass.
Stepped ==
    LET Running == WithStatus("RUNNING") IN
    /\ Running \subseteq running
    /\ \/ queue = <<>>
       \/ pc = "sent"
       \/ pc = "wait" /\ Len(queue) = 1
       => Running = {}
    /\ \A f \in Unstarted : IF f.kind = "decode" THEN Running \subseteq DOMAIN f.rows
                                                 ELSE Running \cap DOMAIN f.rows = {}
    /\ pc = "decode" => Running \subseteq turn.todo \cup turn.batch
    /\ pc \in Candidate /\ turn.lane = "decode" =>
         Running \subseteq turn.todo \cup turn.batch \cup {turn.cand}

\* A sequence is READY from its admission to the activation of its prefill,
\* which has its whole text.
ReadySent ==
    \A s \in WithStatus("READY") :
        \/ pc \in Passing /\ s \in turn.batch
        \/ \E f \in Unstarted : /\ f.kind = "prefill" /\ s \in DOMAIN f.rows
                                /\ f.rows[s].text = ids[s]

\* The text the next forward to run computes for a row, or a later one extends.
DeviceText(s) == IF queue # <<>> /\ s \in Rows1 THEN RowText(Head1, s) ELSE wtext[s]

\* The device works on the text the host has.
TextInStep == \A s \in WithStatus("RUNNING") : DeviceText(s) = ids[s]

\* What a pass has scheduled has the blocks its forward writes to.
BatchReserved ==
    \A s \in turn.batch :
        IF turn.lane = "decode"
          THEN status[s] = "RUNNING" /\ Len(ids[s]) + 1 <= BlockSize * Len(table[s])
          ELSE status[s] = "READY" /\ Len(ids[s]) <= BlockSize * Len(table[s])

\* So has its candidate, once the blocks it needs have been allocated.
CandidateReserved ==
    /\ pc \in {"capacity", "evict", "alloc"} =>
         Len(ids[turn.cand]) + Prealloc <= BlockSize * (Len(table[turn.cand]) + turn.need)
    /\ pc \in {"publish", "accept"} =>
         Len(ids[turn.cand]) + Prealloc <= BlockSize * Len(table[turn.cand])

Reserved ==
    /\ pc = "build" => turn.lane = "prefill"
    /\ pc \in Passing => BatchReserved
    /\ pc = "decode" \/ (pc \in Candidate /\ turn.lane = "decode") => turn.todo \cap turn.batch = {}
    /\ pc \in Candidate => turn.cand \notin turn.batch
    /\ CandidateReserved

\* The rows in flight fit, the second forward's after the first has added a token.
RowsFit ==
    /\ \A i \in DOMAIN queue : queue[i].kind = "prefill" => \A s \in DOMAIN queue[i].rows :
         Len(queue[i].rows[s].text) <= BlockSize * Len(queue[i].rows[s].tbl)
    /\ queue # <<>> /\ Head1.kind = "decode" => \A s \in Rows1 :
         Len(wtext[s]) <= BlockSize * Len(Head1.rows[s].tbl)
    /\ Len(queue) = 2 /\ queue[2].kind = "decode" => \A s \in DOMAIN queue[2].rows :
         IF s \in Rows1 THEN Len(DeviceText(s)) + 1 <= BlockSize * Len(queue[2].rows[s].tbl)
                        ELSE Len(DeviceText(s)) <= BlockSize * Len(queue[2].rows[s].tbl)

---------------------------------------------------------------------------
(* The parts about what the blocks hold, and who shares them. *)

Live == WithStatus("WAITING") \cup Active

Agree(x, y, n) == n <= Len(x) /\ n <= Len(y) /\ SubSeq(x, 1, n) = SubSeq(y, 1, n)

\* The KV once the forward that is executing is done.
Settled == IF queue = <<>> THEN kv ELSE KvAfter(Head1)

\* Nobody else has the block of slot k of s.
Alone(s, k) ==
    /\ \A t \in Seqs : \A j \in DOMAIN table[t] : table[t][j] = table[s][k] => t = s /\ j = k
    /\ \A p \in DOMAIN trie : trie[p] # table[s][k]

\* Two tables, or a table and the trie, share a block only for the text down
\* to a node: behind its cursor a sequence owns its blocks alone.
Sharing ==
    /\ \A p \in DOMAIN trie : \E k \in 1..Len(p) : Len(p) = k * BlockSize
    /\ \A p, q \in DOMAIN trie : trie[p] = trie[q] => p = q
    /\ \A s \in Seqs : \A k \in (cursor[s] + 1)..Len(table[s]) : Alone(s, k)

\* How much of a sequence's text the blocks of its table hold when the forward
\* that is executing is done.
Stepping(s) == status[s] = "RUNNING" /\ queue # <<>> /\ s \in Rows1
Computed(s) == IF Stepping(s) THEN Len(ids[s]) ELSE hist[s]

Lengths ==
    \A s \in Seqs :
        /\ hist[s] <= Len(ids[s]) /\ Computed(s) <= BlockSize * Len(table[s])
        /\ status[s] = "none" => table[s] = <<>> /\ hist[s] = 0
        /\ status[s] = "RUNNING" /\ ~Stepping(s) => hist[s] = Len(ids[s]) - 1

\* The blocks a sequence owns alone hold what they should of its text.
TailRight ==
    \A s \in Live : \A p \in (cursor[s] * BlockSize)..(Computed(s) - 1) :
        Settled[BlockOf(table[s], p)][p % BlockSize] = SubSeq(ids[s], 1, p + 1)

\* The text forward i of the queue computes for a row, as far as it is known,
\* and the first position it writes: the token of the forward before it is not.
FlightText(f, s)  == IF f.kind = "prefill" THEN f.rows[s].text ELSE DeviceText(s)
FlightFirst(i, s) == IF queue[i].kind = "prefill" THEN queue[i].rows[s].first
                     ELSE IF i = 2 /\ s \in Rows1 THEN Len(DeviceText(s))
                     ELSE Len(DeviceText(s)) - 1
FlightFills(i, s) == FlightFirst(i, s)..(Len(FlightText(queue[i], s)) - 1)

\* Rows of one forward share blocks for a common text only, and what a row does
\* not write itself is there before, or written by a row it shares a block with.
RowsAlike(f) ==
    \A s, t \in DOMAIN f.rows :
        \A j \in DOMAIN f.rows[s].tbl, k \in DOMAIN f.rows[t].tbl :
            f.rows[s].tbl[j] = f.rows[t].tbl[k] =>
                j = k /\ (s = t \/ Agree(FlightText(f, s), FlightText(f, t), k * BlockSize))

RowsBacked(K, i) ==
    LET rows == queue[i].rows IN
    \A s \in DOMAIN rows : \A p \in 0..(FlightFirst(i, s) - 1) :
        /\ Holds(rows[s].tbl, p)
        /\ \/ K[BlockOf(rows[s].tbl, p)][p % BlockSize] = SubSeq(FlightText(queue[i], s), 1, p + 1)
           \/ \E t \in DOMAIN rows : /\ p \in FlightFills(i, t) /\ Holds(rows[t].tbl, p)
                                     /\ BlockOf(rows[t].tbl, p) = BlockOf(rows[s].tbl, p)

RowsSound ==
    /\ \A i \in DOMAIN queue : RowsAlike(queue[i])
    /\ queue # <<>> => RowsBacked(kv, 1)
    /\ Len(queue) = 2 => RowsBacked(Settled, 2)

\* A node's block holds its text, or will: a row of the batch being built, or
\* of the second forward, writes it.
ToBeBuilt(p, o) ==
    /\ pc \in Passing
    /\ \E s \in turn.batch \cup (IF pc \in {"publish", "accept"} THEN {turn.cand} ELSE {}) :
         /\ Len(p) <= cursor[s] * BlockSize /\ Agree(ids[s], p, Len(p))
         /\ Computed(s) <= Len(p) - BlockSize + o

ToBeRun(p, o) ==
    /\ Len(queue) = 2
    /\ \E s \in DOMAIN queue[2].rows :
         /\ Len(p) - BlockSize + o \in FlightFills(2, s)
         /\ Holds(queue[2].rows[s].tbl, Len(p) - 1) /\ BlockOf(queue[2].rows[s].tbl, Len(p) - 1) = trie[p]

NodesRight ==
    \A p \in DOMAIN trie : \A o \in 0..(BlockSize - 1) :
        \/ Settled[trie[p]][o] = SubSeq(p, 1, Len(p) - BlockSize + o + 1)
        \/ ToBeBuilt(p, o)
        \/ ToBeRun(p, o)

\* While no paging has happened since a forward was sent, its rows are those of
\* the tables and the trie.
Placed ==
    \A f \in Unstarted : \A s \in DOMAIN f.rows : \A k \in DOMAIN f.rows[s].tbl :
        /\ \A p \in DOMAIN trie : trie[p] = f.rows[s].tbl[k] =>
             Len(p) = k * BlockSize /\ Agree(FlightText(f, s), p, Len(p))
        /\ \A t \in Live : \A j \in (cursor[t] + 1)..Len(table[t]) :
             table[t][j] = f.rows[s].tbl[k] => t = s /\ j = k

Linked ==
    \A f \in Unstarted : \A s \in DOMAIN f.rows :
        /\ pc = "wait" => status[s] # "WAITING"
        /\ status[s] \in {"READY", "RUNNING"} =>
             /\ f.rows[s].tbl = table[s]
             /\ f.kind = "prefill" => f.rows[s].first = hist[s] /\ f.rows[s].text = ids[s]

\* RefCountExact counts finite sets.
Owned ==
    /\ ref \in [Blocks -> Int]
    /\ \A b \in Blocks : IsFiniteSet(Slots(b)) /\ IsFiniteSet(Nodes(b))
    /\ RefCountExact

---------------------------------------------------------------------------
(* The engine implements the abstract service. *)

PhaseOf(s) == CASE status[s] = "none"    -> "idle"
                [] status[s] = "STOPPED" -> "over"
                [] OTHER                 -> "active"

Service == INSTANCE Generation WITH
    Requests <- Seqs, text <- ids, phase <- [s \in Seqs |-> PhaseOf(s)]

\* Every step of the engine is a step of the service or changes nothing the
\* client sees: no token after a stop, none lost or repeated by a preemption.
ServiceSpec == Service!Spec

\* Submissions cease.  While they go on, admission may forever be preferred to
\* the decoding of what was admitted before.
Submission == \E s \in Seqs, prompt \in Prompts : AddMessage(s, prompt)
LoadCeases == <>[][~Submission]_vars

\* Then every request that is not abandoned is answered to its end: no two
\* preempted sequences starve each other of blocks (RecomputeEvictionHelper
\* and the order of _PrefillReorderer).
RequestsEnd == LoadCeases => Service!EveryRequestEnds
=============================================================================
