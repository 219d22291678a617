-------------------------- MODULE TurboEngineProps --------------------------
(***************************************************************************)
(* What the TurboMind engine promises to the readers of its answers.       *)
(***************************************************************************)
EXTENDS TurboEngine

\* The batches on their way, the oldest first.
Pipeline == inbound \o outbound
Answered == {Conflict, TooLong, Finish, Canceled, OutOfMemory}

(* The reader gets the tokens that its own prompt leads to: each was sampled
   at the next position, of this request, from its real predecessor and over
   a cache that held every position before it, through any number of
   overlapping batches, swaps and evictions; and it got all of them when the
   request finished. *)
OutputsRight ==
    \A r \in Reqs :
        /\ \A i \in DOMAIN out[r] : out[r][i] = [req |-> r, pos |-> cfg.prompt[r] + i - 1, good |-> TRUE]
        /\ prev[r] <= cfg.prompt[r] + Len(out[r])
        /\ client[r] = "done" /\ told[r] = Finish => prev[r] = cfg.prompt[r] + Len(out[r])

(* A sequence is not released while a submitted batch names it: its inflight
   count is the number of batches on their way that do. *)
RowsAreLive ==
    \A r \in Reqs :
        LET naming == {i \in DOMAIN Pipeline : \E row \in Range(Pipeline[i].rows) : row.req = r}
        IN /\ seq[r].inflight = Cardinality(naming)
           /\ naming # {} => r \in Present

(* Nothing follows the answer of a request: neither a token nor another
   answer is signalled after a state that ends it, so the callback is never
   called again and no answer is overwritten before it was read. *)
AnsweredOnce ==
    \A r \in Reqs :
        LET later == signals \o sigs
            mine == {i \in DOMAIN later : later[i].req = r}
        IN /\ told[r] \in Answered => state[r] = {} /\ mine = {}
           /\ \A s \in state[r] : s.st \in Answered => state[r] = {s} /\ mine = {}
           /\ \A i, j \in mine : i < j => later[i].st \notin Answered

(* The reader is woken exactly when there is a state to consume: no state is
   left without a wake-up, and no wake-up finds nothing. *)
WakeUpsMatch ==
    \A r \in Reqs : calls[r] + sem[r] = IF state[r] = {} THEN 0 ELSE 1

(* Both: each answer gets through, once. *)
AnswersRead == AnsweredOnce /\ WakeUpsMatch

(* A request fails for want of memory only if what it has come to, with no
   token in flight, is too large for the whole cache or for the context
   budget: never on a predicted length that a stop token would have spared. *)
OutOfMemoryJustified ==
    \A i \in DOMAIN sigs : sigs[i].st = OutOfMemory =>
        LET n == seq[sigs[i].req].len IN Blocks(n) > cfg.blocks \/ n > cfg.maxContext

(* Every request that was sent is answered. *)
RequestsAnswered == \A r \in Reqs : client[r] \in {"reading", "draining"} ~> client[r] \in {"done", "gone"}

-----------------------------------------------------------------------------
(* The inductive invariants of TurboEngine_proofs, in layers.              *)

Statuses  == {Ok} \union Answered
States    == [st : Statuses, len : Int]
Signals   == [req : Reqs, st : Statuses, len : Int]
SeqRecords == [uid : Nat, len : Int, filled : Int, input : Int, active : BOOLEAN, auto : BOOLEAN,
               gen : BOOLEAN, retiring : BOOLEAN, inflight : Int, iin : Int, inew : Int]
Rows      == [req : Reqs, auto : BOOLEAN, gen : BOOLEAN, end : Int, input : Int, known : BOOLEAN, readonly : Int]
Tokens    == [req : Reqs \union {NoReq}, pos : Int, good : BOOLEAN]
Results   == [len : Int, tok : Tokens, fin : BOOLEAN, kv : Int]
Batches   == [bs0 : Nat, perm : Seq(Nat), rows : Seq(Rows), kept : [Reqs -> Nat], res : Seq(Results)]

Shapes ==
    /\ cfg \in Setups
    /\ client \in [Reqs -> {"idle", "reading", "draining", "done", "gone"}]
    /\ prev \in [Reqs -> Int] /\ told \in [Reqs -> Statuses] /\ state \in [Reqs -> SUBSET States]
    /\ flag \in [Reqs -> {-1, 0, 1}] /\ queue \in Seq(Reqs) /\ popped \in Seq(Reqs)
    /\ signals \in Seq(Signals) /\ sigs \in Seq(Signals)
    /\ pc \in {"pop", "admit", "submit", "collect"} /\ uids \in Nat
    /\ slots \in Seq(Reqs \union {NoReq}) /\ perm \in Seq(Nat) /\ nactive \in Nat /\ nswapout \in Nat
    /\ seq \in [Reqs -> SeqRecords] /\ held \in [Reqs -> Nat]
    /\ inbound \in Seq(Batches) /\ outbound \in Seq(Batches)
    /\ dev \in Seq(Results) /\ kv \in [Reqs -> Int] /\ out \in [Reqs -> Seq(Tokens)]

\* A request is at one place at a time; nothing is kept of one without a slot.
Once(s) == \A i, j \in DOMAIN s : s[i] = s[j] /\ s[i] # NoReq => i = j
Places ==
    /\ Once(queue) /\ Once(popped) /\ Once(slots)
    /\ \A r \in Reqs :
         /\ r \in Range(queue) => r \notin Range(popped) /\ r \notin Present
         /\ r \in Range(popped) => r \notin Present
         /\ client[r] = "idle" => r \notin Range(queue) /\ r \notin Range(popped) /\ r \notin Present
         /\ r \notin Present => seq[r] = NoSeq /\ held[r] = 0
    /\ pc # "admit" => popped = <<>>
    /\ \A r \in Present : seq[r].uid \in 1 .. uids
    /\ \A p, r \in Present : seq[p].uid = seq[r].uid => p = r

\* How many batches are on their way; each starts from the rows of the one before.
Chained ==
    /\ Len(inbound) + Len(outbound) = cfg.phases - (IF pc = "collect" THEN 0 ELSE 1)
    /\ outbound # <<>> => outbound[1].bs0 = Len(dev)
    /\ Len(outbound) = 2 => outbound[2].bs0 = Len(outbound[1].rows)
    /\ nactive = IF outbound = <<>> THEN Len(dev) ELSE Len(outbound[Len(outbound)].rows)
    /\ \A k \in DOMAIN outbound : LET b == outbound[k] IN
         DOMAIN b.perm = DOMAIN b.rows /\ \A i \in DOMAIN b.perm : b.perm[i] >= 1
    /\ \A k \in DOMAIN inbound : DOMAIN inbound[k].res = DOMAIN inbound[k].rows

Frame == Shapes /\ Places /\ Chained

\* The batch submitted last runs the leading slots; the one to be collected is
\* found through RowOf.
Names(b, r) == \E i \in DOMAIN b.rows : b.rows[i].req = r
Newest == Pipeline[Len(Pipeline)]
InSlots ==
    /\ Pipeline # <<>> => /\ Len(Newest.rows) = nactive
                          /\ \A i \in DOMAIN Newest.rows : i \in DOMAIN slots /\ slots[i] = Newest.rows[i].req
    /\ pc = "collect" =>
         /\ \A i \in DOMAIN slots : RowOf(i) \in Nat
         /\ \A i, j \in DOMAIN slots : RowOf(i) = RowOf(j) => i = j
         /\ \A k \in DOMAIN Pipeline[1].rows : \E i \in DOMAIN slots :
              RowOf(i) = k /\ slots[i] = Pipeline[1].rows[k].req

\* RowsAreLive, counted.
In1(k, r) == IF k \in DOMAIN Pipeline /\ Names(Pipeline[k], r) THEN 1 ELSE 0
Counted == \A r \in Reqs : seq[r].inflight = In1(1, r) + In1(2, r)

Alive == InSlots /\ Counted

\* Who may still be told something: as long as it may, it was told no answer,
\* neither in what its reader has read nor in what waits for the reader.
Open(r) == \/ client[r] = "idle"
           \/ r \in Range(queue) /\ flag[r] = 0
           \/ r \in Range(popped)
           \/ r \in Present /\ ~seq[r].retiring
Mute(q, r) == \A i \in DOMAIN q : q[i].req # r
Calm(q, r) == /\ told[r] \notin Answered /\ \A s \in state[r] : s.st \notin Answered
              /\ \A i \in DOMAIN q : q[i].req = r => q[i].st \notin Answered
Spoken(p, q) ==
    /\ \A r \in Reqs : /\ told[r] \in Answered => state[r] = {} /\ Mute(p, r) /\ Mute(q, r)
                       /\ \A s \in state[r] : s.st \in Answered => Mute(p, r) /\ Mute(q, r)
                       /\ \A s, t \in state[r] : s = t
    /\ \A i, j \in DOMAIN p : i < j /\ p[i].req = p[j].req => p[i].st \notin Answered
    /\ \A i \in DOMAIN p, j \in DOMAIN q : p[i].req = q[j].req => p[i].st \notin Answered
    /\ Len(q) <= 1
Pending ==
    /\ pc # "collect" => sigs = <<>>
    /\ \A i \in DOMAIN sigs : sigs[i].req \in Present /\ seq[sigs[i].req].retiring
    /\ \A r \in Reqs : flag[r] = 0 /\ client[r] # "idle" => r \in Range(queue)
Speaking == /\ Spoken(signals, sigs) /\ Pending
            /\ \A r \in Reqs : Open(r) => Calm(signals, r) /\ Mute(sigs, r)

\* Where a sequence is once the batches on their way came back: how far its
\* cache is filled, and how long it is.
Newly(r)   == pc = "collect" /\ seq[r].active
Reached(r) == seq[r].filled + seq[r].iin + (IF Newly(r) THEN seq[r].input ELSE 0)
Lasting(r) == Context(seq[r]) + (IF Newly(r) /\ seq[r].gen THEN 1 ELSE 0)

\* The leading slots are those of the last batch; what a sequence expects of the
\* batches on their way is what their rows will bring.
Foretold(r) == LET q == seq[r]
                   row == Pipeline[1].rows[RowOf(Place(slots, r))] IN
    IF In(Pipeline[1], r)
    THEN row.end = q.filled + q.iin /\ q.inew = (IF row.gen THEN 1 ELSE 0) /\ (row.gen => row.end = q.len)
    ELSE q.iin = 0 /\ q.inew = 0
Foreseen(r) == LET q == seq[r]
                   i == Place(slots, r) IN
    /\ q.active <=> i <= nactive
    /\ q.len >= 1 /\ q.filled >= 0 /\ q.iin >= 0 /\ q.inew >= 0 /\ q.input >= 0
    /\ cfg.phases = 1 => q.iin = 0 /\ q.inew = 0
    /\ cfg.phases = 2 /\ pc # "collect" => IF q.active THEN q.inew = (IF q.gen THEN 1 ELSE 0)
                                           ELSE q.iin = 0 /\ q.inew = 0
    /\ cfg.phases = 2 /\ pc = "collect" => Foretold(r) /\ (i > nactive + nswapout => q.iin = 0 /\ q.inew = 0)
    /\ q.active /\ q.gen => Reached(r) = Lasting(r) - 1
    /\ q.active /\ Pipeline # <<>> => Newest.rows[i].end = Reached(r) /\ Newest.rows[i].gen = q.gen
Predicted == nactive <= Len(slots) /\ \A r \in Eligible : Foreseen(r)

\* A sequence that runs will not have filled its cache when the batches on their
\* way came back: it goes on to generate, or has more of its prompt to read.
Unfinished == \A r \in Eligible : seq[r].active => Reached(r) < Lasting(r)

\* The positions of a request in device memory that are right before and after
\* a batch that is still to run, and after all of them.
NamedAt(b, r)  == CHOOSE i \in DOMAIN b.rows : b.rows[i].req = r
Lasts(b, k, r) == IF Names(b, r) THEN b.rows[NamedAt(b, r)].end ELSE Lesser(k, b.kept[r] * cfg.blockSize)
Before(k, r)   == IF k = 1 THEN kv[r] ELSE Lasts(outbound[1], kv[r], r)
Drained(r)     == IF outbound = <<>> THEN kv[r] ELSE Lasts(outbound[Len(outbound)], Before(Len(outbound), r), r)

\* A batch to run finds what its rows read: the positions before, and the token
\* the row it goes on from will have sampled; what came back is right; and the
\* next batch can go on from the rows of the last one.
Right(r, n) == [req |-> r, pos |-> n, good |-> TRUE]
GoesOn(k, b, i) == LET row == b.rows[i]
                       old == outbound[1].rows[b.perm[i]] IN
    /\ row.input = 1 /\ Carried(b, i)
    /\ IF k = 1 THEN dev[b.perm[i]].len = row.end /\ dev[b.perm[i]].tok = Right(row.req, row.end - 1)
       ELSE old.req = row.req /\ old.gen /\ old.end = row.end - 1
FedRow(k, b, i) == LET row == b.rows[i]
                       begin == row.end - row.input IN
    /\ row.input >= 1 /\ begin >= 0
    /\ begin <= Before(k, row.req) /\ row.readonly <= Before(k, row.req)
    /\ begin <= b.kept[row.req] * cfg.blockSize /\ row.readonly <= b.kept[row.req] * cfg.blockSize
    /\ IF row.auto THEN GoesOn(k, b, i) ELSE row.known
Sorted(b) ==
    /\ \A i \in DOMAIN b.rows : b.rows[i].gen <=> i <= Cardinality({j \in DOMAIN b.rows : b.rows[j].gen})
    /\ \A i, j \in DOMAIN b.rows : b.rows[i].req = b.rows[j].req => i = j
Fed(k) == Sorted(outbound[k]) /\ \A i \in DOMAIN outbound[k].rows : FedRow(k, outbound[k], i)
Brought(b) ==
    \A i \in DOMAIN b.rows : LET n == b.rows[i].end IN
        IF b.rows[i].gen THEN b.res[i].len = n + 1 /\ b.res[i].tok = Right(b.rows[i].req, n) ELSE b.res[i].len = n
Kept(r) == Drained(r) >= IF seq[r].active THEN Reached(r) ELSE Lesser(held[r] * cfg.blockSize, Reached(r))
Ready(r) == LET old == dev[Place(slots, r)] IN
    outbound = <<>> /\ seq[r].active /\ seq[r].gen => old.len = Reached(r) + 1 /\ old.tok = Right(r, Reached(r))
Filled ==
    /\ \A k \in DOMAIN outbound : Fed(k)
    /\ \A k \in DOMAIN inbound : Brought(inbound[k])
    /\ \A r \in Reqs : kv[r] >= 0
    /\ \A r \in Eligible : Kept(r) /\ Ready(r)

\* The tokens that were handed on are those the sequence counts; a reader was
\* told of no others, and of all of them once the request finished.
Told(r, s) == /\ s.st \in {Ok, Finish, Canceled} => s.len <= cfg.prompt[r] + Len(out[r])
              /\ s.st = Finish => s.len = cfg.prompt[r] + Len(out[r])
Counts ==
    /\ \A r \in Present : seq[r].len = cfg.prompt[r] + Len(out[r])
    /\ \A r \in Reqs : client[r] = "idle" \/ r \in Range(queue) \/ r \in Range(popped) => out[r] = <<>>
    /\ \A r \in Reqs : \A s \in state[r] : Told(r, s)
    /\ \A i \in DOMAIN signals : Told(signals[i].req, signals[i])
    /\ \A i \in DOMAIN sigs : sigs[i].st = OutOfMemory
    /\ OutputsRight
=============================================================================
