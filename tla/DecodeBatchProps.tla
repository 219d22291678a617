--------------------------- MODULE DecodeBatchProps ---------------------------
(***************************************************************************)
(* What the forward selection and the two views of the batch promise.      *)
(***************************************************************************)
EXTENDS DecodeBatch

Slots    == Seqs \cup {Gone}
Statuses == {"none", "WAITING", "READY", "RUNNING", "STOPPED"}

IsRow(r)     == r.seq \in Slots /\ r.len \in Nat
IsForward(f) == /\ f.lane \in {"prefill", "chunk", "decode"}
                /\ \A i \in DOMAIN f.rows : IsRow(f.rows[i]) /\ f.rows[i].gen \in BOOLEAN
                /\ f.reindex \in BOOLEAN /\ f.scoring \in BOOLEAN
                /\ f.keep \in Seq(Nat)
                /\ f.lane = "decode" => Len(f.keep) = Len(f.rows)

\* The type invariant; the pool is never overdrawn.
TypeOK ==
    /\ len \in [Seqs -> Nat] /\ hist \in [Seqs -> Nat]
    /\ \A s \in Seqs : hist[s] <= len[s]
    /\ held \in [Seqs -> Nat] /\ limit \in [Seqs -> Nat] /\ FreeBlocks >= 0
    /\ kind \in [Seqs -> {"generate", "logits", "score"}] /\ status \in [Seqs -> Statuses]
    /\ running \in Seq(Slots) /\ toEvict \subseteq Slots
    /\ chunk.seq \in Slots /\ chunk.step \in -1..MaxLen
    /\ afterChunk \in BOOLEAN /\ rounds \in 0..PrefillInterval /\ shorts \in 0..ShortTurns
    /\ Len(queue) <= 2 /\ \A i \in DOMAIN queue : IsForward(queue[i])
    /\ \A i \in DOMAIN batch : IsRow(batch[i])
    /\ built \in BOOLEAN /\ setup \in Setups

\* When the worker takes a decode forward, the row at each position that still
\* matters is the row of the sequence the host will credit with its token, and
\* has that sequence's text so far (ModelInputsDelta.indices against
\* ARStepInputs; "Shrink batch - keep only sequences at delta.indices").
RowsAligned ==
    pc = "wait" /\ Head1.lane = "decode" =>
        \A i \in RowsOf(Head1) : SeqAt(i) \in Running =>
            Reindexed(Head1)[i] = [seq |-> SeqAt(i), len |-> len[SeqAt(i)]]

\* No sequence is decoded before its whole prompt is in the KV cache: a chunk
\* that is not the last one has no output and joins no batch
\* (InputsMakerAsync, LongContextChunker).
WholePromptFirst ==
    pc = "wait" /\ Head1.lane = "decode" =>
        \A i \in RowsOf(Head1) : SeqAt(i) \in Running => hist[SeqAt(i)] = len[SeqAt(i)] - 1

\* A delta reaches only a worker that has rows to reindex (StepInputs).
ReindexHasBatch == pc = "wait" /\ Head1.reindex => built

\* The worker treats a whole prefill as scoring when one of its requests is,
\* and then samples nothing: no request that wants tokens may be in it.
ScoringApart == \A q \in DOMAIN queue : queue[q].scoring =>
                  \A i \in RowsOf(queue[q]) : ~queue[q].rows[i].gen

\* A running sequence is listed for decoding, owned by the chunker, or in a
\* prefill in flight: nothing else would ever step it again.
SomebodySteps ==
    pc \in Await => \A s \in Running :
        \/ \E i \in DOMAIN running : running[i] = s
        \/ chunk.seq = s
        \/ \E q \in DOMAIN queue : queue[q].lane = "prefill" /\ \E i \in RowsOf(queue[q]) : queue[q].rows[i].seq = s

\* The list never holds a running sequence twice: it would be credited with
\* two tokens for one.
ListedOnce == \A i, j \in DOMAIN running : running[i] = running[j] /\ running[i] \in Running => i = j

\* Between two passes somebody steps every running sequence, and the list does
\* so only once (update_running_seqs).
SteppedOnce == SomebodySteps /\ ListedOnce

\* The loop never goes to sleep on a running sequence: has_unfinished asks only
\* for waiting and ready ones and for a chunk (Scheduler.has_unfinished,
\* RunableEventAsync), so a running one must always have a forward in flight.
AwakeWhileRunning ==
    pc = "send" /\ Running # {} => Waiting # {} \/ chunk.seq \in Running

\* A long prompt that has been started is prefilled to its end or given up,
\* however many short requests and decodes compete for the turns
\* (_is_long_context_chunk_turn_due and the order of _ForwardInputsTask.run).
ChunksEnd == \A s \in Seqs : chunk.seq = s ~> chunk.seq # s

---------------------------------------------------------------------------
(* The parts of the inductive invariants. *)

Lanes      == {"all", "short", "long", "chunk", "decode"}
RowSet     == [seq : Slots, len : Nat, gen : BOOLEAN]
CarriedSet == [seq : Slots, len : Nat]
ForwardSet == [lane : {"prefill", "chunk", "decode"}, rows : Seq(RowSet), reindex : BOOLEAN,
               keep : Seq(Nat), scoring : BOOLEAN]
TurnSet    == [plan : Seq(Lanes), lane : Lanes \cup {"none"}, todo : Seq(Seqs), batch : Seq(Seqs),
               used : Int, left : Nat, keep : Seq(Nat)]

\* Types, without the sum that FreeBlocks is.
SeqShape   == /\ len \in [Seqs -> Nat] /\ hist \in [Seqs -> Nat]
              /\ held \in [Seqs -> Nat] /\ limit \in [Seqs -> Nat]
              /\ kind \in [Seqs -> {"generate", "logits", "score"}]
              /\ status \in [Seqs -> Statuses] /\ arrival \in Seq(Seqs)
MakerShape == /\ running \in Seq(Slots) /\ toEvict \subseteq Slots
              /\ chunk \in [seq : Slots, step : Int] /\ (chunk.seq \in Seqs => chunk.step \in Nat)
              /\ afterChunk \in BOOLEAN /\ rounds \in Int /\ shorts \in Int
WorkShape  == /\ queue \in Seq(ForwardSet) /\ batch \in Seq(CarriedSet)
              /\ built \in BOOLEAN /\ setup \in Setups
TurnShape  == /\ pc \in {"send", "sent", "next", "prefetch", "wait", "try", "admit", "grow"}
              /\ turn \in TurnSet
Shapes     == SeqShape /\ MakerShape /\ WorkShape /\ TurnShape

InPass   == {"try", "admit", "grow"}
Plans(l) == \E i \in DOMAIN turn.plan : turn.plan[i] = l

\* The forwards in flight where the loop stands.
QueueShape ==
    /\ pc \in InPass => Len(queue) <= 1
    /\ pc = "send" => queue = <<>>
    /\ pc \in {"sent", "next", "prefetch"} => Len(queue) = 1
    /\ pc = "wait" => 1 <= Len(queue) /\ Len(queue) <= 2

\* A decode names as many positions as it has rows; the decode lane stands
\* within the list, and the chunk lane is tried for a sequence.
LaneShape ==
    /\ pc \in InPass /\ Plans("chunk") => chunk.seq \in Seqs
    /\ \A q \in DOMAIN queue : queue[q].lane = "decode" =>
         queue[q].reindex /\ Len(queue[q].keep) = Len(queue[q].rows)
    /\ pc = "grow" => /\ turn.left <= Len(running)
                      /\ \A j \in DOMAIN turn.keep : turn.keep[j] \in (turn.left + 1)..Len(running)

Frame == Shapes /\ QueueShape /\ LaneShape

Listed(s) == \E i \in DOMAIN running : running[i] = s
Has(f, s) == \E i \in RowsOf(f) : f.rows[i].seq = s

\* The forward sent last, while it has not been activated; the head once it has.
Unstarted == IF pc \in {"sent", "next"} \/ Len(queue) = 2 THEN {queue[Len(queue)]} ELSE {}
Started   == queue # <<>> /\ pc \notin {"sent", "next"}

\* SomebodySteps in every state.
Covered == \A s \in Running :
    \/ Listed(s)
    \/ chunk.seq = s
    \/ \E q \in DOMAIN queue : queue[q].lane = "prefill" /\ Has(queue[q], s)

\* Whom the list, the chunker or a forward names is alive, and a prefill knows
\* what it asked for.
Live(t) == t \in Seqs => status[t] # "none"
AllLive ==
    /\ Live(chunk.seq) /\ \A i \in DOMAIN running : Live(running[i])
    /\ \A q \in DOMAIN queue : \A i \in RowsOf(queue[q]) :
         /\ Live(queue[q].rows[i].seq)
         /\ queue[q].lane = "prefill" /\ queue[q].rows[i].seq \in Seqs =>
              queue[q].rows[i].gen = (kind[queue[q].rows[i].seq] = "generate")

\* Whoever generates is listed once its prefill has been activated.
Joined == Started /\ Head1.lane = "prefill" =>
    \A i \in RowsOf(Head1) : SeqAt(i) \in Running /\ Head1.rows[i].gen => Listed(SeqAt(i))

\* A chunk that is not activated belongs to the chunker's sequence.
ChunkOwned == \A f \in Unstarted : f.lane = "chunk" =>
    \A i \in RowsOf(f) : f.rows[i].seq \in Active => f.rows[i].seq = chunk.seq

\* A decode that is not activated has everyone who is listed and runs.
DecodeWhole == \A f \in Unstarted : f.lane = "decode" =>
    \A s \in Running : Listed(s) => Has(f, s)

\* What the pass has not kept does not run; a pass whose decode lane is behind it
\* has found nobody to decode.
Tried ==
    /\ pc = "grow" => \A i \in DOMAIN running : running[i] \in Running =>
         i <= turn.left \/ \E j \in DOMAIN turn.keep : turn.keep[j] = i
    /\ pc \in {"try", "admit"} /\ ~Plans("decode") => \A s \in Running : ~Listed(s)

\* A new long prompt is started only while none is being chunked: the other
\* prefill lanes begin with a short one.
LongAlone ==
    /\ turn.lane = "long" \/ Plans("long") => chunk.seq \notin Seqs
    /\ pc = "admit" => /\ turn.lane \in {"all", "short", "long"}
                       /\ \A i \in DOMAIN turn.batch : status[turn.batch[i]] = "READY"
    /\ pc = "admit" /\ turn.lane # "long" =>
         IF turn.batch = <<>> THEN \A i \in DOMAIN turn.todo : ~IsLong(turn.todo[i])
                              ELSE ~IsLong(turn.batch[1])

\* With nothing more in flight, only the chunker's sequence runs on.
AtRest ==
    /\ pc = "send" => Running \subseteq {chunk.seq}
    /\ pc = "wait" /\ Len(queue) = 1 => \A s \in Running :
         s = chunk.seq \/ (Head1.lane = "prefill" /\ Has(Head1, s) /\ kind[s] # "generate")

Flow == Covered /\ AllLive /\ Joined /\ ChunkOwned /\ DecodeWhole /\ Tried /\ LongAlone /\ AtRest

\* The sequence whose prompt is being chunked is not on the list of those that
\* decode.  A preempted sequence that stays listed and is readmitted as a long
\* prompt breaks this; what follows is said of behaviours without that.
ChunkApart == chunk.seq \in Active => ~Listed(chunk.seq)

\* A forward has one row for each of its sequences.
RowsOnce == \A q \in DOMAIN queue : \A i, j \in RowsOf(queue[q]) :
    queue[q].rows[i].seq = queue[q].rows[j].seq /\ queue[q].rows[i].seq \in Seqs => i = j

\* Whom a prefill that is not activated brings is not listed yet; whom such a
\* decode names has been running.
Newcomers == \A f \in Unstarted : \A i \in RowsOf(f) :
    /\ f.lane = "prefill" /\ f.rows[i].seq \in Active => ~Listed(f.rows[i].seq)
    /\ f.lane = "decode" /\ f.rows[i].seq \in Seqs => status[f.rows[i].seq] # "READY"

\* A prefill lane takes each waiting sequence once.
TodoOnce == pc = "admit" =>
    /\ \A i \in DOMAIN turn.todo : status[turn.todo[i]] = "WAITING"
    /\ \A i, j \in DOMAIN turn.todo : turn.todo[i] = turn.todo[j] => i = j
    /\ \A i, j \in DOMAIN turn.batch : turn.batch[i] = turn.batch[j] => i = j

\* The decode lane keeps positions in ascending order, of sequences that run.
KeepOnce == pc = "grow" =>
    /\ \A i, j \in DOMAIN turn.keep : i < j => turn.keep[i] < turn.keep[j]
    /\ \A j \in DOMAIN turn.keep : running[turn.keep[j]] \in Running

\* ListedOnce, with what is about to join the list.
Distinct == ListedOnce /\ RowsOnce /\ Newcomers /\ TodoOnce /\ KeepOnce

\* The output of a started prefill is what a listed sequence may wait for; any
\* other one has its whole text but the newest token in the cache.
Whole == \A s \in Running :
    Listed(s) \/ (\E q \in DOMAIN queue : queue[q].lane = "decode" /\ Has(queue[q], s)) =>
        \/ hist[s] = len[s] - 1
        \/ Started /\ Head1.lane = "prefill" /\ Has(Head1, s)

\* The worker's rows once the head, if it has started, is done; by then a row of
\* the head has one token more than the host knows.
Worker == IF Started THEN BatchAfter(Head1) ELSE batch
Dues   == [s \in Seqs |-> IF Started /\ Head1.lane # "chunk" /\ Has(Head1, s) THEN len[s] + 1 ELSE len[s]]

Selected(f, rows) == IF ~f.reindex \/ Len(f.keep) = Len(rows) THEN rows
                     ELSE [i \in DOMAIN f.keep |->
                             IF f.keep[i] \in DOMAIN rows THEN rows[f.keep[i]] ELSE [seq |-> Gone, len |-> 0]]

\* Rows stand where the list has their sequences.
InStep(rows) ==
    \A i \in DOMAIN running : running[i] \in Running =>
        i \in DOMAIN rows /\ rows[i] = [seq |-> running[i], len |-> Dues[running[i]]]

Fits(rows) == Len(rows) <= Len(running) /\ InStep(rows)

\* Only requests that generate; chunks reindex nothing.
Generating ==
    /\ \A s \in Seqs : kind[s] = "generate"
    /\ \A q \in DOMAIN queue :
         /\ ~queue[q].scoring /\ \A i \in RowsOf(queue[q]) : queue[q].rows[i].gen
         /\ queue[q].lane = "chunk" => ~queue[q].reindex

\* A started decode works on the rows of the sequences it names.
HeadAligned == Started /\ Head1.lane = "decode" => \A i \in RowsOf(Head1) : SeqAt(i) \in Running =>
    Listed(SeqAt(i)) /\ Reindexed(Head1)[i] = [seq |-> SeqAt(i), len |-> len[SeqAt(i)]]

\* So will the forward that waits to start: the positions of its delta select the
\* rows of the sequences the host means, and a prefill leaves as many as the list
\* has. Apart from that the worker never has a row that the host does not list.
PendingAligned ==
    /\ (\A f \in Unstarted : f.lane = "chunk") => Fits(Worker)
    /\ \A f \in Unstarted :
         /\ f.lane = "decode" => \A i \in RowsOf(f) : f.rows[i].seq \in Running =>
              Selected(f, Worker)[i] = [seq |-> f.rows[i].seq, len |-> Dues[f.rows[i].seq]]
         /\ f.lane = "prefill" =>
              /\ Len(Selected(f, Worker)) = Len(running) /\ InStep(Selected(f, Worker))
              /\ \A i \in RowsOf(f) : f.rows[i].seq \in Active => f.rows[i].len = len[f.rows[i].seq]

Aligned == Generating /\ HeadAligned /\ PendingAligned
---------------------------------------------------------------------------
(* ChunkApart holds where every request generates, and any one text fits the
   pool and clients are patient, or all texts together fit. *)

\* The blocks a text needs at most, with what is reserved ahead.
Fit == (MaxLen - 1 + Prealloc + BlockSize - 1) \div BlockSize

CalmEngines ==
    /\ Kinds \subseteq {"generate"}
    /\ \A u \in Setups : \/ u.patient /\ u.blocks >= Fit
                         \/ u.blocks >= Cardinality(Seqs) * Fit

Fitting == \A s \in Seqs :
    /\ status[s] \in {"WAITING", "READY", "RUNNING"} => len[s] < MaxLen
    /\ status[s] = "none" => held[s] = 0
    /\ held[s] <= Fit

\* A started prefill has not been credited.
Uncredited == Started /\ Head1.lane = "prefill" =>
    \A i \in RowsOf(Head1) : SeqAt(i) \in Running => Head1.rows[i].len = len[SeqAt(i)]

\* Who was admitted is about to be sent, or to be activated.
InBatch(s) == \E i \in DOMAIN turn.batch : turn.batch[i] = s
ReadySent  == \A s \in WithStatus("READY") :
    (pc = "admit" /\ InBatch(s)) \/ \E f \in Unstarted : Has(f, s)

\* What is left of the plan: with nobody's chunks, with the last one, with another.
FreshPlans == {<<"all", "decode">>, <<"long", "short", "decode">>, <<"short", "long", "decode">>,
               <<"short", "decode">>, <<"long", "decode">>, <<"decode">>, <<>>}
LastPlans  == {<<"chunk", "decode">>, <<"decode">>, <<>>}
ChunkPlans == {<<"short", "chunk", "decode">>, <<"decode", "chunk">>,
               <<"decode", "short", "chunk">>, <<"short", "chunk">>, <<"chunk">>} \cup LastPlans
PlanShape == pc \in InPass =>
    /\ IF chunk.seq \in Seqs THEN chunk.seq \in Running /\ turn.plan \in ChunkPlans
                             ELSE turn.plan \in FreshPlans
    /\ chunk.seq \in Seqs /\ ~IsLong(chunk.seq) => pc # "admit" /\ turn.plan \in LastPlans
    /\ pc = "grow" => turn.plan \in {<<>>, <<"chunk">>, <<"short", "chunk">>}
    /\ pc = "grow" /\ chunk.seq \in Seqs /\ ~IsLong(chunk.seq) => turn.plan = <<>>
    /\ pc = "admit" /\ turn.lane = "long" => Len(turn.batch) + Len(turn.todo) <= 1

\* With nothing in flight nobody is decoded, and a chunk will be sent.
Resting ==
    /\ pc = "send" \/ (pc \in InPass /\ queue = <<>>) =>
         \A s \in Running : ~Listed(s) /\ s \notin toEvict
    /\ pc = "sent" => Head1.lane # "decode"
    /\ pc \in InPass /\ queue = <<>> /\ chunk.seq \in Seqs => Plans("chunk")

\* The chunker has a sequence that nobody takes away from it.
Attended == setup.patient /\ chunk.seq \in Active

\* A sequence that waits is listed all the same: only until a decode replaces
\* the list, or while there is a chunk, whose last part is sent with a clean list.
Waits(t) == t \in Seqs /\ status[t] \in {"WAITING", "READY"}
Strays == (\E i \in DOMAIN running : Waits(running[i])) =>
    \/ Attended
    \/ pc = "grow" /\ (turn.keep # <<>> \/ \E j \in 1..turn.left : running[j] \in Running)
    \/ \E f \in Unstarted : f.lane = "decode"

\* Or it is about to be listed.
Bringing ==
    /\ \A f \in Unstarted : \A i \in RowsOf(f) :
         f.rows[i].seq \in Waiting => f.lane = "prefill" /\ Attended
    /\ pc = "prefetch" \/ (pc \in {"try", "admit"} /\ (turn.lane = "long" \/ Plans("long"))) =>
         (queue # <<>> /\ Head1.lane # "chunk" =>
            \A i \in RowsOf(Head1) : Waits(SeqAt(i)) => Attended)

\* Whom the next output will preempt.
Threat(t) == t \in toEvict /\ t \in Waiting \cup Active
Threats ==
    /\ \A t \in toEvict : Live(t)
    /\ pc = "next" => toEvict = {}
    /\ pc = "send" => \A t \in Seqs : ~Threat(t)
    /\ pc # "wait" => \A t \in Seqs : Threat(t) => Attended
    /\ pc = "wait" => \A t \in toEvict \cap Active : Attended \/ \E f \in Unstarted : f.lane = "decode"
    /\ \A f \in Unstarted : f.lane = "decode" =>
         \A i \in RowsOf(f) : f.rows[i].seq \in Active => f.rows[i].seq \notin toEvict

\* While it may be readmitted before that, the chunk is not the last one.
Unfinished ==
    /\ pc \in {"sent", "prefetch"} \cup InPass => \A t \in toEvict \cap Active : IsLong(chunk.seq)
    /\ pc \in InPass /\ queue = <<>> => \A t \in Seqs : Threat(t) => IsLong(chunk.seq)
    /\ pc = "sent" /\ Head1.lane = "chunk" => toEvict \cap Active = {}

\* The chunker's sequence is in no other forward, and not to be preempted.
Single == chunk.seq \in Active =>
    /\ chunk.seq \notin toEvict
    /\ \A q \in DOMAIN queue : Has(queue[q], chunk.seq) => queue[q].lane = "chunk"

Calm == /\ Fitting /\ Uncredited /\ ReadySent /\ PlanShape /\ Resting
        /\ Strays /\ Bringing /\ Threats /\ Unfinished /\ Single /\ ChunkApart
=============================================================================
