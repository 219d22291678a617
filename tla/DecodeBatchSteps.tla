------------------------ MODULE DecodeBatchSteps ------------------------
(***************************************************************************)
(* What a step of DecodeBatch changes, as far as its proofs look: each is  *)
(* a consequence of the actions it is named for, and forgets the rest.     *)
(* DecodeBatch_proofs shows that every action is one of them, and works    *)
(* with them instead of the actions.                                       *)
(***************************************************************************)
EXTENDS DecodeBatchProps

\* What every send has in common.
Sends == SendPrefill \/ SendFirstChunk \/ SendNextChunk \/ SendLastChunk \/ SendDecode

\* The forward f is what was sent.
Sent(f) == /\ f \in ForwardSet /\ Dispatch(f)
           /\ f.lane = "decode" => f.reindex /\ Len(f.keep) = Len(f.rows)

\* A step of a pass that only moves the pass on.
Quiet == \/ EndPass \/ EnterPrefill \/ NothingAdmitted \/ (\E s \in Seqs : PassOver(s))
         \/ EnterDecode \/ DropStopped \/ KeepRow \/ NoDecode

\* What such a step may do.
QuietStep ==
    /\ UNCHANGED <<seqVars, running, chunk, afterChunk, rounds, shorts, workVars>>
    /\ pc \in InPass /\ toEvict' \subseteq Slots /\ turn' \in TurnSet
    /\ pc' \in InPass \/ pc' = NothingSent
    /\ \A l : Plans(l)' => Plans(l)
    /\ pc' = "grow" => /\ turn'.left <= Len(running)
                       /\ \A j \in DOMAIN turn'.keep : turn'.keep[j] \in (turn'.left + 1)..Len(running)

\* A step of a pass that asks for blocks.
Pages == (\E s \in Seqs : Admit(s) \/ NoRoomPrefill(s)) \/ NoRoomChunk \/ GrowRow

\* What such a step may do.
PageStep ==
    /\ UNCHANGED <<len, kind, arrival, makerVars, workVars, pc>>
    /\ SeqShape' /\ pc \in InPass /\ turn' \in TurnSet
    /\ \A l : Plans(l)' => Plans(l)
    /\ pc = "grow" => /\ turn'.left <= Len(running)
                      /\ \A j \in DOMAIN turn'.keep : turn'.keep[j] \in (turn'.left + 1)..Len(running)
    /\ Running' \subseteq Running
    /\ \A s \in Seqs : /\ status[s] # "none" => status'[s] # "none"
                       /\ status[s] = "READY" => status'[s] = "READY"
                       /\ status[s] \in {"READY", "RUNNING"} => hist'[s] = hist[s]

\* The start of a pass.
BeginStep ==
    /\ UNCHANGED <<seqVars, running, toEvict, afterChunk, shorts, workVars>>
    /\ pc \in {"send", "prefetch"} /\ pc' = "try"
    /\ chunk' = chunk \/ (chunk' = NoChunk /\ chunk.seq \notin Running)
    /\ rounds' \in Int /\ turn' \in TurnSet /\ turn'.lane = "none"
    /\ (\E i \in DOMAIN turn'.plan : turn'.plan[i] = "decode")
    /\ (\E i \in DOMAIN turn'.plan : turn'.plan[i] = "chunk") => chunk'.seq \in Seqs
    /\ (\E i \in DOMAIN turn'.plan : turn'.plan[i] = "long") => chunk'.seq \notin Seqs

\* A new message or a stop.
MildStep ==
    /\ UNCHANGED <<hist, held, limit, running, toEvict, afterChunk, rounds, shorts, workVars, pc, turn>>
    /\ pc \in Await /\ SeqShape' /\ chunk' \in [seq : Slots, step : Int]
    /\ Running' \subseteq Running /\ Active' \subseteq Active
    /\ \A t \in Seqs : status[t] # "none" => status'[t] # "none" /\ kind'[t] = kind[t] /\ len'[t] = len[t]
    /\ \A t \in Seqs : status'[t] = "READY" => status[t] = "READY"
    /\ \A t \in Seqs : kind'[t] = kind[t] \/ kind'[t] \in Kinds
    /\ chunk' = chunk \/ (chunk' = NoChunk /\ chunk.seq \notin Active')

\* What the end of session s makes of a name, and of the rows of a forward.
Ghost(s, t)        == IF t = s THEN Gone ELSE t

GhostRows(s, rows) == [i \in DOMAIN rows |-> IF rows[i].seq = s
                         THEN [rows[i] EXCEPT !.seq = Gone, !.len = 0] ELSE rows[i]]

\* The end of session s.
EndStep(s) ==
    /\ UNCHANGED <<afterChunk, rounds, shorts, built, setup, pc, turn>>
    /\ pc \in Await /\ SeqShape' /\ toEvict' \subseteq Slots
    /\ \A t \in Seqs : /\ status'[t] = IF t = s THEN "none" ELSE status[t]
                       /\ kind'[t] = IF t = s THEN "generate" ELSE kind[t]
                       /\ t # s => len'[t] = len[t] /\ hist'[t] = hist[t]
    /\ running' \in Seq(Slots) /\ Len(running') = Len(running)
    /\ \A i \in DOMAIN running : running'[i] = Ghost(s, running[i])
    /\ chunk' \in [seq : Slots, step : Int] /\ (chunk'.seq \in Seqs => chunk'.step \in Nat)
    /\ \/ chunk' = [chunk EXCEPT !.seq = Ghost(s, chunk.seq)]
       \/ chunk' = NoChunk /\ (chunk.seq \notin Active' \/ chunk.seq = s)
    /\ queue' = [i \in DOMAIN queue |-> [queue[i] EXCEPT !.rows = GhostRows(s, queue[i].rows)]]
    /\ batch' = GhostRows(s, batch)

\* The loop marks what it sent as running.
ActivateStep ==
    /\ UNCHANGED <<len, held, limit, kind, arrival, toEvict, afterChunk, rounds, shorts, workVars, turn>>
    /\ pc \in {"sent", "next"} /\ pc' = "prefetch"
    /\ SeqShape' /\ MakerShape'
    /\ Len(queue) = 1 /\ Head1 \in ForwardSet /\ 1 \in DOMAIN queue /\ queue[1] = Head1
    /\ \A t \in Seqs : status'[t] = IF status[t] = "READY" /\ Has(Head1, t) THEN "RUNNING" ELSE status[t]
    /\ running' = ListAfter
    /\ chunk'.seq = chunk.seq
    /\ \A t \in Seqs : hist'[t] # hist[t] => Head1.lane = "chunk" /\ t = chunk.seq

\* The loop collects the outputs of the oldest forward.
CollectStep ==
    /\ UNCHANGED <<held, limit, kind, arrival, running, afterChunk, rounds, shorts, setup, turn>>
    /\ pc = "wait" /\ queue # <<>> /\ queue' = Tail(queue)
    /\ pc' = (IF Len(queue) = 1 THEN "send" ELSE "next")
    /\ SeqShape' /\ chunk' \in [seq : Slots, step : Int] /\ toEvict' = {}
    /\ batch' \in Seq(CarriedSet) /\ built' \in BOOLEAN /\ batch' = BatchAfter(Head1)
    /\ Running' \subseteq Running /\ Active' \subseteq Active
    /\ \A t \in Seqs : /\ (status'[t] = "none") = (status[t] = "none")
                       /\ status'[t] = "READY" => status[t] = "READY"
    /\ \A t \in Running' : Takes(t) => Generates(t)
    /\ \A t \in Seqs : /\ hist'[t] = IF Takes(t) THEN len[t] ELSE hist[t]
                       /\ len'[t] = IF Takes(t) /\ Generates(t) THEN len[t] + 1 ELSE len[t]
    /\ chunk' = chunk \/ (chunk' = NoChunk /\ chunk.seq \notin Active')

\* Every step is one of these.
Steps ==
    \/ MildStep \/ (\E s \in Seqs : EndStep(s)) \/ BeginStep \/ QuietStep \/ PageStep \/ Sends
    \/ ActivateStep \/ CollectStep

\* The forward f as each lane sends it.
SentPrefill(f) ==
    /\ Sent(f) /\ f.lane = "prefill"
    /\ running' = [i \in DOMAIN ValidPositions |-> running[ValidPositions[i]]]
    /\ \E ss \in Seq(Seqs) :
         /\ DOMAIN f.rows = DOMAIN ss
         /\ \A i \in DOMAIN ss : f.rows[i] = PrefillRow(ss[i], len[ss[i]])
         /\ f.scoring = (\E i \in DOMAIN ss : kind[ss[i]] = "score")
         /\ \/ pc = "admit" /\ ss = turn.batch /\ chunk' = chunk
            \/ ss = <<chunk.seq>> /\ chunk.seq \in Seqs /\ chunk' = NoChunk
    /\ f.reindex = ~AllValid /\ f.keep = IF AllValid THEN <<>> ELSE ValidPositions

SentChunk(f) ==
    /\ Sent(f) /\ f.lane = "chunk" /\ ~f.reindex
    /\ running' = running /\ chunk'.seq \in Seqs /\ f.scoring = (kind[chunk'.seq] = "score")
    /\ \E l : f.rows = <<PrefillRow(chunk'.seq, l)>>
    /\ \/ chunk' = chunk
       \/ pc = "admit" /\ turn.batch # <<>> /\ chunk'.seq = turn.batch[1] /\ IsLong(turn.batch[1])

SentDecode(f) ==
    /\ Sent(f) /\ f.lane = "decode" /\ f.reindex /\ ~f.scoring /\ pc = "grow" /\ turn.left = 0
    /\ running' = running /\ chunk' = chunk
    /\ DOMAIN f.rows = DOMAIN turn.keep /\ f.keep = turn.keep
    /\ \A i \in DOMAIN turn.keep : f.rows[i] = DecodeRow(running[turn.keep[i]])

\* Nobody's history changes but that of a running sequence and of the chunked one.
HistoryKept == \A t \in Seqs : status[t] \in {"READY", "RUNNING"} \/ t = chunk.seq => hist'[t] = hist[t]

\* Where the forwards stand, at each place of the loop.
PlaceShape ==
    /\ queue \in Seq(ForwardSet) /\ Len(queue) \in Nat /\ Len(queue) <= 2
    /\ (queue = <<>> <=> Len(queue) = 0) /\ DOMAIN queue = 1..Len(queue)
    /\ pc \in InPass \cup {"send", "prefetch"} => Unstarted = {} /\ Len(queue) <= 1
    /\ pc \in InPass \cup {"send", "prefetch", "wait"} => (Started <=> queue # <<>>)
    /\ pc \in {"sent", "next"} => Unstarted = {queue[1]} /\ ~Started /\ Len(queue) = 1
    /\ pc = "wait" => /\ Started /\ 1 \in DOMAIN queue
                      /\ Len(queue) = 1 => Unstarted = {}
                      /\ Len(queue) = 2 => Unstarted = {queue[2]}
    /\ \A f \in Unstarted : \E q \in DOMAIN queue : f = queue[q]
    /\ pc \in InPass \cup {"send", "sent", "next", "prefetch", "wait"}

\* What the end of session e makes of a forward.
Ghosted(e, f, g) ==
    /\ g.lane = f.lane /\ g.reindex = f.reindex /\ g.keep = f.keep /\ g.scoring = f.scoring
    /\ Len(g.rows) = Len(f.rows) /\ DOMAIN g.rows = DOMAIN f.rows
    /\ \A i \in DOMAIN f.rows : /\ g.rows[i].seq = Ghost(e, f.rows[i].seq)
                                /\ g.rows[i].gen = f.rows[i].gen
                                /\ f.rows[i].seq # e => g.rows[i] = f.rows[i]

\* A position of the list that still runs is ahead, or was kept.
KeptOf(t) == \A i \in DOMAIN running : running[i] \in Running =>
                i <= t.left \/ \E j \in DOMAIN t.keep : t.keep[j] = i

\* What SteppedOnce and WholePromptFirst need, while ChunkApart holds.
Sound == Frame /\ Flow /\ Distinct /\ Whole

\* The rows after the forward f, of a worker that had the given ones.
After(f, rows) ==
    IF f.scoring \/ f.lane = "chunk" THEN Selected(f, rows)
    ELSE IF f.lane = "decode" THEN Grown(Selected(f, rows))
    ELSE Selected(f, rows) \o Grown(f.rows)

\* Rows that differ at most where the first have the sequence e.
SameBut(e, rows, rows2) ==
    /\ Len(rows2) = Len(rows) /\ DOMAIN rows2 = DOMAIN rows
    /\ \A i \in DOMAIN rows : rows[i].seq # e => rows2[i] = rows[i]

\* Rows that stand where the list has its running sequences.
Matches(rows, list, R, due) ==
    \A i \in DOMAIN list : list[i] \in R => i \in DOMAIN rows /\ rows[i] = [seq |-> list[i], len |-> due[list[i]]]

\* The rows a forward decodes stand where they are due.
Picks(f, rows, R, due) ==
    \A i \in DOMAIN f.rows : f.rows[i].seq \in R =>
        Selected(f, rows)[i] = [seq |-> f.rows[i].seq, len |-> due[f.rows[i].seq]]

\* What the forwards of U, not yet started, will find.
PendingOf(U, rows, list, R, due, A, l) ==
    /\ (\A f \in U : f.lane = "chunk") => Len(rows) <= Len(list) /\ Matches(rows, list, R, due)
    /\ \A f \in U : f.lane = "decode" => Picks(f, rows, R, due)
    /\ \A f \in U : f.lane = "prefill" =>
         /\ Len(Selected(f, rows)) = Len(list) /\ Matches(Selected(f, rows), list, R, due)
         /\ \A i \in DOMAIN f.rows : f.rows[i].seq \in A => f.rows[i].len = l[f.rows[i].seq]

\* The blocks the sequences of S hold.
Cells(S) == UNION {{s} \X (1..held[s]) : s \in S}

\* The invariant under CalmEngines.
Poised == Sound /\ Aligned /\ Calm

\* A message for s arrives.
Adds(s) == \E k \in Kinds, n \in PromptLens : AddMessage(s, k, n)

\* What a pass that asks for blocks does.
Admits(s) ==
    /\ pc = "admit" /\ turn.todo # <<>> /\ s = turn.todo[1] /\ status[s] = "WAITING"
    /\ status' = [status EXCEPT ![s] = "READY"]
    /\ turn' = [turn EXCEPT !.todo = IF IsLong(s) THEN <<>> ELSE Tail(@),
                            !.batch = Append(@, s),
                            !.used = @ + Cost(s)]

GivesUp      == /\ pc = "admit" /\ status' = status /\ turn' = [turn EXCEPT !.todo = <<>>]

ChunkWaits   == /\ TryChunk /\ status' = status /\ turn' = [turn EXCEPT !.plan = Tail(@)]
                /\ setup.patient /\ \E t \in Active : t # chunk.seq

RowGrows     == /\ pc = "grow" /\ turn.left > 0 /\ running[turn.left] \in Running
                /\ status' = status /\ Keep(turn.left)

RowRefused(s) == /\ pc = "grow" /\ turn.left > 0 /\ s = running[turn.left] /\ s \in Running /\ s # chunk.seq
                 /\ status' = [status EXCEPT ![s] = "WAITING"] /\ Drop(turn.left)
                 /\ setup.patient /\ \E t \in Active : t # s

\* The plan p still holds the lane l.
On(p, l) == \E i \in DOMAIN p : p[i] = l

=========================================================================
