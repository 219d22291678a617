-------------------------- MODULE RequestFlow_proofs --------------------------
(***************************************************************************)
(* Proofs about the request path, for any number of clients and tokens.    *)
(***************************************************************************)
EXTENDS RequestFlowProps, SequenceTheorems, TLAPS

---------------------------------------------------------------------------
(* Types.  Bounds on tokens and on queues need more and come later.        *)

Places    == {"new", "gate", "recv", "stopping", "ending", "closed"}
Answers   == {"none", "FINISH", "CANCEL", "SUCCESS", "STOP_ERROR"}
Responses == [type : {"INIT", "SUCCESS", "FINISH", "CANCEL"}, tokens : Nat, lps : Nat,
              done : BOOLEAN, event : BOOLEAN]
Statuses  == {"none", "WAITING", "RUNNING", "STOPPED", "TO_BE_MIGRATED",
              "MIGRATION_WAITING", "MIGRATION_READY", "MIGRATION_DONE"}
Outputs   == [tokens : Nat, fin : BOOLEAN, lps : Nat]
Batches   == Seq(SUBSET Clients)
Messages  == {"ADD", "STOP", "END"} \X Clients

Typed ==
    /\ setup \in Setups
    /\ client \in [Clients -> Places] /\ owes \in [Clients -> BOOLEAN]
    /\ seen \in [Clients -> [tokens : Nat, lps : Nat]]
    /\ answer \in [Clients -> Answers] /\ resp \in [Clients -> Responses]
    /\ requests \subseteq Messages
    /\ status \in [Clients -> Statuses] /\ gen \in [Clients -> Nat]
    /\ pc \in {"top", "idle", "sent", "out", "drained"}
    /\ mine \in Batches /\ work \in Batches /\ step \in Batches /\ outs \in Batches
    /\ out \in [Clients -> Outputs]
    /\ mpc \in {"top", "nap", "wait", "busy", "spin", "drained"} /\ ready \subseteq Clients
    /\ slp \in {"awake", "drain", "ending", "asleep"}
    /\ blocked \in BOOLEAN /\ runable \in BOOLEAN /\ mevent \in BOOLEAN /\ alive \in BOOLEAN
    /\ sleepReq \in BOOLEAN /\ mainAck \in BOOLEAN /\ migAck \in BOOLEAN

\* A response that says nothing yet has nothing to read.
Silent == \A c \in Clients : resp[c].type = "INIT" => ~resp[c].event /\ ~resp[c].done

\* The main loop has one forward under way and prefetches one more; it sleeps
\* with none.
Paced ==
    /\ pc \in {"idle", "drained"} => Len(mine) = 0
    /\ pc = "top" => Len(mine) \in {0, 1}
    /\ pc = "sent" => Len(mine) = 1
    /\ pc = "out" => Len(mine) \in {1, 2}
    /\ slp # "awake" /\ mainAck => pc = "drained"
    /\ slp \in {"ending", "asleep"} => mainAck

Shape == Typed /\ Silent /\ Paced

\* Sizes of batch queues, in the form the steps need.
LEMMA Queues ==
    ASSUME NEW q \in Batches, NEW b \in SUBSET Clients
    PROVE  Append(q, b) \in Batches /\ Len(Append(q, b)) = Len(q) + 1
BY AppendProperties DEF Batches

LEMMA Sizes ==
    ASSUME NEW q \in Batches
    PROVE  /\ Len(q) \in Nat /\ (q = <<>> <=> Len(q) = 0)
           /\ q # <<>> => /\ Tail(q) \in Batches /\ Len(Tail(q)) = Len(q) - 1
                          /\ Head(q) \in SUBSET Clients
BY HeadTailProperties, LenProperties, EmptySeq DEF Batches

LEMMA NoBatches == <<>> \in Batches /\ Len(<<>>) = 0
BY DEF Batches

\* What rejecting a response and reading it leave.
LEMMA RejectedIs ==
    ASSUME NEW r \in Responses
    PROVE  /\ Rejected(r) \in Responses /\ Rejected(r).type = "CANCEL"
           /\ Rejected(r).done /\ Rejected(r).event
           /\ Rejected(r).tokens = r.tokens /\ Rejected(r).lps = r.lps
BY DEF Rejected, Responses

LEMMA TakenIs ==
    ASSUME NEW r \in Responses
    PROVE  /\ Taken(r) \in Responses /\ Taken(r).type = r.type /\ Taken(r).done = r.done
           /\ ~Taken(r).event /\ Taken(r).tokens = r.tokens /\ Taken(r).lps = 0
BY DEF Taken, Responses

LEMMA ShapeInit == Init => Shape
<1> SUFFICES ASSUME Init PROVE Shape
    OBVIOUS
<1>1. Fresh \in Responses /\ NoOut \in Outputs
    BY DEF Fresh, NoOut, Responses, Outputs
<1>2. Typed
    BY <1>1, NoBatches DEF Init, Typed, Places, Answers, Statuses
<1>3. Silent
    BY DEF Init, Silent, Fresh
<1>4. Paced
    BY NoBatches DEF Init, Paced
<1> QED
    BY <1>2, <1>3, <1>4 DEF Shape

\* What nothing but the main loop and sleep disturb.
LEMMA PacedKept ==
    ASSUME Paced, UNCHANGED <<mine, slp, mainAck>>, pc' = pc \/ (pc = "idle" /\ pc' = "top")
    PROVE  Paced'
BY DEF Paced

LEMMA ShapeClient ==
    ASSUME Shape, NEW c \in Clients, Infer(c) \/ Receive(c) \/ Leave(c) \/ Abort(c)
    PROVE  Shape'
<1>1. <<"ADD", c>> \in Messages /\ <<"STOP", c>> \in Messages /\ <<"END", c>> \in Messages
    BY DEF Messages
<1>2. resp[c] \in Responses
    BY DEF Shape, Typed
<1>3. CASE Infer(c)
    <2>1. Paced'
        BY <1>3, PacedKept DEF Infer, Shape, mainVars, sleepVars
    <2>2. client' \in [Clients -> Places] /\ owes' \in [Clients -> BOOLEAN] /\ requests' \subseteq Messages
        BY <1>1, <1>3 DEF Infer, Shape, Typed, Places
    <2>3. resp' = resp \/ resp' = [resp EXCEPT ![c] = Rejected(resp[c])]
        BY <1>3 DEF Infer
    <2>4. resp' \in [Clients -> Responses] /\ Silent'
        BY <1>2, <2>3, RejectedIs DEF Shape, Typed, Silent
    <2> QED
        BY <1>3, <2>1, <2>2, <2>4 DEF Infer, Shape, Typed, seqVars, mainVars, workVars, migVars, sleepVars
<1>4. CASE Gate(c)
    <2>1. Paced'
        BY <1>4, PacedKept DEF Gate, Shape, mainVars, sleepVars
    <2> QED
        BY <1>4, <2>1
        DEF Gate, Shape, Typed, Silent, Places, reqVars, seqVars, mainVars, workVars, migVars, sleepVars
<1>5. CASE Read(c)
    <2>1. Paced'
        BY <1>5, PacedKept DEF Read, Shape, mainVars, sleepVars
    <2>2. resp[c].type \in Answers
        BY <1>2, <1>5 DEF Read, Shape, Silent, Responses, Answers
    <2>3. /\ client' \in [Clients -> Places] /\ answer' \in [Clients -> Answers]
          /\ requests' \subseteq Messages
        <3>1. CASE Continues(resp[c])
            BY <1>5, <3>1 DEF Read, Shape, Typed, Places
        <3>2. CASE ~Continues(resp[c])
            <4>1. answer' = [answer EXCEPT ![c] = resp[c].type] /\ Ends(c)
                BY <1>5, <3>2 DEF Read
            <4>2. answer' \in [Clients -> Answers]
                BY <2>2, <4>1 DEF Shape, Typed
            <4>3. client' \in [Clients -> Places] /\ requests' \subseteq Messages
                BY <1>1, <4>1 DEF Ends, Shape, Typed, Places
            <4> QED
                BY <4>2, <4>3
        <3> QED
            BY <3>1, <3>2
    <2>4. resp' = [resp EXCEPT ![c] = Taken(resp[c])]
        BY <1>5 DEF Read
    <2>5. resp' \in [Clients -> Responses] /\ Silent'
        BY <1>2, <2>4, TakenIs DEF Shape, Typed, Silent
    <2>6. seen' \in [Clients -> [tokens : Nat, lps : Nat]]
        <3>1. /\ resp[c].tokens \in Nat /\ resp[c].lps \in Nat /\ seen[c].lps \in Nat
              /\ seen \in [Clients -> [tokens : Nat, lps : Nat]]
            BY <1>2 DEF Shape, Typed, Responses
        <3> QED
            BY <1>5, <3>1 DEF Read
    <2> QED
        BY <1>5, <2>1, <2>3, <2>5, <2>6
        DEF Read, Shape, Typed, seqVars, mainVars, workVars, migVars, sleepVars
<1>6. CASE NoEngine(c) \/ Close(c)
    <2>1. Paced'
        BY <1>6, PacedKept DEF NoEngine, Close, Shape, mainVars, sleepVars
    <2>2. /\ client' \in [Clients -> Places] /\ answer' \in [Clients -> Answers]
          /\ requests' \subseteq Messages
        BY <1>1, <1>6 DEF NoEngine, Close, Ends, Shape, Typed, Places, Answers
    <2> QED
        BY <1>6, <2>1, <2>2
        DEF NoEngine, Close, Shape, Typed, Silent, seqVars, mainVars, workVars, migVars, sleepVars
<1>7. CASE Leave(c) \/ Abort(c)
    <2>1. Paced'
        BY <1>7, PacedKept DEF Leave, Abort, Shape, mainVars, sleepVars
    <2>2. client' \in [Clients -> Places] /\ requests' \subseteq Messages
        BY <1>1, <1>7 DEF Leave, Abort, Shape, Typed, Places, clientVars
    <2> QED
        BY <1>7, <2>1, <2>2
        DEF Leave, Abort, Shape, Typed, Silent, clientVars, seqVars, mainVars, workVars, migVars, sleepVars
<1> QED
    BY <1>3, <1>4, <1>5, <1>6, <1>7 DEF Receive

\* What handling requests does to one session.
LEMMA AfterEndTyped ==
    ASSUME Typed, NEW c \in Clients
    PROVE  AfterEnd(c) \in Statuses
BY DEF AfterEnd, AfterStop, AfterAdd, Statuses, Typed

LEMMA ShapeProcess == ASSUME Shape, Process PROVE Shape'
<1>1. status' \in [Clients -> Statuses]
    BY AfterEndTyped DEF Process, Shape
<1>2. resp' \in [Clients -> Responses] /\ Silent'
    BY RejectedIs DEF Process, Shape, Typed, Silent
<1>3. alive' \in BOOLEAN /\ mevent' \in BOOLEAN
    BY DEF Process, Shape, Typed
<1>4. runable' \in BOOLEAN
    BY DEF Process, Runnable
<1>5. pc' = pc \/ (pc = "idle" /\ pc' = "top")
    BY DEF Process, Woken
<1>6. Paced'
    BY <1>5, PacedKept DEF Process, Shape, sleepVars
<1> QED
    BY <1>1, <1>2, <1>3, <1>4, <1>5, <1>6 DEF Process, Shape, Typed, clientVars, workVars, sleepVars

\* Sending a batch.
LEMMA PassesTyped == ASSUME NEW batch \in Passes PROVE batch \in SUBSET Clients
BY DEF Passes, WithStatus

LEMMA ShapeDispatch ==
    ASSUME Typed, NEW batch \in Passes, Dispatch(batch)
    PROVE  /\ status' \in [Clients -> Statuses] /\ mine' \in Batches /\ work' \in Batches
           /\ Len(mine') = Len(mine) + 1
<1>1. mine' \in Batches /\ work' \in Batches /\ Len(mine') = Len(mine) + 1
    BY PassesTyped, Queues DEF Dispatch, Typed
<1>2. status' \in [Clients -> Statuses]
    BY DEF Dispatch, Resumed, Typed, Statuses
<1> QED
    BY <1>1, <1>2

LEMMA ShapeMain == ASSUME Shape, MainLoop PROVE Shape'
<1>1. CASE Idle
    BY <1>1, Sizes
    DEF Idle, Shape, Typed, Silent, Paced, clientVars, reqVars, seqVars, workVars, migVars, sleepVars
<1>2. ASSUME NEW batch \in SUBSET Clients, Send(batch) PROVE Shape'
    <2>1. /\ status' \in [Clients -> Statuses] /\ mine' \in Batches /\ work' \in Batches
          /\ Len(mine') = 1
        BY <1>2, ShapeDispatch, NoBatches DEF Send, Shape
    <2>2. Paced'
        BY <1>2, <2>1 DEF Send, Shape, Paced, sleepVars
    <2> QED
        BY <1>2, <2>1, <2>2
        DEF Send, Shape, Typed, Silent, clientVars, reqVars, migVars, sleepVars
<1>3. CASE Prefetch
    <2>1. Len(mine) = 1
        BY <1>3, Sizes DEF Prefetch, Shape, Paced, Typed
    <2>2. /\ status' \in [Clients -> Statuses] /\ mine' \in Batches /\ work' \in Batches
          /\ Len(mine') \in {1, 2}
        BY <1>3, <2>1, ShapeDispatch DEF Prefetch, Shape, Typed
    <2>3. Paced'
        BY <1>3, <2>2 DEF Prefetch, Shape, Paced, sleepVars
    <2> QED
        BY <1>3, <2>2, <2>3 DEF Prefetch, Shape, Typed, Silent, clientVars, reqVars, migVars, sleepVars
<1>4. ASSUME NEW finished \in SUBSET Clients, Collect(finished) PROVE Shape'
    <2>1. mine' \in Batches /\ outs' \in Batches /\ Len(mine') \in {0, 1}
        BY <1>4, Sizes DEF Collect, Shape, Typed, Paced
    <2>2. gen' \in [Clients -> Nat]
        BY <1>4 DEF Collect, Shape, Typed
    <2>3. ASSUME NEW c \in Clients PROVE out'[c] \in Outputs /\ status'[c] \in Statuses
        <3>1. gen'[c] \in Nat /\ out[c].lps + 1 \in Nat /\ out[c] \in Outputs
            BY <2>2 DEF Shape, Typed, Outputs
        <3>2. Queued(c, gen'[c], c \in finished) \in Outputs
            BY <3>1 DEF Queued, Outputs
        <3>3. out'[c] \in Outputs
            <4> DEFINE live == {d \in Head(mine) : status[d] = "RUNNING"}
            <4>1. out'[c] = IF c \in live THEN Queued(c, gen'[c], c \in finished) ELSE out[c]
                BY <1>4, Zenon DEF Collect
            <4> QED
                BY <3>1, <3>2, <4>1
        <3>4. status'[c] \in Statuses
            BY <1>4 DEF Collect, Shape, Typed, Statuses
        <3> QED
            BY <3>3, <3>4
    <2>4. out' \in [Clients -> Outputs] /\ status' \in [Clients -> Statuses]
        BY <1>4, <2>3 DEF Collect
    <2>5. runable' \in BOOLEAN
        BY <1>4 DEF Collect, Runnable
    <2>6. Paced'
        <3>1. pc = "out" /\ pc' = "top" /\ UNCHANGED <<slp, mainAck>>
            BY <1>4 DEF Collect, sleepVars
        <3> QED
            BY <2>1, <3>1 DEF Shape, Paced
    <2> QED
        BY <1>4, <2>1, <2>2, <2>4, <2>5, <2>6
        DEF Collect, Shape, Typed, Silent, clientVars, reqVars, migVars, sleepVars
<1>5. CASE MainDrains
    BY <1>5, NoBatches
    DEF MainDrains, Shape, Typed, Silent, Paced, clientVars, reqVars, seqVars, workVars, migVars
<1> QED
    BY <1>1, <1>2, <1>3, <1>4, <1>5 DEF MainLoop

LEMMA ShapeWorker == ASSUME Shape, Worker \/ Respond PROVE Shape'
<1>1. CASE Forward
    <2>1. work' \in Batches /\ step' \in Batches /\ outs' \in Batches
        <3>1. <<Head(work)>> \in Batches
            BY <1>1, Sizes DEF Forward, Shape, Typed, Batches
        <3> QED
            BY <1>1, <3>1, Sizes, Queues DEF Forward, Shape, Typed
    <2> QED
        BY <1>1, <2>1, PacedKept
        DEF Forward, Shape, Typed, Silent, clientVars, reqVars, seqVars, mainVars, migVars, sleepVars
<1>2. CASE PushOutput
    <2>1. outs' \in Batches /\ step' \in Batches
        BY <1>2, NoBatches, ConcatProperties DEF PushOutput, Shape, Typed, Batches
    <2> QED
        BY <1>2, <2>1, PacedKept
        DEF PushOutput, Shape, Typed, Silent, clientVars, reqVars, seqVars, mainVars, migVars, sleepVars
<1>3. CASE Respond
    <2>1. ASSUME NEW c \in Clients
          PROVE  resp'[c] \in Responses /\ (resp'[c].type = "INIT" => ~resp'[c].event /\ ~resp'[c].done)
        <3>1. resp[c] \in Responses /\ out[c] \in Outputs
            BY DEF Shape, Typed
        <3>2. CASE resp'[c] = resp[c]
            BY <3>1, <3>2 DEF Shape, Silent
        <3>3. CASE resp'[c] = [resp[c] EXCEPT !.type = SentType(c), !.tokens = out[c].tokens,
                                              !.lps = PiledLogprobs(c), !.event = TRUE]
            <4>1. SentType(c) \in {"SUCCESS", "FINISH", "CANCEL"}
                BY <3>1 DEF SentType, Responses, Shape, Silent
            <4>2. PiledLogprobs(c) \in Nat
                BY <3>1 DEF PiledLogprobs, Responses, Outputs
            <4> QED
                BY <3>1, <3>3, <4>1, <4>2 DEF Responses, Outputs
        <3> QED
            BY <1>3, <3>2, <3>3 DEF Respond
    <2>2. resp' \in [Clients -> Responses] /\ Silent'
        BY <1>3, <2>1 DEF Respond, Silent
    <2>3. out' \in [Clients -> Outputs]
        BY <1>3 DEF Respond, NoOut, Outputs
    <2>4. Paced'
        BY <1>3, PacedKept DEF Respond, Shape, mainVars, sleepVars
    <2>5. UNCHANGED <<clientVars, reqVars, seqVars, mainVars, workVars, migVars, sleepVars, alive, setup>>
        BY <1>3 DEF Respond
    <2> QED
        BY <2>2, <2>3, <2>4, <2>5
        DEF Shape, Typed, clientVars, reqVars, seqVars, mainVars, workVars, migVars, sleepVars
<1> QED
    BY <1>1, <1>2, <1>3 DEF Worker

LEMMA ShapeMigration == ASSUME Shape, MigrationLoop PROVE Shape'
<1>1. ASSUME NEW batch \in SUBSET Clients, Admit(batch) PROVE Shape'
    <2>1. status' \in [Clients -> Statuses]
        BY <1>1 DEF Admit, Shape, Typed, Statuses
    <2> QED
        BY <1>1, <2>1, PacedKept
        DEF Admit, Shape, Typed, Silent, clientVars, reqVars, mainVars, workVars, sleepVars
<1>2. CASE NoneAdmitted \/ MigDrains
    <2>1. Paced'
        BY <1>2, PacedKept DEF NoneAdmitted, MigDrains, Shape, mainVars, sleepVars
    <2>2. CASE NoneAdmitted
        BY <2>1, <2>2
        DEF NoneAdmitted, Shape, Typed, Silent, clientVars, reqVars, seqVars, mainVars, workVars, sleepVars
    <2>3. CASE MigDrains
        BY <2>1, <2>3
        DEF MigDrains, Shape, Typed, Silent, clientVars, reqVars, seqVars, mainVars, workVars
    <2> QED
        BY <1>2, <2>2, <2>3
<1>3. CASE Migrated
    <2>1. ASSUME NEW c \in Clients
          PROVE  /\ resp'[c] \in Responses
                 /\ resp'[c].type = "INIT" => ~resp'[c].event /\ ~resp'[c].done
                 /\ out'[c] \in Outputs
        <3>1. resp[c] \in Responses /\ out[c] \in Outputs
            BY DEF Shape, Typed
        <3>2. [resp[c] EXCEPT !.type = "SUCCESS"] \in Responses
            BY <3>1 DEF Responses
        <3>3. [resp[c] EXCEPT !.type = "SUCCESS"].type = "SUCCESS"
            BY <3>1 DEF Responses
        <3>4. [NoOut EXCEPT !.tokens = 1] \in Outputs
            BY DEF NoOut, Outputs
        <3> QED
            BY <1>3, <3>1, <3>2, <3>3, <3>4 DEF Migrated, Shape, Silent
    <2>2. resp' \in [Clients -> Responses] /\ Silent' /\ out' \in [Clients -> Outputs]
        BY <1>3, <2>1 DEF Migrated, Silent
    <2>3. status' \in [Clients -> Statuses] /\ gen' \in [Clients -> Nat]
        BY <1>3 DEF Migrated, Shape, Typed, Statuses
    <2>4. runable' \in BOOLEAN /\ (pc' = pc \/ (pc = "idle" /\ pc' = "top"))
        BY <1>3 DEF Migrated, Runnable, Woken
    <2>5. Paced'
        BY <1>3, <2>4, PacedKept DEF Migrated, Shape, sleepVars
    <2> QED
        BY <1>3, <2>2, <2>3, <2>4, <2>5, ZenonT(30)
        DEF Migrated, Shape, Typed, clientVars, reqVars, workVars, sleepVars
<1> QED
    BY <1>1, <1>2, <1>3 DEF MigrationLoop

LEMMA ShapeSleep == ASSUME Shape, StartSleep \/ Sleeper \/ Wakeup PROVE Shape'
<1>1. CASE StartSleep
    <2>1. Paced'
        BY <1>1 DEF StartSleep, Shape, Paced, WokenToDrain, Woken
    <2>2. pc' \in {"top", "idle", "sent", "out", "drained"} /\ mevent' \in BOOLEAN /\ migAck' \in BOOLEAN
        BY <1>1 DEF StartSleep, Shape, Typed, WokenToDrain, Woken, MigNeedsNoAck
    <2> QED
        BY <1>1, <2>1, <2>2 DEF StartSleep, Shape, Typed, Silent, clientVars, seqVars, workVars
<1>2. CASE CancelAll
    <2>1. resp' \in [Clients -> Responses] /\ Silent'
        BY <1>2, RejectedIs DEF CancelAll, Shape, Typed, Silent
    <2>2. Paced'
        BY <1>2 DEF CancelAll, Shape, Paced, mainVars
    <2> QED
        BY <1>2, <2>1, <2>2
        DEF CancelAll, Shape, Typed, Statuses, clientVars, reqVars, mainVars, workVars, migVars
<1>3. CASE WorkerSleeps
    <2>1. Paced'
        BY <1>3 DEF WorkerSleeps, Shape, Paced, mainVars
    <2> QED
        BY <1>3, <2>1, NoBatches
        DEF WorkerSleeps, Drained, Shape, Typed, Silent, clientVars, reqVars, seqVars, mainVars, migVars
<1>4. CASE Wakeup
    <2>1. Paced'
        BY <1>4 DEF Wakeup, Shape, Paced
    <2>2. runable' \in BOOLEAN
        BY <1>4 DEF Wakeup, Runnable
    <2> QED
        BY <1>4, <2>1, <2>2 DEF Wakeup, Shape, Typed, Silent, clientVars, seqVars, workVars
<1> QED
    BY <1>1, <1>2, <1>3, <1>4 DEF Sleeper

LEMMA ShapeStep == Shape /\ [Next]_vars => Shape'
<1> SUFFICES ASSUME Shape, [Next]_vars PROVE Shape'
    OBVIOUS
<1>1. ASSUME NEW c \in Clients, RemoteFree(c) PROVE Shape'
    BY <1>1, PacedKept
    DEF RemoteFree, Shape, Typed, Silent, Statuses, clientVars, reqVars, mainVars, workVars, migVars,
        sleepVars
<1>2. CASE Crash
    <2>1. Paced'
        BY <1>2, PacedKept DEF Crash, Shape, mainVars, sleepVars
    <2>2. alive' \in BOOLEAN
        BY <1>2 DEF Crash
    <2>3. UNCHANGED <<clientVars, resp, reqVars, seqVars, mainVars, workVars, out, migVars, sleepVars, setup>>
        BY <1>2 DEF Crash
    <2> QED
        BY <2>1, <2>2, <2>3
        DEF Shape, Typed, Silent, clientVars, reqVars, seqVars, mainVars, workVars, migVars, sleepVars
<1>3. CASE UNCHANGED vars
    BY <1>3, PacedKept
    DEF vars, Shape, Typed, Silent, clientVars, reqVars, seqVars, mainVars, workVars, migVars, sleepVars
<1> QED
    BY <1>1, <1>2, <1>3, ShapeClient, ShapeProcess, ShapeMain, ShapeWorker, ShapeMigration, ShapeSleep
    DEF Next

---------------------------------------------------------------------------
(* What a client's place says of its session.                              *)

Settled  == {"none", "STOPPED", "TO_BE_MIGRATED"}
Added(c) == <<"ADD", c>> \in requests

\* Only a client that sent its message has a session, or will get one.
Arrives(c) ==
    /\ client[c] = "new" => ~owes[c] /\ resp[c].type = "INIT" /\ out[c] = NoOut
    /\ ~owes[c] => status[c] = "none" /\ ~Added(c) /\ c \notin ready
    /\ Added(c) => status[c] = "none"

\* A client ends its session when it is through with its message.
Departs(c) ==
    /\ <<"END", c>> \in requests => client[c] \in {"ending", "closed"}
    /\ answer[c] # "none" => client[c] \in {"ending", "closed"}
    /\ alive /\ ~Preserves =>
         /\ client[c] = "ending" => <<"END", c>> \in requests \/ (status[c] = "none" /\ ~Added(c))
         /\ client[c] = "closed" => status[c] = "none" /\ ~Added(c)

\* A sequence whose KV is being fetched does not run.
Fetched(c) ==
    c \in ready => status[c] \in {"none", "STOPPED", "MIGRATION_READY"} /\ ~Added(c)

\* A sequence that has finished does not run again.
Finished(c) ==
    resp[c].type = "FINISH" \/ out[c].fin => status[c] \in Settled /\ ~Added(c) /\ c \notin ready

Place(c) == Arrives(c) /\ Departs(c) /\ Fetched(c) /\ Finished(c)
Placed == \A c \in Clients : Place(c)

LEMMA PlacedInit == Init => Placed
BY DEF Init, Placed, Place, Arrives, Departs, Fetched, Finished, Added, Fresh, NoOut

\* Nothing of a client's place changes.
LEMMA PlaceKept ==
    ASSUME NEW c \in Clients, Place(c),
           client'[c] = client[c] /\ owes'[c] = owes[c] /\ answer'[c] = answer[c],
           resp'[c].type = resp[c].type /\ out'[c] = out[c],
           \A k \in {"ADD", "END"} : <<k, c>> \in requests' <=> <<k, c>> \in requests,
           status'[c] = status[c] /\ (c \in ready' <=> c \in ready),
           alive' => alive, setup' = setup
    PROVE  Place(c)'
BY DEF Place, Arrives, Departs, Fetched, Finished, Added, Preserves

LEMMA PlacedInfer ==
    ASSUME Shape, Placed, NEW c \in Clients, Infer(c) PROVE Placed'
<1> SUFFICES ASSUME NEW d \in Clients PROVE Place(d)'
    BY DEF Placed
<1>0. Place(c) /\ Place(d)
    BY DEF Placed
<1>1. CASE d # c
    <2>1. /\ client'[d] = client[d] /\ owes'[d] = owes[d] /\ resp'[d] = resp[d]
          /\ \A k \in {"ADD", "END"} : <<k, d>> \in requests' <=> <<k, d>> \in requests
        BY <1>1 DEF Infer, Shape, Typed
    <2>2. UNCHANGED <<answer, out, status, ready, alive, setup>>
        BY DEF Infer, seqVars, migVars
    <2> QED
        BY <1>0, <2>1, <2>2, PlaceKept
<1>2. CASE d = c
    <2>1. /\ client[c] = "new" /\ client'[c] = "gate"
          /\ UNCHANGED <<answer, out, status, ready, alive, setup>>
          /\ <<"END", c>> \in requests' <=> <<"END", c>> \in requests
        BY DEF Infer, seqVars, migVars, Shape, Typed
    <2>2. ~owes[c] /\ resp[c].type = "INIT" /\ ~out[c].fin
        BY <1>0, <2>1 DEF Place, Arrives, NoOut
    <2>3. CASE blocked
        <3>1. resp'[c].type = "CANCEL" /\ UNCHANGED <<owes, requests>>
            BY <2>3, RejectedIs DEF Infer, Shape, Typed
        <3> QED
            BY <1>0, <1>2, <2>1, <2>2, <3>1 DEF Place, Arrives, Departs, Fetched, Finished, Added
    <2>4. CASE ~blocked
        <3>1. resp' = resp /\ owes'[c]
            BY <2>4 DEF Infer, Shape, Typed
        <3> QED
            BY <1>0, <1>2, <2>1, <2>2, <3>1 DEF Place, Arrives, Departs, Fetched, Finished, Added
    <2> QED
        BY <2>3, <2>4
<1> QED
    BY <1>1, <1>2

LEMMA PlacedClient ==
    ASSUME Shape, Placed, NEW c \in Clients, Receive(c) \/ Leave(c) \/ Abort(c)
    PROVE  Placed'
<1> SUFFICES ASSUME NEW d \in Clients PROVE Place(d)'
    BY DEF Placed
<1>0. Place(c) /\ Place(d)
    BY DEF Placed
<1>1. UNCHANGED <<owes, out, status, ready, alive, setup>>
    BY DEF Receive, Gate, Read, NoEngine, Close, Leave, Abort, clientVars, seqVars, migVars
<1>2. resp'[d].type = resp[d].type
    BY TakenIs DEF Receive, Gate, Read, NoEngine, Close, Leave, Abort, Shape, Typed
<1>3. CASE d # c
    <2>1. /\ client'[d] = client[d] /\ answer'[d] = answer[d]
          /\ \A k \in {"ADD", "END"} : <<k, d>> \in requests' <=> <<k, d>> \in requests
        BY <1>3 DEF Receive, Gate, Read, NoEngine, Close, Ends, Leave, Abort, clientVars, reqVars,
                    Shape, Typed
    <2> QED
        BY <1>0, <1>1, <1>2, <2>1, PlaceKept
<1>4. CASE d = c
    <2>1. Added(c)' <=> Added(c)
        BY DEF Receive, Gate, Read, NoEngine, Close, Ends, Leave, Abort, reqVars, Added
    <2>2. CASE Gate(c) \/ Leave(c) \/ Abort(c) \/ (Read(c) /\ Continues(resp[c]))
        <3>1. /\ client[c] \in {"gate", "recv"} /\ client'[c] \in {"gate", "recv", "stopping"}
              /\ answer'[c] = answer[c]
              /\ <<"END", c>> \in requests' <=> <<"END", c>> \in requests
            BY <2>2 DEF Gate, Read, Leave, Abort, reqVars, clientVars, Shape, Typed
        <3> QED
            BY <1>0, <1>1, <1>2, <1>4, <2>1, <3>1
            DEF Place, Arrives, Departs, Fetched, Finished, Added, Preserves
    <2>3. CASE Ends(c)
        <3>1. \/ client'[c] = "closed" /\ ~owes[c]
              \/ client'[c] = "ending" /\ <<"END", c>> \in requests'
            BY <2>3 DEF Ends, Shape, Typed
        <3>2. <<"END", c>> \in requests => client[c] # "new"
            BY <1>0 DEF Place, Departs
        <3> QED
            BY <1>0, <1>1, <1>2, <1>4, <2>1, <3>1, <3>2
            DEF Place, Arrives, Departs, Fetched, Finished, Added, Preserves
    <2>4. CASE /\ client[c] = "ending" /\ Served("END", c) /\ answer' = answer
               /\ client' = [client EXCEPT ![c] = "closed"] /\ UNCHANGED requests
        <3>1. client'[c] = "closed"
            BY <2>4 DEF Shape, Typed
        <3> QED
            BY <1>0, <1>1, <1>2, <1>4, <2>1, <2>4, <3>1
            DEF Place, Arrives, Departs, Fetched, Finished, Added, Preserves, Served
    <2> QED
        BY <2>2, <2>3, <2>4 DEF Receive, Read, NoEngine, Close
<1> QED
    BY <1>3, <1>4

\* Handling requests: what becomes of one session.
LEMMA Handled ==
    ASSUME Shape, Process, NEW c \in Clients
    PROVE  /\ status'[c] = AfterEnd(c)
           /\ ~Added(c) /\ status[c] \in Settled => status'[c] \in Settled
           /\ ~Added(c) /\ status[c] = "none" => status'[c] = "none"
           /\ ~Added(c) /\ status[c] \in {"none", "STOPPED", "MIGRATION_READY"} =>
                status'[c] \in {"none", "STOPPED", "MIGRATION_READY"}
           /\ <<"END", c>> \in requests /\ ~Preserves => status'[c] = "none"
<1>1. status'[c] = AfterEnd(c)
    BY DEF Process
<1> QED
    BY <1>1 DEF AfterEnd, AfterStop, AfterAdd, Asked, Added, Settled

\* A request that is answered here was added or still ran.
LEMMA Answering ==
    ASSUME Shape, Process, NEW c \in Clients, ~Added(c), status[c] \in Settled
    PROVE  resp'[c] = resp[c]
BY DEF Process, Cancels, AfterAdd, Asked, Added, Settled

LEMMA PlacedProcess == ASSUME Shape, Placed, Process PROVE Placed'
<1> SUFFICES ASSUME NEW c \in Clients PROVE Place(c)'
    BY DEF Placed
<1>1. Place(c)
    BY DEF Placed
<1>2. UNCHANGED <<client, owes, answer, out, ready, setup>> /\ requests' = {} /\ alive
    BY DEF Process, Engine, clientVars
<1>3. Arrives(c)'
    <2>1. client[c] = "new" => resp'[c] = resp[c]
        BY <1>1, Answering DEF Place, Arrives, Settled
    <2> QED
        BY <1>1, <1>2, <2>1, Handled DEF Place, Arrives, Added
<1>4. Departs(c)'
    BY <1>1, <1>2, Handled DEF Place, Departs, Added, Preserves
<1>5. Fetched(c)'
    BY <1>1, <1>2, Handled DEF Place, Fetched, Added
<1>6. Finished(c)'
    <2>1. resp'[c] = resp[c] \/ resp'[c].type = "CANCEL"
        BY RejectedIs DEF Process, Shape, Typed
    <2> QED
        BY <1>1, <1>2, <2>1, Handled DEF Place, Finished, Added
<1> QED
    BY <1>3, <1>4, <1>5, <1>6 DEF Place

\* A batch is made of sequences that wait or run.
LEMMA Dispatched ==
    ASSUME Shape, Placed, NEW batch \in Passes, Dispatch(batch), NEW c \in Clients,
           UNCHANGED <<clientVars, resp, reqVars, out, ready, alive, setup>>
    PROVE  Place(c)'
<1>1. Place(c)
    BY DEF Placed
<1>2. c \in batch => status[c] \in {"WAITING", "MIGRATION_DONE", "RUNNING"}
    BY DEF Passes, Resumed, WithStatus
<1>3. \/ status'[c] = status[c]
      \/ /\ status[c] \in {"WAITING", "MIGRATION_DONE", "RUNNING"}
         /\ status'[c] \in {"WAITING", "RUNNING"}
    BY <1>2 DEF Dispatch, Resumed
<1> QED
    BY <1>1, <1>3
    DEF Place, Arrives, Departs, Fetched, Finished, Added, Preserves, Settled, clientVars, reqVars

LEMMA PlacedMain == ASSUME Shape, Placed, MainLoop PROVE Placed'
<1> SUFFICES ASSUME NEW c \in Clients PROVE Place(c)'
    BY DEF Placed
<1>0. Place(c)
    BY DEF Placed
<1>1. CASE Idle \/ MainDrains
    <2>1. UNCHANGED <<client, owes, answer, resp, out, requests, status, ready, alive, setup>>
        BY <1>1 DEF Idle, MainDrains, clientVars, reqVars, seqVars, migVars
    <2> QED
        BY <1>0, <2>1, PlaceKept
<1>2. ASSUME NEW batch \in SUBSET Clients, Send(batch) PROVE Place(c)'
    BY <1>2, Dispatched DEF Send, migVars
<1>3. CASE Prefetch
    <2>1. CASE sleepReq \/ Passes = {}
        BY <1>0, <1>3, <2>1, PlaceKept DEF Prefetch, clientVars, reqVars, migVars
    <2>2. CASE ~(sleepReq \/ Passes = {})
        BY <1>3, <2>2, Dispatched DEF Prefetch, migVars
    <2> QED
        BY <2>1, <2>2
<1>4. ASSUME NEW finished \in SUBSET Clients, Collect(finished) PROVE Place(c)'
    <2>1. UNCHANGED <<client, owes, answer, resp, requests, ready, alive, setup>>
        BY <1>4 DEF Collect, clientVars, reqVars, migVars
    <2>2. CASE status[c] = "RUNNING"
        <3>1. status'[c] \in {"RUNNING", "STOPPED", "TO_BE_MIGRATED"}
            BY <1>4, <2>2 DEF Collect
        <3>2. out'[c].fin => status'[c] \in Settled
            <4>1. CASE c \in finished
                BY <1>4, <4>1 DEF Collect, Settled
            <4>2. CASE c \notin finished
                <5> DEFINE live == {d \in Head(mine) : status[d] = "RUNNING"}
                <5>1. out'[c] = IF c \in live THEN Queued(c, gen'[c], c \in finished) ELSE out[c]
                    BY <1>4, Zenon DEF Collect
                <5>2. Queued(c, gen'[c], c \in finished).fin = (c \in finished)
                    BY DEF Queued
                <5>3. ~out[c].fin
                    BY <1>0, <2>2 DEF Place, Finished, Settled
                <5> QED
                    BY <4>2, <5>1, <5>2, <5>3
            <4> QED
                BY <4>1, <4>2
        <3> QED
            BY <1>0, <2>1, <2>2, <3>1, <3>2
            DEF Place, Arrives, Departs, Fetched, Finished, Added, Preserves, Settled
    <2>3. CASE status[c] # "RUNNING"
        <3>1. status'[c] = status[c] /\ out'[c] = out[c]
            BY <1>4, <2>3 DEF Collect
        <3> QED
            BY <1>0, <2>1, <3>1, PlaceKept
    <2> QED
        BY <2>2, <2>3
<1> QED
    BY <1>1, <1>2, <1>3, <1>4 DEF MainLoop

LEMMA PlacedWorker == ASSUME Shape, Placed, Worker \/ Respond PROVE Placed'
<1> SUFFICES ASSUME NEW c \in Clients PROVE Place(c)'
    BY DEF Placed
<1>0. Place(c)
    BY DEF Placed
<1>1. CASE Worker
    <2>1. UNCHANGED <<client, owes, answer, resp, out, requests, status, ready, alive, setup>>
        BY <1>1 DEF Worker, Forward, PushOutput, clientVars, reqVars, seqVars, migVars
    <2> QED
        BY <1>0, <2>1, PlaceKept
<1>2. CASE Respond
    <2>1. UNCHANGED <<client, owes, answer, requests, status, ready, alive, setup>>
        BY <1>2 DEF Respond, clientVars, reqVars, seqVars, migVars
    <2>2. out'[c] = NoOut /\ ~NoOut.fin
        BY <1>2 DEF Respond, NoOut
    <2>3. \/ resp'[c] = resp[c]
          \/ out[c] # NoOut /\ resp'[c].type = SentType(c)
        <3>1. resp[c] \in Responses
            BY DEF Shape, Typed
        <3>2. CASE resp'[c] = [resp[c] EXCEPT !.type = SentType(c), !.tokens = out[c].tokens,
                                              !.lps = PiledLogprobs(c), !.event = TRUE]
            <4>1. resp'[c].type = SentType(c)
                BY <3>1, <3>2 DEF Responses
            <4>2. out[c] # NoOut \/ resp'[c] = resp[c]
                BY <1>2 DEF Respond
            <4> QED
                BY <4>1, <4>2
        <3> QED
            BY <1>2, <3>2 DEF Respond
    <2>4. client[c] = "new" => out[c] = NoOut
        BY <1>0 DEF Place, Arrives
    <2>5. resp'[c].type = "FINISH" => resp[c].type = "FINISH" \/ out[c].fin
        BY <2>3 DEF SentType
    <2> QED
        BY <1>0, <2>1, <2>2, <2>3, <2>4, <2>5
        DEF Place, Arrives, Departs, Fetched, Finished, Added, Preserves
<1> QED
    BY <1>1, <1>2

LEMMA PlacedMigration == ASSUME Shape, Placed, MigrationLoop PROVE Placed'
<1> SUFFICES ASSUME NEW c \in Clients PROVE Place(c)'
    BY DEF Placed
<1>0. Place(c)
    BY DEF Placed
<1>1. ASSUME NEW batch \in SUBSET Clients, Admit(batch) PROVE Place(c)'
    <2>1. UNCHANGED <<client, owes, answer, resp, out, requests, alive, setup>> /\ ready' = batch
        BY <1>1 DEF Admit, clientVars, reqVars
    <2>2. CASE c \in batch
        <3>1. status[c] = "MIGRATION_WAITING" /\ status'[c] = "MIGRATION_READY"
            BY <1>1, <2>2 DEF Admit, WithStatus
        <3> QED
            BY <1>0, <2>1, <3>1
            DEF Place, Arrives, Departs, Fetched, Finished, Added, Preserves, Settled
    <2>3. CASE c \notin batch
        <3>1. status'[c] = status[c]
            BY <1>1, <2>3 DEF Admit
        <3> QED
            BY <1>0, <2>1, <2>3, <3>1
            DEF Place, Arrives, Departs, Fetched, Finished, Added, Preserves
    <2> QED
        BY <2>2, <2>3
<1>2. CASE NoneAdmitted \/ MigDrains
    <2>1. UNCHANGED <<client, owes, answer, resp, out, requests, status, ready, alive, setup>>
        BY <1>2 DEF NoneAdmitted, MigDrains, clientVars, reqVars, seqVars
    <2> QED
        BY <1>0, <2>1, PlaceKept
<1>3. CASE Migrated
    <2>1. UNCHANGED <<client, owes, answer, requests, alive, setup>> /\ ready' = {}
        BY <1>3 DEF Migrated, clientVars, reqVars
    <2>2. CASE c \in ready
        <3>1. resp'[c] = [resp[c] EXCEPT !.type = "SUCCESS"]
            BY <1>3, <2>2 DEF Migrated
        <3>2. resp'[c].type = "SUCCESS" /\ ~out'[c].fin
            BY <1>3, <2>2, <3>1 DEF Migrated, NoOut, Shape, Typed, Responses
        <3>3. \/ status'[c] = status[c]
              \/ status[c] = "MIGRATION_READY" /\ status'[c] = "MIGRATION_DONE"
            BY <1>3 DEF Migrated
        <3> QED
            BY <1>0, <2>1, <2>2, <3>2, <3>3
            DEF Place, Arrives, Departs, Fetched, Finished, Added, Preserves
    <2>3. CASE c \notin ready
        <3>1. resp'[c] = resp[c] /\ out'[c] = out[c] /\ status'[c] = status[c]
            BY <1>3, <2>3 DEF Migrated
        <3> QED
            BY <1>0, <2>1, <2>3, <3>1, PlaceKept
    <2> QED
        BY <2>2, <2>3
<1> QED
    BY <1>1, <1>2, <1>3 DEF MigrationLoop

LEMMA PlacedSleep == ASSUME Shape, Placed, StartSleep \/ Sleeper \/ Wakeup PROVE Placed'
<1> SUFFICES ASSUME NEW c \in Clients PROVE Place(c)'
    BY DEF Placed
<1>0. Place(c)
    BY DEF Placed
<1>1. CASE StartSleep \/ WorkerSleeps \/ Wakeup
    <2>1. UNCHANGED <<client, owes, answer, resp, out, requests, status, ready, alive, setup>>
        BY <1>1 DEF StartSleep, WorkerSleeps, Wakeup, clientVars, reqVars, seqVars, migVars
    <2> QED
        BY <1>0, <2>1, PlaceKept
<1>2. CASE CancelAll
    <2>1. UNCHANGED <<client, owes, answer, out, requests, ready, alive, setup>> /\ status'[c] = "none"
        BY <1>2 DEF CancelAll, clientVars, reqVars, migVars
    <2>2. \/ resp'[c] = resp[c]
          \/ status[c] # "none" /\ resp'[c].type = "CANCEL"
        BY <1>2, RejectedIs DEF CancelAll, Active, Shape, Typed
    <2> QED
        BY <1>0, <2>1, <2>2
        DEF Place, Arrives, Departs, Fetched, Finished, Added, Preserves, Settled
<1> QED
    BY <1>1, <1>2 DEF Sleeper

LEMMA PlacedStep == Shape /\ Placed /\ [Next]_vars => Placed'
<1> SUFFICES ASSUME Shape, Placed, [Next]_vars PROVE Placed'
    OBVIOUS
<1>1. ASSUME NEW d \in Clients, RemoteFree(d), NEW c \in Clients PROVE Place(c)'
    <2>1. /\ UNCHANGED <<client, owes, answer, resp, out, requests, ready, alive, setup>>
          /\ Preserves /\ status'[c] \in {status[c], "none"}
        BY <1>1 DEF RemoteFree, clientVars, reqVars, migVars, Shape, Typed
    <2> QED
        BY <2>1 DEF Placed, Place, Arrives, Departs, Fetched, Finished, Added, Preserves, Settled
<1>2. ASSUME Crash \/ UNCHANGED vars, NEW c \in Clients PROVE Place(c)'
    <2>1. /\ UNCHANGED <<client, owes, answer, resp, out, requests, status, ready, setup>>
          /\ alive' => alive
        BY <1>2 DEF Crash, vars, clientVars, reqVars, seqVars, migVars
    <2> QED
        BY <2>1, PlaceKept DEF Placed
<1>3. (\E d \in Clients : RemoteFree(d)) \/ Crash \/ UNCHANGED vars => Placed'
    BY <1>1, <1>2 DEF Placed
<1> QED
    BY <1>3, PlacedInfer, PlacedClient, PlacedProcess, PlacedMain, PlacedWorker, PlacedMigration,
       PlacedSleep DEF Next

\* A client that is gone leaves no session behind, whichever way it went, in
\* every engine that does not preserve its KV (the finally of
\* async_stream_infer, _on_end_session).
THEOREM NothingLeaks == Spec => []NoLeak
<1>1. Init => Shape /\ Placed
    BY ShapeInit, PlacedInit
<1>2. Shape /\ Placed /\ [Next]_vars => (Shape /\ Placed)'
    BY ShapeStep, PlacedStep
<1>3. Placed => NoLeak
    BY DEF Placed, Place, Departs, NoLeak
<1> QED
    BY <1>1, <1>2, <1>3, PTL DEF Spec

\* Nothing takes back a FINISH that stands in a response, save sleep's
\* cancellation of all (_on_stop_session, _send_resp, reject_request).
LEMMA FinishStays ==
    ASSUME Shape, Placed, [Next]_vars, NEW c \in Clients, resp[c].type = "FINISH"
    PROVE  resp'[c].type = "FINISH" \/ slp = "drain"
<1>0. status[c] \in Settled /\ ~Added(c) /\ c \notin ready /\ client[c] # "new"
    BY DEF Placed, Place, Finished, Arrives
<1>1. ASSUME NEW d \in Clients, Infer(d) PROVE resp'[c] = resp[c]
    BY <1>0, <1>1 DEF Infer, Shape, Typed
<1>2. ASSUME NEW d \in Clients, Receive(d) PROVE resp'[c].type = resp[c].type
    BY <1>2, TakenIs DEF Receive, Gate, Read, NoEngine, Close, Shape, Typed
<1>3. ASSUME NEW d \in Clients, Leave(d) \/ Abort(d) \/ RemoteFree(d) PROVE resp'[c] = resp[c]
    BY <1>3 DEF Leave, Abort, RemoteFree
<1>4. CASE Process
    BY <1>0, <1>4, Answering
<1>5. CASE Respond
    BY <1>5 DEF Respond
<1>6. CASE Migrated
    BY <1>0, <1>6 DEF Migrated
<1>7. CASE CancelAll
    BY <1>7 DEF CancelAll
<1>8. ASSUME UNCHANGED resp PROVE resp'[c].type = "FINISH"
    BY <1>8
<1>9. CASE MainLoop \/ Worker \/ Crash \/ UNCHANGED vars
    <2>1. UNCHANGED resp
        BY <1>9 DEF MainLoop, Idle, Send, Prefetch, Collect, MainDrains, Worker, Forward, PushOutput,
                    Crash, vars
    <2> QED
        BY <1>8, <2>1
<1>10. CASE (\E b \in SUBSET Clients : Admit(b)) \/ NoneAdmitted \/ MigDrains \/ StartSleep
               \/ WorkerSleeps \/ Wakeup
    <2>1. UNCHANGED resp
        BY <1>10 DEF Admit, NoneAdmitted, MigDrains, StartSleep, WorkerSleeps, Wakeup
    <2> QED
        BY <1>8, <2>1
<1> QED
    BY <1>1, <1>2, <1>3, <1>4, <1>5, <1>6, <1>7, <1>9, <1>10 DEF Next, MigrationLoop, Sleeper

\* Stopping a request that had finished by itself does not turn its FINISH
\* into a CANCEL (stopped_resp_ids in _on_stop_session).
THEOREM FinishIsKept == Spec => FinishSticks
<1>1. Init => Shape /\ Placed
    BY ShapeInit, PlacedInit
<1>2. Shape /\ Placed /\ [Next]_vars => (Shape /\ Placed)'
    BY ShapeStep, PlacedStep
<1>3. Shape /\ Placed /\ [Next]_vars =>
        [\A c \in Clients : resp[c].type = "FINISH" => resp'[c].type = "FINISH" \/ slp = "drain"]_vars
    BY FinishStays
<1> QED
    BY <1>1, <1>2, <1>3, PTL DEF Spec, FinishSticks

---------------------------------------------------------------------------
(* Sleep.                                                                  *)

\* Who sleeps has blocked what could wake anybody, and waits for the loops.
Quiet ==
    /\ slp # "awake" => blocked /\ sleepReq
    /\ ~Migrates => mpc = "top"
    /\ slp # "awake" /\ migAck => mpc # "busy" /\ (Migrates => mpc = "drained")
    /\ slp \in {"ending", "asleep"} => migAck /\ \A c \in Clients : status[c] = "none"

LEMMA QuietInit == Init => Quiet
BY DEF Init, Quiet

LEMMA QuietKept ==
    ASSUME Quiet, UNCHANGED <<slp, blocked, sleepReq, setup, mpc, migAck>>,
           \A c \in Clients : status[c] = "none" /\ blocked => status'[c] = "none"
    PROVE  Quiet'
BY DEF Quiet, Migrates

LEMMA QuietMigration == ASSUME Shape, Quiet, MigrationLoop PROVE Quiet'
<1>1. ASSUME NEW batch \in SUBSET Clients, Admit(batch) PROVE Quiet'
    BY <1>1 DEF Admit, MigTop, Quiet, Migrates, reqVars, sleepVars
<1>2. CASE NoneAdmitted
    BY <1>2 DEF NoneAdmitted, MigTop, Quiet, Migrates, reqVars, seqVars, sleepVars
<1>3. CASE MigDrains
    BY <1>3 DEF MigDrains, MigTop, Quiet, Migrates, reqVars, seqVars
<1>4. CASE Migrated
    <2>1. Migrates /\ ~(slp # "awake" /\ migAck)
        BY <1>4 DEF Migrated, Quiet
    <2>2. UNCHANGED <<blocked, slp, sleepReq, migAck, setup>>
        BY <1>4 DEF Migrated, reqVars, sleepVars
    <2> QED
        BY <2>1, <2>2 DEF Quiet, Migrates
<1> QED
    BY <1>1, <1>2, <1>3, <1>4 DEF MigrationLoop

LEMMA QuietSleep == ASSUME Shape, Quiet, StartSleep \/ Sleeper \/ Wakeup PROVE Quiet'
<1>1. CASE StartSleep
    BY <1>1 DEF StartSleep, MigNeedsNoAck, Quiet, Migrates
<1>2. CASE CancelAll
    BY <1>2 DEF CancelAll, Quiet, Migrates, reqVars, migVars
<1>3. CASE WorkerSleeps
    BY <1>3 DEF WorkerSleeps, Quiet, Migrates, reqVars, seqVars, migVars
<1>4. CASE Wakeup
    BY <1>4 DEF Wakeup, Quiet, Migrates
<1> QED
    BY <1>1, <1>2, <1>3, <1>4 DEF Sleeper

LEMMA QuietStep == Shape /\ Quiet /\ [Next]_vars => Quiet'
<1> SUFFICES ASSUME Shape, Quiet, [Next]_vars PROVE Quiet'
    OBVIOUS
<1>1. ASSUME NEW c \in Clients,
             Infer(c) \/ Receive(c) \/ Leave(c) \/ Abort(c)
      PROVE  Quiet'
    <2>1. UNCHANGED <<slp, blocked, sleepReq, setup, mpc, migAck, status>>
        BY <1>1 DEF Infer, Receive, Gate, Read, NoEngine, Close, Leave, Abort, reqVars, seqVars,
                    migVars, sleepVars
    <2> QED
        BY <2>1, QuietKept
<1>2. ASSUME NEW c \in Clients, RemoteFree(c) PROVE Quiet'
    <2>1. UNCHANGED <<slp, blocked, sleepReq, setup, mpc, migAck>>
        BY <1>2 DEF RemoteFree, reqVars, migVars, sleepVars
    <2>2. \A d \in Clients : status[d] = "none" => status'[d] = "none"
        BY <1>2 DEF RemoteFree, Shape, Typed
    <2> QED
        BY <2>1, <2>2, QuietKept
<1>3. CASE Process
    <2>1. UNCHANGED <<slp, blocked, sleepReq, setup, mpc, migAck>>
        BY <1>3 DEF Process, sleepVars
    <2>2. ASSUME NEW c \in Clients, status[c] = "none", blocked PROVE status'[c] = "none"
        BY <1>3, <2>2 DEF Process, AfterEnd, AfterStop, AfterAdd, Admitted
    <2> QED
        BY <2>1, <2>2, QuietKept
<1>4. CASE MainLoop
    <2>1. UNCHANGED <<slp, blocked, sleepReq, setup, mpc, migAck>>
        BY <1>4 DEF MainLoop, Idle, Send, Prefetch, Collect, MainDrains, reqVars, migVars, sleepVars
    <2>2. ASSUME NEW batch \in Passes, Dispatch(batch), NEW c \in Clients, status[c] = "none"
          PROVE  status'[c] = "none"
        BY <2>2 DEF Passes, Dispatch, Resumed, WithStatus
    <2>3. ASSUME NEW finished \in SUBSET Clients, Collect(finished), NEW c \in Clients,
                 status[c] = "none"
          PROVE  status'[c] = "none"
        BY <2>3 DEF Collect
    <2>4. \A c \in Clients : status[c] = "none" => status'[c] = "none"
        BY <1>4, <2>2, <2>3 DEF MainLoop, Idle, Send, Prefetch, MainDrains, seqVars
    <2> QED
        BY <2>1, <2>4, QuietKept
<1>5. CASE Worker \/ Respond \/ Crash \/ UNCHANGED vars
    <2>1. UNCHANGED <<slp, blocked, sleepReq, setup, mpc, migAck, status>>
        BY <1>5 DEF Worker, Forward, PushOutput, Respond, Crash, vars, reqVars, seqVars, migVars,
                    sleepVars
    <2> QED
        BY <2>1, QuietKept
<1> QED
    BY <1>1, <1>2, <1>3, <1>4, <1>5, QuietMigration, QuietSleep DEF Next

\* When the worker gives up its cache nobody can use it: no session is left or
\* let in, and no KV is being fetched, in any engine (drain_for_sleep,
\* process_request, _cancel_and_end_all_sessions).
THEOREM SleepIsQuiet == Spec => []SleepFindsNobody
<1>1. Init => Shape /\ Quiet
    BY ShapeInit, QuietInit
<1>2. Shape /\ Quiet /\ [Next]_vars => (Shape /\ Quiet)'
    BY ShapeStep, QuietStep
<1>3. Quiet => SleepFindsNobody
    BY DEF Quiet, SleepFindsNobody
<1> QED
    BY <1>1, <1>2, <1>3, PTL DEF Spec

---------------------------------------------------------------------------
(* Tokens and answers, in engines that do not migrate.  In a decode engine *)
(* a migration may overwrite the answer of a request that was stopped.     *)

NoMigration == \A u \in Setups : ~u.migrates

\* What a sequence generated was seen, lies in the response, or waits for the
\* response loop.
Counted(c) ==
    /\ out[c] # NoOut => out[c].tokens = gen[c]
    /\ seen[c].lps = seen[c].tokens
    /\ seen[c].lps + resp[c].lps = resp[c].tokens
    /\ resp[c].tokens + out[c].lps = gen[c]
    /\ resp[c].type = "FINISH" => out[c] = NoOut
    /\ answer[c] = "FINISH" => seen[c].tokens = gen[c] /\ status[c] \in Settled /\ ~Added(c)
    /\ gen[c] <= setup.tokens
    /\ status[c] \notin Settled \/ Added(c) \/ client[c] = "new" => gen[c] < setup.tokens

Waits(c) == client[c] \in {"gate", "recv"}

\* The last answer of a reader is in its response until it is read.
Answered(c) ==
    /\ Waits(c) /\ resp[c].done => resp[c].event /\ resp[c].type \in {"CANCEL", "FINISH"}
    /\ resp[c].type = "CANCEL" => resp[c].done
    /\ Waits(c) /\ resp[c].type = "FINISH" => resp[c].event
    /\ alive /\ Waits(c) /\ ~Added(c) /\ status[c] \in Settled =>
         out[c].fin \/ (resp[c].event /\ resp[c].type \in {"FINISH", "CANCEL"})

Account(c) == Counted(c) /\ Answered(c)
Accounts == \A c \in Clients : Account(c)

LEMMA AccountsInit == Init => Accounts
<1> SUFFICES ASSUME Init, NEW c \in Clients PROVE Account(c)
    BY DEF Accounts
<1>1. setup.tokens \in Nat \ {0}
    BY ConstantsAssumption DEF Init, IsSetup
<1>2. Counted(c)
    BY <1>1 DEF Init, Counted, Settled, Added, Fresh, NoOut
<1>3. Answered(c)
    BY DEF Init, Answered, Waits, Fresh
<1> QED
    BY <1>2, <1>3 DEF Account

\* Nothing of a client's account changes.
LEMMA AccountKept ==
    ASSUME NEW c \in Clients, Account(c),
           client'[c] = client[c] /\ seen'[c] = seen[c] /\ answer'[c] = answer[c],
           resp'[c] = resp[c] /\ out'[c] = out[c] /\ gen'[c] = gen[c],
           Added(c)' <=> Added(c), status'[c] = status[c], alive' => alive, setup' = setup
    PROVE  Account(c)'
BY DEF Account, Counted, Answered, Waits, Settled

LEMMA AccountsInfer ==
    ASSUME Shape, Placed, Accounts, NEW c \in Clients, Infer(c) PROVE Accounts'
<1> SUFFICES ASSUME NEW d \in Clients PROVE Account(d)'
    BY DEF Accounts
<1>0. Account(c) /\ Account(d) /\ Place(c)
    BY DEF Accounts, Placed
<1>1. UNCHANGED <<seen, answer, out, gen, status, alive, setup>>
    BY DEF Infer, seqVars
<1>2. CASE d # c
    <2>1. client'[d] = client[d] /\ resp'[d] = resp[d] /\ (Added(d)' <=> Added(d))
        BY <1>2 DEF Infer, Added, Shape, Typed
    <2> QED
        BY <1>0, <1>1, <2>1, AccountKept
<1>3. CASE d = c
    <2>1. client[c] = "new" /\ client'[c] = "gate"
        BY DEF Infer, Shape, Typed
    <2>2. resp[c] \in Responses /\ resp[c].type = "INIT" /\ ~resp[c].done
        BY <1>0, <2>1 DEF Place, Arrives, Shape, Typed, Silent
    <2>3. CASE blocked
        <3>1. resp'[c] = Rejected(resp[c]) /\ (Added(c)' <=> Added(c))
            BY <2>3 DEF Infer, Added, Shape, Typed
        <3> QED
            BY <1>0, <1>1, <1>3, <2>1, <2>2, <3>1, RejectedIs
            DEF Account, Counted, Answered, Waits
    <2>4. CASE ~blocked
        <3>1. resp' = resp /\ Added(c)'
            BY <2>4 DEF Infer, Added
        <3>2. answer[c] # "FINISH"
            BY <1>0, <2>1 DEF Place, Departs
        <3> QED
            BY <1>0, <1>1, <1>3, <2>1, <2>2, <3>1, <3>2 DEF Account, Counted, Answered, Waits
    <2> QED
        BY <2>3, <2>4
<1> QED
    BY <1>2, <1>3

LEMMA AccountsRead ==
    ASSUME Shape, Placed, Accounts, NEW c \in Clients, Read(c) PROVE Account(c)'
<1>0. Account(c) /\ Place(c)
    BY DEF Accounts, Placed
<1>1. UNCHANGED <<out, gen, status, alive, setup>> /\ (Added(c)' <=> Added(c))
    BY DEF Read, Ends, seqVars, Added
<1>2. /\ resp[c] \in Responses /\ resp'[c] = Taken(resp[c]) /\ resp[c].event
      /\ client[c] = "recv" /\ resp[c].tokens \in Nat /\ resp[c].lps \in Nat
      /\ seen[c].lps \in Nat /\ out[c].lps \in Nat /\ gen[c] \in Nat
    BY DEF Read, Shape, Typed, Responses, Outputs
<1>3. seen'[c].tokens = resp[c].tokens /\ seen'[c].lps = seen[c].lps + resp[c].lps
    BY DEF Read, Shape, Typed
<1>4. /\ resp'[c].type = resp[c].type /\ resp'[c].done = resp[c].done
      /\ resp'[c].tokens = resp[c].tokens /\ resp'[c].lps = 0
    BY <1>2, TakenIs
<1>5. CASE Continues(resp[c])
    <2>1. resp[c].type = "SUCCESS" /\ client'[c] = "gate" /\ answer' = answer
        BY <1>5 DEF Continues, Read, Shape, Typed
    <2>3. answer[c] # "FINISH"
        BY <1>0, <1>2 DEF Place, Departs
    <2>4. ~resp[c].done
        BY <1>0, <1>2, <2>1 DEF Account, Answered, Waits
    <2>5. Counted(c)'
        BY <1>0, <1>1, <1>2, <1>3, <1>4, <2>1, <2>3 DEF Account, Counted
    <2>6. Answered(c)'
        BY <1>0, <1>1, <1>2, <1>4, <2>1, <2>4 DEF Account, Answered, Waits
    <2> QED
        BY <2>5, <2>6 DEF Account
<1>6. CASE ~Continues(resp[c])
    <2>1. answer'[c] = resp[c].type /\ client'[c] \in {"ending", "closed"}
        BY <1>6 DEF Read, Ends, Shape, Typed
    <2>2. resp[c].type = "FINISH" =>
            resp[c].tokens = gen[c] /\ status[c] \in Settled /\ ~Added(c)
        BY <1>0, <1>2 DEF Account, Counted, NoOut, Place, Finished
    <2>3. Counted(c)'
        BY <1>0, <1>1, <1>2, <1>3, <1>4, <2>1, <2>2 DEF Account, Counted
    <2>4. Answered(c)'
        BY <1>0, <1>4, <2>1 DEF Account, Answered, Waits
    <2> QED
        BY <2>3, <2>4 DEF Account
<1> QED
    BY <1>5, <1>6

LEMMA AccountsClient ==
    ASSUME Shape, Placed, Accounts, NEW c \in Clients, Receive(c) \/ Leave(c) \/ Abort(c)
    PROVE  Accounts'
<1> SUFFICES ASSUME NEW d \in Clients PROVE Account(d)'
    BY DEF Accounts
<1>0. Account(c) /\ Account(d) /\ Place(c)
    BY DEF Accounts, Placed
<1>1. UNCHANGED <<out, gen, status, alive, setup>> /\ (Added(d)' <=> Added(d))
    BY DEF Receive, Gate, Read, NoEngine, Close, Ends, Leave, Abort, seqVars, reqVars, Added
<1>2. CASE d # c
    <2>1. /\ client'[d] = client[d] /\ seen'[d] = seen[d] /\ answer'[d] = answer[d]
          /\ resp'[d] = resp[d]
        BY <1>2 DEF Receive, Gate, Read, NoEngine, Close, Ends, Leave, Abort, clientVars, Shape, Typed
    <2> QED
        BY <1>0, <1>1, <2>1, AccountKept
<1>3. CASE d = c /\ Read(c)
    BY <1>3, AccountsRead
<1>4. CASE d = c /\ (Gate(c) \/ Abort(c))
    <2>1. /\ UNCHANGED <<seen, answer, resp>> /\ client[c] # "new" /\ client'[c] # "new"
          /\ Waits(c)' <=> Waits(c)
        BY <1>4 DEF Gate, Abort, clientVars, Waits, Shape, Typed
    <2> QED
        BY <1>0, <1>1, <1>4, <2>1 DEF Account, Counted, Answered, Settled
<1>5. CASE d = c /\ (Leave(c) \/ NoEngine(c) \/ Close(c))
    <2>1. UNCHANGED <<seen, resp>> /\ client'[c] \in {"stopping", "ending", "closed"}
        BY <1>5 DEF Leave, NoEngine, Close, Ends, Shape, Typed
    <2>2. answer'[c] = answer[c] \/ answer'[c] = "STOP_ERROR"
        BY <1>5 DEF Leave, NoEngine, Close, Shape, Typed
    <2> QED
        BY <1>0, <1>1, <1>5, <2>1, <2>2 DEF Account, Counted, Answered, Waits, Settled
<1> QED
    BY <1>2, <1>3, <1>4, <1>5 DEF Receive

\* A request the handlers leave unanswered was settled before, or still is to run.
LEMMA Unanswered ==
    ASSUME Shape, Placed, Process, NEW c \in Clients, Waits(c), resp'[c] # Rejected(resp[c]),
           status'[c] \in Settled
    PROVE  status[c] \in Settled /\ ~Added(c)
<1>1. <<"END", c>> \notin requests
    BY DEF Placed, Place, Departs, Waits
<1>2. ~Cancels(c) /\ ~(Added(c) /\ ~Admitted)
    BY DEF Process, Asked, Added
<1>3. status'[c] = AfterStop(c)
    BY <1>1 DEF Process, AfterEnd, Asked
<1>4. CASE AfterAdd(c) \in Settled
    BY <1>2, <1>4 DEF AfterAdd, Asked, Added, Settled
<1>5. CASE AfterAdd(c) \notin Settled
    BY <1>2, <1>3, <1>5 DEF Cancels, AfterStop, Settled
<1> QED
    BY <1>4, <1>5

LEMMA AccountsProcess == ASSUME Shape, Placed, Accounts, Process PROVE Accounts'
<1> SUFFICES ASSUME NEW c \in Clients PROVE Account(c)'
    BY DEF Accounts
<1>0. Account(c)
    BY DEF Accounts
<1>1. UNCHANGED <<client, seen, answer, out, gen, setup>> /\ ~Added(c)' /\ alive
    BY DEF Process, Engine, clientVars, Added
<1>2. resp[c] \in Responses
    BY DEF Shape, Typed
<1>3. status'[c] \notin Settled => status[c] \notin Settled \/ Added(c)
    BY Handled
<1>4. (answer[c] = "FINISH" => status'[c] \in Settled) /\ (Waits(c)' <=> Waits(c))
    BY <1>0, <1>1, <1>3 DEF Account, Counted, Waits
<1>5. CASE resp'[c] = Rejected(resp[c])
    <2>1. Counted(c)'
        BY <1>0, <1>1, <1>2, <1>3, <1>4, <1>5, RejectedIs DEF Account, Counted
    <2>2. Answered(c)'
        BY <1>2, <1>5, RejectedIs DEF Answered
    <2> QED
        BY <2>1, <2>2 DEF Account
<1>6. CASE resp'[c] # Rejected(resp[c])
    <2>1. resp'[c] = resp[c]
        BY <1>6 DEF Process
    <2>2. Counted(c)'
        BY <1>0, <1>1, <1>3, <1>4, <2>1 DEF Account, Counted
    <2>3. Waits(c) /\ status'[c] \in Settled => status[c] \in Settled /\ ~Added(c)
        BY <1>6, Unanswered
    <2>4. Answered(c)'
        BY <1>0, <1>1, <1>4, <2>1, <2>3 DEF Account, Answered
    <2> QED
        BY <2>2, <2>4 DEF Account
<1> QED
    BY <1>5, <1>6

LEMMA AccountsDispatch ==
    ASSUME Shape, Accounts, NEW batch \in Passes, Dispatch(batch), NEW c \in Clients,
           UNCHANGED <<clientVars, resp, reqVars, out, gen, alive, setup>>
    PROVE  Account(c)'
<1>1. Account(c)
    BY DEF Accounts
<1>2. c \in batch => status[c] \in {"WAITING", "MIGRATION_DONE", "RUNNING"}
    BY DEF Passes, Resumed, WithStatus
<1>3. status'[c] = status[c] \/ (status[c] \notin Settled /\ status'[c] \notin Settled)
    BY <1>2 DEF Dispatch, Resumed, Settled
<1>4. Counted(c)' /\ (Added(c)' <=> Added(c))
    BY <1>1, <1>3 DEF Account, Counted, Added, clientVars, reqVars
<1>5. Answered(c)'
    BY <1>1, <1>3, <1>4 DEF Account, Answered, Waits, clientVars
<1> QED
    BY <1>4, <1>5 DEF Account

\* One token more, for a sequence that runs.
LEMMA AccountsCollect ==
    ASSUME Shape, Placed, Accounts, NEW finished \in SUBSET Clients, Collect(finished),
           NEW c \in Clients
    PROVE  Account(c)'
<1> DEFINE live == {d \in Head(mine) : status[d] = "RUNNING"}
<1>0. Account(c) /\ Place(c)
    BY DEF Accounts, Placed
<1>1. UNCHANGED <<client, seen, answer, resp, requests, alive, setup>>
    BY DEF Collect, clientVars, reqVars
<1>2. out'[c] = IF c \in live THEN Queued(c, gen'[c], c \in finished) ELSE out[c]
    BY Zenon DEF Collect
<1>3. CASE c \notin live
    <2>1. status'[c] = status[c] /\ gen'[c] = gen[c] /\ out'[c] = out[c]
        BY <1>2, <1>3 DEF Collect
    <2> QED
        BY <1>0, <1>1, <2>1, AccountKept DEF Added
<1>4. CASE c \in live
    <2>1. /\ status[c] = "RUNNING" /\ ~Added(c) /\ ~Added(c)' /\ client[c] # "new"
          /\ resp[c].type # "FINISH" /\ answer[c] # "FINISH"
        BY <1>0, <1>1, <1>4 DEF Place, Arrives, Finished, Account, Counted, Settled, Added
    <2>2. /\ gen'[c] = gen[c] + 1 /\ gen[c] < setup.tokens
          /\ gen[c] \in Nat /\ out[c].lps \in Nat /\ setup.tokens \in Nat
        BY <1>0, <1>4, <2>1, ConstantsAssumption
        DEF Collect, Account, Counted, Settled, Shape, Typed, Outputs, IsSetup
    <2>3. /\ out'[c].tokens = gen[c] + 1 /\ out'[c].lps = out[c].lps + 1
          /\ out'[c].fin = (c \in finished)
        BY <1>2, <1>4, <2>2 DEF Queued
    <2>4. /\ status'[c] \notin Settled => gen[c] + 1 < setup.tokens
          /\ status'[c] \in Settled => c \in finished
        BY <1>4, <2>1 DEF Collect, Settled
    <2>5. /\ seen[c].lps \in Nat /\ resp[c].lps \in Nat /\ resp[c].tokens \in Nat
        BY DEF Shape, Typed, Responses
    <2>6. Counted(c)'
        BY <1>0, <1>1, <2>1, <2>2, <2>3, <2>4, <2>5 DEF Account, Counted
    <2>7. Answered(c)'
        BY <1>0, <1>1, <2>3, <2>4 DEF Account, Answered, Waits
    <2> QED
        BY <2>6, <2>7 DEF Account
<1> QED
    BY <1>3, <1>4

LEMMA AccountsMain == ASSUME Shape, Placed, Accounts, MainLoop PROVE Accounts'
<1> SUFFICES ASSUME NEW c \in Clients PROVE Account(c)'
    BY DEF Accounts
<1>0. Account(c)
    BY DEF Accounts
<1>1. CASE Idle \/ MainDrains \/ (Prefetch /\ (sleepReq \/ Passes = {}))
    <2>1. UNCHANGED <<client, seen, answer, resp, out, gen, requests, status, alive, setup>>
        BY <1>1 DEF Idle, MainDrains, Prefetch, clientVars, reqVars, seqVars
    <2> QED
        BY <1>0, <2>1, AccountKept DEF Added
<1>2. ASSUME NEW batch \in SUBSET Clients, Send(batch) PROVE Account(c)'
    BY <1>2, AccountsDispatch DEF Send
<1>3. CASE Prefetch /\ ~(sleepReq \/ Passes = {})
    BY <1>3, AccountsDispatch DEF Prefetch
<1> QED
    BY <1>1, <1>2, <1>3, AccountsCollect DEF MainLoop

LEMMA AccountsWorker == ASSUME Shape, Placed, Accounts, Worker \/ Respond PROVE Accounts'
<1> SUFFICES ASSUME NEW c \in Clients PROVE Account(c)'
    BY DEF Accounts
<1>0. Account(c)
    BY DEF Accounts
<1>1. CASE Worker
    <2>1. UNCHANGED <<client, seen, answer, resp, out, gen, requests, status, alive, setup>>
        BY <1>1 DEF Worker, Forward, PushOutput, clientVars, reqVars, seqVars
    <2> QED
        BY <1>0, <2>1, AccountKept DEF Added
<1>2. CASE Respond
    <2>1. UNCHANGED <<client, seen, answer, gen, requests, status, alive, setup>>
        BY <1>2 DEF Respond, clientVars, reqVars, seqVars
    <2>2. out'[c] = NoOut /\ NoOut.lps = 0 /\ ~NoOut.fin
        BY <1>2 DEF Respond, NoOut
    <2>3. CASE out[c] = NoOut
        <3>1. resp'[c] = resp[c]
            BY <1>2, <2>3 DEF Respond
        <3> QED
            BY <1>0, <2>1, <2>2, <2>3, <3>1, AccountKept DEF Added
    <2>4. CASE out[c] # NoOut
        <3>1. resp[c].type # "FINISH" /\ out[c].tokens = gen[c]
            BY <1>0, <2>4 DEF Account, Counted
        <3>2. resp'[c] = [resp[c] EXCEPT !.type = SentType(c), !.tokens = out[c].tokens,
                                         !.lps = PiledLogprobs(c), !.event = TRUE]
            BY <1>2, <2>4, <3>1 DEF Respond
        <3>3. /\ resp'[c].type = SentType(c) /\ resp'[c].tokens = gen[c]
              /\ resp'[c].lps = resp[c].lps + out[c].lps
              /\ resp'[c].event /\ resp'[c].done = resp[c].done
            BY <3>1, <3>2 DEF Shape, Typed, Responses, PiledLogprobs
        <3>4. /\ resp[c].tokens \in Nat /\ resp[c].lps \in Nat /\ out[c].lps \in Nat
              /\ seen[c].lps \in Nat /\ gen[c] \in Nat
            BY DEF Shape, Typed, Responses, Outputs
        <3>5. Counted(c)'
            BY <1>0, <2>1, <2>2, <3>3, <3>4 DEF Account, Counted, Added
        <3>6. Answered(c)'
            <4>1. resp[c].done \in BOOLEAN /\ out[c].fin \in BOOLEAN
                BY DEF Shape, Typed, Responses, Outputs
            <4>2. resp'[c].type \in {"FINISH", "SUCCESS"} \/ resp[c].done
                BY <3>3 DEF SentType
            <4>3. resp[c].done => resp'[c].type \in {"FINISH", resp[c].type}
                BY <3>3 DEF SentType
            <4>4. out[c].fin => resp'[c].type = "FINISH"
                BY <3>3 DEF SentType
            <4> QED
                BY <1>0, <2>1, <3>1, <3>3, <4>1, <4>2, <4>3, <4>4 DEF Account, Answered, Waits, Added
        <3> QED
            BY <3>5, <3>6 DEF Account
    <2> QED
        BY <2>3, <2>4
<1> QED
    BY <1>1, <1>2

LEMMA AccountsSleep == ASSUME Shape, Accounts, StartSleep \/ Sleeper \/ Wakeup PROVE Accounts'
<1> SUFFICES ASSUME NEW c \in Clients PROVE Account(c)'
    BY DEF Accounts
<1>0. Account(c)
    BY DEF Accounts
<1>1. CASE StartSleep \/ WorkerSleeps \/ Wakeup
    <2>1. UNCHANGED <<client, seen, answer, resp, out, gen, requests, status, alive, setup>>
        BY <1>1 DEF StartSleep, WorkerSleeps, Wakeup, clientVars, reqVars, seqVars
    <2> QED
        BY <1>0, <2>1, AccountKept DEF Added
<1>2. CASE CancelAll
    <2>1. UNCHANGED <<client, seen, answer, out, gen, requests, alive, setup>>
        BY <1>2 DEF CancelAll, clientVars, reqVars
    <2>2. resp[c] \in Responses /\ status'[c] = "none"
        BY <1>2 DEF CancelAll, Shape, Typed
    <2>3. CASE Active(c)
        <3>1. resp'[c] = Rejected(resp[c])
            BY <1>2, <2>3 DEF CancelAll
        <3>2. Counted(c)'
            BY <1>0, <2>1, <2>2, <3>1, RejectedIs DEF Account, Counted, Settled, Added
        <3>3. Answered(c)'
            BY <2>2, <3>1, RejectedIs DEF Answered
        <3> QED
            BY <3>2, <3>3 DEF Account
    <2>4. CASE ~Active(c)
        <3>1. resp'[c] = resp[c] /\ (status[c] = "none" \/ resp[c].done)
            BY <1>2, <2>4 DEF CancelAll, Active
        <3>2. Counted(c)'
            BY <1>0, <2>1, <2>2, <3>1 DEF Account, Counted, Settled, Added
        <3>3. Answered(c)'
            BY <1>0, <2>1, <2>2, <3>1 DEF Account, Answered, Waits, Settled, Added
        <3> QED
            BY <3>2, <3>3 DEF Account
    <2> QED
        BY <2>3, <2>4
<1> QED
    BY <1>1, <1>2 DEF Sleeper

LEMMA AccountsStep ==
    ASSUME NoMigration, Shape, Placed, Quiet, Accounts, [Next]_vars PROVE Accounts'
<1>1. ASSUME NEW c \in Clients, RemoteFree(c) PROVE Accounts'
    <2> SUFFICES ASSUME NEW d \in Clients PROVE Account(d)'
        BY DEF Accounts
    <2>1. UNCHANGED <<client, seen, answer, resp, out, gen, requests, alive, setup>>
        BY <1>1 DEF RemoteFree, clientVars, reqVars
    <2>2. status'[d] = status[d] \/ (status[d] \in Settled /\ status'[d] \in Settled)
        BY <1>1 DEF RemoteFree, Settled, Shape, Typed
    <2>3. Account(d)
        BY DEF Accounts
    <2>4. Counted(d)'
        BY <2>1, <2>2, <2>3 DEF Account, Counted, Added
    <2>5. Answered(d)'
        BY <2>1, <2>2, <2>3 DEF Account, Answered, Waits, Added
    <2> QED
        BY <2>4, <2>5 DEF Account
<1>2. CASE Crash \/ UNCHANGED vars
    <2> SUFFICES ASSUME NEW d \in Clients PROVE Account(d)'
        BY DEF Accounts
    <2>1. UNCHANGED <<client, seen, answer, resp, out, gen, requests, status, setup>>
        BY <1>2 DEF Crash, vars, clientVars, reqVars, seqVars
    <2>2. alive' => alive
        BY <1>2 DEF Crash, vars
    <2> QED
        BY <2>1, <2>2, AccountKept DEF Accounts, Added
<1>3. ~MigrationLoop
    <2>1. ~Migrates /\ mpc = "top"
        BY DEF NoMigration, Quiet, Migrates, Shape, Typed
    <2> QED
        BY <2>1 DEF MigrationLoop, Admit, NoneAdmitted, MigDrains, MigTop, Migrated
<1> QED
    BY <1>1, <1>2, <1>3, AccountsInfer, AccountsClient, AccountsProcess, AccountsMain, AccountsWorker,
       AccountsSleep DEF Next

\* The invariant of an engine that does not migrate.
LEMMA Invariants ==
    ASSUME NoMigration PROVE Spec => [](Shape /\ Placed /\ Quiet /\ Accounts)
<1>1. Init => Shape /\ Placed /\ Quiet /\ Accounts
    BY ShapeInit, PlacedInit, QuietInit, AccountsInit
<1>2. Shape /\ Placed /\ Quiet /\ Accounts /\ [Next]_vars => (Shape /\ Placed /\ Quiet /\ Accounts)'
    BY ShapeStep, PlacedStep, QuietStep, AccountsStep
<1> QED
    BY <1>1, <1>2, PTL DEF Spec

\* Of several outputs of a session only the newest is sent, with the logprobs
\* of them all, and reading takes them: a client was handed every token's
\* logprobs once, and one that reads FINISH has every token generated
\* (_send_resps, _update_logprobs, async_stream_infer).
THEOREM NothingLost == ASSUME NoMigration PROVE Spec => []DeliveredAll
<1>1. Shape /\ Placed /\ Quiet /\ Accounts => DeliveredAll
    BY DEF Accounts, Account, Counted, DeliveredAll
<1> QED
    BY <1>1, Invariants, PTL

\* A client that waits for a sequence that will not run again has its last
\* answer on the way, whoever stopped it (_on_stop_session,
\* _cancel_and_end_all_sessions).
THEOREM ReadersAnswered == ASSUME NoMigration PROVE Spec => []WaitersAreAnswered
<1>1. Shape /\ Placed /\ Quiet /\ Accounts => WaitersAreAnswered
    BY DEF Accounts, Account, Answered, Waits, Added, Settled, WaitersAreAnswered
<1> QED
    BY <1>1, Invariants, PTL

---------------------------------------------------------------------------
(* The pipeline of batches, where no step of the worker waits inside.      *)

NoSuspension == \A u \in Setups : ~u.suspends

\* What was sent and not collected is done or queued, in that order.
Piped ==
    /\ step = <<>>
    /\ pc # "drained" => mine = outs \o work
    /\ slp = "asleep" => outs = <<>> /\ work = <<>>
    /\ Len(outs) + Len(work) \in {0, 1, 2}

\* How the pipeline moves: in at the tail, along, and out at the head.
LEMMA EntersPipe ==
    ASSUME NEW p \in Batches, NEW q \in Batches, NEW b \in SUBSET Clients
    PROVE  Append(p \o q, b) = p \o Append(q, b)
BY DEF Batches

LEMMA MovesAlong ==
    ASSUME NEW p \in Batches, NEW q \in Batches, q # <<>>
    PROVE  Append(p, Head(q)) \o Tail(q) = p \o q
BY DEF Batches

LEMMA LeavesPipe ==
    ASSUME NEW p \in Batches, NEW q \in Batches, p # <<>>
    PROVE  Head(p \o q) = Head(p) /\ Tail(p \o q) = Tail(p) \o q
BY DEF Batches

LEMMA PipeLength ==
    ASSUME NEW p \in Batches, NEW q \in Batches
    PROVE  Len(p \o q) = Len(p) + Len(q)
BY DEF Batches

\* Nothing enters or leaves the pipeline.
LEMMA PipedKept ==
    ASSUME Piped, UNCHANGED <<mine, work, step, outs, slp>>, pc' = "drained" <=> pc = "drained"
    PROVE  Piped'
BY DEF Piped

LEMMA Few ==
    ASSUME NEW m, NEW k \in Nat, NEW l \in Nat
    PROVE  /\ m \in {0, 1, 2} => m <= 2
           /\ k + l \in {0, 1, 2} => k <= 2 /\ l <= 2
           /\ m \in {0, 1} /\ k + l = m + 1 => k + l \in {0, 1, 2}
OBVIOUS

LEMMA PipedDispatch ==
    ASSUME Shape, Piped, NEW batch \in Passes, Dispatch(batch), UNCHANGED <<step, outs, slp>>,
           pc \notin {"drained"}, pc' # "drained", slp # "asleep", Len(mine) \in {0, 1}
    PROVE  Piped'
<1>1. batch \in SUBSET Clients /\ work \in Batches /\ outs \in Batches /\ mine \in Batches
    BY PassesTyped DEF Shape, Typed
<1>2. mine' = outs' \o work'
    BY <1>1, EntersPipe DEF Dispatch, Piped
<1>3. work' \in Batches /\ Len(mine') = Len(mine) + 1
    BY <1>1, Queues DEF Dispatch
<1>4. Len(outs') + Len(work') \in {0, 1, 2}
    <2>1. outs' = outs
        OBVIOUS
    <2>2. Len(mine') = Len(outs') + Len(work')
        BY <1>1, <1>2, <1>3, <2>1, PipeLength
    <2>3. Len(outs') \in Nat /\ Len(work') \in Nat
        BY <1>1, <1>3, <2>1, Sizes
    <2> QED
        BY <1>3, <2>2, <2>3, Few
<1> QED
    BY <1>2, <1>4 DEF Piped

LEMMA PipedMain == ASSUME Shape, Piped, MainLoop PROVE Piped'
<1>1. slp = "asleep" => pc = "drained"
    BY DEF Shape, Paced
<1>2. CASE Idle \/ (Prefetch /\ (sleepReq \/ Passes = {}))
    BY <1>2, PipedKept DEF Idle, Prefetch, workVars, sleepVars
<1>3. ASSUME NEW batch \in SUBSET Clients, Send(batch) PROVE Piped'
    BY <1>1, <1>3, PipedDispatch, NoBatches DEF Send, sleepVars
<1>4. CASE Prefetch /\ ~(sleepReq \/ Passes = {})
    <2>1. Len(mine) \in {0, 1} /\ pc \in {"sent", "top"}
        BY <1>4 DEF Prefetch, Shape, Paced
    <2> QED
        BY <1>1, <1>4, <2>1, PipedDispatch DEF Prefetch, sleepVars
<1>5. ASSUME NEW finished \in SUBSET Clients, Collect(finished) PROVE Piped'
    <2>1. /\ UNCHANGED <<step, work, slp>> /\ pc = "out" /\ pc' = "top" /\ outs # <<>>
          /\ outs' = Tail(outs) /\ mine' = Tail(mine)
        BY <1>5 DEF Collect, sleepVars
    <2>2. work \in Batches /\ outs \in Batches
        BY DEF Shape, Typed
    <2>3. mine' = outs' \o work'
        BY <2>1, <2>2, LeavesPipe DEF Piped
    <2>4. Len(outs') = Len(outs) - 1 /\ Len(outs) \in Nat /\ Len(work) \in Nat /\ Len(outs) # 0
        BY <2>1, <2>2, Sizes
    <2> QED
        BY <1>1, <2>1, <2>3, <2>4 DEF Piped
<1>6. CASE MainDrains
    <2>1. UNCHANGED <<step, work, outs, slp>> /\ pc' = "drained"
        BY <1>6 DEF MainDrains, workVars
    <2> QED
        BY <2>1 DEF Piped
<1> QED
    BY <1>2, <1>3, <1>4, <1>5, <1>6 DEF MainLoop

LEMMA PipedWorker == ASSUME NoSuspension, Shape, Piped, Worker PROVE Piped'
<1>1. Forward /\ ~setup.suspends
    BY DEF Worker, PushOutput, Piped, NoSuspension, Shape, Typed
<1>2. /\ UNCHANGED <<step, mine, pc, slp>> /\ work # <<>>
      /\ work' = Tail(work) /\ outs' = Append(outs, Head(work))
    BY <1>1 DEF Forward, mainVars, sleepVars
<1>3. work \in Batches /\ outs \in Batches
    BY DEF Shape, Typed
<1>4. outs' \o work' = outs \o work
    BY <1>2, <1>3, MovesAlong
<1>5. Head(work) \in SUBSET Clients /\ work' \in Batches /\ Len(work') = Len(work) - 1
    BY <1>2, <1>3, Sizes
<1>6. Len(outs') = Len(outs) + 1
    BY <1>2, <1>3, <1>5, Queues
<1>7. Len(outs) \in Nat /\ Len(work) \in Nat
    BY <1>3, Sizes
<1> QED
    BY <1>2, <1>4, <1>5, <1>6, <1>7 DEF Piped

LEMMA PipedSleep == ASSUME Shape, Piped, StartSleep \/ Sleeper \/ Wakeup PROVE Piped'
<1>1. CASE StartSleep
    <2>1. UNCHANGED <<mine, work, step, outs>> /\ (pc' = "drained" <=> pc = "drained") /\ slp' = "drain"
        BY <1>1 DEF StartSleep, WokenToDrain, Woken, workVars
    <2> QED
        BY <2>1 DEF Piped
<1>2. CASE CancelAll
    BY <1>2 DEF CancelAll, Piped, mainVars, workVars
<1>3. CASE WorkerSleeps
    <2>1. pc = "drained" /\ UNCHANGED <<step, pc, mine>> /\ work' = <<>> /\ outs' = <<>>
        BY <1>3 DEF WorkerSleeps, Drained, Shape, Paced, mainVars
    <2> QED
        BY <2>1, NoBatches DEF Piped
<1>4. CASE Wakeup
    <2>1. UNCHANGED <<step, mine, work, outs>> /\ pc' = "top" /\ slp' = "awake" /\ slp = "asleep"
        BY <1>4 DEF Wakeup, workVars
    <2>2. mine = <<>> /\ outs = <<>> /\ work = <<>>
        BY <2>1, Sizes DEF Shape, Typed, Paced, Piped
    <2>3. mine = outs \o work
        BY <2>2
    <2> QED
        BY <2>1, <2>2, <2>3 DEF Piped
<1> QED
    BY <1>1, <1>2, <1>3, <1>4 DEF Sleeper

LEMMA PipedStep == ASSUME NoSuspension PROVE Shape /\ Piped /\ [Next]_vars => Piped'
<1> SUFFICES ASSUME Shape, Piped, [Next]_vars PROVE Piped'
    OBVIOUS
<1>1. ASSUME NEW c \in Clients,
             Infer(c) \/ Receive(c) \/ Leave(c) \/ Abort(c) \/ RemoteFree(c)
      PROVE  Piped'
    BY <1>1, PipedKept DEF Infer, Receive, Gate, Read, NoEngine, Close, Leave, Abort, RemoteFree,
                           mainVars, workVars, sleepVars
<1>2. CASE Process \/ Migrated
    BY <1>2, PipedKept DEF Process, Migrated, Woken, workVars, sleepVars
<1>3. CASE Crash \/ Respond \/ UNCHANGED vars
    BY <1>3, PipedKept DEF Crash, Respond, vars, mainVars, workVars, sleepVars
<1>4. CASE (\E batch \in SUBSET Clients : Admit(batch)) \/ NoneAdmitted \/ MigDrains
    BY <1>4, PipedKept DEF Admit, NoneAdmitted, MigDrains, mainVars, workVars, sleepVars
<1> QED
    BY <1>1, <1>2, <1>3, <1>4, PipedMain, PipedWorker, PipedSleep DEF Next, MigrationLoop

LEMMA InOrder == ASSUME NoSuspension PROVE Spec => [](Shape /\ Piped)
<1>1. Init => Shape /\ Piped
    <2> SUFFICES ASSUME Init PROVE Piped
        BY ShapeInit
    <2>1. step = <<>> /\ mine = <<>> /\ work = <<>> /\ outs = <<>> /\ slp = "awake"
        BY DEF Init
    <2>2. <<>> \o <<>> = <<>>
        OBVIOUS
    <2> QED
        BY <2>1, <2>2, NoBatches DEF Piped
<1>2. Shape /\ Piped /\ [Next]_vars => (Shape /\ Piped)'
    BY ShapeStep, PipedStep
<1> QED
    BY <1>1, <1>2, PTL DEF Spec

\* The output the main loop takes is that of the batch it applies it to, also
\* after sleep dropped a batch whose forward was queued, in any engine whose
\* worker does not wait inside a step (_drain_queues).
THEOREM OutputsInOrder == ASSUME NoSuspension PROVE Spec => []OutputsMatch
<1>1. Shape /\ Piped => OutputsMatch
    <2> SUFFICES ASSUME Shape, Piped, pc = "out", outs # <<>> PROVE Head(outs) = Head(mine)
        BY DEF OutputsMatch
    <2>1. outs \in Batches /\ work \in Batches /\ mine = outs \o work
        BY DEF Shape, Typed, Piped
    <2> QED
        BY <2>1, LeavesPipe
<1> QED
    BY <1>1, InOrder, PTL

\* The variables have the types their comments say: in particular no answer has
\* more tokens than were asked for, and at most two forwards are under way.
THEOREM TypeCorrect == ASSUME NoMigration, NoSuspension PROVE Spec => []TypeOK
<1>1. Shape /\ Accounts /\ Piped => TypeOK
    <2> SUFFICES ASSUME Shape, Accounts, Piped PROVE TypeOK
        OBVIOUS
    <2>1. setup.tokens \in Nat
        BY ConstantsAssumption DEF Shape, Typed, IsSetup
    <2>2. ASSUME NEW c \in Clients
          PROVE  /\ seen[c].tokens \in 0..setup.tokens /\ seen[c].lps \in 0..setup.tokens
                 /\ resp[c].tokens \in 0..setup.tokens /\ resp[c].lps \in 0..setup.tokens
                 /\ gen[c] \in 0..setup.tokens
        <3>1. /\ seen[c].tokens \in Nat /\ seen[c].lps \in Nat /\ gen[c] \in Nat
              /\ resp[c].tokens \in Nat /\ resp[c].lps \in Nat /\ out[c].lps \in Nat
            BY DEF Shape, Typed, Responses, Outputs
        <3> QED
            BY <2>1, <3>1 DEF Accounts, Account, Counted
    <2>3. resp \in [Clients -> [type : {"INIT", "SUCCESS", "FINISH", "CANCEL"},
                                tokens : 0..setup.tokens, lps : 0..setup.tokens,
                                done : BOOLEAN, event : BOOLEAN]]
        BY <2>2 DEF Shape, Typed, Responses
    <2>4. gen \in [Clients -> 0..setup.tokens]
        BY <2>2 DEF Shape, Typed
    <2>5. Len(mine) <= 2 /\ Len(work) <= 2 /\ Len(step) <= 1 /\ Len(outs) <= 2
        <3>1. Len(work) \in Nat /\ Len(outs) \in Nat /\ Len(step) = 0
            BY Sizes, NoBatches DEF Shape, Typed, Piped
        <3>2. Len(mine) \in {0, 1, 2}
            BY DEF Shape, Typed, Paced
        <3>3. Len(outs) + Len(work) \in {0, 1, 2}
            BY DEF Piped
        <3>4. Len(step) <= 1
            BY <3>1
        <3> QED
            BY <3>1, <3>2, <3>3, <3>4, Few
    <2> QED
        BY <2>2, <2>3, <2>4, <2>5 DEF TypeOK, Shape, Typed, Places, Answers, Statuses, Messages
<1> QED
    BY <1>1, Invariants, InOrder, PTL
=============================================================================
