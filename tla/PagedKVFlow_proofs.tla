------------------------- MODULE PagedKVFlow_proofs -------------------------
(***************************************************************************)
(* Proofs, for every value of the constants, that nobody is left running   *)
(* when the engine loop sleeps, that a forward computes the host's text of *)
(* every row whose token is applied, and that a row's writes have a place  *)
(* in its block table.                                                     *)
(***************************************************************************)
EXTENDS PagedKV_proofs

Running == WithStatus("RUNNING")
Ready   == WithStatus("READY")

---------------------------------------------------------------------------
(* Who runs. *)

\* The list of forwards is short and typed.
LEMMA QueueFacts ==
    ASSUME Frame
    PROVE  /\ queue \in Seq(ForwardSet) /\ Len(queue) \in 0..2
           /\ pc \in Passing => Len(queue) <= 1
           /\ pc \notin {"sent", "next", "wait"} => Len(queue) <= 1
           /\ \A i \in DOMAIN queue : queue[i] \in ForwardSet
<1>1. queue \in Seq(ForwardSet) /\ Len(queue) \in Nat
  BY DEF Frame, QueueTyped
<1>2. pc \in {"sent", "next", "prefetch"} => Len(queue) = 1
  BY DEF Frame, QueueShape
<1>3. pc \notin {"sent", "next", "prefetch", "wait"} => Len(queue) <= 1
  BY DEF Frame, QueueShape
<1>4. pc = "wait" => Len(queue) <= 2
  BY DEF Frame, QueueShape
<1> DEFINE n == Len(queue)
<1> HIDE DEF n
<1>5. n \in 0..2 /\ (pc \notin {"sent", "next", "wait"} => n <= 1)
  <2>1. n \in Nat
    BY <1>1 DEF n
  <2>2. CASE pc \in {"sent", "next", "prefetch"}
    <3>1. n = 1
      BY <1>2, <2>2 DEF n
    <3> QED
      BY <3>1
  <2>3. CASE pc = "wait"
    <3>1. n <= 2
      BY <1>4, <2>3 DEF n
    <3> QED
      BY <2>1, <2>3, <3>1
  <2>4. CASE pc \notin {"sent", "next", "prefetch", "wait"}
    <3>1. n <= 1
      BY <1>3, <2>4 DEF n
    <3> QED
      BY <2>1, <3>1
  <2> QED
    BY <2>2, <2>3, <2>4
<1>6. pc \in Passing => pc \notin {"sent", "next", "wait"}
  BY DEF Passing, Candidate
<1>7. \A i \in DOMAIN queue : queue[i] \in ForwardSet
  BY <1>1
<1> QED
  BY <1>1, <1>5, <1>6, <1>7 DEF n

\* What is left when the head's output is collected.
LEMMA Waits ==
    ASSUME Frame, pc = "wait"
    PROVE  /\ Len(queue) = 1 \/ Len(queue) = 2
           /\ Len(queue) = 1 => Tail(queue) = <<>>
           /\ Len(queue) = 2 => Len(Tail(queue)) = 1 /\ Tail(queue)[1] = queue[2]
<1> DEFINE n == Len(queue)
<1>1. 1 <= n /\ n \in 0..2 /\ queue \in Seq(ForwardSet)
  BY QueueFacts DEF Frame, QueueShape
<1> HIDE DEF n
<1>2. n = 1 \/ n = 2
  BY <1>1
<1>0. queue # <<>>
  BY <1>1, EmptySeq DEF n
<1>t. /\ Tail(queue) \in Seq(ForwardSet) /\ Len(Tail(queue)) = Len(queue) - 1
      /\ \A i \in 1..Len(Tail(queue)) : Tail(queue)[i] = queue[i + 1]
  BY <1>0, <1>1, HeadTailProperties, Zenon
<1>3. ASSUME Len(queue) = 2
      PROVE  Len(Tail(queue)) = 1 /\ Tail(queue)[1] = queue[2]
  <2>1. Len(Tail(queue)) = 1
    BY <1>t, <1>3
  <2>2. 1 \in 1..Len(Tail(queue)) /\ 1 + 1 = 2
    BY <2>1
  <2> QED
    BY <1>t, <2>1, <2>2, Zenon
<1>4. ASSUME Len(queue) = 1 PROVE Tail(queue) = <<>>
  <2>1. Len(Tail(queue)) = 0
    BY <1>t, <1>4
  <2> QED
    BY <1>t, <2>1, EmptySeq
<1> QED
  BY <1>2, <1>3, <1>4 DEF n

\* Outside a pass a step of the clients only takes sequences away.
LEMMA SteppedLess ==
    ASSUME Stepped, UNCHANGED <<running, queue, pc, turn>>, Running' \subseteq Running
    PROVE  Stepped'
<1>1. Unstarted' = Unstarted
  BY DEF Unstarted
<1> QED
  BY <1>1 DEF Stepped, Running

\* A step within a pass.
LEMMA SteppedPass ==
    ASSUME Stepped, UNCHANGED <<running, queue>>, Running' \subseteq Running,
           pc' \in Passing, Len(queue) \in 0..1,
           pc' = "decode" => Running' \subseteq turn'.todo \cup turn'.batch,
           pc' \in Candidate /\ turn'.lane = "decode" =>
               Running' \subseteq turn'.todo \cup turn'.batch \cup {turn'.cand}
    PROVE  Stepped'
<1>1. pc' \notin {"sent", "next", "wait"}
  BY DEF Passing, Candidate
<1>2. Unstarted' = {}
  BY <1>1 DEF Unstarted
<1>3. Running' \subseteq running /\ (queue = <<>> => Running' = {})
  BY DEF Stepped, Running
<1> QED
  BY <1>1, <1>2, <1>3 DEF Stepped, Running

LEMMA ClientStepped ==
    ASSUME Shapes, Stepped, Client
    PROVE  Stepped'
<1>1. Running' \subseteq Running
  BY DEF Client, AddMessage, StopSession, EndSession, Running, WithStatus, Shapes
<1> QED
  BY <1>1, SteppedLess DEF Client, AddMessage, StopSession, EndSession, loopVars

LEMMA PrefillStepped ==
    ASSUME ConstantsAssumption, Frame, Reserved, Stepped, Prefill
    PROVE  Stepped'
<1>a. Shapes /\ Control
  BY DEF Frame
<1>b. queue \in Seq(ForwardSet) /\ (pc \in Passing \cup {"send", "prefetch"} => Len(queue) \in 0..1)
  <2>1. pc \in Passing \cup {"send", "prefetch"} => pc \notin {"sent", "next", "wait"}
    BY DEF Passing, Candidate
  <2>2. Len(queue) \in 0..2 /\ (pc \in Passing \cup {"send", "prefetch"} => Len(queue) <= 1)
    BY <2>1, QueueFacts
  <2> QED
    BY <2>2, QueueFacts
<1>1. CASE BeginPrefill \/ EndPick \/ \E s \in Seqs : PickCandidate(s)
  <2>1. /\ UNCHANGED <<running, queue, status>> /\ pc \in Passing \cup {"send", "prefetch"}
        /\ pc' \in {"pick", "build", "match"}
    BY <1>1 DEF BeginPrefill, EndPick, PickCandidate, loopVars, seqVars, Passing
  <2>2. pc' = "match" => turn'.lane = "prefill"
    BY <1>1, <1>a DEF BeginPrefill, EndPick, PickCandidate, Control, Shapes, Turns
  <2>3. Running' = Running
    BY <2>1 DEF Running, WithStatus
  <2> QED
    BY <1>b, <2>1, <2>2, <2>3, SteppedPass DEF Passing, Candidate
<1>2. CASE MatchBlock \/ EndMatch \/ GateAdmits
  <2>1. /\ UNCHANGED <<running, queue, status>> /\ pc \in {"match", "gate"} /\ pc' \in Candidate
    BY <1>2 DEF MatchBlock, EndMatch, GateAdmits, loopVars, seqVars, Candidate
  <2>2. turn'.lane = "prefill"
    BY <1>2, <1>a DEF MatchBlock, EndMatch, GateAdmits, Control, Shapes, Turns
  <2>3. Running' = Running
    BY <2>1 DEF Running, WithStatus
  <2> QED
    BY <1>b, <2>1, <2>2, <2>3, SteppedPass DEF Passing, Candidate
<1>3. CASE GateRejects \/ NoRoomPrefill
  <2>1. UNCHANGED <<running, queue, status>> /\ pc \in Candidate /\ pc' = "build"
    BY <1>3 DEF GateRejects, NoRoomPrefill, loopVars, Candidate
  <2>2. Running' = Running
    BY <2>1 DEF Running, WithStatus
  <2> QED
    BY <1>b, <2>1, <2>2, SteppedPass DEF Passing, Candidate
<1>4. CASE AcceptPrefill
  <2>1. /\ UNCHANGED <<running, queue>> /\ pc = "accept" /\ pc' = "pick"
        /\ status' = [status EXCEPT ![turn.cand] = "READY"]
    BY <1>4 DEF AcceptPrefill, loopVars
  <2>2. Running' \subseteq Running
    BY <1>a, <2>1 DEF Running, WithStatus, Shapes
  <2> QED
    BY <1>b, <2>1, <2>2, SteppedPass DEF Passing, Candidate
<1>5. CASE BuildPrefill
  <2> DEFINE f == Forward("prefill", turn.batch)
  <2>1. /\ pc = "build" /\ queue' = Append(queue, f)
        /\ running' = running \cap Running /\ UNCHANGED status
        /\ pc' = IF queue = <<>> THEN "sent" ELSE "wait"
    BY <1>5 DEF BuildPrefill, Sent, seqVars, Running
  <2>2. Len(queue) \in 0..1 /\ f \in ForwardSet
    BY <1>a, <1>b, <2>1, ForwardTyped DEF Passing, Shapes, Turns
  <2>3. f.kind = "prefill" /\ DOMAIN f.rows = turn.batch
    BY DEF Forward
  <2> HIDE DEF f
  <2>4. Len(queue') = Len(queue) + 1 /\ queue'[Len(queue')] = f /\ queue' # <<>>
    BY <1>b, <2>1, <2>2
  <2>5. Unstarted' = {f}
    <3>1. CASE queue = <<>>
      BY <2>1, <2>4, <3>1 DEF Unstarted
    <3>2. CASE queue # <<>>
      <4>1. Len(queue) # 0
        BY <1>b, <3>2
      <4>2. Len(queue') = 2
        <5>1. Len(queue) = 1
          BY <2>2, <4>1
        <5> QED
          BY <2>4, <5>1
      <4> QED
        BY <2>4, <4>2 DEF Unstarted
    <3> QED
      BY <3>1, <3>2
  <2>6. \A s \in turn.batch : status[s] = "READY"
    BY <2>1 DEF Reserved, BatchReserved, Passing
  <2>7. Running' = Running /\ Running \cap turn.batch = {}
    BY <2>1, <2>6 DEF Running, WithStatus
  <2>8. pc' = "sent" => Running = {}
    BY <2>1 DEF Stepped, Running
  <2>9. pc' = "wait" => Len(queue') # 1
    BY <1>b, <2>1, <2>2, <2>4
  <2>10. Running \subseteq running'
    BY <2>1 DEF Stepped, Running
  <2>11. pc' \in {"sent", "wait"}
    BY <2>1
  <2> QED
    BY <2>3, <2>4, <2>5, <2>7, <2>8, <2>9, <2>10, <2>11 DEF Stepped, Running, Candidate
<1>6. CASE FallBackToDecode
  <2>1. UNCHANGED <<running, queue, status>> /\ pc = "build"
    BY <1>6 DEF FallBackToDecode, loopVars, seqVars
  <2>2. Running' = Running
    BY <2>1 DEF Running, WithStatus
  <2>3. CASE running # {}
    <3>1. pc' = "decode" /\ turn' = [NoTurn EXCEPT !.lane = "decode", !.todo = running]
      BY <1>6, <2>3 DEF FallBackToDecode
    <3>2. turn'.todo = running
      BY <3>1 DEF NoTurn
    <3>3. Running \subseteq running
      BY DEF Stepped, Running
    <3> QED
      BY <1>b, <2>1, <2>2, <3>1, <3>2, <3>3, SteppedPass DEF Passing, Candidate
  <2>4. CASE running = {}
    <3>1. pc' = NothingSent /\ turn' = NoTurn
      BY <1>6, <2>4 DEF FallBackToDecode
    <3>2. pc' \in {"send", "wait"} /\ (pc' = "send" => queue = <<>>)
      BY <3>1 DEF NothingSent
    <3>3. Running = {}
      BY <2>4 DEF Stepped, Running
    <3>4. Len(queue) # 2
      BY <1>b, <2>1 DEF Passing
    <3>5. Unstarted' = {}
      BY <2>1, <3>2, <3>4 DEF Unstarted
    <3> QED
      BY <2>1, <2>2, <3>2, <3>3, <3>5 DEF Stepped, Running, Candidate
  <2> QED
    BY <2>3, <2>4
<1> QED
  BY <1>1, <1>2, <1>3, <1>4, <1>5, <1>6 DEF Prefill

\* Making room and publication happen to a candidate and change no status.
LEMMA CandidateSteps ==
    ASSUME Capacity \/ Publish
    PROVE  /\ UNCHANGED <<running, queue, status, ids, arrival, toEvict, wtext>>
           /\ pc \in {"capacity", "evict", "alloc", "publish"}
           /\ pc' \in {"capacity", "evict", "alloc", "publish", "accept"}
<1>1. CASE Capacity
  BY <1>1 DEF Capacity, CapacityFound, NothingToReclaim, EvictEnough, EvictNextVictim, Reclaim,
       EvictLeaf, seqVars, loopVars, devVars
<1>2. CASE Publish
  BY <1>2 DEF Publish, BeginPublish, PublishNew, PublishShared, EndPublish, AllocateBlock,
       seqVars, loopVars, devVars
<1> QED
  BY <1>1, <1>2

\* Of the pass's locals they change what is still to be allocated, at most.
LEMMA CandidateTurn ==
    ASSUME Shapes, Capacity \/ Publish
    PROVE  /\ turn'.lane = turn.lane /\ turn'.todo = turn.todo /\ turn'.batch = turn.batch
           /\ turn'.cand = turn.cand
<1>1. CASE Capacity
  BY <1>1 DEF Capacity, CapacityFound, NothingToReclaim, EvictEnough, EvictNextVictim, Reclaim,
       EvictLeaf
<1>2. CASE Publish
  <2>1. CASE \E b \in Blocks : AllocateBlock(b)
    BY <2>1 DEF AllocateBlock, Shapes, Turns
  <2>2. CASE BeginPublish \/ PublishNew \/ PublishShared \/ EndPublish
    BY <2>2 DEF BeginPublish, PublishNew, PublishShared, EndPublish
  <2> QED
    BY <1>2, <2>1, <2>2 DEF Publish
<1> QED
  BY <1>1, <1>2

LEMMA CandidateStepped ==
    ASSUME Frame, Stepped, Capacity \/ Publish
    PROVE  Stepped'
<1>1. Shapes
  BY DEF Frame
<1>2. pc \in Candidate /\ pc' \in Candidate /\ pc' # "decode"
  BY CandidateSteps DEF Candidate
<1>3. Len(queue) \in 0..1
  BY <1>2, QueueFacts DEF Passing
<1>4. Running' = Running /\ UNCHANGED <<running, queue>>
  BY CandidateSteps DEF Running, WithStatus
<1>5. turn.lane = "decode" => Running \subseteq turn.todo \cup turn.batch \cup {turn.cand}
  BY <1>2 DEF Stepped, Running
<1> QED
  BY <1>1, <1>2, <1>3, <1>4, <1>5, CandidateTurn, SteppedPass DEF Passing

LEMMA DecodeStepped ==
    ASSUME ConstantsAssumption, Frame, Reserved, Stepped, Decode
    PROVE  Stepped'
<1>a. Shapes /\ Control
  BY DEF Frame
<1>b. queue \in Seq(ForwardSet) /\ (pc \in Passing \cup {"send", "prefetch"} => Len(queue) \in 0..1)
  <2>1. pc \in Passing \cup {"send", "prefetch"} => pc \notin {"sent", "next", "wait"}
    BY DEF Passing, Candidate
  <2>2. Len(queue) \in 0..2 /\ (pc \in Passing \cup {"send", "prefetch"} => Len(queue) <= 1)
    BY <2>1, QueueFacts
  <2> QED
    BY <2>2, QueueFacts
<1>c. Running \subseteq running /\ (pc = "decode" => Running \subseteq turn.todo \cup turn.batch)
  BY DEF Stepped, Running
<1>1. CASE BeginDecode
  <2>1. /\ UNCHANGED <<running, queue, status>> /\ pc \in {"send", "prefetch"} /\ pc' = "decode"
        /\ turn' = [NoTurn EXCEPT !.lane = "decode", !.todo = running]
    BY <1>1 DEF BeginDecode, loopVars, seqVars
  <2>2. Running' = Running /\ turn'.todo = running
    BY <2>1 DEF Running, WithStatus, NoTurn
  <2> QED
    BY <1>b, <1>c, <2>1, <2>2, SteppedPass DEF Passing, Candidate
<1>2. CASE NoRoomDecode
  <2>1. /\ UNCHANGED <<running, queue>> /\ pc = "evict" /\ pc' = "decode" /\ turn.lane = "decode"
        /\ status' = [status EXCEPT ![turn.cand] = "WAITING"]
        /\ turn' = [turn EXCEPT !.cand = NoSeq]
    BY <1>2 DEF NoRoomDecode, loopVars
  <2>2. turn'.todo = turn.todo /\ turn'.batch = turn.batch /\ turn.cand \in Seqs
    BY <1>a, <2>1 DEF Shapes, Turns, Control, Candidate
  <2>3. Running' = Running \ {turn.cand}
    BY <1>a, <2>1, <2>2 DEF Running, WithStatus, Shapes
  <2>4. Running \subseteq turn.todo \cup turn.batch \cup {turn.cand}
    BY <2>1 DEF Stepped, Running, Candidate
  <2> QED
    BY <1>b, <2>1, <2>2, <2>3, <2>4, SteppedPass DEF Passing, Candidate
<1>3. CASE AcceptDecode
  <2>1. /\ UNCHANGED <<running, queue, status>> /\ pc = "accept" /\ pc' = "decode" /\ turn.lane = "decode"
        /\ turn' = [turn EXCEPT !.batch = turn.batch \cup {turn.cand}, !.cand = NoSeq]
    BY <1>3 DEF AcceptDecode, loopVars, seqVars
  <2>2. turn'.todo = turn.todo /\ turn'.batch = turn.batch \cup {turn.cand}
    BY <1>a, <2>1 DEF Shapes, Turns
  <2>3. Running' = Running
    BY <2>1 DEF Running, WithStatus
  <2>4. Running \subseteq turn.todo \cup turn.batch \cup {turn.cand}
    BY <2>1 DEF Stepped, Running, Candidate
  <2> QED
    BY <1>b, <2>1, <2>2, <2>3, <2>4, SteppedPass DEF Passing, Candidate
<1>4. ASSUME NEW s \in Seqs, DecodeDrop(s) \/ DecodeKeep(s) \/ DecodeGrow(s)
      PROVE  Stepped'
  <2>1. /\ UNCHANGED <<running, queue, status>> /\ pc = "decode" /\ pc' \in {"decode", "capacity"}
    BY <1>4 DEF DecodeDrop, DecodeKeep, DecodeGrow, loopVars, seqVars, Candidate
  <2>2. Running' = Running
    BY <2>1 DEF Running, WithStatus
  <2>3. CASE DecodeDrop(s)
    <3>1. pc' = pc /\ s \notin Running /\ turn'.todo = turn.todo \ {s} /\ turn'.batch = turn.batch
      BY <1>a, <2>3 DEF DecodeDrop, Running, WithStatus, Shapes, Turns
    <3> QED
      BY <1>b, <1>c, <2>1, <2>2, <3>1, SteppedPass DEF Passing, Candidate
  <2>4. CASE DecodeKeep(s)
    <3>1. pc' = pc /\ turn'.todo = turn.todo \ {s} /\ turn'.batch = turn.batch \cup {s}
      BY <1>a, <2>4 DEF DecodeKeep, Shapes, Turns
    <3> QED
      BY <1>b, <1>c, <2>1, <2>2, <3>1, SteppedPass DEF Passing, Candidate
  <2>5. CASE DecodeGrow(s)
    <3>1. /\ pc' = "capacity"
          /\ turn' = [turn EXCEPT !.todo = turn.todo \ {s}, !.cand = s,
                                  !.need = NumRequired(s, Prealloc)]
      BY <2>5 DEF DecodeGrow
    <3>2. /\ turn'.todo = turn.todo \ {s} /\ turn'.batch = turn.batch
          /\ turn'.cand = s
      BY <1>a, <3>1 DEF Shapes, Turns
    <3> QED
      BY <1>b, <1>c, <2>1, <2>2, <3>1, <3>2, SteppedPass DEF Passing, Candidate
  <2> QED
    BY <1>4, <2>3, <2>4, <2>5
<1>5. CASE BuildDecode
  <2> DEFINE f == Forward("decode", turn.batch)
  <2>1. /\ pc = "decode" /\ turn.todo = {} /\ UNCHANGED <<running, status>>
        /\ IF turn.batch # {}
             THEN queue' = Append(queue, f) /\ pc' = IF queue = <<>> THEN "sent" ELSE "wait"
             ELSE pc' = (IF queue = <<>> THEN "send" ELSE "wait") /\ UNCHANGED queue
    BY <1>5 DEF BuildDecode, Sent, NothingSent, seqVars
  <2>2. Len(queue) \in 0..1 /\ f \in ForwardSet
    BY <1>a, <1>b, <2>1, ForwardTyped DEF Passing, Shapes, Turns
  <2>3. f.kind = "decode" /\ DOMAIN f.rows = turn.batch
    BY DEF Forward
  <2>4. Running' = Running /\ Running \subseteq turn.batch
    BY <1>c, <2>1 DEF Running, WithStatus
  <2>5. queue = <<>> => Running = {}
    BY DEF Stepped, Running
  <2> HIDE DEF f
  <2>6. CASE turn.batch = {}
    <3>1. Unstarted' = {}
      <4>1. pc' \notin {"sent", "next"} /\ Len(queue') # 2
        BY <2>1, <2>2, <2>6
      <4> QED
        BY <4>1 DEF Unstarted
    <3>2. pc' \in {"send", "wait"} /\ Running' = {}
      BY <2>1, <2>4, <2>6
    <3> QED
      BY <1>c, <2>1, <3>1, <3>2 DEF Stepped, Running, Candidate
  <2>7. CASE turn.batch # {}
    <3>1. queue' = Append(queue, f) /\ pc' = IF queue = <<>> THEN "sent" ELSE "wait"
      BY <2>1, <2>7
    <3>2. Len(queue') = Len(queue) + 1 /\ queue'[Len(queue')] = f /\ queue' # <<>>
      BY <1>b, <2>2, <3>1
    <3>3. CASE queue = <<>>
      <4>1. Unstarted' = {f} /\ pc' = "sent" /\ Running' = {}
        BY <2>4, <2>5, <3>1, <3>2, <3>3 DEF Unstarted
      <4> QED
        BY <1>c, <2>3, <4>1 DEF Stepped, Running, Candidate
    <3>4. CASE queue # <<>>
      <4>1. Len(queue) = 1
        BY <1>b, <2>2, <3>4
      <4>2. Len(queue') = 2 /\ pc' = "wait"
        BY <3>1, <3>2, <3>4, <4>1
      <4>3. Unstarted' = {f}
        BY <3>2, <4>2 DEF Unstarted
      <4> QED
        BY <1>c, <2>1, <2>3, <2>4, <3>2, <4>2, <4>3 DEF Stepped, Running, Candidate
    <3> QED
      BY <3>3, <3>4
  <2> QED
    BY <2>6, <2>7
<1> QED
  BY <1>1, <1>2, <1>3, <1>4, <1>5 DEF Decode

LEMMA LoopStepped ==
    ASSUME ConstantsAssumption, Frame, Stepped, Loop
    PROVE  Stepped'
<1>a. Shapes /\ QueueShape /\ queue \in Seq(ForwardSet)
  BY QueueFacts DEF Frame
<1>c. Running \subseteq running
  BY DEF Stepped, Running
<1>1. CASE Activate
  <2>1. /\ pc \in {"sent", "next"} /\ pc' = "prefetch" /\ UNCHANGED <<queue, turn>>
        /\ status' = [s \in Seqs |-> IF s \in Rows1 /\ status[s] = "READY"
                                       THEN "RUNNING" ELSE status[s]]
        /\ running' = IF Head1.kind = "decode" THEN Rows1 ELSE running \cup Rows1
    BY <1>1 DEF Activate, NowRunning
  <2>2. Len(queue) = 1
    BY <1>a, <2>1 DEF QueueShape
  <2>3. Unstarted = {Head1} /\ Unstarted' = {}
    BY <2>1, <2>2 DEF Unstarted, Head1
  <2>4. Running' \subseteq Running \cup Rows1
    BY <2>1 DEF Running, WithStatus
  <2>5. Head1.kind = "decode" => Running \subseteq Rows1
    BY <2>3 DEF Stepped, Running, Rows1
  <2>6. Running' \subseteq running'
    BY <1>c, <2>1, <2>4, <2>5
  <2>7. queue # <<>>
    BY <2>2
  <2> QED
    BY <2>1, <2>3, <2>6, <2>7 DEF Stepped, Running, Candidate
<1>2. ASSUME NEW tok \in Sampled, NEW stop \in SUBSET Rows1, CollectOutput(tok, stop)
      PROVE  Stepped'
  <2>1. /\ pc = "wait" /\ queue' = Tail(queue) /\ UNCHANGED <<running, turn>>
        /\ pc' = IF Len(queue) = 1 THEN "send" ELSE "next"
    BY <1>2 DEF CollectOutput
  <2>2. Running' \subseteq Running
    BY <1>2 DEF CollectOutput, Preempted, Running, WithStatus
  <2>3. Len(queue) = 1 \/ Len(queue) = 2
    BY <2>1, Waits
  <2>4. CASE Len(queue) = 1
    <3>1. Running = {}
      BY <2>1, <2>4 DEF Stepped, Running
    <3>2. pc' = "send" /\ Len(queue') = 0
      BY <1>a, <2>1, <2>4
    <3>3. Unstarted' = {}
      BY <3>2 DEF Unstarted
    <3> QED
      BY <2>1, <2>2, <3>1, <3>2, <3>3 DEF Stepped, Running, Candidate
  <2>5. CASE Len(queue) = 2
    <3>1. pc' = "next" /\ Len(queue') = 1 /\ queue'[1] = queue[2]
      BY <2>1, <2>5, Waits
    <3>2. Unstarted' = {queue[2]} /\ Unstarted = {queue[2]}
      BY <2>1, <2>5, <3>1 DEF Unstarted
    <3>3. queue' # <<>>
      BY <3>1
    <3> QED
      BY <1>c, <2>1, <2>2, <3>1, <3>2, <3>3 DEF Stepped, Running, Candidate
  <2> QED
    BY <2>3, <2>4, <2>5
<1> QED
  BY <1>1, <1>2 DEF Loop

---------------------------------------------------------------------------
(* Reservations. *)

\* The blocks that n tokens start hold n tokens.
LEMMA CeilCovers ==
    ASSUME NEW n \in Nat, NEW B \in Nat \ {0}
    PROVE  (n + B - 1) \div B \in Nat /\ n <= B * ((n + B - 1) \div B)
<1> DEFINE q == (n + B - 1) \div B
<1>1. n + B - 1 \in Nat
  OBVIOUS
<1>2. q \in Nat
  BY <1>1, DivNat
<1>3. n + B - 1 < B * q + B
  BY <1>1, Z3
<1> HIDE DEF q
<1>4. B * q \in Nat
  BY <1>2
<1>5. n <= B * q
  BY <1>3, <1>4
<1> QED
  BY <1>2, <1>5 DEF q

\* More blocks hold more.
LEMMA TimesMono ==
    ASSUME NEW B \in Nat, NEW m \in Nat, NEW n \in Nat, m <= n
    PROVE  B * m \in Nat /\ B * n \in Nat /\ B * m <= B * n
<1>1. B * m \in Nat /\ B * n \in Nat
  OBVIOUS
<1>2. B * (n - m) >= 0
  BY Z3
<1>3. B * (n - m) = B * n - B * m
  BY Z3
<1> QED
  BY <1>1, <1>2, <1>3

LEMMA NeedReserves ==
    ASSUME ConstantsAssumption, Shapes, NEW s \in Seqs, NEW extra \in Nat
    PROVE  /\ NumRequired(s, extra) \in Nat
           /\ Len(ids[s]) + extra <= BlockSize * (Len(table[s]) + NumRequired(s, extra))
<1> DEFINE n == Len(ids[s]) + extra
           q == (n + BlockSize - 1) \div BlockSize
           held == Len(table[s])
<1>1. n \in Nat /\ held \in Nat /\ BlockSize \in Nat \ {0}
  BY DEF Shapes, ConstantsAssumption
<1>2. NumRequired(s, extra) = Excess(q, held)
  BY DEF NumRequired
<1> HIDE DEF n, held
<1>3. q \in Nat /\ n <= BlockSize * q
  BY <1>1, CeilCovers
<1> HIDE DEF q
<1>4. Excess(q, held) \in Nat /\ q <= held + Excess(q, held)
  BY <1>1, <1>3 DEF Excess
<1> DEFINE e == Excess(q, held)
<1> HIDE DEF e
<1>5. e \in Nat /\ q <= held + e /\ held + e \in Nat
  BY <1>1, <1>4 DEF e
<1>6. BlockSize * q \in Nat /\ BlockSize * (held + e) \in Nat /\ BlockSize * q <= BlockSize * (held + e)
  BY <1>1, <1>3, <1>5, TimesMono
<1>7. n <= BlockSize * (held + e)
  BY <1>1, <1>3, <1>6
<1> QED
  BY <1>2, <1>5, <1>7 DEF n, held, e

\* The batch is untouched by what happens to the candidate.
LEMMA BatchKept ==
    ASSUME BatchReserved, UNCHANGED <<status, ids>>, turn'.lane = turn.lane,
           turn'.batch = turn.batch, \A s \in turn.batch : table'[s] = table[s]
    PROVE  BatchReserved'
  BY DEF BatchReserved

\* Nor by the loss of a sequence that waits or has stopped.
LEMMA BatchKeptByRelease ==
    ASSUME ConstantsAssumption, Shapes, BatchReserved, UNCHANGED <<status, ids>>, turn'.lane = turn.lane,
           turn'.batch = turn.batch, NEW v \in Seqs, status[v] \in {"WAITING", "STOPPED"},
           ReleasePaging(v) \/ UNCHANGED table
    PROVE  BatchReserved'
<1>1. v \notin turn.batch
  BY DEF BatchReserved
<1>2. turn.batch \subseteq Seqs
  BY DEF Shapes, Turns
<1>3. \A s \in turn.batch : table'[s] = table[s]
  BY <1>1, <1>2, ReleaseShapes
<1> QED
  BY <1>3, BatchKept

\* An empty batch asks for nothing.
LEMMA BatchEmpty ==
    ASSUME turn'.batch = {}
    PROVE  BatchReserved'
  BY DEF BatchReserved

\* Outside a pass nothing is reserved.
LEMMA NothingReserved ==
    ASSUME pc' \notin Passing
    PROVE  Reserved'
  BY DEF Reserved, CandidateReserved, Passing, Candidate

LEMMA PrefillReserved ==
    ASSUME ConstantsAssumption, Frame, Reserved, Prefill
    PROVE  Reserved'
<1>a. Shapes /\ Control
  BY DEF Frame
<1>1. CASE BeginPrefill
  <2>1. pc' = "pick" /\ turn' = [NoTurn EXCEPT !.lane = "prefill", !.todo = Waiting]
    BY <1>1 DEF BeginPrefill
  <2>2. turn'.batch = {}
    BY <2>1 DEF NoTurn
  <2> QED
    BY <2>1, <2>2, BatchEmpty DEF Reserved, CandidateReserved, Candidate
<1>2. CASE EndPick \/ EndMatch
  <2>1. /\ UNCHANGED <<status, ids, table, turn>> /\ pc \in Passing
        /\ \/ pc = "pick" /\ pc' = "build"
           \/ pc = "match" /\ pc' = "gate"
    BY <1>2 DEF EndPick, EndMatch, memVars, seqVars, Passing, Candidate
  <2>2. BatchReserved'
    BY <2>1, BatchKept DEF Reserved
  <2>3. turn.lane = "prefill"
    BY <1>a, <2>1 DEF Control
  <2> QED
    BY <2>1, <2>2, <2>3 DEF Reserved, CandidateReserved, Candidate
<1>3. ASSUME NEW s \in Seqs, PickCandidate(s)
      PROVE  Reserved'
  <2>1. /\ UNCHANGED <<status, ids, table>> /\ pc = "pick" /\ pc' = "match" /\ s \in turn.todo
        /\ turn' = [turn EXCEPT !.todo = turn.todo \ {s}, !.cand = s]
    BY <1>3 DEF PickCandidate, memVars, seqVars
  <2>2. turn'.lane = turn.lane /\ turn'.batch = turn.batch /\ turn'.cand = s
    BY <1>a, <2>1 DEF Shapes, Turns
  <2>3. turn.lane = "prefill" /\ status[s] = "WAITING"
    BY <1>a, <2>1 DEF Control, Candidate, Waiting, WithStatus
  <2>4. BatchReserved
    BY <2>1 DEF Reserved, Passing
  <2>5. s \notin turn.batch
    BY <2>3, <2>4 DEF BatchReserved
  <2>6. BatchReserved'
    BY <2>1, <2>2, <2>4, BatchKept
  <2> QED
    BY <2>1, <2>2, <2>3, <2>5, <2>6 DEF Reserved, CandidateReserved, Candidate
<1>4. CASE MatchBlock
  <2>1. /\ UNCHANGED <<status, ids, turn>> /\ pc = "match" /\ pc' = pc
        /\ table' = [table EXCEPT ![turn.cand] = Append(table[turn.cand], trie[NextPath(turn.cand)])]
    BY <1>4 DEF MatchBlock
  <2>2. turn.cand \notin turn.batch /\ turn.batch \subseteq Seqs /\ turn.lane = "prefill" /\ BatchReserved
    BY <1>a, <2>1 DEF Reserved, Passing, Candidate, Shapes, Turns, Control
  <2>3. BatchReserved'
    BY <1>a, <2>1, <2>2, BatchKept DEF Shapes
  <2> QED
    BY <2>1, <2>2, <2>3 DEF Reserved, CandidateReserved, Candidate
<1>5. CASE GateRejects \/ NoRoomPrefill
  <2>1. /\ UNCHANGED <<status, ids>> /\ pc \in Candidate /\ pc' = "build" /\ turn.lane = "prefill"
        /\ turn' = [turn EXCEPT !.cand = NoSeq] /\ Rollback(turn.cand)
    BY <1>5, <1>a DEF GateRejects, NoRoomPrefill, Candidate, Control
  <2>2. turn'.lane = turn.lane /\ turn'.batch = turn.batch /\ turn.cand \in Seqs
        /\ status[turn.cand] = "WAITING" /\ BatchReserved
    BY <1>a, <2>1 DEF Shapes, Turns, Control, Reserved, Passing
  <2>3. ReleasePaging(turn.cand) \/ UNCHANGED table
    BY <2>1 DEF Rollback, memVars
  <2>4. BatchReserved'
    BY <1>a, <2>1, <2>2, <2>3, BatchKeptByRelease
  <2> QED
    BY <2>1, <2>2, <2>4 DEF Reserved, CandidateReserved, Candidate
<1>6. CASE GateAdmits
  <2>1. /\ UNCHANGED <<status, ids, table>> /\ pc = "gate" /\ pc' = "capacity"
        /\ turn' = [turn EXCEPT !.need = NumRequired(turn.cand, Prealloc)]
    BY <1>6 DEF GateAdmits, memVars, seqVars
  <2>2. /\ turn'.lane = turn.lane /\ turn'.batch = turn.batch /\ turn'.cand = turn.cand
        /\ turn'.need = NumRequired(turn.cand, Prealloc) /\ turn.lane = "prefill" /\ turn.cand \in Seqs
    BY <1>a, <2>1 DEF Shapes, Turns, Control, Candidate
  <2>3. BatchReserved' /\ turn.cand \notin turn.batch
    BY <2>1, <2>2, BatchKept DEF Reserved, Passing, Candidate
  <2>4. Len(ids[turn.cand]) + Prealloc
          <= BlockSize * (Len(table[turn.cand]) + NumRequired(turn.cand, Prealloc))
    BY <1>a, <2>2, NeedReserves DEF ConstantsAssumption
  <2> QED
    BY <2>1, <2>2, <2>3, <2>4 DEF Reserved, CandidateReserved, Candidate
<1>7. CASE AcceptPrefill
  <2> DEFINE s == turn.cand
  <2>1. /\ UNCHANGED <<ids, table>> /\ pc = "accept" /\ pc' = "pick" /\ turn.lane = "prefill"
        /\ status' = [status EXCEPT ![s] = "READY"]
        /\ turn' = [turn EXCEPT !.batch = turn.batch \cup {s}, !.used = turn.used + NumTokens(s),
                                !.cand = NoSeq]
    BY <1>7 DEF AcceptPrefill, memVars
  <2>2. turn'.lane = "prefill" /\ turn'.batch = turn.batch \cup {s}
    BY <1>a, <2>1 DEF Shapes, Turns
  <2>3. s \in Seqs /\ BatchReserved /\ turn.batch \subseteq Seqs /\ BlockSize \in Nat
    BY <1>a, <2>1 DEF Control, Candidate, Reserved, Passing, Shapes, Turns, ConstantsAssumption
  <2>4. Len(ids[s]) + Prealloc <= BlockSize * Len(table[s])
    BY <2>1 DEF Reserved, CandidateReserved
  <2>5. Len(ids[s]) <= BlockSize * Len(table[s])
    <3>1. Len(ids[s]) \in Nat /\ Len(table[s]) \in Nat /\ Prealloc \in Nat
      BY <1>a, <2>3 DEF Shapes, ConstantsAssumption
    <3>2. BlockSize * Len(table[s]) \in Nat
      BY <2>3, <3>1
    <3> QED
      BY <2>4, <3>1, <3>2
  <2> HIDE DEF s
  <2>6. \A t \in turn.batch \cup {s} : status'[t] = "READY"
    BY <1>a, <2>1, <2>3 DEF Shapes, BatchReserved
  <2>7. BatchReserved'
    BY <2>1, <2>2, <2>3, <2>5, <2>6 DEF BatchReserved
  <2> QED
    BY <2>1, <2>7 DEF Reserved, CandidateReserved, Candidate
<1>8. CASE BuildPrefill
  BY <1>8, NothingReserved DEF BuildPrefill, Sent, Passing, Candidate
<1>9. CASE FallBackToDecode
  <2>1. CASE running # {}
    <3>1. pc' = "decode" /\ turn' = [NoTurn EXCEPT !.lane = "decode", !.todo = running]
      BY <1>9, <2>1 DEF FallBackToDecode
    <3>2. turn'.batch = {}
      BY <3>1 DEF NoTurn
    <3> QED
      BY <3>1, <3>2, BatchEmpty DEF Reserved, CandidateReserved, Candidate
  <2>2. CASE running = {}
    BY <1>9, <2>2, NothingReserved DEF FallBackToDecode, NothingSent, Passing, Candidate
  <2> QED
    BY <2>1, <2>2
<1> QED
  BY <1>1, <1>2, <1>3, <1>4, <1>5, <1>6, <1>7, <1>8, <1>9 DEF Prefill

LEMMA CapacityReserved ==
    ASSUME ConstantsAssumption, Frame, Reserved, Capacity
    PROVE  Reserved'
<1>a. Shapes /\ Control /\ turn.cand \in Seqs
  BY CandidateSteps DEF Frame, Control, Candidate
<1>b. BatchReserved /\ pc \in Candidate /\ UNCHANGED <<status, ids>>
  BY CandidateSteps DEF Reserved, Passing, Candidate
<1>c. UNCHANGED turn
  BY DEF Capacity, CapacityFound, NothingToReclaim, EvictEnough, EvictNextVictim, Reclaim, EvictLeaf
<1>d. pc \in {"capacity", "evict", "alloc"} /\ pc' \in {"capacity", "evict", "alloc"}
  BY DEF Capacity, CapacityFound, NothingToReclaim, EvictEnough, EvictNextVictim, Reclaim, EvictLeaf
<1>1. BatchReserved' /\ table'[turn.cand] = table[turn.cand]
  <2>1. CASE UNCHANGED table
    BY <1>b, <1>c, <2>1, BatchKept
  <2>2. ASSUME NEW v \in Seqs, Reclaim(v) PROVE BatchReserved' /\ table'[turn.cand] = table[turn.cand]
    <3>1. ReleasePaging(v) /\ status[v] \in {"WAITING", "STOPPED"} /\ v # turn.cand
      BY <2>2 DEF Reclaim, Evictable, Waiting, WithStatus
    <3>2. table'[turn.cand] = table[turn.cand]
      BY <1>a, <3>1, ReleaseShapes
    <3> QED
      BY <1>a, <1>b, <1>c, <3>1, <3>2, BatchKeptByRelease
  <2> QED
    BY <2>1, <2>2 DEF Capacity, CapacityFound, NothingToReclaim, EvictEnough, EvictNextVictim, EvictLeaf,
       memVars
<1> QED
  BY <1>b, <1>c, <1>d, <1>1 DEF Reserved, CandidateReserved, Candidate

LEMMA PublishReserved ==
    ASSUME ConstantsAssumption, Frame, Reserved, Publish
    PROVE  Reserved'
<1> DEFINE s == turn.cand
<1>a. Shapes /\ Control /\ Room /\ s \in Seqs
  BY CandidateSteps DEF Frame, Control, Candidate
<1>b. /\ BatchReserved /\ pc \in Candidate /\ UNCHANGED <<status, ids>> /\ s \notin turn.batch
      /\ turn.batch \subseteq Seqs
  BY <1>a, CandidateSteps DEF Reserved, Passing, Candidate, Shapes, Turns
<1>c. /\ turn'.lane = turn.lane /\ turn'.todo = turn.todo /\ turn'.batch = turn.batch
      /\ turn'.cand = s
  BY <1>a, CandidateTurn
<1>e. pc' \in Candidate /\ pc' \notin {"build", "decode"}
  BY CandidateSteps DEF Candidate
<1>1. ASSUME BatchReserved', CandidateReserved' PROVE Reserved'
  BY <1>b, <1>c, <1>e, <1>1 DEF Reserved, Candidate
<1>2. ASSUME NEW b \in Blocks, AllocateBlock(b) PROVE Reserved'
  <2>1. /\ pc = "alloc" /\ pc' = "alloc" /\ turn.need > 0 /\ UNCHANGED ids
        /\ table' = [table EXCEPT ![s] = Append(table[s], b)]
        /\ turn' = [turn EXCEPT !.need = turn.need - 1]
    BY <1>2 DEF AllocateBlock, seqVars
  <2>2. turn'.need = turn.need - 1 /\ turn.need \in Nat
    BY <1>a, <2>1 DEF Shapes, Turns
  <2>3. table'[s] = Append(table[s], b) /\ \A t \in Seqs \ {s} : table'[t] = table[t]
    BY <1>a, <2>1 DEF Shapes
  <2>4. Len(table'[s]) = Len(table[s]) + 1 /\ Len(table[s]) \in Nat
    BY <1>2, <1>a, <2>3 DEF Shapes
  <2>5. Len(table'[s]) + turn'.need = Len(table[s]) + turn.need
    BY <2>2, <2>4
  <2>6. BatchReserved'
    BY <1>b, <1>c, <2>3, BatchKept
  <2>7. Len(ids[s]) + Prealloc <= BlockSize * (Len(table[s]) + turn.need)
    BY <2>1 DEF Reserved, CandidateReserved
  <2>8. CandidateReserved'
    BY <1>c, <2>1, <2>5, <2>7 DEF CandidateReserved
  <2> QED
    BY <1>1, <2>6, <2>8
<1>3. CASE BeginPublish
  <2>1. /\ pc = "alloc" /\ turn.need = 0 /\ pc' \in {"publish", "accept"} /\ UNCHANGED <<ids, table, turn>>
    BY <1>3 DEF BeginPublish, seqVars
  <2>2. Len(ids[s]) + Prealloc <= BlockSize * (Len(table[s]) + turn.need) /\ Len(table[s]) \in Nat
    BY <1>a, <2>1 DEF Reserved, CandidateReserved, Shapes
  <2>3. Len(table[s]) + turn.need = Len(table[s])
    BY <2>1, <2>2
  <2>4. CandidateReserved'
    BY <2>1, <2>2, <2>3 DEF CandidateReserved
  <2> QED
    BY <1>1, <1>b, <1>c, <2>1, <2>4, BatchKept
<1>4. CASE PublishNew \/ EndPublish
  <2>1. pc = "publish" /\ pc' \in {"publish", "accept"} /\ UNCHANGED <<ids, table, turn>>
    BY <1>4 DEF PublishNew, EndPublish, seqVars
  <2>2. CandidateReserved'
    BY <2>1 DEF Reserved, CandidateReserved
  <2> QED
    BY <1>1, <1>b, <1>c, <2>1, <2>2, BatchKept
<1>5. CASE PublishShared
  <2> DEFINE k == cursor[s] + 1
             shared == trie[Prefix(s, k)]
  <2>1. /\ pc = "publish" /\ pc' = "publish" /\ UNCHANGED <<ids, turn>>
        /\ table' = table \/ table' = [table EXCEPT ![s] = [table[s] EXCEPT ![k] = shared]]
    BY <1>5 DEF PublishShared, seqVars
  <2> HIDE DEF k, shared
  <2>2. /\ table'[s] = table[s] \/ table'[s] = [table[s] EXCEPT ![k] = shared]
        /\ \A t \in Seqs \ {s} : table'[t] = table[t]
    BY <1>a, <2>1 DEF Shapes
  <2>3. Len(table'[s]) = Len(table[s])
    <3>1. table[s] \in Seq(Blocks)
      BY <1>a DEF Shapes
    <3>2. table'[s] \in Seq(Blocks)
      <4>1. Shapes'
        BY <1>5, PublishFrame DEF Publish, Frame
      <4> QED
        BY <1>a, <4>1 DEF Shapes
    <3>3. DOMAIN table'[s] = DOMAIN table[s]
      BY <2>2
    <3> QED
      BY <3>1, <3>2, <3>3, LenProperties
  <2>4. CandidateReserved'
    BY <2>1, <2>3 DEF Reserved, CandidateReserved
  <2> QED
    BY <1>1, <1>b, <1>c, <2>2, <2>4, BatchKept
<1> QED
  BY <1>2, <1>3, <1>4, <1>5 DEF Publish

LEMMA DecodeReserved ==
    ASSUME ConstantsAssumption, Frame, Reserved, Decode
    PROVE  Reserved'
<1>a. Shapes /\ Control /\ BlockSize \in Nat \ {0} /\ Prealloc \in Nat \ {0}
  BY DEF Frame, ConstantsAssumption
<1>b. turn.batch \subseteq Seqs
  BY <1>a DEF Shapes, Turns
<1>1. CASE BeginDecode
  <2>1. pc' = "decode" /\ turn' = [NoTurn EXCEPT !.lane = "decode", !.todo = running]
    BY <1>1 DEF BeginDecode
  <2>2. turn'.batch = {}
    BY <2>1 DEF NoTurn
  <2> QED
    BY <2>1, <2>2, BatchEmpty DEF Reserved, CandidateReserved, Candidate
<1>2. CASE NoRoomDecode
  <2> DEFINE s == turn.cand
  <2>1. /\ UNCHANGED <<ids, table>> /\ pc = "evict" /\ pc' = "decode" /\ turn.lane = "decode"
        /\ status' = [status EXCEPT ![s] = "WAITING"] /\ turn' = [turn EXCEPT !.cand = NoSeq]
    BY <1>2 DEF NoRoomDecode, memVars
  <2>2. /\ turn'.lane = turn.lane /\ turn'.batch = turn.batch /\ turn'.todo = turn.todo
        /\ s \notin turn.batch /\ BatchReserved /\ turn.todo \cap turn.batch = {}
    BY <1>a, <2>1 DEF Shapes, Turns, Reserved, Passing, Candidate
  <2> HIDE DEF s
  <2>3. \A t \in turn.batch : status'[t] = status[t]
    BY <1>a, <1>b, <2>1, <2>2 DEF Shapes
  <2>4. BatchReserved'
    BY <2>1, <2>2, <2>3 DEF BatchReserved
  <2> QED
    BY <2>1, <2>2, <2>4 DEF Reserved, CandidateReserved, Candidate
<1>3. CASE AcceptDecode
  <2> DEFINE s == turn.cand
  <2>1. /\ UNCHANGED <<status, ids, table>> /\ pc = "accept" /\ pc' = "decode" /\ turn.lane = "decode"
        /\ turn' = [turn EXCEPT !.batch = turn.batch \cup {s}, !.cand = NoSeq]
    BY <1>3 DEF AcceptDecode, memVars, seqVars
  <2>2. turn'.lane = turn.lane /\ turn'.batch = turn.batch \cup {s} /\ turn'.todo = turn.todo
    BY <1>a, <2>1 DEF Shapes, Turns
  <2>3. /\ s \in Seqs /\ BatchReserved /\ s \notin turn.todo /\ turn.todo \cap turn.batch = {}
        /\ status[s] = "RUNNING"
    BY <1>a, <2>1 DEF Control, Candidate, Reserved, Passing
  <2>4. Len(ids[s]) + Prealloc <= BlockSize * Len(table[s])
    BY <2>1 DEF Reserved, CandidateReserved
  <2>5. Len(ids[s]) + 1 <= BlockSize * Len(table[s])
    <3>1. Len(ids[s]) \in Nat /\ Len(table[s]) \in Nat
      BY <1>a, <2>3 DEF Shapes
    <3>2. BlockSize * Len(table[s]) \in Nat
      BY <1>a, <3>1
    <3> QED
      BY <1>a, <2>4, <3>1, <3>2
  <2> HIDE DEF s
  <2>6. BatchReserved'
    BY <2>1, <2>2, <2>3, <2>5 DEF BatchReserved
  <2> QED
    BY <2>1, <2>2, <2>3, <2>6 DEF Reserved, CandidateReserved, Candidate
<1>4. ASSUME NEW s \in Seqs, DecodeDrop(s) PROVE Reserved'
  <2>1. /\ UNCHANGED <<status, ids, table>> /\ pc = "decode" /\ pc' = pc
        /\ turn' = [turn EXCEPT !.todo = turn.todo \ {s}]
    BY <1>4 DEF DecodeDrop, memVars, seqVars
  <2>2. turn'.lane = turn.lane /\ turn'.batch = turn.batch /\ turn'.todo = turn.todo \ {s}
    BY <1>a, <2>1 DEF Shapes, Turns
  <2>3. BatchReserved' /\ turn.todo \cap turn.batch = {}
    BY <2>1, <2>2, BatchKept DEF Reserved, Passing
  <2> QED
    BY <2>1, <2>2, <2>3 DEF Reserved, CandidateReserved, Candidate
<1>5. ASSUME NEW s \in Seqs, DecodeKeep(s) PROVE Reserved'
  <2>1. /\ UNCHANGED <<status, ids, table>> /\ pc = "decode" /\ pc' = pc
        /\ turn' = [turn EXCEPT !.todo = turn.todo \ {s}, !.batch = turn.batch \cup {s}]
        /\ status[s] = "RUNNING" /\ NumRequired(s, 1) = 0
    BY <1>5 DEF DecodeKeep, memVars, seqVars
  <2>2. /\ turn'.lane = turn.lane /\ turn'.batch = turn.batch \cup {s} /\ turn'.todo = turn.todo \ {s}
        /\ turn.lane = "decode" /\ BatchReserved /\ turn.todo \cap turn.batch = {}
    BY <1>a, <2>1 DEF Shapes, Turns, Control, Reserved, Passing
  <2>3. Len(ids[s]) + 1 <= BlockSize * (Len(table[s]) + 0)
    BY <1>a, <2>1, NeedReserves
  <2>4. Len(table[s]) + 0 = Len(table[s])
    BY <1>a DEF Shapes
  <2>5. BatchReserved'
    BY <2>1, <2>2, <2>3, <2>4 DEF BatchReserved
  <2> QED
    BY <2>1, <2>2, <2>5 DEF Reserved, CandidateReserved, Candidate
<1>6. ASSUME NEW s \in Seqs, DecodeGrow(s) PROVE Reserved'
  <2>1. /\ UNCHANGED <<status, ids, table>> /\ pc = "decode" /\ pc' = "capacity" /\ s \in turn.todo
        /\ turn' = [turn EXCEPT !.todo = turn.todo \ {s}, !.cand = s,
                                !.need = NumRequired(s, Prealloc)]
    BY <1>6 DEF DecodeGrow, memVars, seqVars
  <2>2. /\ turn'.lane = turn.lane /\ turn'.batch = turn.batch /\ turn'.todo = turn.todo \ {s}
        /\ turn'.cand = s /\ turn'.need = NumRequired(s, Prealloc)
    BY <1>a, <2>1 DEF Shapes, Turns
  <2>3. BatchReserved' /\ turn.todo \cap turn.batch = {}
    BY <2>1, <2>2, BatchKept DEF Reserved, Passing
  <2>4. Len(ids[s]) + Prealloc <= BlockSize * (Len(table[s]) + NumRequired(s, Prealloc))
    BY <1>a, NeedReserves
  <2>5. CandidateReserved'
    BY <2>1, <2>2, <2>4 DEF CandidateReserved
  <2> QED
    BY <2>1, <2>2, <2>3, <2>5 DEF Reserved, Candidate
<1>7. CASE BuildDecode
  BY <1>7, NothingReserved DEF BuildDecode, Sent, NothingSent, Passing, Candidate
<1> QED
  BY <1>1, <1>2, <1>3, <1>4, <1>5, <1>6, <1>7 DEF Decode

LEMMA NextReserved ==
    ASSUME ConstantsAssumption, Frame, Reserved, Next
    PROVE  Reserved'
<1>1. CASE Client
  <2>1. pc' \notin Passing
    BY <1>1 DEF Client, AddMessage, StopSession, EndSession, Await, Passing, Candidate
  <2> QED
    BY <2>1, NothingReserved
<1>2. CASE Loop
  <2>1. pc' \notin Passing
    BY <1>2 DEF Loop, Activate, CollectOutput, Passing, Candidate
  <2> QED
    BY <2>1, NothingReserved
<1> QED
  BY <1>1, <1>2, PrefillReserved, CapacityReserved, PublishReserved, DecodeReserved DEF Next, Engine

---------------------------------------------------------------------------
(* Who is ready. *)

\* Between two passes they are all in the forward sent last.
LEMMA ReadyStart ==
    ASSUME Frame, ReadySent, pc \in {"send", "prefetch"}
    PROVE  Ready = {}
<1>1. Len(queue) <= 1 /\ Len(queue) \in 0..2
  BY QueueFacts
<1>2. Unstarted = {}
  BY <1>1 DEF Unstarted
<1> QED
  BY <1>2 DEF ReadySent, Ready, Passing, Candidate

\* Within a pass they are all in the batch.
LEMMA ReadyBatch ==
    ASSUME Frame, ReadySent, pc \in Passing
    PROVE  Ready \subseteq turn.batch
<1>1. Len(queue) <= 1 /\ Len(queue) \in 0..2
  BY QueueFacts
<1>2. Unstarted = {}
  BY <1>1 DEF Unstarted, Passing, Candidate
<1> QED
  BY <1>2 DEF ReadySent, Ready

LEMMA ReadyPass ==
    ASSUME pc' \in Passing, Ready' \subseteq turn'.batch
    PROVE  ReadySent'
  BY DEF ReadySent, Ready

LEMMA NoneReady ==
    ASSUME Ready' = {}
    PROVE  ReadySent'
  BY DEF ReadySent, Ready

LEMMA ClientReady ==
    ASSUME Frame, ReadySent, Client
    PROVE  ReadySent'
<1>a. Shapes /\ pc \notin Passing /\ Unstarted' = Unstarted
  BY DEF Frame, Client, AddMessage, StopSession, EndSession, loopVars, Await, Passing, Candidate,
       Unstarted
<1>1. ASSUME NEW s \in Seqs, s \in Ready'
      PROVE  s \in Ready /\ ids'[s] = ids[s]
  BY <1>a, <1>1 DEF Client, AddMessage, StopSession, EndSession, Ready, WithStatus, Shapes
<1> QED
  BY <1>a, <1>1 DEF ReadySent, Ready, WithStatus

LEMMA PrefillReady ==
    ASSUME Frame, ReadySent, Prefill
    PROVE  ReadySent'
<1>a. Shapes /\ Control
  BY DEF Frame
<1>0. pc \in Passing => Ready \subseteq turn.batch
  BY ReadyBatch
<1>1. CASE BeginPrefill
  <2>1. Ready = {} /\ UNCHANGED status
    BY <1>1, ReadyStart DEF BeginPrefill, seqVars
  <2> QED
    BY <2>1, NoneReady DEF Ready, WithStatus
<1>2. CASE EndPick \/ MatchBlock \/ EndMatch \/ GateAdmits \/ GateRejects \/ NoRoomPrefill
           \/ \E s \in Seqs : PickCandidate(s)
  <2>1. UNCHANGED status /\ pc \in Passing /\ pc' \in Passing
    BY <1>2 DEF EndPick, MatchBlock, EndMatch, GateAdmits, GateRejects, NoRoomPrefill, PickCandidate,
         seqVars, Passing, Candidate
  <2>2. turn'.batch = turn.batch
    BY <1>2, <1>a DEF EndPick, MatchBlock, EndMatch, GateAdmits, GateRejects, NoRoomPrefill,
         PickCandidate, Shapes, Turns
  <2> QED
    BY <1>0, <2>1, <2>2, ReadyPass DEF Ready, WithStatus
<1>3. CASE AcceptPrefill
  <2>1. /\ pc \in Passing /\ pc' \in Passing /\ turn.cand \in Seqs
        /\ status' = [status EXCEPT ![turn.cand] = "READY"]
        /\ turn' = [turn EXCEPT !.batch = turn.batch \cup {turn.cand},
                                !.used = turn.used + NumTokens(turn.cand), !.cand = NoSeq]
    BY <1>3, <1>a DEF AcceptPrefill, Passing, Candidate, Control
  <2>2. turn'.batch = turn.batch \cup {turn.cand}
    BY <1>a, <2>1 DEF Shapes, Turns
  <2>3. Ready' \subseteq Ready \cup {turn.cand}
    BY <1>a, <2>1 DEF Ready, WithStatus, Shapes
  <2> QED
    BY <1>0, <2>1, <2>2, <2>3, ReadyPass
<1>4. CASE BuildPrefill
  <2> DEFINE f == Forward("prefill", turn.batch)
  <2>1. /\ pc \in Passing /\ queue' = Append(queue, f) /\ UNCHANGED <<status, ids>>
        /\ pc' = IF queue = <<>> THEN "sent" ELSE "wait"
    BY <1>4 DEF BuildPrefill, Sent, seqVars, Passing
  <2>2. queue \in Seq(ForwardSet) /\ Len(queue) \in 0..1 /\ f \in ForwardSet
    BY <1>a, <2>1, QueueFacts, ForwardTyped DEF Shapes, Turns
  <2>3. f.kind = "prefill" /\ DOMAIN f.rows = turn.batch /\ \A s \in turn.batch : f.rows[s].text = ids[s]
    BY DEF Forward
  <2> HIDE DEF f
  <2>4. f \in Unstarted'
    <3>1. Len(queue') = Len(queue) + 1 /\ queue'[Len(queue')] = f
      BY <2>1, <2>2
    <3>2. CASE Len(queue) = 0
      <4>1. pc' = "sent"
        BY <2>1, <2>2, <3>2
      <4> QED
        BY <3>1, <4>1 DEF Unstarted
    <3>3. CASE Len(queue) = 1
      <4>1. Len(queue') = 2
        BY <3>1, <3>3
      <4> QED
        BY <3>1, <4>1 DEF Unstarted
    <3> QED
      BY <2>2, <3>2, <3>3
  <2> QED
    BY <1>0, <2>1, <2>3, <2>4 DEF ReadySent, Ready, WithStatus
<1>5. CASE FallBackToDecode
  <2>1. Ready = {} /\ UNCHANGED status
    BY <1>0, <1>5 DEF FallBackToDecode, seqVars, Passing
  <2> QED
    BY <2>1, NoneReady DEF Ready, WithStatus
<1> QED
  BY <1>1, <1>2, <1>3, <1>4, <1>5 DEF Prefill

LEMMA CandidateReady ==
    ASSUME Frame, ReadySent, Capacity \/ Publish
    PROVE  ReadySent'
<1>1. Shapes /\ pc \in Passing /\ pc' \in Passing /\ UNCHANGED status
  BY CandidateSteps DEF Frame, Passing, Candidate
<1>2. turn'.batch = turn.batch
  BY <1>1, CandidateTurn
<1> QED
  BY <1>1, <1>2, ReadyBatch, ReadyPass DEF Ready, WithStatus

LEMMA DecodeReady ==
    ASSUME Frame, Reserved, ReadySent, Decode
    PROVE  ReadySent'
<1>a. Shapes /\ Control
  BY DEF Frame
<1>0. pc \in Passing => Ready \subseteq turn.batch
  BY ReadyBatch
<1>1. CASE BeginDecode
  <2>1. Ready = {} /\ UNCHANGED status
    BY <1>1, ReadyStart DEF BeginDecode, seqVars
  <2> QED
    BY <2>1, NoneReady DEF Ready, WithStatus
<1>2. CASE NoRoomDecode
  <2>1. /\ pc \in Passing /\ pc' \in Passing /\ status' = [status EXCEPT ![turn.cand] = "WAITING"]
        /\ turn' = [turn EXCEPT !.cand = NoSeq]
    BY <1>2 DEF NoRoomDecode, Passing, Candidate
  <2>2. turn'.batch = turn.batch
    BY <1>a, <2>1 DEF Shapes, Turns
  <2>3. Ready' \subseteq Ready
    BY <1>a, <2>1 DEF Ready, WithStatus, Shapes
  <2> QED
    BY <1>0, <2>1, <2>2, <2>3, ReadyPass
<1>3. CASE AcceptDecode \/ \E s \in Seqs : DecodeDrop(s) \/ DecodeKeep(s) \/ DecodeGrow(s)
  <2>1. pc \in Passing /\ pc' \in Passing /\ UNCHANGED status
    BY <1>3 DEF AcceptDecode, DecodeDrop, DecodeKeep, DecodeGrow, seqVars, Passing, Candidate
  <2>2. turn.batch \subseteq turn'.batch
    <3>1. CASE AcceptDecode
      BY <1>a, <3>1 DEF AcceptDecode, Shapes, Turns
    <3>2. ASSUME NEW s \in Seqs, DecodeDrop(s) PROVE turn.batch \subseteq turn'.batch
      BY <1>a, <3>2 DEF DecodeDrop, Shapes, Turns
    <3>3. ASSUME NEW s \in Seqs, DecodeKeep(s) PROVE turn.batch \subseteq turn'.batch
      BY <1>a, <3>3 DEF DecodeKeep, Shapes, Turns
    <3>4. ASSUME NEW s \in Seqs, DecodeGrow(s) PROVE turn.batch \subseteq turn'.batch
      BY <1>a, <3>4 DEF DecodeGrow, Shapes, Turns
    <3> QED
      BY <1>3, <3>1, <3>2, <3>3, <3>4
  <2> QED
    BY <1>0, <2>1, <2>2, ReadyPass DEF Ready, WithStatus
<1>4. CASE BuildDecode
  <2>1. pc = "decode" /\ UNCHANGED status /\ turn.lane = "decode"
    BY <1>4, <1>a DEF BuildDecode, seqVars, Control
  <2>2. \A s \in turn.batch : status[s] = "RUNNING"
    BY <2>1 DEF Reserved, BatchReserved, Passing
  <2>3. Ready = {}
    BY <1>0, <2>1, <2>2 DEF Ready, WithStatus, Passing
  <2> QED
    BY <2>1, <2>3, NoneReady DEF Ready, WithStatus
<1> QED
  BY <1>1, <1>2, <1>3, <1>4 DEF Decode

LEMMA LoopReady ==
    ASSUME Frame, ReadySent, Loop
    PROVE  ReadySent'
<1>1. CASE Activate
  <2>1. /\ pc \in {"sent", "next"}
        /\ status' = [s \in Seqs |-> IF s \in Rows1 /\ status[s] = "READY"
                                       THEN "RUNNING" ELSE status[s]]
    BY <1>1 DEF Activate
  <2>2. Len(queue) = 1
    BY <2>1 DEF Frame, QueueShape
  <2>3. Unstarted = {Head1} /\ pc \notin Passing
    BY <2>1, <2>2 DEF Unstarted, Head1, Passing, Candidate
  <2>4. Ready \subseteq Rows1
    BY <2>3 DEF ReadySent, Ready, Rows1
  <2>5. Ready' = {}
    BY <2>1, <2>4 DEF Ready, WithStatus
  <2> QED
    BY <2>5, NoneReady
<1>2. ASSUME NEW tok \in Sampled, NEW stop \in SUBSET Rows1, CollectOutput(tok, stop)
      PROVE  ReadySent'
  <2>1. /\ pc = "wait" /\ queue' = Tail(queue)
        /\ pc' = IF Len(queue) = 1 THEN "send" ELSE "next"
        /\ ids' = [s \in Seqs |-> IF s \in Applied THEN Append(ids[s], tok[s]) ELSE ids[s]]
    BY <1>2 DEF CollectOutput
  <2>2. Ready' \subseteq Ready
    BY <1>2 DEF CollectOutput, Preempted, Ready, WithStatus
  <2>3. \A s \in Ready : ids'[s] = ids[s]
    BY <2>1 DEF Ready, Applied, WithStatus
  <2>4. pc \notin Passing
    BY <2>1 DEF Passing, Candidate
  <2>5. CASE Len(queue) = 1
    <3>1. Unstarted = {}
      BY <2>1, <2>5 DEF Unstarted
    <3>2. Ready = {}
      BY <2>4, <3>1 DEF ReadySent, Ready
    <3> QED
      BY <2>2, <3>2, NoneReady
  <2>6. CASE Len(queue) = 2
    <3>1. pc' = "next" /\ Len(queue') = 1 /\ queue'[1] = queue[2]
      BY <2>1, <2>6, Waits
    <3>2. Unstarted' = {queue[2]} /\ Unstarted = {queue[2]}
      BY <2>1, <2>6, <3>1 DEF Unstarted
    <3> QED
      BY <2>2, <2>3, <2>4, <3>2 DEF ReadySent, Ready
  <2> QED
    BY <2>1, <2>5, <2>6, Waits
<1> QED
  BY <1>1, <1>2 DEF Loop

---------------------------------------------------------------------------
(* The device's text is the host's. *)

LEMMA TextKept ==
    ASSUME TextInStep, UNCHANGED <<queue, wtext>>, Running' \subseteq Running,
           \A s \in Running : ids'[s] = ids[s]
    PROVE  TextInStep'
<1>1. ASSUME NEW s PROVE DeviceText(s)' = DeviceText(s)
  BY DEF DeviceText, RowText, Rows1, Head1
<1> QED
  BY <1>1 DEF TextInStep, Running

\* A forward joins the queue behind the one that is next to run.
LEMMA QueueAppended ==
    ASSUME queue \in Seq(ForwardSet), Len(queue) \in 0..1, NEW f \in ForwardSet,
           queue' = Append(queue, f)
    PROVE  /\ Len(queue') = Len(queue) + 1 /\ DOMAIN queue' = 1..Len(queue') /\ queue' # <<>>
           /\ Len(queue) = 0 => queue = <<>> /\ queue'[1] = f
           /\ Len(queue) = 1 => queue # <<>> /\ queue'[1] = queue[1] /\ queue'[2] = f
<1>1. /\ Len(queue') = Len(queue) + 1 /\ queue'[Len(queue) + 1] = f /\ DOMAIN queue' = 1..Len(queue')
      /\ \A i \in 1..Len(queue) : queue'[i] = queue[i]
  OBVIOUS
<1>2. Len(queue) = 0 => queue = <<>>
  BY EmptySeq
<1>3. Len(queue) = 1 => queue # <<>>
  OBVIOUS
<1>4. queue' # <<>>
  BY <1>1
<1> QED
  BY <1>1, <1>2, <1>3, <1>4

LEMMA TextAppended ==
    ASSUME Stepped, TextInStep, UNCHANGED <<wtext, ids, status>>,
           queue \in Seq(ForwardSet), Len(queue) \in 0..1, NEW f \in ForwardSet,
           queue' = Append(queue, f)
    PROVE  TextInStep' /\ (queue # <<>> => \A s : DeviceText(s)' = DeviceText(s))
<1>0. Running' = Running
  BY DEF Running, WithStatus
<1>1. CASE queue = <<>>
  <2>1. Running = {}
    BY <1>1 DEF Stepped, Running
  <2> QED
    BY <1>0, <1>1, <2>1 DEF TextInStep, Running
<1>2. CASE queue # <<>>
  <2>1. queue' # <<>> /\ queue'[1] = queue[1]
    <3>1. Len(queue) = 1
      BY <1>2, EmptySeq
    <3> QED
      BY <3>1, QueueAppended
  <2>2. ASSUME NEW s PROVE DeviceText(s)' = DeviceText(s)
    BY <1>2, <2>1 DEF DeviceText, RowText, Rows1, Head1
  <2> QED
    BY <1>0, <2>2 DEF TextInStep, Running
<1> QED
  BY <1>1, <1>2

\* A collected output leaves the device the texts it applied to the host.
LEMMA CollectedText ==
    ASSUME Frame, Stepped, TextInStep, NEW tok \in Sampled, NEW stop \in SUBSET Rows1,
           CollectOutput(tok, stop)
    PROVE  TextInStep'
<1> DEFINE finished == [s \in Seqs |-> IF s \in Applied /\ s \in stop THEN "STOPPED" ELSE status[s]]
<1>1. /\ pc = "wait" /\ queue' = Tail(queue) /\ status' = Preempted(finished)
      /\ wtext' = [s \in Seqs |-> CASE s \notin Carried(finished) -> <<>>
                                    [] s \in Rows1 -> Append(RowText(Head1, s), tok[s])
                                    [] OTHER -> wtext[s]]
      /\ ids' = [s \in Seqs |-> IF s \in Applied THEN Append(ids[s], tok[s]) ELSE ids[s]]
  BY DEF CollectOutput
<1>2. ASSUME NEW s \in Running' PROVE s \in Seqs /\ s \in Running /\ finished[s] = "RUNNING"
  BY <1>1 DEF Running, WithStatus, Preempted
<1>3. Len(queue) = 1 \/ Len(queue) = 2
  BY <1>1, Waits
<1>4. CASE Len(queue) = 1
  <2>1. Running = {}
    BY <1>1, <1>4 DEF Stepped, Running
  <2> QED
    BY <1>2, <2>1 DEF TextInStep, Running
<1>5. CASE Len(queue) = 2
  <2>1. Len(queue') = 1 /\ queue'[1] = queue[2]
    BY <1>1, <1>5, Waits
  <2>2. Unstarted = {queue[2]} /\ queue # <<>> /\ queue' # <<>>
    <3>1. Unstarted = {queue[2]}
      BY <1>5 DEF Unstarted
    <3>2. queue # <<>> /\ queue' # <<>>
      BY <1>5, <2>1
    <3> QED
      BY <3>1, <3>2
  <2> SUFFICES ASSUME NEW s \in Running' PROVE DeviceText(s)' = ids'[s]
    BY DEF TextInStep, Running
  <2>3. s \in Seqs /\ s \in Running /\ finished[s] = "RUNNING"
    BY <1>2
  <2>4. s \in Carried(finished)
    BY <2>3 DEF Carried, Stepped, Running
  <2>5. DeviceText(s) = ids[s]
    BY <2>3 DEF TextInStep, Running
  <2>6. s \in Applied <=> s \in Rows1
    BY <2>3 DEF Applied, Running
  <2> HIDE DEF finished
  <2>7. wtext'[s] = ids'[s]
    <3>1. CASE s \in Rows1
      <4>1. wtext'[s] = Append(RowText(Head1, s), tok[s])
        BY <1>1, <2>3, <2>4, <3>1
      <4>2. RowText(Head1, s) = ids[s]
        BY <2>2, <2>5, <3>1 DEF DeviceText
      <4> QED
        BY <1>1, <2>3, <2>6, <3>1, <4>1, <4>2
    <3>2. CASE s \notin Rows1
      <4>1. wtext'[s] = wtext[s]
        BY <1>1, <2>3, <2>4, <3>2
      <4> QED
        BY <1>1, <2>3, <2>5, <2>6, <3>2, <4>1 DEF DeviceText
    <3> QED
      BY <3>1, <3>2
  <2>8. s \in DOMAIN queue[2].rows => queue[2].kind = "decode"
    BY <2>2, <2>3 DEF Stepped, Running
  <2> QED
    BY <2>1, <2>2, <2>7, <2>8 DEF DeviceText, RowText, Rows1, Head1
<1> QED
  BY <1>3, <1>4, <1>5

LEMMA ActivatedText ==
    ASSUME Frame, ReadySent, TextInStep, Activate
    PROVE  TextInStep'
<1>1. /\ pc \in {"sent", "next"} /\ UNCHANGED <<queue, wtext, ids>>
      /\ status' = [s \in Seqs |-> IF s \in Rows1 /\ status[s] = "READY"
                                     THEN "RUNNING" ELSE status[s]]
  BY DEF Activate, devVars
<1>2. Len(queue) = 1
  BY <1>1 DEF Frame, QueueShape
<1>3. Unstarted = {Head1} /\ pc \notin Passing /\ queue # <<>>
  BY <1>1, <1>2 DEF Unstarted, Head1, Passing, Candidate
<1>4. ASSUME NEW s \in Running' PROVE DeviceText(s) = ids[s]
  <2>1. s \in Running \/ s \in Ready
    BY <1>1, <1>4 DEF Running, Ready, WithStatus
  <2>2. CASE s \in Running
    BY <2>2 DEF TextInStep, Running
  <2>3. CASE s \in Ready
    <3>1. Head1.kind = "prefill" /\ s \in Rows1 /\ Head1.rows[s].text = ids[s]
      BY <1>3, <2>3 DEF ReadySent, Ready, Rows1
    <3> QED
      BY <1>3, <3>1 DEF DeviceText, RowText
  <2> QED
    BY <2>1, <2>2, <2>3
<1>5. ASSUME NEW s PROVE DeviceText(s)' = DeviceText(s)
  BY <1>1 DEF DeviceText, RowText, Rows1, Head1
<1> QED
  BY <1>1, <1>4, <1>5 DEF TextInStep, Running

\* Every step but the dispatch of a forward and the two of the loop.
LEMMA PassQuiet ==
    ASSUME Frame, Client \/ (Prefill /\ ~BuildPrefill) \/ Capacity \/ Publish \/ (Decode /\ ~BuildDecode)
    PROVE  /\ UNCHANGED <<queue, wtext>> /\ Running' \subseteq Running
           /\ \A s \in Running : s \in Running' => ids'[s] = ids[s]
<1>a. Shapes /\ Control
  BY DEF Frame
<1>1. CASE Client
  BY <1>1, <1>a DEF Client, AddMessage, StopSession, EndSession, loopVars, devVars, Running, WithStatus,
       Shapes
<1>2. CASE Prefill /\ ~BuildPrefill
  <2>1. UNCHANGED <<queue, wtext, ids>>
    BY <1>2 DEF Prefill, BeginPrefill, EndPick, MatchBlock, EndMatch, GateRejects, GateAdmits,
         NoRoomPrefill, AcceptPrefill, FallBackToDecode, PickCandidate, seqVars, loopVars, devVars
  <2>2. UNCHANGED status \/ status' = [status EXCEPT ![turn.cand] = "READY"]
    BY <1>2 DEF Prefill, BeginPrefill, EndPick, MatchBlock, EndMatch, GateRejects, GateAdmits,
         NoRoomPrefill, AcceptPrefill, FallBackToDecode, PickCandidate, seqVars
  <2> QED
    BY <1>a, <2>1, <2>2 DEF Running, WithStatus, Shapes
<1>3. CASE Capacity \/ Publish
  BY <1>3, CandidateSteps DEF Running, WithStatus
<1>4. CASE Decode /\ ~BuildDecode
  <2>1. UNCHANGED <<queue, wtext, ids>>
    BY <1>4 DEF Decode, BeginDecode, NoRoomDecode, AcceptDecode, DecodeDrop, DecodeKeep, DecodeGrow,
         seqVars, loopVars, devVars
  <2>2. UNCHANGED status \/ status' = [status EXCEPT ![turn.cand] = "WAITING"]
    BY <1>4 DEF Decode, BeginDecode, NoRoomDecode, AcceptDecode, DecodeDrop, DecodeKeep, DecodeGrow,
         seqVars
  <2> QED
    BY <1>a, <2>1, <2>2 DEF Running, WithStatus, Shapes
<1> QED
  BY <1>1, <1>2, <1>3, <1>4

LEMMA NextText ==
    ASSUME Frame, Stepped, ReadySent, TextInStep, Next
    PROVE  TextInStep'
<1>1. CASE Client \/ (Prefill /\ ~BuildPrefill) \/ Capacity \/ Publish \/ (Decode /\ ~BuildDecode)
  <2>1. /\ UNCHANGED <<queue, wtext>> /\ Running' \subseteq Running
        /\ \A s \in Running : s \in Running' => ids'[s] = ids[s]
    BY <1>1, PassQuiet
  <2>2. ASSUME NEW s PROVE DeviceText(s)' = DeviceText(s)
    BY <2>1 DEF DeviceText, RowText, Rows1, Head1
  <2> QED
    BY <2>1, <2>2 DEF TextInStep, Running
<1>2. CASE BuildPrefill \/ BuildDecode
  <2>1. PICK kind \in {"prefill", "decode"} :
           queue' = Append(queue, Forward(kind, turn.batch)) \/ UNCHANGED queue
    BY <1>2 DEF BuildPrefill, BuildDecode
  <2>2. UNCHANGED <<wtext, ids, status>> /\ pc \in Passing
    BY <1>2 DEF BuildPrefill, BuildDecode, seqVars, devVars, Passing
  <2>3. queue \in Seq(ForwardSet) /\ Len(queue) \in 0..1
    BY <2>2, QueueFacts
  <2>4. Forward(kind, turn.batch) \in ForwardSet
    BY ForwardTyped DEF Frame, Shapes, Turns
  <2>5. Running' = Running
    BY <2>2 DEF Running, WithStatus
  <2> QED
    BY <2>1, <2>2, <2>3, <2>4, <2>5, TextKept, TextAppended
<1> QED
  BY <1>1, <1>2, ActivatedText, CollectedText DEF Next, Engine, Loop, Prefill, Decode

---------------------------------------------------------------------------
(* Every write has a place in the block table. *)

\* What RowsFit says of the forwards in flight, part by part.
PrefillsFit ==
    \A i \in DOMAIN queue : queue[i].kind = "prefill" => \A s \in DOMAIN queue[i].rows :
        Len(queue[i].rows[s].text) <= BlockSize * Len(queue[i].rows[s].tbl)
HeadFits ==
    queue # <<>> /\ Head1.kind = "decode" => \A s \in Rows1 :
        Len(wtext[s]) <= BlockSize * Len(Head1.rows[s].tbl)
NextFits ==
    Len(queue) = 2 /\ queue[2].kind = "decode" => \A s \in DOMAIN queue[2].rows :
        IF s \in Rows1 THEN Len(DeviceText(s)) + 1 <= BlockSize * Len(queue[2].rows[s].tbl)
                       ELSE Len(DeviceText(s)) <= BlockSize * Len(queue[2].rows[s].tbl)

LEMMA FitParts == /\ RowsFit <=> PrefillsFit /\ HeadFits /\ NextFits
                  /\ RowsFit' <=> PrefillsFit' /\ HeadFits' /\ NextFits'
<1>1. RowsFit <=> PrefillsFit /\ HeadFits /\ NextFits
  BY DEF RowsFit, PrefillsFit, HeadFits, NextFits
<1>2. RowsFit' <=> PrefillsFit' /\ HeadFits' /\ NextFits'
  BY DEF RowsFit, PrefillsFit, HeadFits, NextFits
<1> QED
  BY <1>1, <1>2

LEMMA FitKept ==
    ASSUME RowsFit, UNCHANGED <<queue, wtext>>
    PROVE  RowsFit'
<1>1. ASSUME NEW s PROVE DeviceText(s)' = DeviceText(s)
  BY DEF DeviceText, RowText, Rows1, Head1
<1> QED
  BY <1>1 DEF RowsFit, Rows1, Head1

LEMMA BuiltPrefillFits ==
    ASSUME ConstantsAssumption, Frame, Reserved, RowsFit, BuildPrefill
    PROVE  RowsFit'
<1> DEFINE f == Forward("prefill", turn.batch)
<1>1. /\ pc = "build" /\ queue' = Append(queue, f) /\ UNCHANGED wtext
  BY DEF BuildPrefill, devVars
<1>2. queue \in Seq(ForwardSet) /\ Len(queue) \in 0..1 /\ f \in ForwardSet
  <2>1. Shapes /\ turn.batch \in SUBSET Seqs
    BY DEF Frame, Shapes, Turns
  <2>2. f \in ForwardSet
    BY <2>1, ForwardTyped
  <2> QED
    BY <1>1, <2>2, QueueFacts DEF Passing
<1>3. f.kind = "prefill" /\ DOMAIN f.rows = turn.batch
      /\ \A s \in turn.batch : f.rows[s].text = ids[s] /\ f.rows[s].tbl = table[s]
  BY DEF Forward
<1>4. \A s \in turn.batch : Len(ids[s]) <= BlockSize * Len(table[s])
  BY <1>1 DEF Reserved, BatchReserved, Passing
<1>5. PrefillsFit /\ HeadFits
  BY FitParts
<1> HIDE DEF f
<1>6. CASE Len(queue) = 0
  <2>1. Len(queue') = 1 /\ queue'[1] = f /\ DOMAIN queue' = 1..1
    BY <1>1, <1>2, <1>6, QueueAppended
  <2>2. PrefillsFit'
    <3>1. \A i \in DOMAIN queue' : queue'[i] = f
      BY <2>1
    <3>2. \A s \in DOMAIN f.rows : Len(f.rows[s].text) <= BlockSize * Len(f.rows[s].tbl)
      BY <1>3, <1>4
    <3> QED
      BY <3>1, <3>2 DEF PrefillsFit
  <2>3. HeadFits' /\ NextFits'
    BY <1>3, <2>1 DEF HeadFits, NextFits, Head1
  <2> QED
    BY <2>2, <2>3, FitParts
<1>7. CASE Len(queue) = 1
  <2>1. Len(queue') = 2 /\ queue'[1] = queue[1] /\ queue'[2] = f /\ DOMAIN queue' = 1..2 /\ queue # <<>>
    BY <1>1, <1>2, <1>7, QueueAppended
  <2>2. DOMAIN queue = 1..1
    BY <1>2, <1>7
  <2>3. PrefillsFit'
    <3>1. ASSUME NEW i \in DOMAIN queue', queue'[i].kind = "prefill", NEW s \in DOMAIN queue'[i].rows
          PROVE  Len(queue'[i].rows[s].text) <= BlockSize * Len(queue'[i].rows[s].tbl)
      <4>1. CASE i = 1
        <5>1. 1 \in DOMAIN queue /\ queue'[i] = queue[1]
          BY <2>1, <2>2, <4>1
        <5> QED
          BY <1>5, <3>1, <5>1 DEF PrefillsFit
      <4>2. CASE i = 2
        BY <1>3, <1>4, <2>1, <3>1, <4>2
      <4> QED
        BY <2>1, <4>1, <4>2
    <3> QED
      BY <3>1 DEF PrefillsFit
  <2>4. HeadFits'
    BY <1>1, <1>5, <2>1 DEF HeadFits, Head1, Rows1
  <2>5. NextFits'
    BY <1>3, <2>1 DEF NextFits
  <2> QED
    BY <2>3, <2>4, <2>5, FitParts
<1> QED
  BY <1>2, <1>6, <1>7

LEMMA BuiltDecodeFits ==
    ASSUME ConstantsAssumption, Frame, Reserved, Stepped, TextInStep, RowsFit, BuildDecode
    PROVE  RowsFit'
<1> DEFINE f == Forward("decode", turn.batch)
<1>1. /\ pc = "decode" /\ UNCHANGED <<wtext, ids, status>>
      /\ IF turn.batch # {} THEN queue' = Append(queue, f) ELSE UNCHANGED queue
  BY DEF BuildDecode, devVars, seqVars
<1>2. queue \in Seq(ForwardSet) /\ Len(queue) \in 0..1 /\ f \in ForwardSet /\ turn.batch \subseteq Seqs
  <2>1. Shapes /\ turn.batch \in SUBSET Seqs
    BY DEF Frame, Shapes, Turns
  <2>2. f \in ForwardSet
    BY <2>1, ForwardTyped
  <2> QED
    BY <1>1, <2>1, <2>2, QueueFacts DEF Passing
<1>3. f.kind = "decode" /\ DOMAIN f.rows = turn.batch /\ \A s \in turn.batch : f.rows[s].tbl = table[s]
  BY DEF Forward
<1>4. \A s \in turn.batch : s \in Running /\ Len(ids[s]) + 1 <= BlockSize * Len(table[s])
  BY <1>1, <1>2 DEF Reserved, BatchReserved, Passing, Running, WithStatus, Frame, Control
<1>5. PrefillsFit /\ HeadFits
  BY FitParts
<1> HIDE DEF f
<1>6. CASE turn.batch = {}
  BY <1>1, <1>6, FitKept
<1>7. CASE turn.batch # {}
  <2>1. Len(queue) = 1 /\ queue # <<>>
    <3>1. Running # {}
      BY <1>4, <1>7
    <3>2. queue # <<>>
      BY <3>1 DEF Stepped, Running
    <3> QED
      BY <1>2, <3>2, EmptySeq
  <2>2. queue' = Append(queue, f)
    BY <1>1, <1>7
  <2>3. Len(queue') = 2 /\ queue'[1] = queue[1] /\ queue'[2] = f /\ DOMAIN queue' = 1..2
    BY <1>2, <2>1, <2>2, QueueAppended
  <2>4. DOMAIN queue = 1..1
    BY <1>2, <2>1
  <2>5. PrefillsFit'
    <3>1. ASSUME NEW i \in DOMAIN queue', queue'[i].kind = "prefill", NEW s \in DOMAIN queue'[i].rows
          PROVE  Len(queue'[i].rows[s].text) <= BlockSize * Len(queue'[i].rows[s].tbl)
      <4>1. i = 1
        BY <1>3, <2>3, <3>1
      <4>2. 1 \in DOMAIN queue /\ queue'[i] = queue[1]
        BY <2>3, <2>4, <4>1
      <4> QED
        BY <1>5, <3>1, <4>2 DEF PrefillsFit
    <3> QED
      BY <3>1 DEF PrefillsFit
  <2>6. HeadFits'
    BY <1>1, <1>5, <2>1, <2>3 DEF HeadFits, Head1, Rows1
  <2>7. \A s : DeviceText(s)' = DeviceText(s)
    BY <1>1, <1>2, <2>1, <2>2, TextAppended
  <2>8. NextFits'
    <3>1. ASSUME NEW s \in DOMAIN queue'[2].rows
          PROVE  /\ Len(DeviceText(s)') + 1 <= BlockSize * Len(queue'[2].rows[s].tbl)
                 /\ Len(DeviceText(s)') <= BlockSize * Len(queue'[2].rows[s].tbl)
      <4>1. s \in turn.batch /\ queue'[2].rows[s].tbl = table[s]
        BY <1>3, <2>3, <3>1
      <4>2. DeviceText(s)' = ids[s]
        BY <1>4, <2>7, <4>1 DEF TextInStep, Running
      <4>3. Len(ids[s]) \in Nat /\ Len(table[s]) \in Nat /\ BlockSize \in Nat
        BY <1>2, <4>1 DEF Frame, Shapes, ConstantsAssumption
      <4>4. BlockSize * Len(table[s]) \in Nat
        BY <4>3
      <4>5. Len(ids[s]) + 1 <= BlockSize * Len(table[s]) /\ Len(ids[s]) <= BlockSize * Len(table[s])
        BY <1>4, <4>1, <4>3, <4>4
      <4> QED
        BY <4>1, <4>2, <4>5
    <3> QED
      BY <3>1 DEF NextFits
  <2> QED
    BY <2>5, <2>6, <2>8, FitParts
<1> QED
  BY <1>6, <1>7

LEMMA CollectedFits ==
    ASSUME ConstantsAssumption, Frame, RowsFit, NEW tok \in Sampled, NEW stop \in SUBSET Rows1,
           CollectOutput(tok, stop)
    PROVE  RowsFit'
<1> DEFINE finished == [s \in Seqs |-> IF s \in Applied /\ s \in stop THEN "STOPPED" ELSE status[s]]
<1>1. /\ pc = "wait" /\ queue' = Tail(queue)
      /\ wtext' = [s \in Seqs |-> CASE s \notin Carried(finished) -> <<>>
                                    [] s \in Rows1 -> Append(RowText(Head1, s), tok[s])
                                    [] OTHER -> wtext[s]]
  BY DEF CollectOutput
<1>2. Len(queue) = 1 \/ Len(queue) = 2
  BY <1>1, Waits
<1>3. CASE Len(queue) = 1
  <2>1. queue' = <<>>
    BY <1>1, <1>3, Waits
  <2> QED
    BY <2>1 DEF RowsFit
<1>4. CASE Len(queue) = 2
  <2>1. Len(queue') = 1 /\ queue'[1] = queue[2]
    BY <1>1, <1>4, Waits
  <2>2. queue \in Seq(ForwardSet) /\ queue' \in Seq(ForwardSet)
    <3>1. queue \in Seq(ForwardSet)
      BY QueueFacts
    <3>2. queue # <<>>
      BY <1>4
    <3> QED
      BY <1>1, <3>1, <3>2, HeadTailProperties, Zenon
  <2>3. DOMAIN queue = 1..2 /\ DOMAIN queue' = 1..1 /\ queue # <<>>
    BY <1>4, <2>1, <2>2
  <2>4. PrefillsFit'
    <3>1. PrefillsFit /\ 2 \in DOMAIN queue
      BY <2>3, FitParts
    <3>2. \A i \in DOMAIN queue' : queue'[i] = queue[2]
      BY <2>1, <2>3
    <3> QED
      BY <3>1, <3>2 DEF PrefillsFit
  <2>5. NextFits'
    BY <2>1 DEF NextFits
  <2>6. HeadFits'
    <3> SUFFICES ASSUME queue[2].kind = "decode", NEW s \in DOMAIN queue[2].rows
                 PROVE  Len(wtext'[s]) <= BlockSize * Len(queue[2].rows[s].tbl)
      BY <2>1 DEF HeadFits, Head1, Rows1
    <3>1. s \in Seqs
      <4>1. queue[2] \in ForwardSet
        BY <2>2, <2>3
      <4> QED
        BY <4>1, ForwardRows
    <3>2. s \in Carried(finished)
      BY <1>4, <3>1 DEF Carried
    <3>3. NextFits
      BY FitParts
    <3> HIDE DEF finished
    <3>4. CASE s \in Rows1
      <4>1. wtext'[s] = Append(RowText(Head1, s), tok[s])
        BY <1>1, <3>1, <3>2, <3>4
      <4>2. RowText(Head1, s) = DeviceText(s)
        BY <2>3, <3>4 DEF DeviceText
      <4>3. RowText(Head1, s) \in Seq(Tokens) /\ tok[s] \in Tokens
        <5>1. Head1 \in ForwardSet
          BY <2>2, <2>3 DEF Head1
        <5>2. Head1.rows[s] \in Row
          BY <3>4, <5>1, ForwardRows DEF Rows1
        <5> QED
          BY <3>1, <3>4, <5>2 DEF RowText, Row, Sampled, Frame, Shapes
      <4>4. Len(wtext'[s]) = Len(DeviceText(s)) + 1
        BY <4>1, <4>2, <4>3
      <4> QED
        BY <1>4, <3>3, <3>4, <4>4 DEF NextFits
    <3>5. CASE s \notin Rows1
      <4>1. wtext'[s] = wtext[s]
        BY <1>1, <3>1, <3>2, <3>5
      <4>2. DeviceText(s) = wtext[s]
        BY <3>5 DEF DeviceText
      <4> QED
        BY <1>4, <3>3, <3>5, <4>1, <4>2 DEF NextFits
    <3> QED
      BY <3>4, <3>5
  <2> QED
    BY <2>4, <2>5, <2>6, FitParts
<1> QED
  BY <1>2, <1>3, <1>4

LEMMA NextRowsFit ==
    ASSUME ConstantsAssumption, Frame, Reserved, Stepped, TextInStep, RowsFit, Next
    PROVE  RowsFit'
<1>1. CASE Client \/ (Prefill /\ ~BuildPrefill) \/ Capacity \/ Publish \/ (Decode /\ ~BuildDecode)
  BY <1>1, PassQuiet, FitKept
<1>2. CASE Activate
  BY <1>2, FitKept DEF Activate, devVars
<1> QED
  BY <1>1, <1>2, BuiltPrefillFits, BuiltDecodeFits, CollectedFits
     DEF Next, Engine, Loop, Prefill, Decode

---------------------------------------------------------------------------
(* The theorems. *)

\* The inductive invariant, next to that of PagedKV_proofs.
Flow == Reserved /\ Stepped /\ ReadySent /\ TextInStep /\ RowsFit

LEMMA InitFlow ==
    ASSUME Init
    PROVE  Flow
<1>1. /\ pc = "send" /\ queue = <<>> /\ turn = NoTurn /\ status = [s \in Seqs |-> "none"]
  BY DEF Init
<1>2. Running = {} /\ Ready = {} /\ Len(queue) = 0
  BY <1>1 DEF Running, Ready, WithStatus
<1>3. Reserved
  BY <1>1 DEF Reserved, CandidateReserved, Passing, Candidate
<1>4. Unstarted = {}
  BY <1>1, <1>2 DEF Unstarted
<1>5. Stepped
  BY <1>1, <1>2, <1>4 DEF Stepped, Running, Candidate
<1>6. ReadySent /\ TextInStep
  BY <1>2 DEF ReadySent, TextInStep, Ready, Running
<1>7. RowsFit
  BY <1>1, <1>2 DEF RowsFit
<1> QED
  BY <1>3, <1>5, <1>6, <1>7 DEF Flow

LEMMA NextFlow ==
    ASSUME ConstantsAssumption, Frame, Flow, Next
    PROVE  Flow'
<1>1. Stepped'
  BY ClientStepped, PrefillStepped, CandidateStepped, DecodeStepped, LoopStepped
     DEF Flow, Next, Engine, Frame
<1>2. ReadySent'
  BY ClientReady, PrefillReady, CandidateReady, DecodeReady, LoopReady DEF Flow, Next, Engine
<1> QED
  BY <1>1, <1>2, NextReserved, NextText, NextRowsFit DEF Flow

LEMMA StutterFlow ==
    ASSUME Flow, UNCHANGED vars
    PROVE  Flow'
<1>1. UNCHANGED <<ids, status, table, running, queue, wtext, pc, turn>>
  BY DEF vars, memVars, seqVars, loopVars, devVars
<1>2. ASSUME NEW s PROVE DeviceText(s)' = DeviceText(s)
  BY <1>1 DEF DeviceText, RowText, Rows1, Head1
<1>3. Unstarted' = Unstarted
  BY <1>1 DEF Unstarted
<1>4. Stepped' /\ ReadySent'
  BY <1>1, <1>3 DEF Flow, Stepped, ReadySent, WithStatus
<1>5. TextInStep' /\ RowsFit'
  BY <1>1, <1>2, FitKept DEF Flow, TextInStep, WithStatus
<1>6. Reserved'
  BY <1>1 DEF Flow, Reserved, BatchReserved, CandidateReserved
<1> QED
  BY <1>4, <1>5, <1>6 DEF Flow

LEMMA FlowHolds == Spec => [](Frame /\ Flow)
<1>1. Init => Flow
  BY InitFlow
<1>2. Frame /\ Flow /\ [Next]_vars => Flow'
  BY NextFlow, StutterFlow, ConstantsAssumption
<1> QED
  BY <1>1, <1>2, Invariance, PTL DEF Spec

\* When the loop has nothing in flight and is about to sleep on the runnable
\* event, no sequence is left running: whoever runs is stepped by the forward
\* in flight, or by the one the pass is building.
THEOREM NobodySleeps == Spec => []NobodyAsleep
<1>1. Frame /\ Flow => NobodyAsleep
  BY DEF Flow, Stepped, Frame, QueueShape, NobodyAsleep
<1> QED
  BY <1>1, FlowHolds, PTL

\* Every token a forward writes has a slot in its row's block table, also when
\* the row was scheduled while the forward before it was still running.
THEOREM WritesHaveRoom == Spec => []WritesFit
<1>1. ASSUME Frame, Flow, pc = "wait", NEW s \in Rows1
      PROVE  Len(RowText(Head1, s)) <= BlockSize * Len(Head1.rows[s].tbl)
  <2>1. Len(queue) = 1 \/ Len(queue) = 2
    BY <1>1, Waits
  <2>2. queue # <<>> /\ 1 \in DOMAIN queue /\ queue[1] \in ForwardSet
    BY <2>1, QueueFacts, <1>1
  <2>3. PrefillsFit /\ HeadFits
    BY <1>1, FitParts DEF Flow
  <2> QED
    BY <1>1, <2>2, <2>3, ForwardRows DEF PrefillsFit, HeadFits, RowText, Rows1, Head1
<1>2. Frame /\ Flow => WritesFit
  BY <1>1 DEF WritesFit
<1> QED
  BY <1>2, FlowHolds, PTL

\* A token is applied to a sequence only if the forward computed it from the
\* sequence's whole text, no token short and none ahead.
THEOREM TextsAgree == Spec => []ComputedTextRight
<1>1. ASSUME Frame, Flow, pc = "wait", NEW s \in Applied
      PROVE  RowText(Head1, s) = ids[s]
  <2>1. Len(queue) = 1 \/ Len(queue) = 2
    BY <1>1, Waits
  <2>2. queue # <<>>
    BY <2>1
  <2> QED
    BY <1>1, <2>2 DEF Flow, TextInStep, DeviceText, Applied
<1>2. Frame /\ Flow => ComputedTextRight
  BY <1>1 DEF ComputedTextRight
<1> QED
  BY <1>2, FlowHolds, PTL

=============================================================================
