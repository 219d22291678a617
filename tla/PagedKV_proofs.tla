--------------------------- MODULE PagedKV_proofs ---------------------------
(***************************************************************************)
(* Proofs, for every value of the constants, that the paged KV cache's     *)
(* reference counts are exact, that the engine implements the abstract     *)
(* service of Generation, that eviction finds every leaf of the prefix     *)
(* trie, and that in the behaviours in which no match extends a table      *)
(* beyond its cursor a sequence's table follows the trie down to it.       *)
(***************************************************************************)
EXTENDS PagedKVProps, FiniteSetTheorems, FunctionTheorems, SequenceTheorems, TLAPS

---------------------------------------------------------------------------
(* Block arithmetic. *)

\* More tokens fill at least as many blocks.
LEMMA DivMono ==
    ASSUME NEW m \in Nat, NEW n \in Nat, NEW B \in Nat \ {0}, m <= n
    PROVE  m \div B <= n \div B
<1> DEFINE q == m \div B
           r == n \div B
<1>1. q \in Int /\ r \in Int /\ B * q <= m /\ n < B * r + B
  BY Z3
<1>2. SUFFICES ASSUME r + 1 <= q PROVE FALSE
  BY <1>1
<1>3. B * (r + 1) <= B * q
  BY <1>1, <1>2, Z3
<1>4. B * (r + 1) = B * r + B
  BY <1>1, Z3
<1> QED
  BY <1>1, <1>3, <1>4, Z3

\* k full blocks of a text lie within the text.
LEMMA FullBlocksFit ==
    ASSUME NEW n \in Nat, NEW B \in Nat \ {0}, NEW k \in Nat, k <= n \div B
    PROVE  k * B \in 0..n
<1> DEFINE q == n \div B
<1>1. q \in Int /\ B * q <= n
  BY Z3
<1>2. B * k <= B * q
  BY <1>1, Z3
<1>3. k * B = B * k /\ k * B >= 0
  BY Z3
<1> QED
  BY <1>1, <1>2, <1>3, Z3

\* A length in blocks is a natural number.
LEMMA DivNat ==
    ASSUME NEW n \in Nat, NEW B \in Nat \ {0}
    PROVE  n \div B \in Nat
  OBVIOUS

---------------------------------------------------------------------------
(* The shape of the state and the control of the scheduling pass. *)

ForwardSet == [kind : {"prefill", "decode"}, rows : UNION {[S -> Row] : S \in SUBSET Seqs}]
QueueTyped == queue \in Seq(ForwardSet)

Frame == Shapes /\ QueueTyped /\ QueueShape /\ Control /\ Room

\* Dropping a sequence's blocks keeps the shape of what it touches.
LEMMA ReleaseShapes ==
    ASSUME ConstantsAssumption, Shapes, NEW s \in Seqs, ReleasePaging(s)
    PROVE  /\ free' \subseteq Blocks
           /\ table' \in [Seqs -> Seq(Blocks)]
           /\ cursor' \in [Seqs -> Nat \cup {Detached}]
           /\ hist' \in [Seqs -> Nat]
           /\ trie' = trie
           /\ table'[s] = <<>>
           /\ \A t \in Seqs \ {s} : table'[t] = table[t] /\ cursor'[t] = cursor[t]
  BY DEF Shapes, ReleasePaging, FreedBy

\* A forward is built from the sequences' tables and texts.
LEMMA ForwardTyped ==
    ASSUME Shapes, NEW kind \in {"prefill", "decode"}, NEW batch \in SUBSET Seqs
    PROVE  Forward(kind, batch) \in ForwardSet
<1> DEFINE rows == [s \in batch |-> [tbl   |-> table[s],
                                     first |-> IF kind = "prefill" THEN hist[s] ELSE 0,
                                     text  |-> IF kind = "prefill" THEN ids[s] ELSE <<>>]]
<1>1. rows \in [batch -> Row]
  BY DEF Shapes, Row
<1>2. rows \in UNION {[S -> Row] : S \in SUBSET Seqs}
  BY <1>1
<1> QED
  BY <1>2 DEF Forward, ForwardSet

\* What a forward holds.
LEMMA ForwardRows ==
    ASSUME NEW f \in ForwardSet
    PROVE  /\ f.kind \in {"prefill", "decode"}
           /\ DOMAIN f.rows \subseteq Seqs
           /\ f.rows \in [DOMAIN f.rows -> Row]
<1>1. PICK S \in SUBSET Seqs : f.rows \in [S -> Row]
  BY DEF ForwardSet
<1> QED
  BY <1>1 DEF ForwardSet

LEMMA InitFrame ==
    ASSUME ConstantsAssumption, Init
    PROVE  Frame
<1>1. Shapes
  BY DEF Init, Shapes, ConstantsAssumption, NoTurn, Turns, Lanes, Statuses
<1>2. QueueTyped /\ QueueShape /\ Control /\ Room
  BY DEF Init, QueueTyped, QueueShape, Control, Room, Await, Candidate
<1> QED
  BY <1>1, <1>2 DEF Frame

\* Client requests.
LEMMA ClientFrame ==
    ASSUME ConstantsAssumption, Frame, Client
    PROVE  Frame'
<1> USE DEF Frame, QueueTyped
<1>1. ASSUME NEW s \in Seqs, NEW prompt \in Prompts, AddMessage(s, prompt)
      PROVE  Frame'
  <2>1. Shapes'
    BY <1>1 DEF AddMessage, Shapes, ConstantsAssumption, Statuses, memVars, loopVars, devVars
  <2>2. QueueTyped' /\ QueueShape' /\ Control' /\ Room'
    BY <1>1 DEF AddMessage, QueueShape, Control, Room, Await, Candidate, loopVars
  <2> QED
    BY <2>1, <2>2
<1>2. ASSUME NEW s \in Seqs, StopSession(s)
      PROVE  Frame'
  <2>1. Shapes'
    BY <1>2 DEF StopSession, Shapes, Statuses, memVars, loopVars, devVars
  <2>2. QueueTyped' /\ QueueShape' /\ Control' /\ Room'
    BY <1>2 DEF StopSession, QueueShape, Control, Room, Await, Candidate, loopVars
  <2> QED
    BY <2>1, <2>2
<1>3. ASSUME NEW s \in Seqs, EndSession(s)
      PROVE  Frame'
  <2>0. ReleasePaging(s)
    BY <1>3 DEF EndSession
  <2>a. /\ free' \subseteq Blocks
        /\ table' \in [Seqs -> Seq(Blocks)]
        /\ cursor' \in [Seqs -> Nat \cup {Detached}]
        /\ hist' \in [Seqs -> Nat]
        /\ trie' = trie
    BY <2>0, ReleaseShapes
  <2>b. status' \in [Seqs -> Statuses] /\ ids' \in [Seqs -> Seq(Tokens)]
    BY <1>3 DEF EndSession, Shapes, Statuses
  <2>c. UNCHANGED <<running, toEvict, wtext, turn>>
    BY <1>3 DEF EndSession, loopVars, devVars
  <2>1. Shapes'
    BY <2>a, <2>b, <2>c DEF Shapes
  <2>2. QueueTyped' /\ QueueShape' /\ Control' /\ Room'
    BY <1>3 DEF EndSession, QueueShape, Control, Room, Await, Candidate, loopVars
  <2> QED
    BY <2>1, <2>2
<1> QED
  BY <1>1, <1>2, <1>3 DEF Client

\* The number of blocks a sequence still needs covers its full blocks.
LEMMA NeedCovers ==
    ASSUME ConstantsAssumption, Shapes, NEW s \in Seqs
    PROVE  /\ NumRequired(s, Prealloc) \in Nat
           /\ FullBlocks(s) <= Len(table[s]) + NumRequired(s, Prealloc)
<1> DEFINE n == Len(ids[s])
           m == n + Prealloc + BlockSize - 1
<1>1. n \in Nat /\ m \in Nat /\ n <= m /\ Len(table[s]) \in Nat /\ BlockSize \in Nat \ {0}
  BY DEF ConstantsAssumption, Shapes
<1>2. n \div BlockSize <= m \div BlockSize /\ n \div BlockSize \in Nat /\ m \div BlockSize \in Nat
  BY <1>1, DivMono, DivNat
<1> DEFINE q == n \div BlockSize
           r == m \div BlockSize
           held == Len(table[s])
<1>3. FullBlocks(s) = q /\ NumRequired(s, Prealloc) = Excess(r, held)
  BY DEF NumRequired, FullBlocks
<1>4. q \in Nat /\ r \in Nat /\ held \in Nat /\ q <= r
  BY <1>1, <1>2
<1> HIDE DEF q, r, held
<1>5. Excess(r, held) \in Nat /\ q <= held + Excess(r, held)
  BY <1>4 DEF Excess
<1>6. FullBlocks(s) <= held + NumRequired(s, Prealloc)
  BY <1>3, <1>5, Zenon
<1>7. NumRequired(s, Prealloc) \in Nat
  BY <1>3, <1>5, Zenon
<1>8. FullBlocks(s) <= Len(table[s]) + NumRequired(s, Prealloc)
  BY <1>6, Zenon DEF held
<1> QED
  BY <1>7, <1>8, Zenon

\* A pass starts with no candidate.
LEMMA NoTurnTyped ==
    /\ NoTurn \in Turns
    /\ \A lane \in Lanes, todo \in SUBSET Seqs :
         LET new == [NoTurn EXCEPT !.lane = lane, !.todo = todo]
         IN  new \in Turns /\ new.lane = lane /\ new.todo = todo
<1>1. NoTurn \in Turns
  BY DEF NoTurn, Turns, Lanes
<1>2. ASSUME NEW lane \in Lanes, NEW todo \in SUBSET Seqs, NEW t \in Turns
      PROVE  LET new == [t EXCEPT !.lane = lane, !.todo = todo]
             IN  new \in Turns /\ new.lane = lane /\ new.todo = todo
  BY DEF Turns
<1> QED
  BY <1>1, <1>2

\* The actions of prefill admission.
LEMMA PrefillFrame ==
    ASSUME ConstantsAssumption, Frame, Prefill
    PROVE  Frame'
<1> USE DEF Frame, QueueTyped
<1>1. CASE BeginPrefill
  <2>1. turn' = [NoTurn EXCEPT !.lane = "prefill", !.todo = Waiting] /\ Waiting \in SUBSET Seqs
    BY <1>1 DEF BeginPrefill, Waiting, WithStatus
  <2>2. turn' \in Turns /\ turn'.lane = "prefill" /\ turn'.todo = Waiting
    BY <2>1, NoTurnTyped DEF Lanes
  <2>3. Shapes'
    BY <1>1, <2>2 DEF BeginPrefill, Shapes, memVars, seqVars, loopVars, devVars
  <2>4. Waiting' = Waiting
    BY <1>1 DEF BeginPrefill, Waiting, WithStatus, seqVars
  <2>5. pc' = "pick" /\ pc \in {"send", "prefetch"} /\ queue' = queue
    BY <1>1 DEF BeginPrefill, loopVars
  <2>7. QueueTyped' /\ QueueShape'
    <3>1. CASE pc = "send"
      BY <2>5, <3>1 DEF QueueShape
    <3>2. CASE pc = "prefetch"
      <4>1. Len(queue) = 1 /\ pc' = "pick" /\ queue' = queue
        BY <2>5, <3>2 DEF QueueShape
      <4>2. Len(queue) <= 1
        BY <4>1
      <4> QED
        BY <4>1, <4>2 DEF QueueShape
    <3> QED
      BY <2>5, <3>1, <3>2
  <2>6. Control' /\ Room'
    BY <2>2, <2>4, <2>5 DEF Control, Room, Candidate
  <2> QED
    BY <2>3, <2>6, <2>7
<1>2. CASE EndPick
  BY <1>2 DEF EndPick, Shapes, QueueShape, Control, Room, Candidate, Await,
       memVars, seqVars, loopVars, devVars
<1>3. CASE MatchBlock
  <2>1. turn.cand \in Seqs /\ cursor[turn.cand] \in Nat
    BY <1>3 DEF MatchBlock, CanMatch, Control, Candidate, Shapes, Detached
  <2>2. trie[NextPath(turn.cand)] \in Blocks
    BY <1>3 DEF MatchBlock, CanMatch, Shapes
  <2>3. (cursor[turn.cand] + 1) * BlockSize \in Nat
    BY <2>1 DEF ConstantsAssumption
  <2>a. table' \in [Seqs -> Seq(Blocks)]
    <3>1. table' = [table EXCEPT ![turn.cand] = Append(table[turn.cand], trie[NextPath(turn.cand)])]
      BY <1>3 DEF MatchBlock
    <3> QED
      BY <2>1, <2>2, <3>1 DEF Shapes
  <2>d. cursor' \in [Seqs -> Nat \cup {Detached}]
    <3>1. cursor' = [cursor EXCEPT ![turn.cand] = cursor[turn.cand] + 1]
      BY <1>3 DEF MatchBlock
    <3> QED
      BY <2>1, <3>1 DEF Shapes
  <2>b. hist' = [hist EXCEPT ![turn.cand] = (cursor[turn.cand] + 1) * BlockSize]
    BY <1>3 DEF MatchBlock
  <2>c. hist' \in [Seqs -> Nat]
    BY <2>1, <2>3, <2>b DEF Shapes
  <2>4. Shapes'
    BY <1>3, <2>a, <2>c, <2>d DEF MatchBlock, Shapes, loopVars, devVars
  <2> QED
    BY <1>3, <2>4 DEF MatchBlock, QueueShape, Control, Room, Candidate, Await,
         Waiting, WithStatus, loopVars
<1>4. CASE EndMatch
  BY <1>4 DEF EndMatch, Shapes, QueueShape, Control, Room, Candidate, Await, Waiting, WithStatus,
       memVars, seqVars, loopVars, devVars
<1>5. ASSUME turn.cand \in Seqs, Rollback(turn.cand)
      PROVE  /\ free' \subseteq Blocks
             /\ table' \in [Seqs -> Seq(Blocks)]
             /\ trie' = trie
             /\ cursor' \in [Seqs -> Nat \cup {Detached}]
             /\ hist' \in [Seqs -> Nat]
  BY <1>5, ReleaseShapes DEF Rollback, Shapes, memVars
<1>6. CASE GateRejects
  <2>1. turn.cand \in Seqs /\ Rollback(turn.cand)
    BY <1>6 DEF GateRejects, Control, Candidate
  <2> QED
    BY <1>5, <1>6, <2>1 DEF GateRejects, Shapes, QueueShape, Control, Room, Candidate, Await, Turns,
         loopVars, devVars
<1>7. CASE GateAdmits
  <2>1. turn.cand \in Seqs
    BY <1>7 DEF GateAdmits, Control, Candidate
  <2> QED
    BY <1>7, <2>1, NeedCovers DEF GateAdmits, Shapes, QueueShape, Control, Room, Candidate, Await,
         Turns, FullBlocks, Waiting, WithStatus, memVars, seqVars, loopVars, devVars
<1>8. CASE NoRoomPrefill
  <2>1. turn.cand \in Seqs /\ Rollback(turn.cand)
    BY <1>8 DEF NoRoomPrefill, Control, Candidate
  <2> QED
    BY <1>5, <1>8, <2>1 DEF NoRoomPrefill, Shapes, QueueShape, Control, Room, Candidate, Await,
         Turns, loopVars, devVars
<1>9. CASE AcceptPrefill
  <2>1. turn.cand \in Seqs /\ turn.cand \notin turn.todo /\ turn.todo \subseteq Waiting
    BY <1>9 DEF AcceptPrefill, Control, Candidate
  <2>2. NumTokens(turn.cand) \in Int
    BY <2>1 DEF NumTokens, Shapes
  <2>3. turn' = [turn EXCEPT !.batch = turn.batch \cup {turn.cand},
                             !.used = turn.used + NumTokens(turn.cand), !.cand = NoSeq]
    BY <1>9 DEF AcceptPrefill
  <2> DEFINE batch == turn.batch \cup {turn.cand}
             used == turn.used + NumTokens(turn.cand)
  <2>c. turn \in Turns /\ batch \in SUBSET Seqs /\ used \in Int /\ turn.lane = "prefill"
    BY <1>9, <2>1, <2>2 DEF AcceptPrefill, Shapes, Turns
  <2> HIDE DEF batch, used
  <2>a. turn' \in Turns /\ turn'.lane = turn.lane /\ turn'.todo = turn.todo
    BY <2>3, <2>c DEF Turns, batch, used
  <2>b. status' \in [Seqs -> Statuses]
    BY <1>9 DEF AcceptPrefill, Shapes, Statuses
  <2>4. turn'.todo \subseteq Waiting'
    BY <1>9, <2>1, <2>a DEF AcceptPrefill, Waiting, WithStatus, Shapes
  <2> QED
    BY <1>9, <2>a, <2>b, <2>c, <2>4 DEF AcceptPrefill, Shapes, QueueShape, Control, Room, Candidate, Await,
         memVars, loopVars, devVars
<1>10. CASE BuildPrefill
  <2>1. Forward("prefill", turn.batch) \in ForwardSet
    BY ForwardTyped DEF Shapes, Turns
  <2>2. Shapes'
    BY <1>10, NoTurnTyped DEF BuildPrefill, Shapes, memVars, seqVars, devVars
  <2>3. QueueTyped' /\ QueueShape' /\ pc' \in {"sent", "wait"}
    BY <1>10, <2>1 DEF BuildPrefill, Sent, QueueShape
  <2>4. Control' /\ Room'
    BY <2>3 DEF Control, Room, Candidate
  <2> QED
    BY <2>2, <2>3, <2>4
<1>11. CASE FallBackToDecode
  <2>1. CASE running = {}
    <3>1. turn' = NoTurn /\ pc' \in {"send", "wait"}
      BY <1>11, <2>1 DEF FallBackToDecode, NothingSent
    <3>2. Shapes'
      BY <1>11, <3>1, NoTurnTyped DEF FallBackToDecode, Shapes, memVars, seqVars, loopVars, devVars
    <3>3. QueueTyped' /\ QueueShape'
      BY <1>11, <2>1 DEF FallBackToDecode, NothingSent, QueueShape, loopVars
    <3>4. Control' /\ Room'
      BY <3>1 DEF Control, Room, Candidate
    <3> QED
      BY <3>2, <3>3, <3>4
  <2>2. CASE running # {}
    <3>1. turn' = [NoTurn EXCEPT !.lane = "decode", !.todo = running] /\ pc' = "decode"
      BY <1>11, <2>2 DEF FallBackToDecode
    <3>2. turn' \in Turns /\ turn'.lane = "decode"
      <4>1. "decode" \in Lanes /\ running \in SUBSET Seqs
        BY DEF Lanes, Shapes
      <4> QED
        BY <3>1, <4>1, NoTurnTyped, Zenon
    <3>3. Shapes'
      BY <1>11, <3>2 DEF FallBackToDecode, Shapes, memVars, seqVars, loopVars, devVars
    <3> QED
      BY <1>11, <3>1, <3>2, <3>3 DEF FallBackToDecode, QueueShape, Control, Room, Candidate, loopVars
  <2> QED
    BY <2>1, <2>2
<1>12. ASSUME NEW s \in Seqs, PickCandidate(s)
       PROVE  Frame'
  BY <1>12 DEF PickCandidate, Shapes, QueueShape, Control, Room, Candidate, Await, Turns,
       Waiting, WithStatus, memVars, seqVars, loopVars, devVars
<1> QED
  BY <1>1, <1>2, <1>3, <1>4, <1>6, <1>7, <1>8, <1>9, <1>10, <1>11, <1>12 DEF Prefill

\* The actions of making room.
LEMMA CapacityFrame ==
    ASSUME ConstantsAssumption, Frame, Capacity
    PROVE  Frame'
<1> USE DEF Frame, QueueTyped
<1>1. CASE CapacityFound
  BY <1>1 DEF CapacityFound, Shapes, QueueShape, Control, Room, Candidate, FullBlocks, Waiting, WithStatus,
       memVars, seqVars, loopVars, devVars
<1>2. CASE NothingToReclaim
  BY <1>2 DEF NothingToReclaim, Shapes, QueueShape, Control, Room, Candidate, FullBlocks, Waiting, WithStatus,
       memVars, seqVars, loopVars, devVars
<1>3. CASE EvictEnough
  BY <1>3 DEF EvictEnough, Shapes, QueueShape, Control, Room, Candidate, FullBlocks, Waiting, WithStatus,
       memVars, seqVars, loopVars, devVars
<1>4. CASE EvictNextVictim
  BY <1>4 DEF EvictNextVictim, Shapes, QueueShape, Control, Room, Candidate, FullBlocks, Waiting, WithStatus,
       memVars, seqVars, loopVars, devVars
<1>5. ASSUME NEW v \in Seqs, Reclaim(v)
      PROVE  Frame'
  <2>1. ReleasePaging(v) /\ v # turn.cand /\ turn.cand \in Seqs
    BY <1>5 DEF Reclaim, Evictable, Control, Candidate
  <2>2. table'[turn.cand] = table[turn.cand]
    BY <2>1, ReleaseShapes
  <2>3. Shapes'
    BY <1>5, <2>1, ReleaseShapes DEF Reclaim, Shapes, loopVars, devVars
  <2> QED
    BY <1>5, <2>2, <2>3 DEF Reclaim, QueueShape, Control, Room, Candidate, FullBlocks, Waiting,
         WithStatus, loopVars
<1>6. ASSUME NEW p \in leaves, EvictLeaf(p)
      PROVE  Frame'
  <2>1. p \in DOMAIN trie
    BY <1>6 DEF EvictLeaf, EvictionCandidates
  <2>2. /\ free' \subseteq Blocks
        /\ trie' \in [DOMAIN trie' -> Blocks] /\ DOMAIN trie' \subseteq Seq(Tokens)
    BY <1>6, <2>1 DEF EvictLeaf, Shapes
  <2>3. cursor' \in [Seqs -> Nat \cup {Detached}]
    BY <1>6 DEF EvictLeaf, Shapes
  <2>4. Shapes'
    BY <1>6, <2>2, <2>3 DEF EvictLeaf, Shapes, seqVars, loopVars, devVars
  <2> QED
    BY <1>6, <2>4 DEF EvictLeaf, QueueShape, Control, Room, Candidate, FullBlocks, Waiting,
         WithStatus, seqVars, loopVars
<1> QED
  BY <1>1, <1>2, <1>3, <1>4, <1>5, <1>6 DEF Capacity

\* The path a publication is about to enter is a prefix of the text.
LEMMA PublishedPath ==
    ASSUME ConstantsAssumption, Shapes, Room, NEW s \in Seqs, s = turn.cand,
           pc = "publish", ToPublish(s)
    PROVE  /\ cursor[s] + 1 \in 1..Len(table[s])
           /\ Prefix(s, cursor[s] + 1) \in Seq(Tokens)
<1> DEFINE k == cursor[s] + 1
           n == Len(ids[s])
           q == n \div BlockSize
<1>1. cursor[s] \in Nat /\ Depth(s) = cursor[s]
  BY DEF Room, Depth, Detached
<1>2. n \in Nat /\ BlockSize \in Nat \ {0} /\ Len(table[s]) \in Nat
  BY DEF Shapes, ConstantsAssumption
<1>3. FullBlocks(s) = q
  BY DEF FullBlocks
<1> HIDE DEF n, q
<1>4. q \in Nat
  BY <1>2, DivNat DEF q
<1>6. k \in Nat /\ k <= q /\ k <= Len(table[s])
  BY <1>1, <1>2, <1>3, <1>4 DEF ToPublish, Room
<1>7. k * BlockSize \in 0..n
  BY <1>2, <1>6, FullBlocksFit DEF q
<1>5. SubSeq(ids[s], 1, k * BlockSize) \in Seq(Tokens)
  <2>1. \A i \in 1..(k * BlockSize) : ids[s][i] \in Tokens
    BY <1>2, <1>7 DEF n, Shapes
  <2> QED
    BY <1>2, <1>7, <2>1, SubSeqProperties
<1> QED
  BY <1>1, <1>2, <1>5, <1>6 DEF Prefix

\* The actions of allocation and publication.
LEMMA PublishFrame ==
    ASSUME ConstantsAssumption, Frame, Publish
    PROVE  Frame'
<1> USE DEF Frame, QueueTyped
<1>1. CASE BeginPublish
  <2>1. /\ turn.cand \in Seqs /\ Depth(turn.cand) \in Nat
        /\ FullBlocks(turn.cand) <= Len(table[turn.cand])
    <3>1. /\ turn.cand \in Seqs /\ turn.need = 0 /\ Len(table[turn.cand]) \in Nat
          /\ FullBlocks(turn.cand) <= Len(table[turn.cand]) + turn.need
      BY <1>1 DEF BeginPublish, Room, Control, Candidate, Shapes
    <3>2. FullBlocks(turn.cand) <= Len(table[turn.cand])
      BY <3>1
    <3> QED
      BY <3>1, <3>2 DEF Depth, Detached, Shapes
  <2>2. /\ cursor' = [cursor EXCEPT ![turn.cand] = Depth(turn.cand)]
        /\ pc' \in {"publish", "accept"}
        /\ UNCHANGED <<free, table, trie, seqVars, loopVars, devVars, turn>>
    BY <1>1 DEF BeginPublish
  <2>3. Shapes' /\ cursor'[turn.cand] \in Nat
    BY <2>1, <2>2 DEF Shapes, seqVars, loopVars, devVars
  <2>4. QueueTyped' /\ QueueShape'
    BY <1>1, <2>2 DEF BeginPublish, QueueShape, loopVars
  <2>5. Control'
    BY <1>1, <2>2 DEF BeginPublish, Control, Candidate, Waiting, WithStatus, seqVars
  <2>6. Room'
    BY <2>1, <2>2, <2>3 DEF Room, FullBlocks, seqVars
  <2> QED
    BY <2>3, <2>4, <2>5, <2>6
<1>2. CASE PublishNew
  <2> DEFINE s == turn.cand
             k == cursor[s] + 1
  <2>1. s \in Seqs /\ ToPublish(s) /\ pc = "publish"
    BY <1>2 DEF PublishNew, Control, Candidate
  <2>2. k \in 1..Len(table[s]) /\ Prefix(s, k) \in Seq(Tokens)
    BY <2>1, PublishedPath
  <2>3. table[s][k] \in Blocks /\ k \in Nat
    BY <2>1, <2>2 DEF Shapes
  <2>4. cursor' = [cursor EXCEPT ![s] = k]
    BY <1>2 DEF PublishNew
  <2>5. trie' = [q \in DOMAIN trie \cup {Prefix(s, k)} |-> IF q = Prefix(s, k) THEN table[s][k] ELSE trie[q]]
    BY <1>2 DEF PublishNew
  <2>6. trie' \in [DOMAIN trie' -> Blocks] /\ DOMAIN trie' \subseteq Seq(Tokens)
    BY <2>2, <2>3, <2>5 DEF Shapes
  <2>7. cursor' \in [Seqs -> Nat \cup {Detached}] /\ cursor'[s] \in Nat
    BY <2>1, <2>3, <2>4 DEF Shapes
  <2>8. Shapes'
    BY <1>2, <2>6, <2>7 DEF PublishNew, Shapes, seqVars, loopVars, devVars
  <2>9. UNCHANGED <<table, seqVars, loopVars, pc, turn>>
    BY <1>2 DEF PublishNew
  <2>10. QueueTyped' /\ QueueShape' /\ Control'
    BY <2>9 DEF QueueShape, Control, Waiting, WithStatus, seqVars, loopVars
  <2>11. Room'
    BY <2>1, <2>7, <2>9 DEF Room, FullBlocks, seqVars
  <2> QED
    BY <2>8, <2>10, <2>11
<1>3. CASE PublishShared
  <2> DEFINE s == turn.cand
             k == cursor[s] + 1
             shared == trie[Prefix(s, k)]
  <2>1. s \in Seqs /\ ToPublish(s) /\ pc = "publish" /\ shared \in Blocks
    BY <1>3 DEF PublishShared, Control, Candidate, Shapes
  <2>2. k \in 1..Len(table[s])
    BY <2>1, PublishedPath
  <2>3. table[s][k] \in Blocks /\ k \in Nat /\ table[s] \in Seq(Blocks)
    BY <2>1, <2>2 DEF Shapes
  <2>4. cursor' = [cursor EXCEPT ![s] = k]
    BY <1>3 DEF PublishShared
  <2>5. \/ table' = table /\ free' = free
        \/ /\ table' = [table EXCEPT ![s] = [table[s] EXCEPT ![k] = shared]]
           /\ free' \in {free, free \cup {table[s][k]}}
    BY <1>3 DEF PublishShared
  <2>6. [table[s] EXCEPT ![k] = shared] \in Seq(Blocks) /\ Len([table[s] EXCEPT ![k] = shared]) = Len(table[s])
    BY <2>1, <2>2, <2>3, ExceptSeq
  <2>7. table' \in [Seqs -> Seq(Blocks)] /\ Len(table'[s]) = Len(table[s])
    <3>1. CASE table' = table
      BY <3>1 DEF Shapes
    <3>2. CASE table' = [table EXCEPT ![s] = [table[s] EXCEPT ![k] = shared]]
      <4> DEFINE new == [table[s] EXCEPT ![k] = shared]
      <4>1. new \in Seq(Blocks) /\ Len(new) = Len(table[s])
        BY <2>6
      <4>2. table' = [table EXCEPT ![s] = new]
        BY <3>2
      <4> HIDE DEF new
      <4> QED
        BY <2>1, <4>1, <4>2 DEF Shapes
    <3> QED
      BY <2>5, <3>1, <3>2
  <2>8. free' \subseteq Blocks
    BY <2>3, <2>5 DEF Shapes
  <2>9. cursor' \in [Seqs -> Nat \cup {Detached}] /\ cursor'[s] \in Nat
    BY <2>1, <2>3, <2>4 DEF Shapes
  <2>10. UNCHANGED <<trie, seqVars, loopVars, devVars, pc, turn>>
    BY <1>3 DEF PublishShared
  <2>11. Shapes'
    BY <2>7, <2>8, <2>9, <2>10 DEF Shapes, seqVars, loopVars, devVars
  <2>12. QueueTyped' /\ QueueShape' /\ Control'
    BY <2>10 DEF QueueShape, Control, Waiting, WithStatus, seqVars, loopVars
  <2>13. Room'
    BY <2>1, <2>7, <2>9, <2>10 DEF Room, FullBlocks, seqVars
  <2> QED
    BY <2>11, <2>12, <2>13
<1>4. CASE EndPublish
  BY <1>4 DEF EndPublish, Shapes, QueueShape, Control, Room, Candidate, Waiting, WithStatus,
       seqVars, loopVars, devVars
<1>5. ASSUME NEW b \in Blocks, AllocateBlock(b)
      PROVE  Frame'
  <2> DEFINE s == turn.cand
  <2>1. s \in Seqs /\ turn.need \in Nat /\ turn.need > 0 /\ turn \in Turns /\ pc = "alloc"
    BY <1>5 DEF AllocateBlock, Control, Candidate, Shapes, Turns
  <2>2. /\ table' = [table EXCEPT ![s] = Append(table[s], b)]
        /\ turn' = [turn EXCEPT !.need = turn.need - 1]
        /\ free' \subseteq free
        /\ UNCHANGED <<trie, cursor, seqVars, loopVars, devVars, pc>>
    BY <1>5 DEF AllocateBlock
  <2>3. table' \in [Seqs -> Seq(Blocks)] /\ Len(table'[s]) = Len(table[s]) + 1 /\ Len(table[s]) \in Nat
    BY <2>1, <2>2 DEF Shapes
  <2>4. /\ turn' \in Turns /\ turn'.cand = s /\ turn'.todo = turn.todo /\ turn'.lane = turn.lane
        /\ turn'.need = turn.need - 1
    <3> DEFINE need == turn.need - 1
    <3>1. need \in Nat
      BY <2>1
    <3> HIDE DEF need
    <3>2. turn' = [turn EXCEPT !.need = need]
      BY <2>2 DEF need
    <3>3. /\ turn' \in Turns /\ turn'.cand = s /\ turn'.todo = turn.todo /\ turn'.lane = turn.lane
          /\ turn'.need = need
      BY <2>1, <3>1, <3>2 DEF Turns
    <3> QED
      BY <3>3 DEF need
  <2>5. Shapes'
    BY <2>2, <2>3, <2>4 DEF Shapes, seqVars, loopVars, devVars
  <2>6. QueueTyped' /\ QueueShape'
    BY <2>2 DEF QueueShape, loopVars
  <2>7. Control'
    BY <2>1, <2>2, <2>4 DEF Control, Candidate, Waiting, WithStatus, seqVars
  <2>8. Room'
    <3> DEFINE q == Len(ids[s]) \div BlockSize
               held == Len(table'[s]) + turn'.need
    <3>1. q <= Len(table[s]) + turn.need
      BY <2>1 DEF Room, FullBlocks
    <3>2. held = Len(table[s]) + turn.need
      <4>1. \A m \in Nat, n \in Nat : (m + 1) + (n - 1) = m + n
        OBVIOUS
      <4>2. held = (Len(table[s]) + 1) + (turn.need - 1)
        BY <2>3, <2>4, Zenon
      <4> QED
        BY <2>1, <2>3, <4>1, <4>2, Zenon
    <3>3. q <= held
      BY <3>1, <3>2, Zenon
    <3>4. pc' = "alloc" /\ ids' = ids /\ turn'.cand = s
      BY <2>1, <2>2, <2>4 DEF seqVars
    <3>5. Len(ids'[turn'.cand]) \div BlockSize <= Len(table'[turn'.cand]) + turn'.need
      BY <3>3, <3>4
    <3> QED
      BY <3>4, <3>5 DEF Room, FullBlocks
  <2> QED
    BY <2>5, <2>6, <2>7, <2>8
<1> QED
  BY <1>1, <1>2, <1>3, <1>4, <1>5 DEF Publish

\* The actions of the decode lane.
LEMMA DecodeFrame ==
    ASSUME ConstantsAssumption, Frame, Decode
    PROVE  Frame'
<1> USE DEF Frame, QueueTyped
<1>1. CASE BeginDecode
  <2>1. /\ turn' = [NoTurn EXCEPT !.lane = "decode", !.todo = running]
        /\ pc \in {"send", "prefetch"} /\ pc' = "decode"
        /\ UNCHANGED <<memVars, seqVars, loopVars, devVars>>
    BY <1>1 DEF BeginDecode
  <2>2. turn' \in Turns /\ turn'.lane = "decode"
    <3>1. "decode" \in Lanes /\ running \in SUBSET Seqs
      BY DEF Lanes, Shapes
    <3> QED
      BY <2>1, <3>1, NoTurnTyped, Zenon
  <2>3. Shapes'
    BY <2>1, <2>2 DEF Shapes, memVars, seqVars, loopVars, devVars
  <2>4. Len(queue) <= 1
    <3>1. CASE pc = "send"
      BY <3>1 DEF QueueShape
    <3>2. CASE pc = "prefetch"
      <4>1. Len(queue) = 1
        BY <3>2 DEF QueueShape
      <4> QED
        BY <4>1
    <3> QED
      BY <2>1, <3>1, <3>2
  <2>5. QueueTyped' /\ QueueShape'
    BY <2>1, <2>4 DEF QueueShape, loopVars
  <2>6. Control' /\ Room'
    BY <2>1, <2>2 DEF Control, Room, Candidate
  <2> QED
    BY <2>3, <2>5, <2>6
<1>2. CASE NoRoomDecode
  <2>1. turn' \in Turns /\ turn'.lane = "decode"
    BY <1>2 DEF NoRoomDecode, Shapes, Turns
  <2>2. status' \in [Seqs -> Statuses]
    BY <1>2 DEF NoRoomDecode, Shapes, Statuses
  <2>3. Shapes'
    BY <1>2, <2>1, <2>2 DEF NoRoomDecode, Shapes, memVars, loopVars, devVars
  <2> QED
    BY <1>2, <2>1, <2>3 DEF NoRoomDecode, QueueShape, Control, Room, Candidate, loopVars
<1>3. CASE AcceptDecode
  <2>1. turn.cand \in Seqs
    BY <1>3 DEF AcceptDecode, Control, Candidate
  <2>2. turn' \in Turns /\ turn'.lane = "decode"
    BY <1>3, <2>1 DEF AcceptDecode, Shapes, Turns
  <2>3. Shapes'
    BY <1>3, <2>2 DEF AcceptDecode, Shapes, memVars, seqVars, loopVars, devVars
  <2> QED
    BY <1>3, <2>2, <2>3 DEF AcceptDecode, QueueShape, Control, Room, Candidate, loopVars
<1>4. CASE BuildDecode
  <2>1. Forward("decode", turn.batch) \in ForwardSet
    BY ForwardTyped DEF Shapes, Turns
  <2>2. Shapes'
    BY <1>4, NoTurnTyped DEF BuildDecode, Shapes, memVars, seqVars, devVars
  <2>3. QueueTyped' /\ QueueShape' /\ pc' \in {"send", "sent", "wait"}
    <3>1. CASE turn.batch # {}
      BY <1>4, <2>1, <3>1 DEF BuildDecode, Sent, QueueShape
    <3>2. CASE turn.batch = {}
      BY <1>4, <3>2 DEF BuildDecode, NothingSent, QueueShape
    <3> QED
      BY <3>1, <3>2
  <2>4. Control' /\ Room'
    BY <2>3 DEF Control, Room, Candidate
  <2> QED
    BY <2>2, <2>3, <2>4
<1>5. ASSUME NEW s \in Seqs, DecodeDrop(s)
      PROVE  Frame'
  BY <1>5 DEF DecodeDrop, Shapes, Turns, QueueShape, Control, Room, Candidate,
       memVars, seqVars, loopVars, devVars
<1>6. ASSUME NEW s \in Seqs, DecodeKeep(s)
      PROVE  Frame'
  BY <1>6 DEF DecodeKeep, Shapes, Turns, QueueShape, Control, Room, Candidate,
       memVars, seqVars, loopVars, devVars
<1>7. ASSUME NEW s \in Seqs, DecodeGrow(s)
      PROVE  Frame'
  <2> DEFINE need == NumRequired(s, Prealloc)
  <2>1. need \in Nat /\ FullBlocks(s) <= Len(table[s]) + need
    BY NeedCovers
  <2>2. turn' = [turn EXCEPT !.todo = turn.todo \ {s}, !.cand = s, !.need = need]
    BY <1>7 DEF DecodeGrow
  <2> HIDE DEF need
  <2>3. /\ turn' \in Turns /\ turn'.cand = s /\ turn'.need = need /\ turn'.lane = turn.lane
        /\ turn'.todo = turn.todo \ {s}
    BY <2>1, <2>2 DEF Shapes, Turns
  <2>4. /\ pc = "decode" /\ status[s] = "RUNNING" /\ pc' = "capacity"
        /\ UNCHANGED <<memVars, seqVars, loopVars, devVars>>
    BY <1>7 DEF DecodeGrow
  <2>5. Shapes'
    BY <2>3, <2>4 DEF Shapes, memVars, seqVars, loopVars, devVars
  <2>6. QueueTyped' /\ QueueShape'
    BY <2>4 DEF QueueShape, loopVars
  <2>7. Control'
    BY <2>3, <2>4 DEF Control, Candidate, seqVars
  <2>8. Room'
    BY <2>1, <2>3, <2>4 DEF Room, FullBlocks, memVars, seqVars
  <2> QED
    BY <2>5, <2>6, <2>7, <2>8
<1> QED
  BY <1>1, <1>2, <1>3, <1>4, <1>5, <1>6, <1>7 DEF Decode

\* The actions of the engine loop.
LEMMA LoopFrame ==
    ASSUME ConstantsAssumption, Frame, Loop
    PROVE  Frame'
<1> USE DEF Frame, QueueTyped
<1>1. CASE Activate
  <2>1. /\ pc \in {"sent", "next"} /\ pc' = "prefetch" /\ queue' = queue
        /\ UNCHANGED <<memVars, ids, hist, toEvict, devVars, turn>>
    BY <1>1 DEF Activate
  <2>2. Len(queue) = 1
    BY <2>1 DEF QueueShape
  <2>3. Rows1 \subseteq Seqs
    <3>1. queue[1] \in ForwardSet
      BY <2>2
    <3> QED
      BY <3>1, ForwardRows DEF Rows1, Head1
  <2>4. running' \subseteq Seqs
    BY <1>1, <2>3 DEF Activate, NowRunning, Shapes
  <2>5. status' \in [Seqs -> Statuses]
    BY <1>1 DEF Activate, Shapes, Statuses
  <2>6. Shapes'
    BY <2>1, <2>4, <2>5 DEF Shapes, memVars, devVars
  <2>7. QueueTyped' /\ QueueShape'
    BY <2>1, <2>2 DEF QueueShape
  <2> QED
    BY <2>1, <2>6, <2>7 DEF Control, Room, Candidate
<1>2. ASSUME pc = "wait", NEW tok \in Sampled, NEW stop \in SUBSET Rows1, CollectOutput(tok, stop)
      PROVE  Frame'
  <2>1. Len(queue) \in Nat /\ 1 <= Len(queue) /\ Len(queue) <= 2
    BY <1>2 DEF QueueShape
  <2>2. Head1 \in ForwardSet
    BY <2>1 DEF Head1
  <2>3. Rows1 \subseteq Seqs /\ Head1.rows \in [Rows1 -> Row]
    BY <2>2, ForwardRows DEF Rows1
  <2>4. \A s \in Rows1 : RowText(Head1, s) \in Seq(Tokens) /\ tok[s] \in Tokens
    BY <2>3 DEF RowText, Row, Sampled, Shapes
  <2>5. wtext' \in [Seqs -> Seq(Tokens)]
    <3>1. wtext' = [s \in Seqs |->
                      CASE s \notin Carried([t \in Seqs |-> IF t \in Applied /\ t \in stop
                                                             THEN "STOPPED" ELSE status[t]]) -> <<>>
                        [] s \in Rows1 -> Append(RowText(Head1, s), tok[s])
                        [] OTHER -> wtext[s]]
      BY <1>2 DEF CollectOutput
    <3> QED
      BY <2>4, <3>1 DEF Shapes
  <2>6. ids' \in [Seqs -> Seq(Tokens)] /\ hist' \in [Seqs -> Nat]
    <3>1. Applied \subseteq Rows1
      BY DEF Applied
    <3>2. /\ hist' = [s \in Seqs |-> IF s \in Applied THEN Len(ids[s]) ELSE hist[s]]
          /\ ids' = [s \in Seqs |-> IF s \in Applied THEN Append(ids[s], tok[s]) ELSE ids[s]]
      BY <1>2 DEF CollectOutput
    <3> QED
      BY <2>4, <3>1, <3>2 DEF Shapes
  <2>7. status' \in [Seqs -> Statuses]
    <3> DEFINE finished == [s \in Seqs |-> IF s \in Applied /\ s \in stop THEN "STOPPED" ELSE status[s]]
    <3>1. status' = Preempted(finished)
      BY <1>2 DEF CollectOutput
    <3>2. finished \in [Seqs -> Statuses]
      BY DEF Shapes, Statuses
    <3> HIDE DEF finished
    <3> QED
      BY <3>1, <3>2 DEF Preempted, Statuses
  <2>8. /\ toEvict' = {} /\ UNCHANGED <<memVars, running, turn>>
        /\ queue' = Tail(queue) /\ pc' = IF Len(queue) = 1 THEN "send" ELSE "next"
    BY <1>2 DEF CollectOutput
  <2>9. Shapes'
    BY <2>5, <2>6, <2>7, <2>8 DEF Shapes, memVars
  <2>10. queue' \in Seq(ForwardSet) /\ Len(queue') = Len(queue) - 1
    <3>1. queue # <<>>
      BY <2>1
    <3> QED
      BY <2>8, <3>1, HeadTailProperties
  <2>11. QueueShape'
    <3>1. CASE Len(queue) = 1
      <4>1. Len(queue') = 0 /\ pc' = "send"
        BY <2>8, <2>10, <3>1
      <4>2. queue' = <<>>
        BY <2>10, <4>1
      <4> QED
        BY <4>1, <4>2 DEF QueueShape
    <3>2. CASE Len(queue) # 1
      <4>1. Len(queue') = 1 /\ pc' = "next"
        BY <2>1, <2>8, <2>10, <3>2
      <4> QED
        BY <4>1 DEF QueueShape
    <3> QED
      BY <3>1, <3>2
  <2>12. Control' /\ Room'
    BY <2>8 DEF Control, Room, Candidate
  <2> QED
    BY <2>9, <2>10, <2>11, <2>12
<1> QED
  BY <1>1, <1>2 DEF Loop

---------------------------------------------------------------------------
(* Reference counts are exact. *)

\* What Owned says of one block.
Balanced(b) ==
    /\ IsFiniteSet(Slots(b)) /\ IsFiniteSet(Nodes(b))
    /\ ref[b] = Cardinality(Slots(b)) + Cardinality(Nodes(b))
    /\ b \in free <=> ref[b] = 0

LEMMA OwnedBalanced ==
    Owned <=> ref \in [Blocks -> Int] /\ \A b \in Blocks : Balanced(b)
  BY DEF Owned, Balanced, RefCountExact

LEMMA OwnedBalancedNext ==
    Owned' <=> ref' \in [Blocks -> Int] /\ \A b \in Blocks : Balanced(b)'
  BY DEF Owned, Balanced, RefCountExact

\* A slot of a block is a position of some table that names it.
LEMMA SlotMember ==
    ASSUME NEW b, NEW x
    PROVE  x \in Slots(b) <=> \E s \in Seqs : \E i \in DOMAIN table[s] :
                                 table[s][i] = b /\ x = <<s, i>>
  BY DEF Slots, SlotsOf, Uses

LEMMA SlotMemberNext ==
    ASSUME NEW CONSTANT b, NEW CONSTANT x
    PROVE  x \in Slots(b)' <=> \E s \in Seqs : \E i \in DOMAIN table'[s] :
                                  table'[s][i] = b /\ x = <<s, i>>
  BY DEF Slots, SlotsOf, Uses

\* A step that touches no table, node or count keeps the balance.
LEMMA OwnedUnchanged ==
    ASSUME Owned, UNCHANGED <<ref, free, table, trie>>
    PROVE  Owned'
<1>1. ASSUME NEW b \in Blocks PROVE Balanced(b)'
  <2>1. Slots(b)' = Slots(b) /\ Nodes(b)' = Nodes(b)
    BY DEF Slots, SlotsOf, Uses, Nodes
  <2> QED
    BY <2>1, OwnedBalanced DEF Balanced
<1> QED
  BY <1>1, OwnedBalanced, OwnedBalancedNext

\* The balance of a block whose owners and count a step leaves alone.
LEMMA BalancedUnchanged ==
    ASSUME NEW CONSTANT b, Balanced(b), Slots(b)' = Slots(b), Nodes(b)' = Nodes(b),
           ref'[b] = ref[b], b \in free' <=> b \in free
    PROVE  Balanced(b)'
  BY DEF Balanced

\* A block that is named by a slot or a node is not free.
LEMMA OwnedIsPositive ==
    ASSUME NEW b, Balanced(b)
    PROVE  /\ ref[b] \in Nat
           /\ Slots(b) # {} \/ Nodes(b) # {} => ref[b] # 0
           /\ ref[b] = 0 => Slots(b) = {} /\ Nodes(b) = {}
<1>1. /\ Cardinality(Slots(b)) \in Nat /\ Cardinality(Nodes(b)) \in Nat
      /\ Cardinality(Slots(b)) = 0 <=> Slots(b) = {}
      /\ Cardinality(Nodes(b)) = 0 <=> Nodes(b) = {}
  BY FS_CardinalityType, FS_EmptySet DEF Balanced
<1> QED
  BY <1>1 DEF Balanced

\* A sequence's slots of a block are counted by its uses.
LEMMA SlotsOfCount ==
    ASSUME Shapes, NEW s \in Seqs, NEW b
    PROVE  /\ IsFiniteSet(SlotsOf(s, b))
           /\ Cardinality(SlotsOf(s, b)) = Cardinality(Uses(s, b))
<1>1. IsFiniteSet(Uses(s, b))
  <2>1. Uses(s, b) \subseteq 1..Len(table[s]) /\ Len(table[s]) \in Nat
    BY DEF Uses, Shapes
  <2> QED
    <3>1. IsFiniteSet(1..Len(table[s]))
      BY <2>1, FS_Interval
    <3> QED
      BY <2>1, <3>1, FS_Subset
<1> DEFINE f == [i \in Uses(s, b) |-> <<s, i>>]
<1>2. f \in Bijection(Uses(s, b), SlotsOf(s, b))
  <2>1. f \in [Uses(s, b) -> SlotsOf(s, b)]
    BY DEF SlotsOf
  <2>2. \A i, j \in Uses(s, b) : f[i] = f[j] => i = j
    OBVIOUS
  <2>3. \A x \in SlotsOf(s, b) : \E i \in Uses(s, b) : f[i] = x
    BY DEF SlotsOf
  <2> QED
    BY <2>1, <2>2, <2>3, Fun_IsBij
<1> QED
  BY <1>1, <1>2, FS_Bijection, Fun_ExistsBij

\* Dropping a sequence's blocks: each count falls by the slots that go.
LEMMA ReleaseOwned ==
    ASSUME ConstantsAssumption, Shapes, Owned, NEW CONSTANT s \in Seqs, ReleasePaging(s)
    PROVE  Owned'
<1>1. /\ ref' = [b \in Blocks |-> ref[b] - Cardinality(Uses(s, b))]
      /\ free' = free \cup FreedBy(s) /\ trie' = trie
      /\ table' = [table EXCEPT ![s] = <<>>]
  BY DEF ReleasePaging
<1>2. ASSUME NEW b \in Blocks
      PROVE  ref'[b] \in Int /\ Balanced(b)'
  <2>1. Balanced(b)
    BY OwnedBalanced
  <2>2. Slots(b)' = Slots(b) \ SlotsOf(s, b) /\ SlotsOf(s, b) \subseteq Slots(b)
    <3>1. ASSUME NEW x PROVE x \in Slots(b)' <=> x \in Slots(b) /\ x \notin SlotsOf(s, b)
      <4>1. DOMAIN table'[s] = {} /\ \A t \in Seqs \ {s} : table'[t] = table[t]
        BY <1>1 DEF Shapes
      <4>2. x \in SlotsOf(s, b) <=> \E i \in DOMAIN table[s] : table[s][i] = b /\ x = <<s, i>>
        BY DEF SlotsOf, Uses
      <4>3. ASSUME x \in Slots(b)' PROVE x \in Slots(b) /\ x \notin SlotsOf(s, b)
        <5>1. PICK t \in Seqs : \E i \in DOMAIN table'[t] : table'[t][i] = b /\ x = <<t, i>>
          BY <4>3 DEF Slots, SlotsOf, Uses
        <5>2. t # s
          BY <4>1, <5>1
        <5> QED
          BY <4>1, <4>2, <5>1, <5>2, SlotMember
      <4>4. ASSUME x \in Slots(b), x \notin SlotsOf(s, b) PROVE x \in Slots(b)'
        <5>1. PICK t \in Seqs : \E i \in DOMAIN table[t] : table[t][i] = b /\ x = <<t, i>>
          BY <4>4, SlotMember
        <5>2. t # s
          BY <4>2, <4>4, <5>1
        <5> QED
          BY <4>1, <5>1, <5>2 DEF Slots, SlotsOf, Uses
      <4> QED
        BY <4>3, <4>4
    <3>2. SlotsOf(s, b) \subseteq Slots(b)
      BY DEF Slots
    <3> QED
      BY <3>1, <3>2
  <2>3. Nodes(b)' = Nodes(b)
    BY <1>1 DEF Nodes
  <2> DEFINE used == Cardinality(Uses(s, b))
             held == Cardinality(Slots(b))
             nodes == Cardinality(Nodes(b))
  <2>4. /\ IsFiniteSet(Slots(b)') /\ Cardinality(Slots(b)') = held - used
        /\ used \in Nat /\ held \in Nat /\ nodes \in Nat /\ Cardinality(Slots(b)') \in Nat
        /\ used = 0 <=> Uses(s, b) = {}
    <3>1. Slots(b) \cap SlotsOf(s, b) = SlotsOf(s, b)
      BY <2>2
    <3>2. IsFiniteSet(SlotsOf(s, b)) /\ Cardinality(SlotsOf(s, b)) = used
      BY SlotsOfCount
    <3>3. IsFiniteSet(Slots(b)') /\ Cardinality(Slots(b)') = held - used
      <4>1. IsFiniteSet(Slots(b))
        BY <2>1 DEF Balanced
      <4>2. /\ IsFiniteSet(Slots(b) \ SlotsOf(s, b))
            /\ Cardinality(Slots(b) \ SlotsOf(s, b))
                 = Cardinality(Slots(b)) - Cardinality(Slots(b) \cap SlotsOf(s, b))
        BY <4>1, FS_Difference
      <4> QED
        BY <2>2, <3>1, <3>2, <4>2
    <3>4. used \in Nat /\ (used = 0 <=> SlotsOf(s, b) = {})
      BY <3>2, FS_CardinalityType, FS_EmptySet
    <3>5. SlotsOf(s, b) = {} <=> Uses(s, b) = {}
      BY DEF SlotsOf
    <3>6. held \in Nat /\ nodes \in Nat /\ Cardinality(Slots(b)') \in Nat
      BY <2>1, <3>3, FS_CardinalityType DEF Balanced
    <3> QED
      BY <3>3, <3>4, <3>5, <3>6
  <2>5. ref[b] = held + nodes /\ ref'[b] = ref[b] - used
    BY <1>1, <2>1 DEF Balanced
  <2>6. b \in free' <=> b \in free \/ (Uses(s, b) # {} /\ ref[b] = used)
    BY <1>1 DEF FreedBy
  <2>7. b \in free <=> ref[b] = 0
    BY <2>1 DEF Balanced
  <2> HIDE DEF used, held, nodes
  <2>8. ref'[b] = Cardinality(Slots(b)') + nodes /\ ref'[b] \in Int
    BY <2>4, <2>5
  <2>9. b \in free' <=> ref'[b] = 0
    BY <2>4, <2>5, <2>6, <2>7
  <2> QED
    BY <2>1, <2>3, <2>4, <2>8, <2>9 DEF Balanced, nodes
<1>3. ref' \in [Blocks -> Int]
  BY <1>1, <1>2
<1> QED
  BY <1>2, <1>3, OwnedBalancedNext

\* Appending a block to a table adds one slot, of that block.
LEMMA SlotAppended ==
    ASSUME Shapes, NEW CONSTANT s \in Seqs, NEW CONSTANT b \in Blocks,
           table' = [table EXCEPT ![s] = Append(table[s], b)]
    PROVE  /\ Slots(b)' = Slots(b) \cup {<<s, Len(table[s]) + 1>>}
           /\ <<s, Len(table[s]) + 1>> \notin Slots(b)
           /\ \A c \in Blocks \ {b} : Slots(c)' = Slots(c)
<1> DEFINE n == Len(table[s])
<1>1. /\ n \in Nat /\ DOMAIN table[s] = 1..n
      /\ DOMAIN table'[s] = 1..(n + 1)
      /\ table'[s][n + 1] = b
      /\ \A i \in 1..n : table'[s][i] = table[s][i]
      /\ \A t \in Seqs \ {s} : table'[t] = table[t]
  <2>1. table'[s] = Append(table[s], b) /\ table[s] \in Seq(Blocks)
    BY DEF Shapes
  <2> QED
    BY <2>1, AppendProperties DEF Shapes
<1> HIDE DEF n
<1>2. n + 1 \notin 1..n /\ \A i : i \in 1..(n + 1) <=> i \in 1..n \/ i = n + 1
  BY <1>1
<1>3. ASSUME NEW c, NEW x
      PROVE  x \in Slots(c)' <=> x \in Slots(c) \/ (c = b /\ x = <<s, n + 1>>)
  <2>1. ASSUME x \in Slots(c)' PROVE x \in Slots(c) \/ (c = b /\ x = <<s, n + 1>>)
    <3>1. PICK t \in Seqs : \E i \in DOMAIN table'[t] : table'[t][i] = c /\ x = <<t, i>>
      BY <2>1 DEF Slots, SlotsOf, Uses
    <3>2. CASE t = s
      BY <1>1, <1>2, <3>1, <3>2, SlotMember
    <3>3. CASE t # s
      BY <1>1, <3>1, <3>3, SlotMember
    <3> QED
      BY <3>2, <3>3
  <2>2. ASSUME x \in Slots(c) PROVE x \in Slots(c)'
    <3>1. PICK t \in Seqs : \E i \in DOMAIN table[t] : table[t][i] = c /\ x = <<t, i>>
      BY <2>2, SlotMember
    <3>2. \E i \in DOMAIN table'[t] : table'[t][i] = c /\ x = <<t, i>>
      <4>1. CASE t = s
        BY <1>1, <1>2, <3>1, <4>1
      <4>2. CASE t # s
        BY <1>1, <3>1, <4>2
      <4> QED
        BY <4>1, <4>2
    <3> QED
      BY <3>2 DEF Slots, SlotsOf, Uses
  <2>3. ASSUME c = b, x = <<s, n + 1>> PROVE x \in Slots(c)'
    <3>1. n + 1 \in DOMAIN table'[s] /\ table'[s][n + 1] = b
      BY <1>1, <1>2
    <3> QED
      BY <2>3, <3>1 DEF Slots, SlotsOf, Uses
  <2> QED
    BY <2>1, <2>2, <2>3
<1>4. <<s, n + 1>> \notin Slots(b)
  BY <1>1, <1>2, SlotMember
<1>5. Slots(b)' = Slots(b) \cup {<<s, n + 1>>}
  <2>1. \A x : x \in Slots(b)' <=> x \in Slots(b) \cup {<<s, n + 1>>}
    BY <1>3
  <2> QED
    BY <2>1
<1>6. ASSUME NEW c \in Blocks \ {b} PROVE Slots(c)' = Slots(c)
  <2>1. \A x : x \in Slots(c)' <=> x \in Slots(c)
    BY <1>3, <1>6
  <2> QED
    BY <2>1
<1> QED
  BY <1>4, <1>5, <1>6 DEF n

\* A block gains one slot: its balance holds when its count rises by one.
LEMMA SlotGained ==
    ASSUME NEW CONSTANT b, NEW x, Balanced(b),
           x \notin Slots(b), Slots(b)' = Slots(b) \cup {x}, Nodes(b)' = Nodes(b),
           ref'[b] = ref[b] + 1, b \notin free'
    PROVE  Balanced(b)'
<1>1. /\ IsFiniteSet(Slots(b)') /\ Cardinality(Slots(b)') = Cardinality(Slots(b)) + 1
      /\ Cardinality(Slots(b)) \in Nat /\ Cardinality(Nodes(b)) \in Nat
  BY FS_AddElement, FS_CardinalityType DEF Balanced
<1>2. ref'[b] = Cardinality(Slots(b)') + Cardinality(Nodes(b)) /\ ref'[b] # 0
  BY <1>1 DEF Balanced
<1> QED
  BY <1>1, <1>2 DEF Balanced

LEMMA MatchOwned ==
    ASSUME ConstantsAssumption, Frame, Owned, MatchBlock
    PROVE  Owned'
<1> DEFINE s == turn.cand
           p == NextPath(s)
           b == trie[p]
<1>1. /\ s \in Seqs /\ p \in DOMAIN trie /\ b \in Blocks
  BY DEF MatchBlock, CanMatch, Frame, Control, Candidate, Shapes
<1>2. /\ ref' = [ref EXCEPT ![b] = ref[b] + 1] /\ free' = free /\ trie' = trie
      /\ table' = [table EXCEPT ![s] = Append(table[s], b)]
  BY DEF MatchBlock
<1> HIDE DEF s, p, b
<1>3. ASSUME NEW c \in Blocks PROVE Balanced(c)' /\ ref'[c] \in Int
  <2>1. Balanced(c) /\ ref[c] \in Int /\ Nodes(c)' = Nodes(c)
    BY <1>2, OwnedBalanced DEF Nodes
  <2>2. CASE c = b
    <3>1. p \in Nodes(b)
      BY <1>1 DEF Nodes, b
    <3>2. b \notin free
      BY <2>1, <2>2, <3>1, OwnedIsPositive DEF Balanced
    <3>3. ref'[c] = ref[c] + 1
      BY <1>1, <1>2, <2>2 DEF Owned
    <3>4. Slots(c)' = Slots(c) \cup {<<s, Len(table[s]) + 1>>} /\ <<s, Len(table[s]) + 1>> \notin Slots(c)
      BY <1>1, <1>2, <2>2, SlotAppended DEF Frame
    <3> QED
      BY <1>2, <2>1, <2>2, <3>2, <3>3, <3>4, SlotGained
  <2>3. CASE c # b
    <3>1. Slots(c)' = Slots(c)
      BY <1>1, <1>2, <2>3, SlotAppended DEF Frame
    <3>2. ref'[c] = ref[c]
      BY <1>2, <2>3 DEF Owned
    <3> QED
      BY <1>2, <2>1, <3>1, <3>2, BalancedUnchanged
  <2> QED
    BY <2>2, <2>3
<1>4. ref' \in [Blocks -> Int]
  BY <1>2, <1>3 DEF Owned
<1> QED
  BY <1>3, <1>4, OwnedBalancedNext

LEMMA AllocateOwned ==
    ASSUME ConstantsAssumption, Frame, Owned, NEW CONSTANT b \in Blocks, AllocateBlock(b)
    PROVE  Owned'
<1> DEFINE s == turn.cand
<1>1. s \in Seqs /\ b \in free
  BY DEF AllocateBlock, Frame, Control, Candidate
<1>2. /\ ref' = [ref EXCEPT ![b] = 1] /\ free' = free \ {b} /\ trie' = trie
      /\ table' = [table EXCEPT ![s] = Append(table[s], b)]
  BY DEF AllocateBlock
<1> HIDE DEF s
<1>3. ASSUME NEW c \in Blocks PROVE Balanced(c)' /\ ref'[c] \in Int
  <2>1. Balanced(c) /\ ref[c] \in Int /\ Nodes(c)' = Nodes(c)
    BY <1>2, OwnedBalanced DEF Nodes
  <2>2. CASE c = b
    <3>1. ref[c] = 0
      BY <1>1, <2>1, <2>2 DEF Balanced
    <3>2. ref'[c] = ref[c] + 1 /\ c \notin free'
      BY <1>1, <1>2, <2>2, <3>1 DEF Owned
    <3>3. Slots(c)' = Slots(c) \cup {<<s, Len(table[s]) + 1>>} /\ <<s, Len(table[s]) + 1>> \notin Slots(c)
      BY <1>1, <1>2, <2>2, SlotAppended DEF Frame
    <3> QED
      BY <2>1, <3>1, <3>2, <3>3, SlotGained
  <2>3. CASE c # b
    <3>1. Slots(c)' = Slots(c)
      BY <1>1, <1>2, <2>3, SlotAppended DEF Frame
    <3>2. ref'[c] = ref[c] /\ (c \in free' <=> c \in free)
      BY <1>2, <2>3 DEF Owned
    <3> QED
      BY <2>1, <3>1, <3>2, BalancedUnchanged
  <2> QED
    BY <2>2, <2>3
<1>4. ref' \in [Blocks -> Int]
  BY <1>2, <1>3 DEF Owned
<1> QED
  BY <1>3, <1>4, OwnedBalancedNext

\* Publishing gives the block one more owner, the new node.
LEMMA PublishNewOwned ==
    ASSUME ConstantsAssumption, Frame, Owned, PublishNew
    PROVE  Owned'
<1> DEFINE s == turn.cand
           k == cursor[s] + 1
           p == Prefix(s, k)
           b == table[s][k]
<1>1. s \in Seqs /\ ToPublish(s) /\ pc = "publish" /\ p \notin DOMAIN trie
  BY DEF PublishNew, Frame, Control, Candidate
<1>2. k \in DOMAIN table[s] /\ b \in Blocks
  <2>1. k \in 1..Len(table[s])
    BY <1>1, PublishedPath DEF Frame
  <2> QED
    BY <1>1, <2>1 DEF Frame, Shapes
<1>3. /\ ref' = [ref EXCEPT ![b] = ref[b] + 1] /\ free' = free /\ table' = table
      /\ trie' = [q \in DOMAIN trie \cup {p} |-> IF q = p THEN b ELSE trie[q]]
  BY DEF PublishNew
<1>4. <<s, k>> \in Slots(b)
  BY <1>1, <1>2, SlotMember
<1> HIDE DEF s, k, p, b
<1>5. ASSUME NEW c \in Blocks PROVE Balanced(c)' /\ ref'[c] \in Int
  <2>1. Balanced(c) /\ ref[c] \in Int /\ Slots(c)' = Slots(c)
    BY <1>3, OwnedBalanced DEF Slots, SlotsOf, Uses
  <2>2. CASE c = b
    <3>1. b \notin free /\ ref[b] \in Nat
      BY <1>4, <2>1, <2>2, OwnedIsPositive DEF Balanced
    <3>2. ref'[c] = ref[c] + 1
      BY <1>2, <1>3, <2>2 DEF Owned
    <3>3. Nodes(c)' = Nodes(c) \cup {p} /\ p \notin Nodes(c)
      BY <1>1, <1>3, <2>2 DEF Nodes
    <3>4. /\ IsFiniteSet(Nodes(c)') /\ Cardinality(Nodes(c)') = Cardinality(Nodes(c)) + 1
          /\ Cardinality(Nodes(c)) \in Nat /\ Cardinality(Slots(c)) \in Nat
      BY <2>1, <3>3, FS_AddElement, FS_CardinalityType DEF Balanced
    <3>5. ref'[c] = Cardinality(Slots(c)) + Cardinality(Nodes(c)') /\ ref'[c] # 0
      BY <2>1, <3>2, <3>4 DEF Balanced
    <3>6. c \notin free'
      BY <1>3, <2>2, <3>1
    <3> QED
      BY <2>1, <3>4, <3>5, <3>6 DEF Balanced
  <2>3. CASE c # b
    <3>1. Nodes(c)' = Nodes(c)
      BY <1>1, <1>3, <2>3 DEF Nodes
    <3>2. ref'[c] = ref[c]
      BY <1>3, <2>3 DEF Owned
    <3> QED
      BY <1>3, <2>1, <3>1, <3>2, BalancedUnchanged
  <2> QED
    BY <2>2, <2>3
<1>6. ref' \in [Blocks -> Int]
  BY <1>3, <1>5 DEF Owned
<1> QED
  BY <1>5, <1>6, OwnedBalancedNext

\* Sharing moves one slot from the sequence's own block to the cached one.
LEMMA PublishSharedOwned ==
    ASSUME ConstantsAssumption, Frame, Owned, PublishShared
    PROVE  Owned'
<1> DEFINE s == turn.cand
           k == cursor[s] + 1
           p == Prefix(s, k)
           own == table[s][k]
           shared == trie[p]
<1>1. s \in Seqs /\ ToPublish(s) /\ pc = "publish" /\ p \in DOMAIN trie /\ shared \in Blocks
  BY DEF PublishShared, Frame, Control, Candidate, Shapes
<1>2. k \in 1..Len(table[s]) /\ k \in DOMAIN table[s] /\ own \in Blocks /\ table[s] \in Seq(Blocks)
  <2>1. k \in 1..Len(table[s])
    BY <1>1, PublishedPath DEF Frame
  <2> QED
    BY <1>1, <2>1 DEF Frame, Shapes
<1>3. trie' = trie
  BY DEF PublishShared
<1>4. CASE own = shared
  <2>1. UNCHANGED <<ref, free, table, trie>>
    BY <1>4 DEF PublishShared
  <2> QED
    BY <2>1, OwnedUnchanged
<1>5. CASE own # shared
  <2>1. /\ ref' = [ref EXCEPT ![own] = ref[own] - 1, ![shared] = ref[shared] + 1]
        /\ table' = [table EXCEPT ![s] = [table[s] EXCEPT ![k] = shared]]
        /\ free' = IF ref[own] = 1 THEN free \cup {own} ELSE free
    BY <1>5 DEF PublishShared
  <2> HIDE DEF s, k, own, shared
  <2>2. /\ DOMAIN table'[s] = DOMAIN table[s] /\ table'[s][k] = shared
        /\ \A i \in DOMAIN table[s] \ {k} : table'[s][i] = table[s][i]
        /\ \A t \in Seqs \ {s} : table'[t] = table[t]
    BY <1>1, <1>2, <2>1 DEF Frame, Shapes
  <2>3. table[s][k] = own
    BY DEF own
  <2>4. ASSUME NEW c, NEW x
        PROVE  x \in Slots(c)' <=> \/ x \in Slots(c) /\ x # <<s, k>>
                                   \/ c = shared /\ x = <<s, k>>
    <3>1. ASSUME x \in Slots(c)'
          PROVE  (x \in Slots(c) /\ x # <<s, k>>) \/ (c = shared /\ x = <<s, k>>)
      <4>1. PICK t \in Seqs : \E i \in DOMAIN table'[t] : table'[t][i] = c /\ x = <<t, i>>
        BY <3>1 DEF Slots, SlotsOf, Uses
      <4>2. PICK i \in DOMAIN table'[t] : table'[t][i] = c /\ x = <<t, i>>
        BY <4>1
      <4>3. CASE t = s /\ i = k
        BY <2>2, <4>2, <4>3
      <4>4. CASE ~(t = s /\ i = k)
        <5>1. i \in DOMAIN table[t] /\ table[t][i] = c
          BY <2>2, <4>2, <4>4
        <5>2. x # <<s, k>>
          BY <4>2, <4>4
        <5>3. x \in Slots(c)
          BY <4>2, <5>1, SlotMember
        <5> QED
          BY <5>2, <5>3
      <4> QED
        BY <4>3, <4>4
    <3>2. ASSUME x \in Slots(c), x # <<s, k>> PROVE x \in Slots(c)'
      <4>1. PICK t \in Seqs : \E i \in DOMAIN table[t] : table[t][i] = c /\ x = <<t, i>>
        BY <3>2, SlotMember
      <4>2. \E i \in DOMAIN table'[t] : table'[t][i] = c /\ x = <<t, i>>
        BY <2>2, <3>2, <4>1
      <4> QED
        BY <4>2 DEF Slots, SlotsOf, Uses
    <3>3. ASSUME c = shared, x = <<s, k>> PROVE x \in Slots(c)'
      BY <1>1, <1>2, <2>2, <3>3 DEF Slots, SlotsOf, Uses
    <3> QED
      BY <3>1, <3>2, <3>3
  <2>5. <<s, k>> \in Slots(own) /\ \A c \in Blocks \ {own} : <<s, k>> \notin Slots(c)
    BY <1>1, <1>2, <2>3, SlotMember
  <2>6. ASSUME NEW c \in Blocks PROVE Balanced(c)' /\ ref'[c] \in Int
    <3>1. Balanced(c) /\ ref[c] \in Int /\ Nodes(c)' = Nodes(c)
      BY <1>3, OwnedBalanced DEF Nodes
    <3>2. CASE c = own
      <4>1. Slots(c)' = Slots(c) \ {<<s, k>>}
        <5>1. \A x : x \in Slots(c)' <=> x \in Slots(c) \ {<<s, k>>}
          BY <1>5, <2>4, <3>2
        <5> QED
          BY <5>1
      <4>2. /\ IsFiniteSet(Slots(c)') /\ Cardinality(Slots(c)') = Cardinality(Slots(c)) - 1
            /\ Cardinality(Nodes(c)) \in Nat /\ Cardinality(Slots(c)) \in Nat
        <5>1. IsFiniteSet(Slots(c)) /\ IsFiniteSet(Nodes(c)) /\ <<s, k>> \in Slots(c)
          BY <2>5, <3>1, <3>2 DEF Balanced
        <5>2. /\ IsFiniteSet(Slots(c) \ {<<s, k>>})
              /\ Cardinality(Slots(c) \ {<<s, k>>}) = Cardinality(Slots(c)) - 1
          BY <5>1, FS_RemoveElement
        <5> QED
          BY <4>1, <5>1, <5>2, FS_CardinalityType
      <4>3. ref'[c] = ref[c] - 1
        BY <1>2, <1>5, <2>1, <3>2 DEF Owned
      <4>4. ref'[c] = Cardinality(Slots(c)') + Cardinality(Nodes(c))
        BY <3>1, <4>2, <4>3 DEF Balanced
      <4>5. c \notin free
        BY <2>5, <3>1, <3>2, OwnedIsPositive DEF Balanced
      <4>6. c \in free' <=> ref[c] = 1
        BY <2>1, <3>2, <4>5
      <4>7. c \in free' <=> ref'[c] = 0
        BY <3>1, <4>3, <4>6
      <4> QED
        BY <3>1, <4>2, <4>4, <4>7 DEF Balanced
    <3>3. CASE c = shared
      <4>1. Slots(c)' = Slots(c) \cup {<<s, k>>} /\ <<s, k>> \notin Slots(c)
        <5>1. \A x : x \in Slots(c)' <=> x \in Slots(c) \cup {<<s, k>>}
          BY <2>4, <3>3
        <5> QED
          BY <1>5, <2>5, <3>3, <5>1
      <4>2. p \in Nodes(c)
        BY <1>1, <3>3 DEF Nodes, shared
      <4>3. c \notin free
        BY <3>1, <4>2, OwnedIsPositive DEF Balanced
      <4>4. c \notin free'
        BY <1>5, <2>1, <3>3, <4>3
      <4>5. ref'[c] = ref[c] + 1
        BY <1>1, <1>5, <2>1, <3>3 DEF Owned
      <4> QED
        BY <3>1, <4>1, <4>4, <4>5, SlotGained
    <3>4. CASE c # own /\ c # shared
      <4>1. Slots(c)' = Slots(c)
        <5>1. \A x : x \in Slots(c)' <=> x \in Slots(c)
          BY <2>4, <2>5, <3>4
        <5> QED
          BY <5>1
      <4>2. ref'[c] = ref[c] /\ (c \in free' <=> c \in free)
        BY <2>1, <3>4 DEF Owned
      <4> QED
        BY <3>1, <4>1, <4>2, BalancedUnchanged
    <3> QED
      BY <3>2, <3>3, <3>4
  <2>7. ref' \in [Blocks -> Int]
    BY <2>1, <2>6 DEF Owned
  <2> QED
    BY <2>6, <2>7, OwnedBalancedNext
<1> QED
  BY <1>4, <1>5

\* Evicting a leaf takes the last owner of its block.
LEMMA EvictOwned ==
    ASSUME ConstantsAssumption, Frame, Owned, NEW CONSTANT p, EvictLeaf(p)
    PROVE  Owned'
<1> DEFINE b == trie[p]
<1>1. p \in DOMAIN trie /\ ref[b] = 1 /\ b \in Blocks
  BY DEF EvictLeaf, EvictionCandidates, Frame, Shapes
<1>2. /\ ref' = [ref EXCEPT ![b] = ref[b] - 1] /\ free' = free \cup {b} /\ table' = table
      /\ trie' = [q \in DOMAIN trie \ {p} |-> trie[q]]
  BY DEF EvictLeaf
<1> HIDE DEF b
<1>3. p \in Nodes(b)
  BY <1>1 DEF Nodes, b
<1>4. ASSUME NEW c \in Blocks PROVE Balanced(c)' /\ ref'[c] \in Int
  <2>1. Balanced(c) /\ ref[c] \in Int /\ Slots(c)' = Slots(c)
    BY <1>2, OwnedBalanced DEF Slots, SlotsOf, Uses
  <2>2. CASE c = b
    <3>1. ref'[c] = ref[c] - 1 /\ ref'[c] = 0 /\ c \in free'
      BY <1>1, <1>2, <2>2 DEF Owned
    <3>2. Nodes(c)' = Nodes(c) \ {p}
      BY <1>1, <1>2 DEF Nodes
    <3>3. /\ IsFiniteSet(Nodes(c)') /\ Cardinality(Nodes(c)') = Cardinality(Nodes(c)) - 1
          /\ Cardinality(Nodes(c)) \in Nat /\ Cardinality(Slots(c)) \in Nat
      BY <1>3, <2>1, <2>2, <3>2, FS_RemoveElement, FS_CardinalityType DEF Balanced
    <3>4. ref'[c] = Cardinality(Slots(c)) + Cardinality(Nodes(c)')
      BY <2>1, <3>1, <3>3 DEF Balanced
    <3> QED
      BY <2>1, <3>1, <3>3, <3>4 DEF Balanced
  <2>3. CASE c # b
    <3>1. Nodes(c)' = Nodes(c)
      BY <1>1, <1>2, <2>3 DEF Nodes, b
    <3>2. ref'[c] = ref[c] /\ (c \in free' <=> c \in free)
      BY <1>2, <2>3 DEF Owned
    <3> QED
      BY <2>1, <3>1, <3>2, BalancedUnchanged
  <2> QED
    BY <2>2, <2>3
<1>5. ref' \in [Blocks -> Int]
  BY <1>2, <1>4 DEF Owned
<1> QED
  BY <1>4, <1>5, OwnedBalancedNext

---------------------------------------------------------------------------
(* The inductive invariant. *)

LEMMA InitOwned ==
    ASSUME ConstantsAssumption, Init
    PROVE  Owned
<1>1. /\ ref = [b \in Blocks |-> 0] /\ free = Blocks /\ trie = <<>>
      /\ table = [s \in Seqs |-> <<>>]
  BY DEF Init
<1>2. ASSUME NEW b \in Blocks PROVE Balanced(b)
  <2>1. Slots(b) = {}
    BY <1>1, SlotMember
  <2>2. Nodes(b) = {}
    BY <1>1 DEF Nodes
  <2>3. ref[b] = 0 /\ b \in free
    BY <1>1
  <2> QED
    BY <2>1, <2>2, <2>3, FS_EmptySet DEF Balanced
<1>3. ref \in [Blocks -> Int]
  BY <1>1
<1> QED
  BY <1>2, <1>3, OwnedBalanced

\* Every step keeps the balance of every block.
LEMMA NextOwned ==
    ASSUME ConstantsAssumption, Frame, Owned, Next
    PROVE  Owned'
<1>1. ASSUME UNCHANGED memVars PROVE Owned'
  BY <1>1, OwnedUnchanged DEF memVars
<1>2. ASSUME turn.cand \in Seqs, Rollback(turn.cand) PROVE Owned'
  <2>1. Shapes
    BY DEF Frame
  <2>2. ASSUME NEW CONSTANT s \in Seqs, ReleasePaging(s) PROVE Owned'
    BY <2>1, <2>2, ReleaseOwned
  <2>3. CASE PrefixCaching
    <3>1. PICK s \in Seqs : s = turn.cand
      BY <1>2
    <3>2. ReleasePaging(s)
      BY <1>2, <2>3, <3>1 DEF Rollback
    <3> QED
      BY <2>2, <3>2
  <2>4. CASE ~PrefixCaching
    BY <1>1, <1>2, <2>4 DEF Rollback
  <2> QED
    BY <2>3, <2>4
<1>3. CASE Client
  <2>1. ASSUME NEW s \in Seqs, NEW prompt \in Prompts, AddMessage(s, prompt) PROVE Owned'
    BY <1>1, <2>1 DEF AddMessage
  <2>2. ASSUME NEW s \in Seqs, StopSession(s) PROVE Owned'
    BY <1>1, <2>2 DEF StopSession
  <2>3. ASSUME NEW s \in Seqs, EndSession(s) PROVE Owned'
    BY <2>3, ReleaseOwned DEF EndSession, Frame
  <2> QED
    BY <1>3, <2>1, <2>2, <2>3 DEF Client
<1>4. CASE Prefill
  <2>1. CASE MatchBlock
    BY <2>1, MatchOwned
  <2>2. CASE GateRejects
    BY <1>2, <2>2 DEF GateRejects, Frame, Control, Candidate
  <2>3. CASE NoRoomPrefill
    BY <1>2, <2>3 DEF NoRoomPrefill, Frame, Control, Candidate
  <2>4. CASE BeginPrefill \/ EndPick \/ EndMatch \/ GateAdmits \/ AcceptPrefill \/ BuildPrefill
              \/ FallBackToDecode
    BY <1>1, <2>4 DEF BeginPrefill, EndPick, EndMatch, GateAdmits, AcceptPrefill, BuildPrefill,
         FallBackToDecode
  <2>5. ASSUME NEW s \in Seqs, PickCandidate(s) PROVE Owned'
    BY <1>1, <2>5 DEF PickCandidate
  <2> QED
    BY <1>4, <2>1, <2>2, <2>3, <2>4, <2>5 DEF Prefill
<1>5. CASE Capacity
  <2>1. CASE CapacityFound \/ NothingToReclaim \/ EvictEnough \/ EvictNextVictim
    BY <1>1, <2>1 DEF CapacityFound, NothingToReclaim, EvictEnough, EvictNextVictim
  <2>2. ASSUME NEW v \in Seqs, Reclaim(v) PROVE Owned'
    BY <2>2, ReleaseOwned DEF Reclaim, Frame
  <2>3. ASSUME NEW p \in leaves, EvictLeaf(p) PROVE Owned'
    BY <2>3, EvictOwned
  <2> QED
    BY <1>5, <2>1, <2>2, <2>3 DEF Capacity
<1>6. CASE Publish
  <2>1. CASE BeginPublish \/ EndPublish
    BY <2>1, OwnedUnchanged DEF BeginPublish, EndPublish
  <2>2. ASSUME NEW b \in Blocks, AllocateBlock(b) PROVE Owned'
    BY <2>2, AllocateOwned
  <2> QED
    BY <1>6, <2>1, <2>2, PublishNewOwned, PublishSharedOwned DEF Publish
<1>7. CASE Decode
  <2>1. CASE BeginDecode \/ NoRoomDecode \/ AcceptDecode \/ BuildDecode
    BY <1>1, <2>1 DEF BeginDecode, NoRoomDecode, AcceptDecode, BuildDecode
  <2>2. ASSUME NEW s \in Seqs, DecodeDrop(s) \/ DecodeKeep(s) \/ DecodeGrow(s) PROVE Owned'
    BY <1>1, <2>2 DEF DecodeDrop, DecodeKeep, DecodeGrow
  <2> QED
    BY <1>7, <2>1, <2>2 DEF Decode
<1>8. CASE Loop
  <2>1. CASE Activate
    BY <1>1, <2>1 DEF Activate
  <2>2. ASSUME NEW tok \in Sampled, NEW stop \in SUBSET Rows1, CollectOutput(tok, stop) PROVE Owned'
    BY <1>1, <2>2 DEF CollectOutput
  <2> QED
    BY <1>8, <2>1, <2>2 DEF Loop
<1> QED
  BY <1>3, <1>4, <1>5, <1>6, <1>7, <1>8 DEF Next, Engine

LEMMA NextFrame ==
    ASSUME ConstantsAssumption, Frame, Next
    PROVE  Frame'
  BY ClientFrame, PrefillFrame, CapacityFrame, PublishFrame, DecodeFrame, LoopFrame DEF Next, Engine

LEMMA StutterInv ==
    ASSUME Frame, Owned, UNCHANGED vars
    PROVE  Frame' /\ Owned'
<1>1. /\ UNCHANGED <<ref, free, table, trie>>
      /\ UNCHANGED <<memVars, seqVars, loopVars, devVars, pc, turn>>
  BY DEF vars, memVars
<1>2. Owned'
  BY <1>1, OwnedUnchanged
<1>3. Frame'
  BY <1>1 DEF Frame, Shapes, QueueTyped, QueueShape, Control, Room, FullBlocks, Waiting, WithStatus,
       memVars, seqVars, loopVars, devVars
<1> QED
  BY <1>2, <1>3

\* The state keeps its shape, and the balance, for ever.
THEOREM Invariance == Spec => [](Frame /\ Owned)
<1>1. Init => Frame /\ Owned
  BY InitFrame, InitOwned, ConstantsAssumption
<1>2. Frame /\ Owned /\ [Next]_vars => (Frame /\ Owned)'
  BY NextFrame, NextOwned, StutterInv, ConstantsAssumption
<1> QED
  BY <1>1, <1>2, PTL DEF Spec

\* A block's reference count is the number of table slots and trie nodes that
\* name it, and it is free exactly when there are none, whatever the clients
\* do between two awaits of the engine loop.
THEOREM RefCountsExact == Spec => []RefCountExact
<1>1. Owned => RefCountExact
  BY DEF Owned
<1> QED
  BY <1>1, Invariance, PTL

\* Counters never go below zero, and two forwards at most are in flight.
THEOREM TypeCorrect == Spec => []TypeOK
<1>1. Frame /\ Owned => TypeOK
  <2> SUFFICES ASSUME Frame, Owned PROVE TypeOK
    OBVIOUS
  <2>1. ref \in [Blocks -> Nat]
    <3>1. ref \in [Blocks -> Int] /\ \A b \in Blocks : ref[b] \in Nat
      BY OwnedBalanced, OwnedIsPositive
    <3> QED
      BY <3>1
  <2>2. Len(queue) <= 2
    <3>1. queue \in Seq(ForwardSet)
      BY DEF Frame, QueueTyped
    <3>2. CASE pc \in {"sent", "next", "prefetch"}
      <4>1. Len(queue) = 1
        BY <3>2 DEF Frame, QueueShape
      <4> QED
        BY <4>1
    <3>3. CASE pc \notin {"sent", "next", "prefetch"}
      BY <3>1, <3>3 DEF Frame, QueueShape
    <3> QED
      BY <3>2, <3>3
  <2>3. \A i \in DOMAIN queue : IsForward(queue[i])
    BY ForwardRows DEF IsForward, Frame, QueueTyped
  <2> QED
    BY <2>1, <2>2, <2>3 DEF TypeOK, Frame
<1> QED
  BY <1>1, Invariance, PTL

---------------------------------------------------------------------------
(* The engine implements the service. *)

Phase == [s \in Seqs |-> PhaseOf(s)]

\* A step that changes no text and no phase is a stutter of the service.
LEMMA ServiceStutter ==
    ASSUME UNCHANGED ids, \A s \in Seqs : PhaseOf(s)' = PhaseOf(s)
    PROVE  UNCHANGED Service!vars
  BY DEF Service!vars

\* A status keeps its phase while it moves among those of an active request.
LEMMA ActivePhase ==
    ASSUME NEW s, status[s] \in {"WAITING", "READY", "RUNNING"},
           status'[s] \in {"WAITING", "READY", "RUNNING"}
    PROVE  PhaseOf(s)' = PhaseOf(s)
  BY DEF PhaseOf

LEMMA AddMessageImplements ==
    ASSUME Frame, NEW s \in Seqs, NEW prompt \in Prompts, AddMessage(s, prompt)
    PROVE  Service!Submit(s, prompt)
<1>1. status[s] = "none" /\ status' = [status EXCEPT ![s] = "WAITING"] /\ ids' = [ids EXCEPT ![s] = prompt]
  BY DEF AddMessage
<1>2. Phase[s] = "idle" /\ Phase' = [Phase EXCEPT ![s] = "active"]
  BY <1>1 DEF Phase, PhaseOf, Frame, Shapes
<1> QED
  BY <1>1, <1>2 DEF Service!Submit, Phase

LEMMA StopSessionImplements ==
    ASSUME Frame, NEW s \in Seqs, StopSession(s)
    PROVE  Service!Cancel(s)
<1>1. status[s] \notin {"none", "STOPPED"} /\ status' = [status EXCEPT ![s] = "STOPPED"] /\ ids' = ids
  BY DEF StopSession
<1>2. Phase[s] = "active" /\ Phase' = [Phase EXCEPT ![s] = "over"]
  BY <1>1 DEF Phase, PhaseOf, Frame, Shapes
<1> QED
  BY <1>1, <1>2 DEF Service!Cancel, Phase

LEMMA EndSessionImplements ==
    ASSUME Frame, NEW s \in Seqs, EndSession(s)
    PROVE  Service!Close(s)
<1>1. status[s] # "none" /\ status' = [status EXCEPT ![s] = "none"] /\ ids' = [ids EXCEPT ![s] = <<>>]
  BY DEF EndSession
<1>2. Phase[s] # "idle" /\ Phase' = [Phase EXCEPT ![s] = "idle"]
  BY <1>1 DEF Phase, PhaseOf, Frame, Shapes
<1> QED
  BY <1>1, <1>2 DEF Service!Close, Phase

\* The rows whose sequences still run are delivered, each with its token.
LEMMA CollectImplements ==
    ASSUME Frame, NEW tok \in Sampled, NEW stop \in SUBSET Rows1, CollectOutput(tok, stop)
    PROVE  Service!Next
<1> DEFINE toks == [s \in Applied |-> tok[s]]
           ends == stop \cap Applied
           finished == [s \in Seqs |-> IF s \in Applied /\ s \in stop THEN "STOPPED" ELSE status[s]]
<1>1. /\ ids' = [s \in Seqs |-> IF s \in Applied THEN Append(ids[s], tok[s]) ELSE ids[s]]
      /\ status' = Preempted(finished)
  BY DEF CollectOutput
<1>2. Applied \subseteq Rows1 /\ Applied \subseteq Seqs /\ \A s \in Applied : status[s] = "RUNNING"
  BY DEF Applied, WithStatus
<1>3. Applied \in SUBSET Service!ActiveRequests
  BY <1>2 DEF Service!ActiveRequests, PhaseOf
<1>4. toks \in [Applied -> Tokens] /\ ends \in SUBSET Applied
  BY <1>2 DEF Sampled
<1>5. ids' = [s \in Seqs |-> IF s \in Applied THEN Append(ids[s], toks[s]) ELSE ids[s]]
  BY <1>1
<1>6. Phase' = [s \in Seqs |-> IF s \in Applied /\ s \in ends THEN "over" ELSE Phase[s]]
  <2>1. ASSUME NEW s \in Seqs
        PROVE  PhaseOf(s)' = IF s \in Applied /\ s \in ends THEN "over" ELSE PhaseOf(s)
    <3>1. status[s] \in Statuses
      BY DEF Frame, Shapes
    <3>2. CASE s \in Applied /\ s \in stop
      <4>1. status'[s] = "STOPPED"
        BY <1>1, <3>2 DEF Preempted
      <4> QED
        BY <3>2, <4>1 DEF PhaseOf
    <3>3. CASE ~(s \in Applied /\ s \in stop)
      <4>1. finished[s] = status[s]
        BY <3>3
      <4>2. \/ status'[s] = status[s]
            \/ status'[s] = "WAITING" /\ status[s] \in {"RUNNING", "READY", "WAITING"}
        BY <1>1, <4>1 DEF Preempted
      <4>3. PhaseOf(s)' = PhaseOf(s)
        BY <3>1, <4>2 DEF PhaseOf
      <4> QED
        BY <3>3, <4>3
    <3> QED
      BY <3>2, <3>3
  <2> QED
    BY <2>1 DEF Phase
<1>7. Service!Deliver(Applied, toks, ends)
  BY <1>3, <1>5, <1>6 DEF Service!Deliver, Phase
<1> QED
  BY <1>3, <1>4, <1>7 DEF Service!Next

\* Scheduling, paging and dispatch show nothing to the client.
LEMMA EngineImplements ==
    ASSUME Frame, Engine
    PROVE  Service!Next \/ UNCHANGED Service!vars
<1>1. ASSUME UNCHANGED <<ids, status>> PROVE UNCHANGED Service!vars
  BY <1>1, ServiceStutter DEF PhaseOf
<1>2. ASSUME NEW s \in Seqs, NEW st \in {"WAITING", "READY"}, ids' = ids,
             status[s] \in {"WAITING", "RUNNING"}, status' = [status EXCEPT ![s] = st]
      PROVE  UNCHANGED Service!vars
  <2>1. ASSUME NEW t \in Seqs PROVE PhaseOf(t)' = PhaseOf(t)
    <3>1. CASE t = s
      BY <1>2, <3>1, ActivePhase DEF Frame, Shapes
    <3>2. CASE t # s
      BY <1>2, <3>2 DEF PhaseOf, Frame, Shapes
    <3> QED
      BY <3>1, <3>2
  <2> QED
    BY <1>2, <2>1, ServiceStutter
<1>3. CASE Prefill
  <2>1. CASE BeginPrefill \/ EndPick \/ MatchBlock \/ EndMatch \/ GateRejects \/ GateAdmits
              \/ NoRoomPrefill \/ BuildPrefill \/ FallBackToDecode
    BY <1>1, <2>1 DEF BeginPrefill, EndPick, MatchBlock, EndMatch, GateRejects, GateAdmits,
         NoRoomPrefill, BuildPrefill, FallBackToDecode, seqVars
  <2>2. CASE AcceptPrefill
    <3>1. turn.cand \in Seqs /\ status[turn.cand] = "WAITING"
      BY <2>2 DEF AcceptPrefill, Frame, Control, Candidate
    <3>2. status' = [status EXCEPT ![turn.cand] = "READY"] /\ ids' = ids
      BY <2>2 DEF AcceptPrefill
    <3> QED
      BY <1>2, <3>1, <3>2
  <2>3. ASSUME NEW s \in Seqs, PickCandidate(s) PROVE UNCHANGED Service!vars
    BY <1>1, <2>3 DEF PickCandidate, seqVars
  <2> QED
    BY <1>3, <2>1, <2>2, <2>3 DEF Prefill
<1>4. CASE Capacity
  <2>1. CASE CapacityFound \/ NothingToReclaim \/ EvictEnough \/ EvictNextVictim
    BY <1>1, <2>1 DEF CapacityFound, NothingToReclaim, EvictEnough, EvictNextVictim, seqVars
  <2>2. ASSUME NEW v \in Seqs, Reclaim(v) PROVE UNCHANGED Service!vars
    BY <1>1, <2>2 DEF Reclaim
  <2>3. ASSUME NEW p \in leaves, EvictLeaf(p) PROVE UNCHANGED Service!vars
    BY <1>1, <2>3 DEF EvictLeaf, seqVars
  <2> QED
    BY <1>4, <2>1, <2>2, <2>3 DEF Capacity
<1>5. CASE Publish
  <2>1. CASE BeginPublish \/ PublishNew \/ PublishShared \/ EndPublish
    BY <1>1, <2>1 DEF BeginPublish, PublishNew, PublishShared, EndPublish, seqVars
  <2>2. ASSUME NEW b \in Blocks, AllocateBlock(b) PROVE UNCHANGED Service!vars
    BY <1>1, <2>2 DEF AllocateBlock, seqVars
  <2> QED
    BY <1>5, <2>1, <2>2 DEF Publish
<1>6. CASE Decode
  <2>1. CASE BeginDecode \/ AcceptDecode \/ BuildDecode
    BY <1>1, <2>1 DEF BeginDecode, AcceptDecode, BuildDecode, seqVars
  <2>2. CASE NoRoomDecode
    <3>1. turn.cand \in Seqs /\ status[turn.cand] = "RUNNING"
      BY <2>2 DEF NoRoomDecode, Frame, Control, Candidate
    <3>2. status' = [status EXCEPT ![turn.cand] = "WAITING"] /\ ids' = ids
      BY <2>2 DEF NoRoomDecode
    <3> QED
      BY <1>2, <3>1, <3>2
  <2>3. ASSUME NEW s \in Seqs, DecodeDrop(s) \/ DecodeKeep(s) \/ DecodeGrow(s)
        PROVE  UNCHANGED Service!vars
    BY <1>1, <2>3 DEF DecodeDrop, DecodeKeep, DecodeGrow, seqVars
  <2> QED
    BY <1>6, <2>1, <2>2, <2>3 DEF Decode
<1>7. CASE Loop
  <2>1. CASE Activate
    <3>1. ids' = ids
      BY <2>1 DEF Activate
    <3>2. ASSUME NEW s \in Seqs PROVE PhaseOf(s)' = PhaseOf(s)
      <4>1. status'[s] = status[s] \/ (status[s] = "READY" /\ status'[s] = "RUNNING")
        BY <2>1 DEF Activate
      <4> QED
        BY <4>1, ActivePhase DEF PhaseOf
    <3> QED
      BY <3>1, <3>2, ServiceStutter
  <2>2. ASSUME NEW tok \in Sampled, NEW stop \in SUBSET Rows1, CollectOutput(tok, stop)
        PROVE  Service!Next
    BY <2>2, CollectImplements
  <2> QED
    BY <1>7, <2>1, <2>2 DEF Loop
<1> QED
  BY <1>3, <1>4, <1>5, <1>6, <1>7 DEF Engine

\* Every behaviour of the engine is a behaviour of the service: whatever is
\* shared, evicted, preempted, recomputed, stopped or in flight, a client sees
\* its prompt, one token at a time while the request is active, and nothing
\* after it is over.
THEOREM Refinement == Spec => ServiceSpec
<1>1. Init => Service!Init
  BY DEF Init, Service!Init, PhaseOf
<1>2. Frame /\ [Next]_vars => [Service!Next]_(Service!vars)
  <2> SUFFICES ASSUME Frame, [Next]_vars
               PROVE  Service!Next \/ UNCHANGED Service!vars
    OBVIOUS
  <2>1. CASE Client
    <3>1. ASSUME NEW s \in Seqs, NEW prompt \in Prompts, AddMessage(s, prompt) PROVE Service!Next
      BY <3>1, AddMessageImplements DEF Service!Next
    <3>2. ASSUME NEW s \in Seqs, StopSession(s) PROVE Service!Next
      BY <3>2, StopSessionImplements DEF Service!Next
    <3>3. ASSUME NEW s \in Seqs, EndSession(s) PROVE Service!Next
      BY <3>3, EndSessionImplements DEF Service!Next
    <3> QED
      BY <2>1, <3>1, <3>2, <3>3 DEF Client
  <2>2. CASE Engine
    BY <2>2, EngineImplements
  <2>3. CASE UNCHANGED vars
    BY <2>3, ServiceStutter DEF vars, seqVars, PhaseOf
  <2> QED
    BY <2>1, <2>2, <2>3 DEF Next
<1> QED
  BY <1>1, <1>2, Invariance, PTL DEF Spec, ServiceSpec, Service!Spec

---------------------------------------------------------------------------
(* Prefixes of a text that are whole blocks. *)

\* Fewer blocks fit where more do.
LEMMA BlocksMono ==
    ASSUME NEW k \in Nat, NEW m \in Nat, NEW B \in Nat \ {0}, k <= m
    PROVE  k * B \in Nat /\ k * B <= m * B
<1>1. k * B \in Nat /\ m * B \in Nat
  OBVIOUS
<1>2. (m - k) * B >= 0
  BY Z3
<1>3. (m - k) * B = m * B - k * B
  BY Z3
<1> QED
  BY <1>1, <1>2, <1>3

\* A prefix that lies within the text is a sequence of tokens of its length.
LEMMA PrefixTyped ==
    ASSUME ConstantsAssumption, Shapes, NEW s \in Seqs, NEW k \in Nat,
           k * BlockSize <= Len(ids[s])
    PROVE  /\ Prefix(s, k) \in Seq(Tokens)
           /\ Len(Prefix(s, k)) = k * BlockSize
           /\ k * BlockSize \in Nat
           /\ k # 0 => Prefix(s, k) # <<>>
<1> DEFINE n == k * BlockSize
<1>1. n \in Nat /\ n <= Len(ids[s]) /\ ids[s] \in Seq(Tokens)
  BY DEF ConstantsAssumption, Shapes
<1>2. k # 0 => n # 0
  BY Z3 DEF ConstantsAssumption
<1> HIDE DEF n
<1>3. SubSeq(ids[s], 1, n) \in Seq(Tokens) /\ Len(SubSeq(ids[s], 1, n)) = n
  <2>1. \A i \in 1..n : ids[s][i] \in Tokens
    BY <1>1
  <2> QED
    BY <1>1, <2>1, SubSeqProperties
<1> QED
  BY <1>1, <1>2, <1>3 DEF Prefix, n

\* Prefix(s, k - 1) is the parent of Prefix(s, k).
LEMMA PrefixParent ==
    ASSUME ConstantsAssumption, Shapes, NEW s \in Seqs, NEW k \in Nat,
           (k + 1) * BlockSize <= Len(ids[s])
    PROVE  /\ Len(Prefix(s, k + 1)) = Len(Prefix(s, k)) + BlockSize
           /\ SubSeq(Prefix(s, k + 1), 1, Len(Prefix(s, k))) = Prefix(s, k)
<1> DEFINE n == k * BlockSize
           m == (k + 1) * BlockSize
<1>1. m = n + BlockSize /\ n \in Nat /\ m \in Nat /\ BlockSize \in Nat
  BY Z3 DEF ConstantsAssumption
<1>2. m <= Len(ids[s]) /\ ids[s] \in Seq(Tokens)
  BY DEF Shapes
<1>3. Prefix(s, k) = SubSeq(ids[s], 1, n) /\ Prefix(s, k + 1) = SubSeq(ids[s], 1, m)
  BY DEF Prefix
<1> HIDE DEF n, m
<1>4. Len(SubSeq(ids[s], 1, n)) = n /\ Len(SubSeq(ids[s], 1, m)) = m
  BY <1>1, <1>2
<1>5. SubSeq(SubSeq(ids[s], 1, m), 1, n) = SubSeq(ids[s], 1, n)
  BY <1>1, <1>2
<1> QED
  BY <1>1, <1>3, <1>4, <1>5

\* A text that grows keeps its prefixes.
LEMMA PrefixKept ==
    ASSUME ConstantsAssumption, Shapes, NEW s \in Seqs, NEW k \in Nat,
           k * BlockSize <= Len(ids[s]), NEW x, ids'[s] = Append(ids[s], x)
    PROVE  Prefix(s, k)' = Prefix(s, k)
<1> DEFINE n == k * BlockSize
<1>1. n \in Nat /\ n <= Len(ids[s]) /\ ids[s] \in Seq(Tokens)
  BY DEF ConstantsAssumption, Shapes
<1>2. Prefix(s, k) = SubSeq(ids[s], 1, n) /\ Prefix(s, k)' = SubSeq(ids'[s], 1, n)
  BY DEF Prefix
<1> HIDE DEF n
<1>3. SubSeq(Append(ids[s], x), 1, n) = SubSeq(ids[s], 1, n)
  BY <1>1
<1> QED
  BY <1>2, <1>3

\* The root is the empty text.
LEMMA RootPrefix ==
    ASSUME ConstantsAssumption, Shapes, NEW s \in Seqs
    PROVE  Prefix(s, 0) = <<>>
<1>1. 0 * BlockSize = 0
  BY DEF ConstantsAssumption
<1>2. SubSeq(ids[s], 1, 0) = <<>>
  BY DEF Shapes
<1> QED
  BY <1>1, <1>2 DEF Prefix

---------------------------------------------------------------------------
(* Cursors stay within their texts. *)

\* Dropping a sequence's blocks takes its cursor back to the root.
LEMMA ReleaseRooted ==
    ASSUME ConstantsAssumption, Shapes, Rooted, NEW v \in Seqs, ReleasePaging(v),
           UNCHANGED <<ids, status>>
    PROVE  Rooted'
<1>1. \A s \in Seqs : cursor'[s] = cursor[s] \/ cursor'[s] = 0
  BY DEF ReleasePaging, Shapes
<1>2. 0 * BlockSize = 0 /\ \A s \in Seqs : Len(ids[s]) >= 0
  BY DEF ConstantsAssumption, Shapes
<1>3. trie' = trie /\ \A s \in Seqs : ids'[s] = ids[s] /\ status'[s] = status[s]
  BY DEF ReleasePaging
<1>4. ASSUME NEW s \in Seqs
      PROVE  cursor'[s] * BlockSize <= Len(ids'[s]) /\ (status'[s] = "none" => cursor'[s] = 0)
  BY <1>1, <1>2, <1>3 DEF Rooted
<1> QED
  BY <1>3, <1>4 DEF Rooted

LEMMA ClientRooted ==
    ASSUME ConstantsAssumption, Shapes, Rooted, Client
    PROVE  Rooted'
<1>0. 0 * BlockSize = 0
  BY DEF ConstantsAssumption
<1>1. ASSUME NEW s \in Seqs, NEW prompt \in Prompts, AddMessage(s, prompt)
      PROVE  Rooted'
  <2>1. /\ trie' = trie /\ cursor' = cursor
        /\ ids' = [ids EXCEPT ![s] = prompt] /\ status[s] = "none"
        /\ status' = [status EXCEPT ![s] = "WAITING"]
    BY <1>1 DEF AddMessage, memVars
  <2>2. cursor[s] = 0 /\ Len(prompt) >= 0
    BY <2>1 DEF Rooted, ConstantsAssumption
  <2> QED
    BY <1>0, <2>1, <2>2 DEF Rooted, Shapes
<1>2. ASSUME NEW s \in Seqs, StopSession(s)
      PROVE  Rooted'
  BY <1>2 DEF StopSession, Rooted, memVars, Shapes
<1>3. ASSUME NEW s \in Seqs, EndSession(s)
      PROVE  Rooted'
  <2>1. /\ trie' = trie /\ cursor' = [cursor EXCEPT ![s] = 0]
        /\ ids' = [ids EXCEPT ![s] = <<>>]
        /\ status' = [status EXCEPT ![s] = "none"]
    BY <1>3 DEF EndSession, ReleasePaging
  <2> QED
    BY <1>0, <2>1 DEF Rooted, Shapes
<1> QED
  BY <1>1, <1>2, <1>3 DEF Client

\* The paths that publication enters or stands on.
LEMMA PublishedBlock ==
    ASSUME ConstantsAssumption, Shapes, Room, NEW s \in Seqs, s = turn.cand,
           pc = "publish", ToPublish(s)
    PROVE  /\ cursor[s] \in Nat
           /\ cursor[s] + 1 \in 1..Len(table[s])
           /\ (cursor[s] + 1) * BlockSize <= Len(ids[s])
<1> DEFINE n == Len(ids[s])
           q == n \div BlockSize
<1>1. cursor[s] \in Nat /\ Depth(s) = cursor[s]
  BY DEF Room, Depth, Detached
<1>2. n \in Nat /\ BlockSize \in Nat \ {0} /\ FullBlocks(s) = q
  BY DEF Shapes, ConstantsAssumption, FullBlocks
<1> HIDE DEF n
<1>3. q \in Nat
  BY <1>2, DivNat
<1> HIDE DEF q
<1>4. cursor[s] + 1 \in Nat /\ cursor[s] + 1 <= q
  BY <1>1, <1>2, <1>3 DEF ToPublish
<1>5. (cursor[s] + 1) * BlockSize \in 0..n
  BY <1>2, <1>4, FullBlocksFit DEF q
<1> QED
  BY <1>1, <1>2, <1>5, PublishedPath DEF n

LEMMA EngineRooted ==
    ASSUME ConstantsAssumption, Frame, Rooted, Engine
    PROVE  Rooted'
<1>a. Shapes /\ Control /\ Room
  BY DEF Frame
<1>0. 0 * BlockSize = 0 /\ \A s \in Seqs : Len(ids[s]) \in Nat
  BY <1>a DEF ConstantsAssumption, Shapes
<1>1. ASSUME UNCHANGED <<trie, cursor, ids>>,
             \A s \in Seqs : status'[s] = "none" => status[s] = "none"
      PROVE  Rooted'
  BY <1>1 DEF Rooted
<1>2. CASE Prefill
  <2>1. CASE BeginPrefill \/ EndPick \/ EndMatch \/ GateAdmits \/ BuildPrefill \/ FallBackToDecode
    BY <1>1, <2>1 DEF BeginPrefill, EndPick, EndMatch, GateAdmits, BuildPrefill, FallBackToDecode,
         memVars, seqVars
  <2>2. ASSUME NEW s \in Seqs, PickCandidate(s) PROVE Rooted'
    BY <1>1, <2>2 DEF PickCandidate, memVars, seqVars
  <2>3. CASE AcceptPrefill
    BY <1>1, <1>a, <2>3 DEF AcceptPrefill, memVars, Shapes
  <2>4. CASE MatchBlock
    <3>1. /\ turn.cand \in Seqs /\ status[turn.cand] = "WAITING"
      BY <1>a, <2>4 DEF MatchBlock, Control, Candidate
    <3>2. /\ cursor' = [cursor EXCEPT ![turn.cand] = cursor[turn.cand] + 1]
          /\ UNCHANGED <<trie, ids, status>>
          /\ (cursor[turn.cand] + 1) * BlockSize < Len(ids[turn.cand])
      BY <2>4 DEF MatchBlock, CanMatch
    <3>3. cursor[turn.cand] \in Int /\ BlockSize \in Nat
      BY <1>a, <3>1 DEF Shapes, Detached, ConstantsAssumption
    <3>4. (cursor[turn.cand] + 1) * BlockSize <= Len(ids[turn.cand])
      BY <1>0, <3>1, <3>2, <3>3
    <3> QED
      BY <1>a, <3>1, <3>2, <3>4 DEF Rooted, Shapes
  <2>5. CASE GateRejects \/ NoRoomPrefill
    <3>1. turn.cand \in Seqs /\ UNCHANGED <<ids, status>> /\ Rollback(turn.cand)
      BY <1>a, <2>5 DEF GateRejects, NoRoomPrefill, Control, Candidate
    <3> QED
      BY <1>1, <1>a, <3>1, ReleaseRooted DEF Rollback, memVars
  <2> QED
    BY <1>2, <2>1, <2>2, <2>3, <2>4, <2>5 DEF Prefill
<1>3. CASE Capacity
  <2>1. CASE CapacityFound \/ NothingToReclaim \/ EvictEnough \/ EvictNextVictim
    BY <1>1, <2>1 DEF CapacityFound, NothingToReclaim, EvictEnough, EvictNextVictim, memVars, seqVars
  <2>2. ASSUME NEW v \in Seqs, Reclaim(v) PROVE Rooted'
    BY <1>a, <2>2, ReleaseRooted DEF Reclaim
  <2>3. ASSUME NEW p \in leaves, EvictLeaf(p) PROVE Rooted'
    <3>1. /\ p \in DOMAIN trie /\ UNCHANGED <<ids, status>>
          /\ DOMAIN trie' \subseteq DOMAIN trie
          /\ cursor' = [s \in Seqs |-> IF cursor[s] # Detached /\ Prefix(s, cursor[s]) = p
                                         THEN Detached ELSE cursor[s]]
      BY <2>3 DEF EvictLeaf, EvictionCandidates, seqVars
    <3>2. Detached * BlockSize <= 0
      BY DEF Detached, ConstantsAssumption
    <3>3. ASSUME NEW s \in Seqs
          PROVE  /\ cursor'[s] * BlockSize <= Len(ids[s])
                 /\ status[s] = "none" => cursor'[s] = 0
      <4>0. cursor'[s] = IF cursor[s] # Detached /\ Prefix(s, cursor[s]) = p
                            THEN Detached ELSE cursor[s]
        BY <3>1
      <4>1. CASE cursor'[s] = cursor[s]
        BY <4>1 DEF Rooted
      <4>2. CASE cursor'[s] # cursor[s]
        <5>1. cursor'[s] = Detached /\ Prefix(s, cursor[s]) = p
          BY <4>0, <4>2
        <5>2. cursor[s] # 0
          BY <1>a, <3>1, <5>1, RootPrefix DEF Rooted
        <5>3. Detached * BlockSize <= Len(ids[s])
          BY <1>0, <3>2 DEF Detached, ConstantsAssumption
        <5> QED
          BY <5>1, <5>2, <5>3 DEF Rooted
      <4> QED
        BY <4>1, <4>2
    <3> QED
      BY <3>1, <3>3 DEF Rooted
  <2> QED
    BY <1>3, <2>1, <2>2, <2>3 DEF Capacity
<1>4. CASE Publish
  <2>1. CASE EndPublish
    BY <1>1, <2>1 DEF EndPublish, seqVars
  <2>2. ASSUME NEW b \in Blocks, AllocateBlock(b) PROVE Rooted'
    BY <1>1, <2>2 DEF AllocateBlock, seqVars
  <2>3. CASE BeginPublish
    <3>1. /\ turn.cand \in Seqs /\ UNCHANGED <<trie, ids, status>>
          /\ cursor' = [cursor EXCEPT ![turn.cand] = Depth(turn.cand)]
      BY <1>a, <2>3 DEF BeginPublish, Control, Candidate, seqVars
    <3>2. Depth(turn.cand) = cursor[turn.cand] \/ Depth(turn.cand) = 0
      BY DEF Depth
    <3>3. \A s \in Seqs : cursor'[s] = cursor[s] \/ cursor'[s] = 0
      BY <1>a, <3>1, <3>2 DEF Shapes
    <3> QED
      BY <1>0, <3>1, <3>3 DEF Rooted
  <2>4. CASE PublishNew \/ PublishShared
    <3>0. /\ pc = "publish" /\ ToPublish(turn.cand) /\ UNCHANGED <<ids, status>>
          /\ cursor' = [cursor EXCEPT ![turn.cand] = cursor[turn.cand] + 1]
          /\ DOMAIN trie' \subseteq DOMAIN trie \cup {Prefix(turn.cand, cursor[turn.cand] + 1)}
      BY <2>4 DEF PublishNew, PublishShared, seqVars
    <3>1. /\ turn.cand \in Seqs /\ status[turn.cand] # "none"
      BY <1>a, <3>0 DEF Control, Candidate
    <3>2. /\ cursor[turn.cand] \in Nat
          /\ (cursor[turn.cand] + 1) * BlockSize <= Len(ids[turn.cand])
      BY <1>a, <3>0, <3>1, PublishedBlock
    <3>3. Prefix(turn.cand, cursor[turn.cand] + 1) # <<>>
      BY <1>a, <3>1, <3>2, PrefixTyped
    <3> QED
      BY <1>a, <3>0, <3>1, <3>2, <3>3 DEF Rooted, Shapes
  <2> QED
    BY <1>4, <2>1, <2>2, <2>3, <2>4 DEF Publish
<1>5. CASE Decode
  <2>1. CASE BeginDecode \/ AcceptDecode \/ BuildDecode
    BY <1>1, <2>1 DEF BeginDecode, AcceptDecode, BuildDecode, memVars, seqVars
  <2>2. ASSUME NEW s \in Seqs, DecodeDrop(s) \/ DecodeKeep(s) \/ DecodeGrow(s) PROVE Rooted'
    BY <1>1, <2>2 DEF DecodeDrop, DecodeKeep, DecodeGrow, memVars, seqVars
  <2>3. CASE NoRoomDecode
    BY <1>1, <1>a, <2>3 DEF NoRoomDecode, memVars, Shapes
  <2> QED
    BY <1>5, <2>1, <2>2, <2>3 DEF Decode
<1>6. CASE Loop
  <2>1. CASE Activate
    BY <1>1, <2>1 DEF Activate, memVars
  <2>2. ASSUME NEW tok \in Sampled, NEW stop \in SUBSET Rows1, CollectOutput(tok, stop)
        PROVE  Rooted'
    <3>1. UNCHANGED <<trie, cursor>> /\ Applied \subseteq Seqs
      BY <2>2 DEF CollectOutput, memVars, Applied, WithStatus
    <3>2. \A s \in Seqs : status'[s] = "none" => status[s] = "none"
      BY <2>2 DEF CollectOutput, Preempted
    <3>3. ids' = [s \in Seqs |-> IF s \in Applied THEN Append(ids[s], tok[s]) ELSE ids[s]]
      BY <2>2 DEF CollectOutput
    <3>4. \A s \in Seqs : Len(ids'[s]) >= Len(ids[s]) /\ Len(ids'[s]) \in Nat
      BY <1>a, <3>3 DEF Shapes
    <3>5. ASSUME NEW s \in Seqs
          PROVE  cursor[s] * BlockSize <= Len(ids'[s])
      <4>1. cursor[s] \in Int /\ BlockSize \in Int
        BY <1>a DEF Shapes, Detached, ConstantsAssumption
      <4>2. cursor[s] * BlockSize \in Int /\ cursor[s] * BlockSize <= Len(ids[s])
        BY <4>1 DEF Rooted
      <4> QED
        BY <1>0, <3>4, <4>2
    <3> QED
      BY <3>1, <3>2, <3>5 DEF Rooted
  <2> QED
    BY <1>6, <2>1, <2>2 DEF Loop
<1> QED
  BY <1>2, <1>3, <1>4, <1>5, <1>6 DEF Engine

---------------------------------------------------------------------------
(* The index of the leaves. *)

\* A node that is a leaf after an eviction was one before, or has lost its
\* last child.
LEMMA EvictIndexed ==
    ASSUME ConstantsAssumption, Shapes, Rooted, Indexed, NEW p, EvictLeaf(p)
    PROVE  Indexed'
<1>1. /\ pc = "evict" /\ p \in DOMAIN trie
      /\ trie' = [q \in DOMAIN trie \ {p} |-> trie[q]]
      /\ leaves' = ({q \in leaves \cap DOMAIN trie : Childless(q)} \ {p}) \cup NewLeaves(p)
  BY DEF EvictLeaf, EvictionCandidates
<1>2. DOMAIN trie' = DOMAIN trie \ {p}
  BY <1>1
<1>3. SUFFICES ASSUME NEW q \in DOMAIN trie', Childless(q)'
               PROVE  q \in leaves'
  BY DEF Indexed
<1>4. Children(q) \subseteq {p}
  <2>1. Children(q)' = {r \in DOMAIN trie' : Len(r) = Len(q) + BlockSize /\ SubSeq(r, 1, Len(q)) = q}
    BY DEF Children
  <2> QED
    BY <1>2, <1>3, <2>1 DEF Children, Childless
<1>5. q \in DOMAIN trie /\ q # p /\ q # <<>>
  BY <1>2 DEF Rooted
<1>6. CASE Children(q) = {}
  <2>1. q \in leaves
    BY <1>1, <1>5, <1>6 DEF Indexed, Childless
  <2> QED
    BY <1>1, <1>5, <1>6, <2>1 DEF Childless
<1>7. CASE Children(q) = {p}
  <2>1. Len(p) = Len(q) + BlockSize /\ SubSeq(p, 1, Len(q)) = q
    BY <1>7 DEF Children
  <2>2. Len(q) \in Nat /\ BlockSize \in Nat
    BY <1>5, LenProperties DEF Shapes, ConstantsAssumption
  <2>3. Len(p) - BlockSize = Len(q)
    BY <2>1, <2>2
  <2>4. Parent(p) = q
    BY <2>1, <2>3 DEF Parent
  <2>5. q \in NewLeaves(p)
    BY <1>5, <1>7, <2>4 DEF NewLeaves
  <2> QED
    BY <1>1, <2>5
<1> QED
  BY <1>4, <1>6, <1>7

\* Publication leaves a childless node out of the index only while it stands
\* on it: the node below gains a child first.
LEMMA PublishIndexed ==
    ASSUME ConstantsAssumption, Frame, Indexed, PublishNew \/ PublishShared
    PROVE  Indexed'
<1> DEFINE s == turn.cand
           k == cursor[s] + 1
           new == Prefix(s, k)
           old == Prefix(s, cursor[s])
<1>a. Shapes /\ Control /\ Room
  BY DEF Frame
<1>1. /\ pc = "publish" /\ pc' = pc /\ ToPublish(s) /\ UNCHANGED <<ids, turn, leaves>>
      /\ cursor' = [cursor EXCEPT ![s] = k]
      /\ DOMAIN trie' = DOMAIN trie \cup {new}
  BY DEF PublishNew, PublishShared, seqVars
<1>2. s \in Seqs
  BY <1>a, <1>1 DEF Control, Candidate
<1>3. cursor[s] \in Nat /\ k * BlockSize <= Len(ids[s])
  BY <1>a, <1>1, <1>2, PublishedBlock
<1>4. Len(new) = Len(old) + BlockSize /\ SubSeq(new, 1, Len(old)) = old
  BY <1>a, <1>2, <1>3, PrefixParent
<1>5. cursor'[s] = k /\ turn'.cand = s
  BY <1>a, <1>1, <1>2 DEF Shapes
<1>6. Prefix(turn.cand, cursor[turn.cand])' = new
  BY <1>1, <1>5 DEF Prefix
<1>7. SUFFICES ASSUME NEW q \in DOMAIN trie', Childless(q)', q # new
               PROVE  q \in leaves'
  BY <1>1, <1>6 DEF Indexed
<1>8. Children(q)' = {r \in DOMAIN trie' : Len(r) = Len(q) + BlockSize /\ SubSeq(r, 1, Len(q)) = q}
  BY DEF Children
<1> HIDE DEF new, old, s, k
<1>9. q # old
  BY <1>1, <1>4, <1>7, <1>8 DEF Childless
<1>10. q \in DOMAIN trie /\ Childless(q)
  BY <1>1, <1>7, <1>8 DEF Childless, Children
<1> QED
  BY <1>1, <1>9, <1>10 DEF Indexed, old, s

LEMMA NextIndexed ==
    ASSUME ConstantsAssumption, Frame, Rooted, Indexed, Next
    PROVE  Indexed'
<1>a. Shapes /\ Control /\ Room
  BY DEF Frame
<1>0. ASSUME UNCHANGED trie, \A q : Childless(q) /\ q \in leaves => q \in leaves', pc # "publish"
      PROVE  Indexed'
  BY <1>0 DEF Indexed, Childless, Children
<1>1. ASSUME UNCHANGED <<trie, leaves>>, pc # "publish"
      PROVE  Indexed'
  BY <1>0, <1>1
<1>2. CASE Client
  BY <1>1, <1>2 DEF Client, AddMessage, StopSession, EndSession, ReleasePaging, Await, memVars
<1>3. CASE Prefill
  <2>1. CASE BeginPrefill \/ EndPick \/ MatchBlock \/ EndMatch \/ GateAdmits \/ AcceptPrefill
    BY <1>1, <2>1 DEF BeginPrefill, EndPick, MatchBlock, EndMatch, GateAdmits, AcceptPrefill, memVars
  <2>2. CASE BuildPrefill \/ FallBackToDecode \/ \E s \in Seqs : PickCandidate(s)
    BY <1>1, <2>2 DEF BuildPrefill, FallBackToDecode, PickCandidate, memVars
  <2>3. CASE GateRejects \/ NoRoomPrefill
    BY <1>1, <2>3 DEF GateRejects, NoRoomPrefill, Rollback, ReleasePaging, memVars
  <2> QED
    BY <1>3, <2>1, <2>2, <2>3 DEF Prefill
<1>4. CASE Capacity
  <2>1. CASE CapacityFound \/ NothingToReclaim \/ EvictEnough \/ EvictNextVictim
    BY <1>1, <2>1 DEF CapacityFound, NothingToReclaim, EvictEnough, EvictNextVictim, memVars
  <2>2. ASSUME NEW v \in Seqs, Reclaim(v) PROVE Indexed'
    BY <1>1, <2>2 DEF Reclaim, ReleasePaging
  <2> QED
    BY <1>4, <1>a, <2>1, <2>2, EvictIndexed DEF Capacity
<1>5. CASE Publish
  <2>1. ASSUME NEW b \in Blocks, AllocateBlock(b) PROVE Indexed'
    BY <1>1, <2>1 DEF AllocateBlock
  <2>2. CASE BeginPublish
    <3> DEFINE s == turn.cand
               node == Prefix(s, Depth(s))
    <3>1. /\ pc = "alloc" /\ UNCHANGED <<trie, ids, turn>>
          /\ cursor' = [cursor EXCEPT ![s] = Depth(s)]
          /\ leaves' = leaves \/ (leaves' = leaves \ {node} /\ pc' = "publish")
      BY <2>2 DEF BeginPublish, seqVars
    <3>2. s \in Seqs
      BY <1>a, <3>1 DEF Control, Candidate
    <3>3. Prefix(turn.cand, cursor[turn.cand])' = node
      BY <1>a, <3>1, <3>2 DEF Prefix, Shapes
    <3> HIDE DEF node, s
    <3> QED
      BY <3>1, <3>3 DEF Indexed, Childless, Children
  <2>3. CASE EndPublish
    <3> DEFINE node == Prefix(turn.cand, cursor[turn.cand])
    <3>1. UNCHANGED trie /\ leaves' = IF Childless(node) THEN leaves \cup {node} ELSE leaves
      BY <2>3 DEF EndPublish
    <3>2. \A q : Childless(q)' = Childless(q)
      BY <3>1 DEF Childless, Children
    <3>3. \A q \in DOMAIN trie : Childless(q) => q \in leaves \/ q = node
      BY DEF Indexed
    <3> HIDE DEF node
    <3>4. \A q \in DOMAIN trie : Childless(q) => q \in leaves'
      BY <3>1, <3>3
    <3> QED
      BY <3>1, <3>2, <3>4 DEF Indexed
  <2> QED
    BY <1>5, <2>1, <2>2, <2>3, PublishIndexed DEF Publish
<1>6. CASE Decode
  BY <1>1, <1>6 DEF Decode, BeginDecode, NoRoomDecode, AcceptDecode, BuildDecode, DecodeDrop,
       DecodeKeep, DecodeGrow, memVars
<1>7. CASE Loop
  BY <1>1, <1>7 DEF Loop, Activate, CollectOutput, memVars
<1> QED
  BY <1>2, <1>3, <1>4, <1>5, <1>6, <1>7 DEF Next, Engine

\* Stuttering, for the invariants of the trie.
LEMMA StutterTrie ==
    ASSUME UNCHANGED vars
    PROVE  /\ Rooted => Rooted'
           /\ Indexed => Indexed'
<1>1. UNCHANGED <<trie, leaves, cursor, table, ids, status, pc, turn>>
  BY DEF vars, memVars, seqVars
<1>2. Rooted => Rooted'
  BY <1>1 DEF Rooted
<1>3. Indexed => Indexed'
  BY <1>1 DEF Indexed, Childless, Children, Prefix
<1> QED
  BY <1>2, <1>3

\* Every node without children is a candidate for eviction, in every behaviour
\* of the engine: no block the trie holds is out of eviction's reach.
THEOREM LeavesFound == Spec => [](Rooted /\ Indexed)
<1>1. Init => Rooted /\ Indexed
  <2>1. Init => 0 * BlockSize = 0
    BY ConstantsAssumption DEF ConstantsAssumption
  <2> QED
    BY <2>1 DEF Init, Rooted, Indexed
<1>2. Frame /\ Rooted /\ Indexed /\ [Next]_vars => (Rooted /\ Indexed)'
  <2>1. ASSUME Frame, Rooted, Indexed, Next PROVE Rooted' /\ Indexed'
    BY <2>1, ClientRooted, EngineRooted, NextIndexed, ConstantsAssumption DEF Next, Frame
  <2> QED
    BY <2>1, StutterTrie
<1> QED
  BY <1>1, <1>2, Invariance, PTL DEF Spec

---------------------------------------------------------------------------
(* A table follows the trie down to its sequence's cursor. *)

\* CursorHeld for one sequence.
Follows(s) == /\ cursor[s] \in 0..Len(table[s])
              /\ \A k \in 1..cursor[s] : /\ Prefix(s, k) \in DOMAIN trie
                                         /\ trie[Prefix(s, k)] = table[s][k]

LEMMA HeldByAll == CursorHeld <=> \A s \in Seqs : Follows(s)
  BY DEF CursorHeld, Follows

\* What a sequence follows stays when its table grows, its text grows and the
\* trie keeps the nodes.
LEMMA FollowsOn ==
    ASSUME ConstantsAssumption, Shapes, Rooted, NEW s \in Seqs, Follows(s),
           cursor'[s] = cursor[s], Len(table'[s]) \in Nat,
           Len(table[s]) <= Len(table'[s]),
           \A k \in 1..cursor[s] : table'[s][k] = table[s][k],
           ids'[s] = ids[s] \/ (\E x : ids'[s] = Append(ids[s], x)),
           \A k \in 1..cursor[s] : /\ Prefix(s, k) \in DOMAIN trie'
                                   /\ trie'[Prefix(s, k)] = trie[Prefix(s, k)]
    PROVE  Follows(s)'
<1>1. cursor[s] \in Nat /\ BlockSize \in Nat \ {0} /\ Len(ids[s]) \in Nat
  BY DEF Follows, Shapes, ConstantsAssumption
<1>2. ASSUME NEW k \in 1..cursor[s]
      PROVE  Prefix(s, k)' = Prefix(s, k)
  <2>1. k \in Nat /\ k <= cursor[s]
    BY <1>1
  <2>2. k * BlockSize \in Nat /\ k * BlockSize <= cursor[s] * BlockSize
    BY <1>1, <2>1, BlocksMono
  <2>3. cursor[s] * BlockSize <= Len(ids[s]) /\ cursor[s] * BlockSize \in Nat
    BY <1>1, BlocksMono DEF Rooted
  <2>4. k * BlockSize <= Len(ids[s])
    BY <1>1, <2>2, <2>3
  <2>5. CASE ids'[s] = ids[s]
    BY <2>5 DEF Prefix
  <2> QED
    BY <2>1, <2>4, <2>5, PrefixKept
<1>3. cursor'[s] \in 0..Len(table'[s])
  BY <1>1 DEF Follows, Shapes
<1>4. \A k \in 1..cursor'[s] : Prefix(s, k)' \in DOMAIN trie' /\ trie'[Prefix(s, k)'] = table'[s][k]
  BY <1>2 DEF Follows
<1> QED
  BY <1>3, <1>4 DEF Follows

\* At the root there is nothing to follow.
LEMMA FollowsRoot ==
    ASSUME NEW s \in Seqs, cursor'[s] = 0, Len(table'[s]) \in Nat
    PROVE  Follows(s)'
  BY DEF Follows

LEMMA ReleaseFollows ==
    ASSUME ConstantsAssumption, Shapes, Rooted, CursorHeld, NEW v \in Seqs, ReleasePaging(v),
           \A s \in Seqs \ {v} : ids'[s] = ids[s]
    PROVE  CursorHeld'
<1>1. /\ trie' = trie /\ table'[v] = <<>> /\ cursor'[v] = 0
      /\ \A s \in Seqs \ {v} : table'[s] = table[s] /\ cursor'[s] = cursor[s]
  BY ReleaseShapes DEF ReleasePaging, Shapes
<1>2. ASSUME NEW s \in Seqs PROVE Follows(s)'
  <2>1. CASE s = v
    <3>1. Len(table'[s]) = 0
      BY <1>1, <2>1
    <3> QED
      BY <1>1, <2>1, <3>1, FollowsRoot
  <2>2. CASE s # v
    <3>1. Follows(s) /\ Len(table[s]) \in Nat
      BY HeldByAll DEF Shapes
    <3>2. \A k \in 1..cursor[s] : Prefix(s, k) \in DOMAIN trie'
      BY <1>1, <3>1 DEF Follows
    <3> QED
      BY <1>1, <2>2, <3>1, <3>2, FollowsOn
  <2> QED
    BY <2>1, <2>2
<1> QED
  BY <1>2 DEF CursorHeld, Follows

\* A step that leaves the trie and the cursors alone, and at most appends to
\* tables and texts.
LEMMA CursorsUntouched ==
    ASSUME ConstantsAssumption, Shapes, Rooted, CursorHeld, UNCHANGED <<trie, cursor>>,
           \A s \in Seqs : /\ Len(table'[s]) \in Nat /\ Len(table[s]) <= Len(table'[s])
                           /\ \A k \in 1..Len(table[s]) : table'[s][k] = table[s][k]
                           /\ ids'[s] = ids[s] \/ (\E x : ids'[s] = Append(ids[s], x))
    PROVE  CursorHeld'
<1>1. ASSUME NEW s \in Seqs PROVE Follows(s)'
  <2>1. Follows(s) /\ Len(table[s]) \in Nat
    BY HeldByAll DEF Shapes
  <2>2. \A k \in 1..cursor[s] : k \in 1..Len(table[s]) /\ Prefix(s, k) \in DOMAIN trie'
    BY <2>1 DEF Follows
  <2> QED
    BY <2>1, <2>2, FollowsOn
<1> QED
  BY <1>1 DEF CursorHeld, Follows

\* The candidate's table is taken one block further down the trie.
LEMMA StepsDown ==
    ASSUME ConstantsAssumption, Shapes, Rooted, CursorHeld, NEW s \in Seqs, NEW k \in Nat,
           k = cursor[s] + 1, k * BlockSize <= Len(ids[s]),
           cursor' = [cursor EXCEPT ![s] = k], ids' = ids,
           \A t \in Seqs \ {s} : table'[t] = table[t],
           k \in 1..Len(table'[s]),
           \A j \in 1..cursor[s] : table'[s][j] = table[s][j],
           \A p \in DOMAIN trie : p \in DOMAIN trie' /\ trie'[p] = trie[p],
           Prefix(s, k) \in DOMAIN trie', trie'[Prefix(s, k)] = table'[s][k]
    PROVE  CursorHeld'
<1>1. cursor'[s] = k /\ \A t \in Seqs \ {s} : cursor'[t] = cursor[t]
  BY DEF Shapes
<1>2. ASSUME NEW t \in Seqs, t # s PROVE Follows(t)'
  <2>1. Follows(t) /\ Len(table[t]) \in Nat
    BY HeldByAll DEF Shapes
  <2>2. \A j \in 1..cursor[t] : /\ Prefix(t, j) \in DOMAIN trie'
                                /\ trie'[Prefix(t, j)] = trie[Prefix(t, j)]
    BY <2>1 DEF Follows
  <2>3. table'[t] = table[t] /\ cursor'[t] = cursor[t] /\ ids'[t] = ids[t]
    BY <1>1, <1>2
  <2>4. /\ Len(table'[t]) \in Nat /\ Len(table[t]) <= Len(table'[t])
        /\ \A j \in 1..cursor[t] : table'[t][j] = table[t][j]
    BY <2>1, <2>3
  <2>5. ids'[t] = ids[t] \/ \E x : ids'[t] = Append(ids[t], x)
    BY <2>3
  <2> QED
    BY <2>1, <2>2, <2>3, <2>4, <2>5, FollowsOn
<1>3. Follows(s)'
  <2>1. Follows(s) /\ cursor[s] \in Nat
    BY HeldByAll DEF Follows
  <2>2. \A j \in 1..k : Prefix(s, j)' = Prefix(s, j)
    BY DEF Prefix
  <2>3. ASSUME NEW j \in 1..k
        PROVE  Prefix(s, j) \in DOMAIN trie' /\ trie'[Prefix(s, j)] = table'[s][j]
    <3>1. CASE j = k
      BY <3>1
    <3>2. CASE j # k
      <4>1. j \in 1..cursor[s]
        BY <2>1, <3>2
      <4> QED
        BY <2>1, <4>1 DEF Follows
    <3> QED
      BY <3>1, <3>2
  <2>4. cursor'[s] \in 0..Len(table'[s])
    BY <1>1
  <2> QED
    BY <1>1, <2>2, <2>3, <2>4 DEF Follows
<1> QED
  BY <1>2, <1>3 DEF CursorHeld, Follows

\* Nothing a sequence still follows is evicted: its table and the trie make two
\* owners of the block.
LEMMA EvictFollows ==
    ASSUME ConstantsAssumption, Shapes, Owned, Rooted, CursorHeld, NEW p, EvictLeaf(p)
    PROVE  CursorHeld'
<1>1. /\ p \in DOMAIN trie /\ ref[trie[p]] = 1
      /\ trie' = [q \in DOMAIN trie \ {p} |-> trie[q]] /\ UNCHANGED <<table, ids>>
      /\ cursor' = [s \in Seqs |-> IF cursor[s] # Detached /\ Prefix(s, cursor[s]) = p
                                     THEN Detached ELSE cursor[s]]
  BY DEF EvictLeaf, EvictionCandidates, seqVars
<1>2. ASSUME NEW s \in Seqs, NEW k \in 1..cursor[s] PROVE Prefix(s, k) # p
  <2>1. SUFFICES ASSUME Prefix(s, k) = p PROVE FALSE
    OBVIOUS
  <2>2. trie[p] = table[s][k] /\ cursor[s] \in 0..Len(table[s])
    BY <2>1 DEF CursorHeld
  <2>3. k \in DOMAIN table[s] /\ trie[p] \in Blocks
    BY <1>1, <2>2 DEF Shapes
  <2>4. <<s, k>> \in Slots(trie[p])
    BY <2>2, <2>3, SlotMember
  <2>5. p \in Nodes(trie[p])
    BY <1>1 DEF Nodes
  <2>6. /\ IsFiniteSet(Slots(trie[p])) /\ IsFiniteSet(Nodes(trie[p]))
        /\ ref[trie[p]] = Cardinality(Slots(trie[p])) + Cardinality(Nodes(trie[p]))
    BY <2>3 DEF Owned, RefCountExact
  <2>7. Cardinality(Slots(trie[p])) \in Nat /\ Cardinality(Slots(trie[p])) # 0
    BY <2>4, <2>6, FS_CardinalityType, FS_EmptySet
  <2>8. Cardinality(Nodes(trie[p])) \in Nat /\ Cardinality(Nodes(trie[p])) # 0
    BY <2>5, <2>6, FS_CardinalityType, FS_EmptySet
  <2> QED
    BY <1>1, <2>6, <2>7, <2>8
<1>3. ASSUME NEW s \in Seqs PROVE Follows(s)'
  <2>1. Follows(s) /\ Len(table[s]) \in Nat /\ cursor[s] \in Nat
    BY HeldByAll DEF Shapes, Follows
  <2>2. cursor[s] = 0 => Prefix(s, cursor[s]) # p
    BY <1>1, RootPrefix DEF Rooted
  <2>3. cursor[s] # 0 => Prefix(s, cursor[s]) # p
    BY <1>2, <2>1
  <2>4. cursor'[s] = cursor[s]
    BY <1>1, <2>2, <2>3
  <2>5. \A k \in 1..cursor[s] : /\ Prefix(s, k) \in DOMAIN trie'
                                /\ trie'[Prefix(s, k)] = trie[Prefix(s, k)]
    BY <1>1, <1>2, <2>1 DEF Follows
  <2>6. table'[s] = table[s] /\ ids'[s] = ids[s]
    BY <1>1
  <2> QED
    BY <2>1, <2>4, <2>5, <2>6, FollowsOn
<1> QED
  BY <1>3 DEF CursorHeld, Follows

LEMMA ClientFollows ==
    ASSUME ConstantsAssumption, Shapes, Rooted, CursorHeld, Client
    PROVE  CursorHeld'
<1>1. ASSUME NEW s \in Seqs, NEW prompt \in Prompts, AddMessage(s, prompt)
      PROVE  CursorHeld'
  <2>1. /\ UNCHANGED <<trie, cursor, table>> /\ status[s] = "none"
        /\ \A t \in Seqs \ {s} : ids'[t] = ids[t]
    BY <1>1 DEF AddMessage, memVars, Shapes
  <2>2. ASSUME NEW t \in Seqs PROVE Follows(t)'
    <3>1. Follows(t) /\ Len(table[t]) \in Nat
      BY HeldByAll DEF Shapes
    <3>2. CASE t = s
      BY <2>1, <3>1, <3>2, FollowsRoot DEF Rooted
    <3>3. CASE t # s
      <4>1. \A k \in 1..cursor[t] : Prefix(t, k) \in DOMAIN trie'
        BY <2>1, <3>1 DEF Follows
      <4> QED
        BY <2>1, <3>1, <3>3, <4>1, FollowsOn
    <3> QED
      BY <3>2, <3>3
  <2> QED
    BY <2>2 DEF CursorHeld, Follows
<1>2. ASSUME NEW s \in Seqs, StopSession(s) PROVE CursorHeld'
  BY <1>2 DEF StopSession, memVars, CursorHeld, Prefix
<1>3. ASSUME NEW s \in Seqs, EndSession(s) PROVE CursorHeld'
  <2>1. ReleasePaging(s) /\ \A t \in Seqs \ {s} : ids'[t] = ids[t]
    BY <1>3 DEF EndSession, Shapes
  <2> QED
    BY <2>1, ReleaseFollows
<1> QED
  BY <1>1, <1>2, <1>3 DEF Client

\* Where MatchAligned is needed: the shared block must land right behind the cursor.
LEMMA MatchFollows ==
    ASSUME ConstantsAssumption, Frame, Rooted, CursorHeld, MatchAligned, MatchBlock
    PROVE  CursorHeld'
<1> DEFINE s == turn.cand
           k == cursor[s] + 1
           b == trie[Prefix(s, k)]
<1>a. Shapes /\ Control
  BY DEF Frame
<1>1. /\ pc = "match" /\ CanMatch(s) /\ UNCHANGED <<ids, trie>>
      /\ table' = [table EXCEPT ![s] = Append(table[s], b)]
      /\ cursor' = [cursor EXCEPT ![s] = k]
  BY DEF MatchBlock, NextPath
<1>2. s \in Seqs
  BY <1>a, <1>1 DEF Control, Candidate
<1>3. /\ k * BlockSize < Len(ids[s]) /\ Prefix(s, k) \in DOMAIN trie
      /\ Len(table[s]) = cursor[s]
  BY <1>1 DEF CanMatch, NextPath, MatchAligned
<1>4. cursor[s] \in Nat /\ k \in Nat /\ table[s] \in Seq(Blocks) /\ b \in Blocks
  BY <1>a, <1>2, <1>3, SMTT(30) DEF Shapes, CursorHeld
<1>5. k * BlockSize <= Len(ids[s])
  BY <1>a, <1>2, <1>3, <1>4, BlocksMono, SMTT(30) DEF Shapes, ConstantsAssumption
<1>6. table'[s] = Append(table[s], b) /\ \A t \in Seqs \ {s} : table'[t] = table[t]
  BY <1>a, <1>1, <1>2 DEF Shapes
<1> HIDE DEF b
<1>7. /\ k \in 1..Len(table'[s]) /\ table'[s][k] = b
      /\ \A j \in 1..cursor[s] : table'[s][j] = table[s][j]
  BY <1>3, <1>4, <1>6
<1>8. trie'[Prefix(s, k)] = table'[s][k]
  BY <1>1, <1>7 DEF b
<1> HIDE DEF s, k
<1> QED
  BY <1>a, <1>1, <1>2, <1>3, <1>4, <1>5, <1>6, <1>7, <1>8, StepsDown DEF k

\* Publication: the cursor steps onto a node that names its table's block.
LEMMA PublishFollows ==
    ASSUME ConstantsAssumption, Frame, Rooted, CursorHeld, PublishNew \/ PublishShared
    PROVE  CursorHeld'
<1> DEFINE s == turn.cand
           k == cursor[s] + 1
<1>a. Shapes /\ Control /\ Room
  BY DEF Frame
<1>1. /\ pc = "publish" /\ ToPublish(s) /\ UNCHANGED ids
      /\ cursor' = [cursor EXCEPT ![s] = k]
  BY DEF PublishNew, PublishShared, seqVars
<1>2. s \in Seqs
  BY <1>a, <1>1 DEF Control, Candidate
<1>3. cursor[s] \in Nat /\ k \in 1..Len(table[s]) /\ k * BlockSize <= Len(ids[s])
  BY <1>a, <1>1, <1>2, PublishedBlock
<1>4. table[s] \in Seq(Blocks) /\ k \in Nat
  BY <1>a, <1>2, <1>3 DEF Shapes
<1>5. CASE PublishNew
  <2>1. /\ Prefix(s, k) \notin DOMAIN trie /\ UNCHANGED table
        /\ trie' = [q \in DOMAIN trie \cup {Prefix(s, k)} |->
                      IF q = Prefix(s, k) THEN table[s][k] ELSE trie[q]]
    BY <1>5 DEF PublishNew
  <2>2. \A p \in DOMAIN trie : p \in DOMAIN trie' /\ trie'[p] = trie[p]
    BY <2>1
  <2>3. Prefix(s, k) \in DOMAIN trie' /\ trie'[Prefix(s, k)] = table'[s][k]
    BY <2>1
  <2> HIDE DEF s, k
  <2> QED
    BY <1>a, <1>1, <1>2, <1>3, <1>4, <2>1, <2>2, <2>3, StepsDown DEF k
<1>6. CASE PublishShared
  <2>1. UNCHANGED trie /\ Prefix(s, k) \in DOMAIN trie
    BY <1>6 DEF PublishShared
  <2>2. \/ UNCHANGED table /\ table[s][k] = trie[Prefix(s, k)]
        \/ table' = [table EXCEPT ![s] = [table[s] EXCEPT ![k] = trie[Prefix(s, k)]]]
    BY <1>6 DEF PublishShared
  <2>3. /\ \A t \in Seqs \ {s} : table'[t] = table[t]
        /\ table'[s] = [table[s] EXCEPT ![k] = trie[Prefix(s, k)]] \/ UNCHANGED table
    BY <1>a, <1>2, <2>2 DEF Shapes
  <2>4. trie[Prefix(s, k)] \in Blocks
    BY <1>a, <2>1 DEF Shapes
  <2>5. /\ k \in 1..Len(table'[s]) /\ table'[s][k] = trie[Prefix(s, k)]
        /\ \A j \in 1..cursor[s] : table'[s][j] = table[s][j]
    <3>1. CASE UNCHANGED table /\ table[s][k] = trie[Prefix(s, k)]
      BY <1>3, <3>1
    <3>2. CASE table' = [table EXCEPT ![s] = [table[s] EXCEPT ![k] = trie[Prefix(s, k)]]]
      <4>1. table'[s] = [table[s] EXCEPT ![k] = trie[Prefix(s, k)]]
        BY <1>a, <1>2, <3>2 DEF Shapes
      <4> HIDE DEF s, k
      <4>2. k \in DOMAIN table[s] /\ Len(table'[s]) = Len(table[s])
        BY <1>3, <1>4, <2>4, <4>1
      <4>3. table'[s][k] = trie[Prefix(s, k)]
        BY <4>1, <4>2
      <4>4. \A j \in 1..cursor[s] : j \in DOMAIN table[s] /\ j # k
        BY <1>3, <1>4 DEF k
      <4>5. \A j \in 1..cursor[s] : table'[s][j] = table[s][j]
        BY <4>1, <4>4
      <4> QED
        BY <1>3, <4>2, <4>3, <4>5
    <3> QED
      BY <2>2, <3>1, <3>2
  <2>6. /\ \A p \in DOMAIN trie : p \in DOMAIN trie' /\ trie'[p] = trie[p]
        /\ Prefix(s, k) \in DOMAIN trie' /\ trie'[Prefix(s, k)] = table'[s][k]
    BY <2>1, <2>5
  <2> HIDE DEF s, k
  <2> QED
    BY <1>a, <1>1, <1>2, <1>3, <1>4, <2>3, <2>5, <2>6, StepsDown DEF k
<1> QED
  BY <1>5, <1>6

LEMMA EngineFollows ==
    ASSUME ConstantsAssumption, Frame, Owned, Rooted, CursorHeld, MatchAligned, Engine
    PROVE  CursorHeld'
<1>a. Shapes /\ Control
  BY DEF Frame
<1>0. \A s \in Seqs : table[s] \in Seq(Blocks) /\ Len(table[s]) \in Nat
  BY <1>a DEF Shapes
<1>1. ASSUME UNCHANGED <<trie, cursor, table, ids>>
      PROVE  CursorHeld'
  BY <1>1 DEF CursorHeld, Prefix
<1>2. CASE Prefill
  <2>1. CASE BeginPrefill \/ EndPick \/ EndMatch \/ GateAdmits \/ AcceptPrefill \/ BuildPrefill
    BY <1>1, <2>1 DEF BeginPrefill, EndPick, EndMatch, GateAdmits, AcceptPrefill, BuildPrefill,
         memVars, seqVars
  <2>2. CASE FallBackToDecode \/ \E s \in Seqs : PickCandidate(s)
    BY <1>1, <2>2 DEF FallBackToDecode, PickCandidate, memVars, seqVars
  <2>3. CASE GateRejects \/ NoRoomPrefill
    <3>1. turn.cand \in Seqs /\ UNCHANGED ids /\ Rollback(turn.cand)
      BY <1>a, <2>3 DEF GateRejects, NoRoomPrefill, Control, Candidate
    <3> QED
      BY <1>1, <1>a, <3>1, ReleaseFollows DEF Rollback, memVars
  <2> QED
    BY <1>2, <2>1, <2>2, <2>3, MatchFollows DEF Prefill
<1>3. CASE Capacity
  <2>1. CASE CapacityFound \/ NothingToReclaim \/ EvictEnough \/ EvictNextVictim
    BY <1>1, <2>1 DEF CapacityFound, NothingToReclaim, EvictEnough, EvictNextVictim, memVars, seqVars
  <2>2. ASSUME NEW v \in Seqs, Reclaim(v) PROVE CursorHeld'
    BY <1>a, <2>2, ReleaseFollows DEF Reclaim
  <2> QED
    BY <1>3, <1>a, <2>1, <2>2, EvictFollows DEF Capacity
<1>4. CASE Publish
  <2>1. ASSUME NEW b \in Blocks, AllocateBlock(b) PROVE CursorHeld'
    <3>1. /\ UNCHANGED <<trie, cursor, ids>> /\ pc = "alloc"
          /\ table' = [table EXCEPT ![turn.cand] = Append(table[turn.cand], b)]
      BY <2>1 DEF AllocateBlock, seqVars
    <3>2. \A s \in Seqs : table'[s] = table[s] \/ table'[s] = Append(table[s], b)
      BY <1>a, <3>1 DEF Shapes
    <3>3. ASSUME NEW s \in Seqs
          PROVE  /\ Len(table'[s]) \in Nat /\ Len(table[s]) <= Len(table'[s])
                 /\ \A k \in 1..Len(table[s]) : table'[s][k] = table[s][k]
      BY <1>0, <3>2, <2>1
    <3> QED
      BY <1>a, <3>1, <3>3, CursorsUntouched
  <2>2. CASE BeginPublish
    <3>1. /\ UNCHANGED <<trie, table, ids>>
          /\ cursor' = [cursor EXCEPT ![turn.cand] = Depth(turn.cand)]
      BY <2>2 DEF BeginPublish, seqVars
    <3>2. turn.cand \in Seqs
      BY <1>a, <2>2 DEF BeginPublish, Control, Candidate
    <3>3. Depth(turn.cand) = cursor[turn.cand]
      BY <3>2 DEF Depth, Detached, CursorHeld
    <3>4. cursor' = cursor
      BY <1>a, <3>1, <3>3 DEF Shapes
    <3> QED
      BY <1>1, <3>1, <3>4
  <2>3. CASE EndPublish
    BY <1>1, <2>3 DEF EndPublish, seqVars
  <2> QED
    BY <1>4, <2>1, <2>2, <2>3, PublishFollows DEF Publish
<1>5. CASE Decode
  BY <1>1, <1>5 DEF Decode, BeginDecode, NoRoomDecode, AcceptDecode, BuildDecode, DecodeDrop,
       DecodeKeep, DecodeGrow, memVars, seqVars
<1>6. CASE Loop
  <2>1. CASE Activate
    BY <1>1, <2>1 DEF Activate, memVars
  <2>2. ASSUME NEW tok \in Sampled, NEW stop \in SUBSET Rows1, CollectOutput(tok, stop)
        PROVE  CursorHeld'
    <3>1. /\ UNCHANGED <<trie, cursor, table>>
          /\ ids' = [s \in Seqs |-> IF s \in Applied THEN Append(ids[s], tok[s]) ELSE ids[s]]
      BY <2>2 DEF CollectOutput, memVars
    <3>2. \A s \in Seqs : ids'[s] = ids[s] \/ \E x : ids'[s] = Append(ids[s], x)
      BY <3>1
    <3>3. \A s \in Seqs : /\ Len(table'[s]) \in Nat /\ Len(table[s]) <= Len(table'[s])
                         /\ \A k \in 1..Len(table[s]) : table'[s][k] = table[s][k]
      BY <1>0, <3>1
    <3> QED
      BY <1>a, <3>1, <3>2, <3>3, CursorsUntouched
  <2> QED
    BY <1>6, <2>1, <2>2 DEF Loop
<1> QED
  BY <1>2, <1>3, <1>4, <1>5, <1>6 DEF Engine

\* In a behaviour in which every match lands right behind the table's end,
\* the trie, the tables and the leaf index stay one structure.
THEOREM TrieHolds == Spec /\ []MatchAligned => []TrieSound
<1>1. Init => CursorHeld
  BY DEF Init, CursorHeld
<1>2. Frame /\ Owned /\ Rooted /\ CursorHeld /\ MatchAligned /\ [Next]_vars => CursorHeld'
  <2>1. ASSUME Frame, Owned, Rooted, CursorHeld, MatchAligned, Next PROVE CursorHeld'
    BY <2>1, ClientFollows, EngineFollows, ConstantsAssumption DEF Next, Frame
  <2>2. ASSUME CursorHeld, UNCHANGED vars PROVE CursorHeld'
    BY <2>2 DEF vars, memVars, seqVars, CursorHeld, Prefix
  <2> QED
    BY <2>1, <2>2
<1>3. CursorHeld /\ Indexed => TrieSound
  BY DEF TrieSound, LeavesIndexed, Indexed
<1> QED
  BY <1>1, <1>2, <1>3, Invariance, LeavesFound, PTL DEF Spec

=============================================================================
