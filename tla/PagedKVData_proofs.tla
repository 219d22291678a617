------------------------- MODULE PagedKVData_proofs -------------------------
(***************************************************************************)
(* Proofs, for every value of the constants, that a token is computed from *)
(* the KV of exactly its sequence's text, and that the blocks the prefix   *)
(* trie keeps hold the text of their nodes, in every behaviour in which a  *)
(* match lands right behind the end of the table it extends.               *)
(***************************************************************************)
EXTENDS PagedKVFlow_proofs

---------------------------------------------------------------------------
(* Positions, cells and texts. *)

LEMMA DivMod ==
    ASSUME NEW p \in Nat, NEW B \in Nat \ {0}
    PROVE  /\ p \div B \in Nat /\ p % B \in 0..(B - 1)
           /\ p = B * (p \div B) + (p % B)
  BY Z3

\* The block and the offset of a position, and back.
LEMMA PositionOf ==
    ASSUME NEW p \in Nat, NEW B \in Nat \ {0}
    PROVE  /\ p \div B + 1 \in Nat \ {0}
           /\ p + 1 <= (p \div B + 1) * B
           /\ p = (p \div B + 1) * B - B + (p % B)
<1> DEFINE d == p \div B
           r == p % B
<1>1. d \in Nat /\ r \in 0..(B - 1) /\ p = B * d + r
  BY DivMod
<1> HIDE DEF d, r
<1>2. (d + 1) * B = B * d + B
  BY <1>1, Z3
<1>3. B * d \in Nat
  BY <1>1
<1> QED
  BY <1>1, <1>2, <1>3 DEF d, r

LEMMA SamePosition ==
    ASSUME NEW p \in Nat, NEW q \in Nat, NEW B \in Nat \ {0},
           p \div B = q \div B, p % B = q % B
    PROVE  p = q
  BY DivMod

\* Cell o of the k-th block.
LEMMA CellPosition ==
    ASSUME NEW B \in Nat \ {0}, NEW k \in Nat \ {0}, NEW o \in 0..(B - 1)
    PROVE  /\ k * B - B + o \in Nat
           /\ (k * B - B + o) \div B + 1 = k
           /\ (k * B - B + o) % B = o
<1> DEFINE p == k * B - B + o
           d == p \div B
           r == p % B
<1>1. k * B - B = (k - 1) * B /\ (k - 1) * B \in Nat /\ k - 1 \in Nat
  <2>1. k - 1 \in Nat
    OBVIOUS
  <2>2. (k - 1) * B \in Nat
    BY <2>1
  <2>3. k * B - B = (k - 1) * B
    BY Z3
  <2> QED
    BY <2>1, <2>2, <2>3
<1>2. p \in Nat /\ p = B * (k - 1) + o
  BY <1>1, Z3
<1>3. d \in Nat /\ r \in 0..(B - 1) /\ p = B * d + r
  BY <1>2, DivMod
<1> HIDE DEF p, d, r
<1>4. d = k - 1
  <2>1. B * d + r = B * (k - 1) + o
    BY <1>2, <1>3
  <2>2. CASE d <= k - 2
    <3>1. B * (d + 1) <= B * (k - 1)
      BY <1>1, <1>3, <2>2, TimesMono
    <3>2. B * (d + 1) = B * d + B
      BY <1>3, Z3
    <3>3. B * d \in Nat /\ B * (k - 1) \in Nat
      BY <1>1, <1>3
    <3> QED
      BY <1>3, <2>1, <3>1, <3>2, <3>3
  <2>3. CASE d >= k
    <3>1. B * k <= B * d
      BY <1>3, <2>3, TimesMono
    <3>2. B * k = B * (k - 1) + B
      BY <1>1, Z3
    <3>3. B * d \in Nat /\ B * (k - 1) \in Nat
      BY <1>1, <1>3
    <3> QED
      BY <1>3, <2>1, <3>1, <3>2, <3>3
  <2> QED
    BY <1>1, <1>3, <2>2, <2>3
<1>5. r = o
  BY <1>1, <1>2, <1>3, <1>4
<1> QED
  BY <1>1, <1>2, <1>4, <1>5 DEF p, d, r

\* A position within n cells has a place among the blocks that hold them.
LEMMA PositionHeld ==
    ASSUME NEW p \in Nat, NEW B \in Nat \ {0}, NEW n \in Nat, p < B * n
    PROVE  p \div B < n
<1> DEFINE d == p \div B
           r == p % B
<1>1. d \in Nat /\ r \in 0..(B - 1) /\ p = B * d + r
  BY DivMod
<1> HIDE DEF d, r
<1>2. CASE n <= d
  <2>1. B * n <= B * d /\ B * d \in Nat
    BY <1>1, <1>2, TimesMono
  <2> QED
    BY <1>1, <2>1
<1> QED
  BY <1>1, <1>2 DEF d

LEMMA SubSeqOf ==
    ASSUME NEW S, NEW x \in Seq(S), NEW n \in Nat, n <= Len(x)
    PROVE  /\ SubSeq(x, 1, n) \in Seq(S) /\ Len(SubSeq(x, 1, n)) = n
           /\ \A i \in 1..n : SubSeq(x, 1, n)[i] = x[i]
<1>1. \A i \in 1..n : x[i] \in S
  OBVIOUS
<1> QED
  BY <1>1, SubSeqProperties

\* Texts that agree that far agree less far.
LEMMA AgreeLess ==
    ASSUME NEW S, NEW x \in Seq(S), NEW y \in Seq(S), NEW n \in Nat, NEW m \in Nat,
           m <= n, Agree(x, y, n)
    PROVE  SubSeq(x, 1, m) = SubSeq(y, 1, m) /\ Agree(x, y, m)
<1>1. n <= Len(x) /\ n <= Len(y) /\ SubSeq(x, 1, n) = SubSeq(y, 1, n)
  BY DEF Agree
<1>2. m <= Len(x) /\ m <= Len(y)
  BY <1>1
<1>3. \A i \in 1..n : x[i] = y[i]
  BY <1>1, SubSeqOf
<1>4. /\ SubSeq(x, 1, m) \in Seq(S) /\ Len(SubSeq(x, 1, m)) = m
      /\ SubSeq(y, 1, m) \in Seq(S) /\ Len(SubSeq(y, 1, m)) = m
      /\ \A i \in 1..m : SubSeq(x, 1, m)[i] = x[i] /\ SubSeq(y, 1, m)[i] = y[i]
  BY <1>2, SubSeqOf
<1>5. \A i \in 1..m : SubSeq(x, 1, m)[i] = SubSeq(y, 1, m)[i]
  BY <1>3, <1>4
<1>6. SubSeq(x, 1, m) = SubSeq(y, 1, m)
  BY <1>4, <1>5, SeqEqual
<1> QED
  BY <1>2, <1>6 DEF Agree

LEMMA AgreeWith ==
    ASSUME NEW S, NEW x \in Seq(S), NEW y \in Seq(S), NEW z \in Seq(S), NEW n \in Nat,
           Agree(x, y, n), Agree(z, y, n)
    PROVE  Agree(x, z, n)
  BY DEF Agree

\* The first n tokens of a text are a text that agrees with it.
LEMMA AgreeSelf ==
    ASSUME NEW S, NEW x \in Seq(S), NEW n \in Nat, n <= Len(x)
    PROVE  Agree(x, SubSeq(x, 1, n), n)
<1>1. SubSeq(x, 1, n) \in Seq(S) /\ Len(SubSeq(x, 1, n)) = n
  BY SubSeqOf
<1>2. SubSeq(SubSeq(x, 1, n), 1, n) = SubSeq(x, 1, n)
  <2>1. \A i \in 1..n : SubSeq(SubSeq(x, 1, n), 1, n)[i] = SubSeq(x, 1, n)[i]
    BY <1>1, SubSeqOf
  <2>2. SubSeq(SubSeq(x, 1, n), 1, n) \in Seq(S) /\ Len(SubSeq(SubSeq(x, 1, n), 1, n)) = n
    BY <1>1, SubSeqOf
  <2> QED
    BY <1>1, <2>1, <2>2, SeqEqual
<1> QED
  BY <1>1, <1>2 DEF Agree

\* A text keeps agreeing when a token is added to it.
LEMMA AgreeAppended ==
    ASSUME NEW S, NEW x \in Seq(S), NEW a \in S, NEW n \in Nat, n <= Len(x)
    PROVE  SubSeq(Append(x, a), 1, n) = SubSeq(x, 1, n) /\ Agree(Append(x, a), x, n)
<1>1. Append(x, a) \in Seq(S) /\ Len(Append(x, a)) = Len(x) + 1
      /\ \A i \in 1..Len(x) : Append(x, a)[i] = x[i]
  OBVIOUS
<1>2. /\ SubSeq(Append(x, a), 1, n) \in Seq(S) /\ Len(SubSeq(Append(x, a), 1, n)) = n
      /\ \A i \in 1..n : SubSeq(Append(x, a), 1, n)[i] = Append(x, a)[i]
  BY <1>1, SubSeqOf
<1>3. /\ SubSeq(x, 1, n) \in Seq(S) /\ Len(SubSeq(x, 1, n)) = n
      /\ \A i \in 1..n : SubSeq(x, 1, n)[i] = x[i]
  BY SubSeqOf
<1>4. \A i \in 1..n : SubSeq(Append(x, a), 1, n)[i] = SubSeq(x, 1, n)[i]
  BY <1>1, <1>2, <1>3
<1>5. SubSeq(Append(x, a), 1, n) = SubSeq(x, 1, n)
  BY <1>2, <1>3, <1>4, SeqEqual
<1> QED
  BY <1>1, <1>5 DEF Agree

---------------------------------------------------------------------------
(* The block of a position. *)

BlockNo(p) == p \div BlockSize + 1

LEMMA Place ==
    ASSUME ConstantsAssumption, NEW p \in Nat
    PROVE  /\ BlockNo(p) \in Nat \ {0} /\ BlockNo(p) * BlockSize \in Nat
           /\ p + 1 \in Nat /\ p + 1 <= BlockNo(p) * BlockSize
           /\ p % BlockSize \in 0..(BlockSize - 1)
           /\ p = BlockNo(p) * BlockSize - BlockSize + (p % BlockSize)
<1>0. BlockSize \in Nat \ {0}
  BY DEF ConstantsAssumption
<1>1. /\ BlockNo(p) \in Nat \ {0} /\ p + 1 <= BlockNo(p) * BlockSize
      /\ p = BlockNo(p) * BlockSize - BlockSize + (p % BlockSize)
  BY <1>0, PositionOf DEF BlockNo
<1>2. p % BlockSize \in 0..(BlockSize - 1)
  BY <1>0, DivMod
<1>3. BlockNo(p) * BlockSize \in Nat
  BY <1>0, <1>1
<1> QED
  BY <1>1, <1>2, <1>3

LEMMA PlaceHeld ==
    ASSUME ConstantsAssumption, NEW p \in Nat, NEW tbl \in Seq(Blocks)
    PROVE  /\ Holds(tbl, p) <=> BlockNo(p) \in DOMAIN tbl
           /\ BlockOf(tbl, p) = tbl[BlockNo(p)]
           /\ Holds(tbl, p) => BlockOf(tbl, p) \in Blocks
<1> DEFINE d == p \div BlockSize
<1>1. d \in Nat
  BY DivNat DEF ConstantsAssumption
<1> HIDE DEF d
<1>2. d < Len(tbl) <=> d + 1 \in DOMAIN tbl
  BY <1>1
<1>3. d + 1 \in DOMAIN tbl => tbl[d + 1] \in Blocks
  OBVIOUS
<1>4. BlockNo(p) = d + 1 /\ BlockOf(tbl, p) = tbl[d + 1] /\ (Holds(tbl, p) <=> d < Len(tbl))
  BY DEF BlockNo, BlockOf, Holds, d
<1> QED
  BY <1>2, <1>3, <1>4

LEMMA SamePlace ==
    ASSUME ConstantsAssumption, NEW p \in Nat, NEW q \in Nat,
           BlockNo(p) = BlockNo(q), p % BlockSize = q % BlockSize
    PROVE  p = q
<1>1. p \div BlockSize \in Nat /\ q \div BlockSize \in Nat
  BY DivNat DEF ConstantsAssumption
<1>2. p \div BlockSize = q \div BlockSize
  BY <1>1 DEF BlockNo
<1> QED
  BY <1>2, SamePosition DEF ConstantsAssumption

---------------------------------------------------------------------------
(* What the head of the queue writes. *)

LEMMA HeadTyped ==
    ASSUME Frame, queue # <<>>
    PROVE  /\ Head1 \in ForwardSet /\ Head1.kind \in {"prefill", "decode"} /\ 1 \in DOMAIN queue
           /\ \A s \in Rows1 : /\ s \in Seqs /\ RowText(Head1, s) \in Seq(Tokens)
                               /\ RowFirst(Head1, s) \in Int
                               /\ Head1.rows[s].tbl \in Seq(Blocks)
<1>1. queue \in Seq(ForwardSet) /\ Len(queue) # 0
  BY QueueFacts, EmptySeq
<1>2. Head1 \in ForwardSet /\ 1 \in DOMAIN queue
  BY <1>1 DEF Head1
<1>3. Head1.rows \in [Rows1 -> Row] /\ Rows1 \subseteq Seqs /\ Head1.kind \in {"prefill", "decode"}
  BY <1>2, ForwardRows DEF Rows1
<1>4. ASSUME NEW s \in Rows1
      PROVE  /\ s \in Seqs /\ RowText(Head1, s) \in Seq(Tokens) /\ RowFirst(Head1, s) \in Int
             /\ Head1.rows[s].tbl \in Seq(Blocks)
  <2>1. Head1.rows[s] \in Row /\ s \in Seqs /\ wtext[s] \in Seq(Tokens)
    BY <1>3 DEF Frame, Shapes
  <2>2. Len(wtext[s]) - 1 \in Int
    BY <2>1
  <2> QED
    BY <2>1, <2>2 DEF RowText, RowFirst, Row
<1> QED
  BY <1>2, <1>3, <1>4

LEMMA HeadFlight ==
    ASSUME Frame, queue # <<>>, NEW s \in Rows1
    PROVE  /\ FlightText(Head1, s) = RowText(Head1, s)
           /\ DeviceText(s) = RowText(Head1, s)
           /\ FlightFirst(1, s) = RowFirst(Head1, s)
<1>1. DeviceText(s) = RowText(Head1, s)
  BY DEF DeviceText
<1>2. Head1.kind \in {"prefill", "decode"} /\ Head1 = queue[1]
  BY HeadTyped DEF Head1
<1> QED
  BY <1>1, <1>2 DEF FlightText, FlightFirst, RowText, RowFirst

\* A cell all of whose writers agree on t holds t, or what it held before.
LEMMA AfterOne ==
    ASSUME NEW f, NEW b \in Blocks, NEW o \in 0..(BlockSize - 1), NEW t,
           Written(f, b, o) \subseteq {t}
    PROVE  KvAfter(f)[b][o] = IF Written(f, b, o) = {} THEN kv[b][o] ELSE t
<1> DEFINE W == Written(f, b, o)
<1>1. KvAfter(f)[b][o] = CASE W = {} -> kv[b][o]
                           [] Cardinality(W) = 1 -> CHOOSE x \in W : TRUE
                           [] OTHER -> <<>>
  BY DEF KvAfter
<1> HIDE DEF W
<1>2. CASE W = {}
  <2>1. Cardinality(W) # 1
    BY <1>2, FS_EmptySet
  <2>2. KvAfter(f)[b][o] = kv[b][o]
    BY <1>1, <1>2, <2>1
  <2> QED
    BY <1>2, <2>2 DEF W
<1>3. CASE W = {t}
  <2>1. Cardinality(W) = 1
    BY <1>3, FS_Singleton
  <2>2. (CHOOSE x \in W : TRUE) = t
    BY <1>3
  <2> QED
    BY <1>1, <1>3, <2>1, <2>2 DEF W
<1> QED
  BY <1>2, <1>3 DEF W

\* Two rows of the head that write one cell write the same text.
LEMMA WritersAgree ==
    ASSUME ConstantsAssumption, Frame, queue # <<>>, RowsAlike(Head1),
           NEW s \in Rows1, NEW p \in Nat, p < Len(RowText(Head1, s)),
           Holds(Head1.rows[s].tbl, p)
    PROVE  Written(Head1, BlockOf(Head1.rows[s].tbl, p), p % BlockSize)
             \subseteq {SubSeq(RowText(Head1, s), 1, p + 1)}
<1> DEFINE b == BlockOf(Head1.rows[s].tbl, p)
           o == p % BlockSize
           t == SubSeq(RowText(Head1, s), 1, p + 1)
<1>1. Head1.rows[s].tbl \in Seq(Blocks) /\ RowText(Head1, s) \in Seq(Tokens)
  BY HeadTyped
<1>2. BlockNo(p) \in DOMAIN Head1.rows[s].tbl /\ b = Head1.rows[s].tbl[BlockNo(p)]
  BY <1>1, PlaceHeld
<1>3. ASSUME NEW u \in Rows1, NEW q \in Fills(Head1, u, b, o)
      PROVE  SubSeq(RowText(Head1, u), 1, q + 1) = t
  <2>1. Head1.rows[u].tbl \in Seq(Blocks) /\ RowText(Head1, u) \in Seq(Tokens)
    BY HeadTyped
  <2>2. /\ q \in 0..(Len(RowText(Head1, u)) - 1) /\ q % BlockSize = o
        /\ Holds(Head1.rows[u].tbl, q) /\ BlockOf(Head1.rows[u].tbl, q) = b
    BY DEF Fills
  <2>3. q \in Nat
    BY <2>1, <2>2
  <2>4. BlockNo(q) \in DOMAIN Head1.rows[u].tbl /\ b = Head1.rows[u].tbl[BlockNo(q)]
    BY <2>1, <2>2, <2>3, PlaceHeld
  <2> HIDE DEF b
  <2>5. /\ BlockNo(p) = BlockNo(q)
        /\ s = u \/ Agree(FlightText(Head1, s), FlightText(Head1, u), BlockNo(q) * BlockSize)
    <3>1. Head1.rows[s].tbl[BlockNo(p)] = Head1.rows[u].tbl[BlockNo(q)]
      BY <1>2, <2>4
    <3>2. /\ s \in DOMAIN Head1.rows /\ u \in DOMAIN Head1.rows
          /\ BlockNo(p) \in DOMAIN Head1.rows[s].tbl /\ BlockNo(q) \in DOMAIN Head1.rows[u].tbl
      BY <1>2, <2>4 DEF Rows1
    <3>3. \A j \in DOMAIN Head1.rows[s].tbl, k \in DOMAIN Head1.rows[u].tbl :
            Head1.rows[s].tbl[j] = Head1.rows[u].tbl[k] =>
              j = k /\ (s = u \/ Agree(FlightText(Head1, s), FlightText(Head1, u), k * BlockSize))
      BY <3>2, Zenon DEF RowsAlike
    <3> QED
      BY <3>1, <3>2, <3>3, Zenon
  <2>6. p = q
    BY <2>2, <2>3, <2>5, SamePlace
  <2>7. CASE s = u
    BY <2>6, <2>7
  <2>8. CASE s # u
    <3>1. Agree(RowText(Head1, s), RowText(Head1, u), BlockNo(p) * BlockSize)
      BY <2>5, <2>8, HeadFlight
    <3>2. p + 1 \in Nat /\ BlockNo(p) * BlockSize \in Nat /\ p + 1 <= BlockNo(p) * BlockSize
      BY Place
    <3>3. t = SubSeq(RowText(Head1, u), 1, p + 1)
      BY <1>1, <2>1, <3>1, <3>2, AgreeLess
    <3> QED
      BY <2>6, <3>3
  <2> QED
    BY <2>7, <2>8
<1> HIDE DEF b, o, t
<1>4. ASSUME NEW x \in Written(Head1, b, o) PROVE x = t
  <2>1. PICK u \in Rows1 : x \in {SubSeq(RowText(Head1, u), 1, q + 1) : q \in Fills(Head1, u, b, o)}
    BY DEF Written, Rows1
  <2> QED
    BY <1>3, <2>1
<1> QED
  BY <1>4 DEF b, o, t

\* A row that writes a position of its own leaves a writer in the cell.
LEMMA WriterThere ==
    ASSUME Frame, queue # <<>>, NEW s \in Rows1, NEW p \in Nat,
           p < Len(RowText(Head1, s)), p >= RowFirst(Head1, s),
           Holds(Head1.rows[s].tbl, p)
    PROVE  Written(Head1, BlockOf(Head1.rows[s].tbl, p), p % BlockSize) # {}
<1>1. Len(RowText(Head1, s)) \in Nat
  BY HeadTyped
<1>2. p \in Fills(Head1, s, BlockOf(Head1.rows[s].tbl, p), p % BlockSize)
  BY <1>1 DEF Fills
<1> DEFINE F == Fills(Head1, s, BlockOf(Head1.rows[s].tbl, p), p % BlockSize)
<1>3. SubSeq(RowText(Head1, s), 1, p + 1) \in {SubSeq(RowText(Head1, s), 1, q + 1) : q \in F}
  BY <1>2
<1>4. {SubSeq(RowText(Head1, s), 1, q + 1) : q \in F}
        \subseteq Written(Head1, BlockOf(Head1.rows[s].tbl, p), p % BlockSize)
  BY DEF Written, Rows1
<1> QED
  BY <1>3, <1>4

\* Once the head has run, every position of every row's text has its KV in
\* the cell the row's block table names.
LEMMA RowsDone ==
    ASSUME ConstantsAssumption, Frame, RowsFit, RowsSound, queue # <<>>, NEW s \in Rows1
    PROVE  RowRight(Head1, s)
<1> DEFINE text == RowText(Head1, s)
           tbl  == Head1.rows[s].tbl
<1>0. BlockSize \in Nat \ {0}
  BY DEF ConstantsAssumption
<1>1. /\ text \in Seq(Tokens) /\ tbl \in Seq(Blocks) /\ 1 \in DOMAIN queue /\ RowFirst(Head1, s) \in Int
      /\ Head1.kind \in {"prefill", "decode"}
  BY HeadTyped
<1>2. RowsAlike(Head1) /\ RowsBacked(kv, 1)
  BY <1>1 DEF RowsSound, Head1
<1>3. Len(text) <= BlockSize * Len(tbl)
  BY <1>1 DEF RowsFit, RowText, Rows1, Head1
<1>4. ASSUME NEW p \in 0..(Len(text) - 1)
      PROVE  Holds(tbl, p) /\ KvAfter(Head1)[BlockOf(tbl, p)][p % BlockSize] = SubSeq(text, 1, p + 1)
  <2> DEFINE b == BlockOf(tbl, p)
             o == p % BlockSize
             t == SubSeq(text, 1, p + 1)
  <2>0. p \in Nat /\ p < Len(text) /\ Len(text) \in Nat /\ Len(tbl) \in Nat
    BY <1>1
  <2>1. p \in Nat /\ p < Len(text) /\ o \in 0..(BlockSize - 1) /\ Len(text) \in Nat /\ Len(tbl) \in Nat
    BY <2>0, Place
  <2>2. Holds(tbl, p)
    <3>1. p < BlockSize * Len(tbl)
      <4>1. BlockSize * Len(tbl) \in Nat
        BY <1>0, <2>1
      <4> QED
        BY <1>3, <2>1, <4>1
    <3> QED
      BY <1>0, <2>1, <3>1, PositionHeld DEF Holds
  <2>3. b \in Blocks
    BY <1>1, <2>1, <2>2, PlaceHeld
  <2>4. Written(Head1, b, o) \subseteq {t}
    BY <1>2, <2>1, <2>2, WritersAgree
  <2> HIDE DEF o, b, t
  <2>5. KvAfter(Head1)[b][o] = IF Written(Head1, b, o) = {} THEN kv[b][o] ELSE t
    BY <2>1, <2>3, <2>4, AfterOne
  <2> USE DEF o, b, t
  <2>6. Written(Head1, b, o) # {} \/ kv[b][o] = t
    <3>1. CASE p >= RowFirst(Head1, s)
      BY <2>1, <2>2, <3>1, WriterThere
    <3>2. CASE p < RowFirst(Head1, s)
      <4>1. p \in 0..(FlightFirst(1, s) - 1)
        BY <1>1, <2>1, <3>2, HeadFlight
      <4>2. \/ kv[b][o] = SubSeq(FlightText(Head1, s), 1, p + 1)
            \/ \E u \in Rows1 : /\ p \in FlightFills(1, u) /\ Holds(Head1.rows[u].tbl, p)
                                /\ BlockOf(Head1.rows[u].tbl, p) = b
        BY <1>2, <4>1 DEF RowsBacked, Head1, Rows1
      <4>3. CASE \E u \in Rows1 : /\ p \in FlightFills(1, u) /\ Holds(Head1.rows[u].tbl, p)
                                  /\ BlockOf(Head1.rows[u].tbl, p) = b
        <5>1. PICK u \in Rows1 : /\ p \in FlightFills(1, u) /\ Holds(Head1.rows[u].tbl, p)
                                 /\ BlockOf(Head1.rows[u].tbl, p) = b
          BY <4>3
        <5>2. p \in RowFirst(Head1, u)..(Len(RowText(Head1, u)) - 1)
          BY <5>1, HeadFlight DEF FlightFills, Head1
        <5>3. Len(RowText(Head1, u)) \in Nat /\ RowFirst(Head1, u) \in Int
          BY HeadTyped
        <5>4. p >= RowFirst(Head1, u) /\ p < Len(RowText(Head1, u))
          BY <2>1, <5>2, <5>3
        <5> QED
          BY <2>1, <5>1, <5>4, WriterThere
      <4> QED
        BY <4>2, <4>3, HeadFlight
    <3> QED
      BY <1>1, <2>1, <3>1, <3>2
  <2> QED
    BY <2>2, <2>5, <2>6
<1> QED
  BY <1>4 DEF RowRight

---------------------------------------------------------------------------
(* What the steps do to the memory and to the queue. *)

\* What is known of the cache and of the flow of forwards.
Core == Frame /\ Owned /\ Flow /\ Rooted /\ CursorHeld

\* A step of a pass that dispatches no forward.
PassStep == \/ Prefill /\ ~BuildPrefill
            \/ Capacity
            \/ Publish
            \/ Decode /\ (BuildDecode => turn.batch = {})

Dispatch == BuildPrefill \/ (BuildDecode /\ turn.batch # {})

\* The memory stays as it is, but for counts and the leaf index.
MemoryKept == UNCHANGED <<table, trie, cursor, hist>>

LEMMA StepKinds ==
    ASSUME Next
    PROVE  \/ Client \/ PassStep \/ Dispatch \/ Activate
           \/ \E tok \in Sampled, stop \in SUBSET Rows1 : CollectOutput(tok, stop)
  BY DEF Next, Engine, Loop, PassStep, Dispatch, Prefill, Decode

LEMMA PassMemory ==
    ASSUME ConstantsAssumption, Core, CursorHeld', PassStep
    PROVE  /\ UNCHANGED <<queue, kv, wtext, ids>>
           /\ \/ MemoryKept
              \/ \E v \in Seqs : ReleasePaging(v) /\ status[v] \in {"WAITING", "STOPPED"}
              \/ MatchBlock
              \/ \E p : EvictLeaf(p) /\ UNCHANGED cursor
              \/ \E b \in Blocks : AllocateBlock(b)
              \/ PublishNew
              \/ PublishShared
<1>a. Frame /\ Shapes /\ Control /\ CursorHeld
  BY DEF Core, Frame
<1>1. CASE Prefill /\ ~BuildPrefill
  <2>1. CASE BeginPrefill \/ EndPick \/ EndMatch \/ GateAdmits \/ AcceptPrefill
    BY <2>1 DEF BeginPrefill, EndPick, EndMatch, GateAdmits, AcceptPrefill, memVars, seqVars, loopVars,
         devVars, MemoryKept
  <2>2. CASE FallBackToDecode \/ \E s \in Seqs : PickCandidate(s)
    BY <2>2 DEF FallBackToDecode, PickCandidate, memVars, seqVars, loopVars, devVars, MemoryKept
  <2>3. CASE GateRejects \/ NoRoomPrefill
    <3>1. turn.cand \in Seqs /\ status[turn.cand] = "WAITING"
      BY <1>a, <2>3 DEF GateRejects, NoRoomPrefill, Control, Candidate
    <3>2. UNCHANGED <<queue, kv, wtext, ids>> /\ Rollback(turn.cand)
      BY <2>3 DEF GateRejects, NoRoomPrefill, loopVars, devVars
    <3> QED
      BY <3>1, <3>2 DEF Rollback, memVars, MemoryKept
  <2>4. CASE MatchBlock
    BY <2>4 DEF MatchBlock, loopVars, devVars
  <2> QED
    BY <1>1, <2>1, <2>2, <2>3, <2>4 DEF Prefill
<1>2. CASE Capacity
  <2>1. CASE CapacityFound \/ NothingToReclaim \/ EvictEnough \/ EvictNextVictim
    BY <2>1 DEF CapacityFound, NothingToReclaim, EvictEnough, EvictNextVictim, memVars, seqVars,
         loopVars, devVars, MemoryKept
  <2>2. ASSUME NEW v \in Seqs, Reclaim(v)
        PROVE  /\ UNCHANGED <<queue, kv, wtext, ids>>
               /\ ReleasePaging(v) /\ status[v] \in {"WAITING", "STOPPED"}
    BY <2>2 DEF Reclaim, Evictable, Waiting, WithStatus, loopVars, devVars
  <2>3. ASSUME NEW p \in leaves, EvictLeaf(p)
        PROVE  UNCHANGED <<queue, kv, wtext, ids, cursor>>
    <3>1. UNCHANGED <<queue, kv, wtext, ids>> /\ table' = table
          /\ cursor' = [s \in Seqs |-> IF cursor[s] # Detached /\ Prefix(s, cursor[s]) = p
                                         THEN Detached ELSE cursor[s]]
      BY <2>3 DEF EvictLeaf, seqVars, loopVars, devVars
    <3>2. \A s \in Seqs : cursor'[s] \in Nat
      BY DEF CursorHeld
    <3>3. \A s \in Seqs : cursor'[s] # Detached
      BY <3>2 DEF Detached
    <3>4. \A s \in Seqs : cursor'[s] = cursor[s]
      BY <3>1, <3>3
    <3> QED
      BY <1>a, <3>1, <3>4 DEF Shapes
  <2> QED
    BY <1>2, <2>1, <2>2, <2>3 DEF Capacity
<1>3. CASE Publish
  <2>1. CASE BeginPublish
    <3>1. /\ UNCHANGED <<queue, kv, wtext, ids, table, trie, hist>>
          /\ cursor' = [cursor EXCEPT ![turn.cand] = Depth(turn.cand)]
      BY <2>1 DEF BeginPublish, seqVars, loopVars, devVars
    <3>2. turn.cand \in Seqs
      BY <1>a, <2>1 DEF BeginPublish, Control, Candidate
    <3>3. Depth(turn.cand) = cursor[turn.cand]
      BY <1>a, <3>2 DEF Depth, Detached, CursorHeld
    <3>4. cursor' = cursor
      BY <1>a, <3>1, <3>3 DEF Shapes
    <3> QED
      BY <3>1, <3>4 DEF MemoryKept
  <2>2. CASE EndPublish
    BY <2>2 DEF EndPublish, seqVars, loopVars, devVars, MemoryKept
  <2>3. CASE PublishNew \/ PublishShared
    BY <2>3 DEF PublishNew, PublishShared, seqVars, loopVars, devVars
  <2>4. ASSUME NEW b \in Blocks, AllocateBlock(b) PROVE UNCHANGED <<queue, kv, wtext, ids>>
    BY <2>4 DEF AllocateBlock, seqVars, loopVars, devVars
  <2> QED
    BY <1>3, <2>1, <2>2, <2>3, <2>4 DEF Publish
<1>4. CASE Decode /\ (BuildDecode => turn.batch = {})
  <2>1. CASE BuildDecode /\ turn.batch = {}
    BY <2>1 DEF BuildDecode, memVars, seqVars, devVars, MemoryKept
  <2>2. CASE BeginDecode \/ NoRoomDecode \/ AcceptDecode
    BY <2>2 DEF BeginDecode, NoRoomDecode, AcceptDecode, memVars, seqVars, loopVars, devVars, MemoryKept
  <2>3. CASE \E s \in Seqs : DecodeDrop(s) \/ DecodeKeep(s) \/ DecodeGrow(s)
    BY <2>3 DEF DecodeDrop, DecodeKeep, DecodeGrow, memVars, seqVars, loopVars, devVars, MemoryKept
  <2> QED
    BY <1>4, <2>1, <2>2, <2>3 DEF Decode
<1> QED
  BY <1>1, <1>2, <1>3, <1>4 DEF PassStep

\* A pass changes one status at most: it admits its candidate or preempts it.
LEMMA PassStatus ==
    ASSUME Frame, PassStep
    PROVE  \/ UNCHANGED status
           \/ /\ turn.cand \in Seqs /\ status[turn.cand] = "WAITING"
              /\ status' = [status EXCEPT ![turn.cand] = "READY"] /\ AcceptPrefill
           \/ /\ turn.cand \in Seqs /\ status[turn.cand] = "RUNNING"
              /\ status' = [status EXCEPT ![turn.cand] = "WAITING"] /\ NoRoomDecode
<1>a. Shapes /\ Control
  BY DEF Frame
<1>1. CASE Prefill /\ ~BuildPrefill
  <2>1. CASE AcceptPrefill
    <3>1. /\ pc = "accept" /\ turn.lane = "prefill"
          /\ status' = [status EXCEPT ![turn.cand] = "READY"]
      BY <2>1 DEF AcceptPrefill
    <3> QED
      BY <1>a, <2>1, <3>1 DEF Control, Candidate
  <2>2. CASE ~AcceptPrefill
    BY <1>1, <2>2 DEF Prefill, BeginPrefill, EndPick, MatchBlock, EndMatch, GateRejects, GateAdmits,
         NoRoomPrefill, FallBackToDecode, PickCandidate, seqVars
  <2> QED
    BY <2>1, <2>2
<1>2. CASE Capacity \/ Publish
  BY <1>2, CandidateSteps
<1>3. CASE Decode /\ (BuildDecode => turn.batch = {})
  <2>1. CASE NoRoomDecode
    <3>1. /\ pc = "evict" /\ turn.lane = "decode"
          /\ status' = [status EXCEPT ![turn.cand] = "WAITING"]
      BY <2>1 DEF NoRoomDecode
    <3> QED
      BY <1>a, <2>1, <3>1 DEF Control, Candidate
  <2>2. CASE ~NoRoomDecode
    BY <1>3, <2>2 DEF Decode, BeginDecode, AcceptDecode, BuildDecode, DecodeDrop, DecodeKeep, DecodeGrow,
         seqVars
  <2> QED
    BY <2>1, <2>2
<1> QED
  BY <1>1, <1>2, <1>3 DEF PassStep

\* Where a pass that dispatches nothing goes, no forward is unstarted.
LEMMA PassUnstarted ==
    ASSUME Frame, Frame', PassStep
    PROVE  /\ pc \notin {"sent", "next", "wait"} /\ Len(queue) \in 0..1
           /\ pc' \notin {"sent", "next"} /\ Unstarted' = {}
<1>1. pc \notin {"sent", "next", "wait"} /\ pc' \notin {"sent", "next"}
  <2>1. CASE Prefill /\ ~BuildPrefill
    BY <2>1 DEF Prefill, BeginPrefill, EndPick, MatchBlock, EndMatch, GateRejects, GateAdmits,
       NoRoomPrefill, AcceptPrefill, FallBackToDecode, PickCandidate, NothingSent
  <2>2. CASE Capacity \/ Publish
    BY <2>2, CandidateSteps
  <2>3. CASE Decode /\ (BuildDecode => turn.batch = {})
    BY <2>3 DEF Decode, BeginDecode, NoRoomDecode, AcceptDecode, BuildDecode, DecodeDrop, DecodeKeep,
       DecodeGrow, NothingSent
  <2> QED
    BY <2>1, <2>2, <2>3 DEF PassStep
<1>2. Len(queue) \in 0..1
  <2>1. Len(queue) <= 1 /\ Len(queue) \in 0..2
    BY <1>1, QueueFacts
  <2> QED
    BY <2>1
<1>3. UNCHANGED queue
  <2>1. CASE ~BuildDecode
    BY <2>1, PassQuiet DEF PassStep
  <2>2. CASE BuildDecode
    <3>1. pc = "decode"
      BY <2>2 DEF BuildDecode
    <3>2. ~Capacity /\ ~Publish
      BY <3>1, CandidateSteps
    <3>3. CASE turn.batch = {}
      BY <2>2, <3>3 DEF BuildDecode
    <3>4. CASE turn.batch # {}
      <4>1. Prefill /\ ~BuildPrefill
        BY <2>2, <3>2, <3>4 DEF PassStep
      <4> QED
        BY <4>1, PassQuiet
    <3> QED
      BY <3>3, <3>4
  <2> QED
    BY <2>1, <2>2
<1>4. Unstarted' = {}
  BY <1>1, <1>2, <1>3 DEF Unstarted
<1> QED
  BY <1>1, <1>2, <1>4

\* The forward a pass dispatches.
LEMMA Dispatched ==
    ASSUME Frame, Stepped, Reserved, Dispatch
    PROVE  /\ UNCHANGED <<table, trie, cursor, hist, ids, status, kv, wtext>>
           /\ Len(queue) \in 0..1 /\ queue \in Seq(ForwardSet)
           /\ pc \in Passing \ Candidate /\ turn.batch \subseteq Seqs
           /\ \E kind \in {"prefill", "decode"} :
                /\ queue' = Append(queue, Forward(kind, turn.batch))
                /\ Forward(kind, turn.batch) \in ForwardSet
                /\ kind = "prefill" => \A s \in turn.batch : status[s] = "READY"
                /\ kind = "decode" => queue # <<>> /\ \A s \in turn.batch : status[s] = "RUNNING"
                /\ queue = <<>> => pc' = "sent" /\ queue' = <<Forward(kind, turn.batch)>>
                /\ Unstarted' = {Forward(kind, turn.batch)}
<1>a. Shapes /\ Control /\ turn.batch \in SUBSET Seqs /\ turn.batch \subseteq Seqs
  BY DEF Frame, Shapes, Turns
<1>1. PICK kind \in {"prefill", "decode"} :
        /\ queue' = Append(queue, Forward(kind, turn.batch))
        /\ pc' = Sent /\ pc = (IF kind = "prefill" THEN "build" ELSE "decode")
        /\ turn.batch # {}
  BY DEF Dispatch, BuildPrefill, BuildDecode
<1>2. UNCHANGED <<table, trie, cursor, hist, ids, status, kv, wtext>>
  BY DEF Dispatch, BuildPrefill, BuildDecode, memVars, seqVars, devVars
<1>3. pc \in Passing \ Candidate
  BY <1>1 DEF Passing, Candidate
<1>4. Len(queue) \in 0..1 /\ queue \in Seq(ForwardSet)
  BY <1>3, QueueFacts
<1>5. Forward(kind, turn.batch) \in ForwardSet
  BY <1>a, ForwardTyped
<1>6. turn.lane = kind
  BY <1>a, <1>1 DEF Reserved, Control
<1>7. BatchReserved
  BY <1>3 DEF Reserved
<1>8. kind = "prefill" => \A s \in turn.batch : status[s] = "READY"
  BY <1>6, <1>7 DEF BatchReserved
<1>9. kind = "decode" => \A s \in turn.batch : status[s] = "RUNNING"
  BY <1>6, <1>7 DEF BatchReserved
<1>10. kind = "decode" => queue # <<>>
  BY <1>a, <1>1, <1>9 DEF Stepped, WithStatus
<1> DEFINE f == Forward(kind, turn.batch)
<1> HIDE DEF f
<1>11. queue = <<>> => pc' = "sent" /\ queue' = <<f>>
  BY <1>1 DEF Sent, f
<1>12. Unstarted' = {f}
  <2>1. CASE Len(queue) = 0
    <3>1. queue = <<>>
      BY <1>4, <2>1, EmptySeq
    <3> QED
      BY <1>11, <3>1 DEF Unstarted
  <2>2. CASE Len(queue) = 1
    <3>1. Len(queue') = 2 /\ queue'[2] = f
      BY <1>1, <1>4, <1>5, <2>2, QueueAppended DEF f
    <3> QED
      BY <3>1 DEF Unstarted
  <2> QED
    BY <1>4, <2>1, <2>2
<1> QED
  BY <1>a, <1>1, <1>2, <1>3, <1>4, <1>5, <1>8, <1>9, <1>10, <1>11, <1>12 DEF f

---------------------------------------------------------------------------
(* Who shares a block. *)

NodesDeep     == \A p \in DOMAIN trie : \E k \in 1..Len(p) : Len(p) = k * BlockSize
NodesDistinct == \A p, q \in DOMAIN trie : trie[p] = trie[q] => p = q
Private(s)    == \A k \in (cursor[s] + 1)..Len(table[s]) : Alone(s, k)

LEMMA SharingParts ==
    /\ Sharing <=> NodesDeep /\ NodesDistinct /\ \A s \in Seqs : Private(s)
    /\ Sharing' <=> NodesDeep' /\ NodesDistinct' /\ \A s \in Seqs : Private(s)'
<1>1. Sharing <=> NodesDeep /\ NodesDistinct /\ \A s \in Seqs : Private(s)
  BY DEF Sharing, NodesDeep, NodesDistinct, Private
<1>2. Sharing' <=> NodesDeep' /\ NodesDistinct' /\ \A s \in Seqs : Private(s)'
  BY DEF Sharing, NodesDeep, NodesDistinct, Private
<1> QED
  BY <1>1, <1>2

\* The slots beyond the cursors stay apart when tables lose slots, or are given
\* blocks that were no slot beyond a cursor.
LEMMA PrivateKept ==
    ASSUME Shapes, NEW s \in Seqs, Private(s),
           Len(table'[s]) \in Nat, cursor'[s] \in Nat, cursor[s] \in Nat,
           cursor'[s] >= cursor[s] \/ table'[s] = <<>>,
           \A k \in (cursor'[s] + 1)..Len(table'[s]) :
               k <= Len(table[s]) /\ table'[s][k] = table[s][k],
           \A t \in Seqs : \A j \in DOMAIN table'[t] :
               \/ j \in DOMAIN table[t] /\ table'[t][j] = table[t][j]
               \/ \A k \in (cursor'[s] + 1)..Len(table'[s]) : table'[t][j] # table[s][k],
           \A p \in DOMAIN trie' : 
               \/ p \in DOMAIN trie /\ trie'[p] = trie[p]
               \/ \A k \in (cursor'[s] + 1)..Len(table'[s]) : trie'[p] # table[s][k]
    PROVE  Private(s)'
<1> SUFFICES ASSUME NEW k \in (cursor'[s] + 1)..Len(table'[s])
             PROVE  Alone(s, k)'
  BY DEF Private
<1>1. k <= Len(table[s]) /\ table'[s][k] = table[s][k] /\ k \in Nat
  OBVIOUS
<1>2. table'[s] # <<>>
  BY <1>1
<1>3. k \in (cursor[s] + 1)..Len(table[s])
  <2>1. cursor'[s] >= cursor[s]
    BY <1>2
  <2>2. Len(table[s]) \in Nat
    BY DEF Shapes
  <2> QED
    BY <1>1, <2>1, <2>2
<1>4. Alone(s, k)
  BY <1>3 DEF Private
<1>5. ASSUME NEW t \in Seqs, NEW j \in DOMAIN table'[t], table'[t][j] = table'[s][k]
      PROVE  t = s /\ j = k
  <2>1. table'[t][j] = table[s][k]
    BY <1>1, <1>5
  <2>2. j \in DOMAIN table[t] /\ table'[t][j] = table[t][j]
    BY <2>1
  <2> QED
    BY <1>4, <2>1, <2>2 DEF Alone
<1>6. ASSUME NEW p \in DOMAIN trie' PROVE trie'[p] # table'[s][k]
  <2>1. CASE p \in DOMAIN trie /\ trie'[p] = trie[p]
    BY <1>1, <1>4, <2>1 DEF Alone
  <2>2. CASE ~(p \in DOMAIN trie /\ trie'[p] = trie[p])
    BY <1>1, <2>2
  <2> QED
    BY <2>1, <2>2
<1> QED
  BY <1>5, <1>6 DEF Alone

LEMMA SharingKept ==
    ASSUME Sharing, UNCHANGED <<table, trie, cursor>>
    PROVE  Sharing'
  BY DEF Sharing, Alone

LEMMA ReleaseSharing ==
    ASSUME Shapes, CursorHeld, Sharing, NEW v \in Seqs, ReleasePaging(v)
    PROVE  Sharing'
<1>1. /\ trie' = trie /\ table'[v] = <<>> /\ cursor'[v] = 0
      /\ \A s \in Seqs \ {v} : table'[s] = table[s] /\ cursor'[s] = cursor[s]
  BY ReleaseShapes DEF ReleasePaging, Shapes
<1>2. NodesDeep' /\ NodesDistinct'
  BY <1>1, SharingParts DEF NodesDeep, NodesDistinct
<1>3. ASSUME NEW s \in Seqs PROVE Private(s)'
  <2>0. DOMAIN table'[v] = {}
    BY <1>1
  <2>1. Private(s) /\ cursor[s] \in Nat /\ Len(table[s]) \in Nat
    BY SharingParts DEF CursorHeld, Shapes
  <2>2. \A t \in Seqs : \A j \in DOMAIN table'[t] : j \in DOMAIN table[t] /\ table'[t][j] = table[t][j]
    BY <1>1, <2>0
  <2>3. CASE s = v
    BY <1>1, <2>0, <2>3 DEF Private
  <2>4. CASE s # v
    <3>1. /\ Len(table'[s]) \in Nat /\ cursor'[s] \in Nat /\ cursor'[s] >= cursor[s]
          /\ \A k \in (cursor'[s] + 1)..Len(table'[s]) :
               k <= Len(table[s]) /\ table'[s][k] = table[s][k]
      BY <1>1, <2>1, <2>4
    <3> QED
      BY <1>1, <2>1, <2>2, <3>1, PrivateKept
  <2> QED
    BY <2>3, <2>4
<1> QED
  BY <1>2, <1>3, SharingParts

\* The node a match takes is nobody's alone.
LEMMA MatchSharing ==
    ASSUME Frame, CursorHeld, MatchAligned, Sharing, MatchBlock
    PROVE  Sharing'
<1> DEFINE s == turn.cand
           b == trie[NextPath(s)]
<1>a. Shapes /\ Control
  BY DEF Frame
<1>1. /\ pc = "match" /\ CanMatch(s) /\ trie' = trie
      /\ table' = [table EXCEPT ![s] = Append(table[s], b)]
      /\ cursor' = [cursor EXCEPT ![s] = cursor[s] + 1]
  BY DEF MatchBlock
<1>2. s \in Seqs
  BY <1>a, <1>1 DEF Control, Candidate
<1>3. Len(table[s]) = cursor[s] /\ NextPath(s) \in DOMAIN trie
  BY <1>1 DEF MatchAligned, CanMatch
<1>4. /\ table'[s] = Append(table[s], b) /\ cursor'[s] = cursor[s] + 1
      /\ \A t \in Seqs \ {s} : table'[t] = table[t] /\ cursor'[t] = cursor[t]
  BY <1>a, <1>1, <1>2 DEF Shapes
<1>5. table[s] \in Seq(Blocks) /\ cursor[s] \in Nat /\ b \in Blocks
  BY <1>a, <1>2, <1>3 DEF Shapes, CursorHeld
<1> HIDE DEF s, b
<1>6. /\ Len(table'[s]) = cursor'[s] /\ DOMAIN table'[s] = 1..(Len(table[s]) + 1)
      /\ \A j \in DOMAIN table'[s] : \/ j \in DOMAIN table[s] /\ table'[s][j] = table[s][j]
                                     \/ table'[s][j] = b
  BY <1>3, <1>4, <1>5
<1>7. NodesDeep' /\ NodesDistinct'
  BY <1>1, SharingParts DEF NodesDeep, NodesDistinct
<1>8. ASSUME NEW t \in Seqs PROVE Private(t)'
  <2>1. Private(t) /\ cursor[t] \in Nat /\ Len(table[t]) \in Nat
    BY <1>a, SharingParts DEF CursorHeld, Shapes
  <2>2. CASE t = s
    <3>1. (cursor'[t] + 1)..Len(table'[t]) = {}
      BY <1>4, <1>5, <1>6, <2>2
    <3> QED
      BY <3>1 DEF Private
  <2>3. CASE t # s
    <3>1. table'[t] = table[t] /\ cursor'[t] = cursor[t]
      BY <1>4, <2>3
    <3>2. \A k \in (cursor'[t] + 1)..Len(table'[t]) : b # table[t][k]
      BY <1>3, <2>1, <3>1 DEF Private, Alone, b, s
    <3>3. \A u \in Seqs : \A j \in DOMAIN table'[u] :
               \/ j \in DOMAIN table[u] /\ table'[u][j] = table[u][j]
               \/ \A k \in (cursor'[t] + 1)..Len(table'[t]) : table'[u][j] # table[t][k]
      BY <1>4, <1>6, <3>2
    <3>4. /\ Len(table'[t]) \in Nat /\ cursor'[t] \in Nat /\ cursor'[t] >= cursor[t]
          /\ \A k \in (cursor'[t] + 1)..Len(table'[t]) :
               k <= Len(table[t]) /\ table'[t][k] = table[t][k]
      BY <2>1, <3>1
    <3> QED
      BY <1>a, <1>1, <2>1, <3>3, <3>4, PrivateKept
  <2> QED
    BY <2>2, <2>3
<1> QED
  BY <1>7, <1>8, SharingParts

LEMMA EvictSharing ==
    ASSUME Sharing, NEW p, EvictLeaf(p), UNCHANGED cursor
    PROVE  Sharing'
<1>1. trie' = [q \in DOMAIN trie \ {p} |-> trie[q]] /\ table' = table
  BY DEF EvictLeaf
<1>2. \A q \in DOMAIN trie' : q \in DOMAIN trie /\ trie'[q] = trie[q]
  BY <1>1
<1>3. NodesDeep' /\ NodesDistinct'
  BY <1>2, SharingParts DEF NodesDeep, NodesDistinct
<1>4. ASSUME NEW s \in Seqs PROVE Private(s)'
  <2>1. Private(s)
    BY SharingParts
  <2> QED
    BY <1>1, <1>2, <2>1 DEF Private, Alone
<1> QED
  BY <1>3, <1>4, SharingParts

\* A free block is nobody's, and after its allocation one table's.
LEMMA NobodysBlock ==
    ASSUME Owned, NEW b \in free, b \in Blocks
    PROVE  /\ \A t \in Seqs : \A j \in DOMAIN table[t] : table[t][j] # b
           /\ \A p \in DOMAIN trie : trie[p] # b
<1>1. Balanced(b) /\ ref[b] = 0
  BY OwnedBalanced DEF Owned, RefCountExact
<1>2. Slots(b) = {} /\ Nodes(b) = {}
  BY <1>1, OwnedIsPositive
<1>3. ASSUME NEW t \in Seqs, NEW j \in DOMAIN table[t], table[t][j] = b PROVE FALSE
  <2>1. <<t, j>> \in Slots(b)
    BY <1>3, SlotMember
  <2> QED
    BY <1>2, <2>1
<1> QED
  BY <1>2, <1>3 DEF Nodes

LEMMA AllocateSharing ==
    ASSUME Frame, Owned, CursorHeld, Sharing, NEW b \in Blocks, AllocateBlock(b)
    PROVE  Sharing'
<1> DEFINE s == turn.cand
           n == Len(table[s]) + 1
<1>a. Shapes /\ Control
  BY DEF Frame
<1>1. /\ pc = "alloc" /\ b \in free /\ UNCHANGED <<trie, cursor>>
      /\ table' = [table EXCEPT ![s] = Append(table[s], b)]
  BY DEF AllocateBlock
<1>2. s \in Seqs
  BY <1>a, <1>1 DEF Control, Candidate
<1>3. /\ \A t \in Seqs : \A j \in DOMAIN table[t] : table[t][j] # b
      /\ \A p \in DOMAIN trie : trie[p] # b
  BY <1>1, NobodysBlock
<1>4. table'[s] = Append(table[s], b) /\ \A t \in Seqs \ {s} : table'[t] = table[t]
  BY <1>a, <1>1, <1>2 DEF Shapes
<1>5. table[s] \in Seq(Blocks) /\ cursor[s] \in 0..Len(table[s])
  BY <1>a, <1>2 DEF Shapes, CursorHeld
<1> HIDE DEF s
<1>6. /\ n \in Nat /\ Len(table'[s]) = n /\ table'[s][n] = b /\ DOMAIN table'[s] = 1..n
      /\ DOMAIN table[s] = 1..(n - 1)
      /\ \A j \in 1..(n - 1) : table'[s][j] = table[s][j]
  BY <1>4, <1>5
<1> HIDE DEF n
<1>7. NodesDeep' /\ NodesDistinct'
  BY <1>1, SharingParts DEF NodesDeep, NodesDistinct
<1>8. ASSUME NEW t \in Seqs, NEW k \in (cursor'[t] + 1)..Len(table'[t])
      PROVE  Alone(t, k)'
  <2>1. Private(t) /\ cursor[t] \in 0..Len(table[t]) /\ cursor'[t] = cursor[t] /\ Len(table[t]) \in Nat
    BY <1>a, <1>1, SharingParts DEF CursorHeld, Shapes
  <2>2. CASE t = s /\ k = n
    <3>1. table'[t][k] = b
      BY <1>6, <2>2
    <3>2. \A u \in Seqs : \A j \in DOMAIN table'[u] : table'[u][j] = b => u = s /\ j = n
      BY <1>3, <1>4, <1>6
    <3> QED
      BY <1>1, <1>3, <2>2, <3>1, <3>2 DEF Alone
  <2>3. CASE ~(t = s /\ k = n)
    <3>1. k \in (cursor[t] + 1)..Len(table[t]) /\ table'[t][k] = table[t][k] /\ k \in DOMAIN table[t]
      BY <1>4, <1>6, <2>1, <2>3
    <3>2. Alone(t, k) /\ table[t][k] # b
      BY <1>3, <2>1, <3>1 DEF Private
    <3>3. \A u \in Seqs : \A j \in DOMAIN table'[u] :
             table'[u][j] = b \/ (j \in DOMAIN table[u] /\ table'[u][j] = table[u][j])
      BY <1>4, <1>6
    <3> QED
      BY <1>1, <3>1, <3>2, <3>3 DEF Alone
  <2> QED
    BY <2>2, <2>3
<1>9. \A t \in Seqs : Private(t)'
  BY <1>8 DEF Private
<1> QED
  BY <1>7, <1>9, SharingParts

\* What publication works on: the first slot behind the cursor.
LEMMA PublishSlot ==
    ASSUME ConstantsAssumption, Frame, CursorHeld, PublishNew \/ PublishShared,
           NEW s, s = turn.cand, NEW k, k = cursor[s] + 1
    PROVE  /\ s \in Seqs /\ pc = "publish" /\ status[s] \in {"WAITING", "RUNNING"}
           /\ k \in Nat \ {0} /\ k \in 1..Len(table[s]) /\ k * BlockSize <= Len(ids[s])
           /\ Len(Prefix(s, k)) = k * BlockSize /\ k * BlockSize \in Nat
           /\ k \in 1..Len(Prefix(s, k))
           /\ cursor' = [cursor EXCEPT ![s] = k]
           /\ cursor'[s] = k /\ \A t \in Seqs \ {s} : cursor'[t] = cursor[t]
<1>a. Shapes /\ Control /\ Room
  BY DEF Frame
<1>1. pc = "publish" /\ ToPublish(s) /\ cursor' = [cursor EXCEPT ![s] = k]
  BY DEF PublishNew, PublishShared
<1>2. s \in Seqs /\ status[s] \in {"WAITING", "RUNNING"}
  BY <1>a, <1>1 DEF Control, Candidate
<1>3. cursor[s] \in Nat /\ k \in 1..Len(table[s]) /\ k * BlockSize <= Len(ids[s])
  BY <1>a, <1>1, <1>2, PublishedBlock
<1>4. k \in Nat \ {0}
  BY <1>3
<1>5. Len(Prefix(s, k)) = k * BlockSize /\ k * BlockSize \in Nat
  BY <1>a, <1>2, <1>3, <1>4, PrefixTyped
<1>6. k <= k * BlockSize
  <2>1. 1 * k <= BlockSize * k
    BY <1>4, TimesMono, Z3 DEF ConstantsAssumption
  <2> QED
    BY <1>4, <2>1, Z3 DEF ConstantsAssumption
<1>7. k \in 1..Len(Prefix(s, k))
  BY <1>4, <1>5, <1>6
<1>8. cursor'[s] = k /\ \A t \in Seqs \ {s} : cursor'[t] = cursor[t]
  BY <1>a, <1>1, <1>2 DEF Shapes
<1> QED
  BY <1>1, <1>2, <1>3, <1>4, <1>5, <1>7, <1>8

LEMMA PublishNewSharing ==
    ASSUME ConstantsAssumption, Frame, CursorHeld, Sharing, PublishNew
    PROVE  Sharing'
<1> DEFINE s == turn.cand
           k == cursor[s] + 1
           b == table[s][k]
           P == Prefix(s, k)
<1>a. Shapes
  BY DEF Frame
<1>1. /\ P \notin DOMAIN trie /\ table' = table
      /\ trie' = [q \in DOMAIN trie \cup {P} |-> IF q = P THEN b ELSE trie[q]]
  BY DEF PublishNew
<1>2. /\ s \in Seqs /\ k \in Nat \ {0} /\ k \in 1..Len(table[s])
      /\ Len(P) = k * BlockSize /\ k \in 1..Len(P)
      /\ cursor'[s] = k /\ \A t \in Seqs \ {s} : cursor'[t] = cursor[t]
  BY PublishSlot
<1>3. cursor[s] \in Nat /\ Len(table[s]) \in Nat
  BY <1>a, <1>2 DEF CursorHeld, Shapes
<1>4. k \in (cursor[s] + 1)..Len(table[s])
  BY <1>2, <1>3
<1>5. Alone(s, k)
  BY <1>2, <1>4, SharingParts DEF Private
<1>k. k = cursor[s] + 1
  OBVIOUS
<1> HIDE DEF s, k, P
<1>6. DOMAIN trie' = DOMAIN trie \cup {P} /\ trie'[P] = b /\ \A q \in DOMAIN trie : trie'[q] = trie[q]
  BY <1>1
<1>7. NodesDeep'
  <2>1. NodesDeep
    BY SharingParts
  <2> QED
    BY <1>2, <1>6, <2>1 DEF NodesDeep
<1>8. NodesDistinct'
  <2>1. NodesDistinct /\ \A q \in DOMAIN trie : trie[q] # b
    BY <1>5, SharingParts DEF Alone
  <2> QED
    BY <1>6, <2>1 DEF NodesDistinct
<1>9. ASSUME NEW t \in Seqs PROVE Private(t)'
  <2>1. Private(t) /\ cursor[t] \in Nat /\ Len(table[t]) \in Nat
    BY <1>a, SharingParts DEF CursorHeld, Shapes
  <2>2. cursor'[t] \in Nat /\ cursor'[t] >= cursor[t]
    BY <1>2, <1>3, <1>k, <2>1
  <2>3. \A j \in (cursor'[t] + 1)..Len(table[t]) : j \in DOMAIN table[t] /\ ~(t = s /\ j = k)
    BY <1>2, <2>1, <2>2
  <2>4. \A j \in (cursor'[t] + 1)..Len(table[t]) : table[t][j] # b
    BY <1>5, <2>3 DEF Alone
  <2>5. /\ \A j \in (cursor'[t] + 1)..Len(table'[t]) : j <= Len(table[t]) /\ table'[t][j] = table[t][j]
        /\ Len(table'[t]) \in Nat
        /\ \A u \in Seqs : \A j \in DOMAIN table'[u] : j \in DOMAIN table[u] /\ table'[u][j] = table[u][j]
    BY <1>1, <2>1, <2>2
  <2>6. \A p \in DOMAIN trie' :
               \/ p \in DOMAIN trie /\ trie'[p] = trie[p]
               \/ \A j \in (cursor'[t] + 1)..Len(table'[t]) : trie'[p] # table[t][j]
    BY <1>1, <1>6, <2>4
  <2> QED
    BY <1>a, <2>1, <2>2, <2>5, <2>6, PrivateKept
<1> QED
  BY <1>7, <1>8, <1>9, SharingParts

\* The table of a sequence that takes the cached block for its own.
LEMMA SharedTable ==
    ASSUME ConstantsAssumption, Frame, CursorHeld, PublishShared,
           NEW s, s = turn.cand, NEW k, k = cursor[s] + 1
    PROVE  /\ trie' = trie /\ Prefix(s, k) \in DOMAIN trie
           /\ \A t \in Seqs \ {s} : table'[t] = table[t]
           /\ Len(table'[s]) = Len(table[s]) /\ DOMAIN table'[s] = DOMAIN table[s]
           /\ table'[s][k] = trie[Prefix(s, k)]
           /\ \A j \in DOMAIN table[s] \ {k} : table'[s][j] = table[s][j]
<1>a. Shapes
  BY DEF Frame
<1>1. s \in Seqs /\ k \in DOMAIN table[s] /\ table[s] \in Seq(Blocks)
  BY <1>a, PublishSlot, SMTT(30) DEF Shapes
<1>2. /\ trie' = trie /\ Prefix(s, k) \in DOMAIN trie
      /\ \/ UNCHANGED table /\ table[s][k] = trie[Prefix(s, k)]
         \/ table' = [table EXCEPT ![s] = [table[s] EXCEPT ![k] = trie[Prefix(s, k)]]]
  BY DEF PublishShared
<1>3. CASE UNCHANGED table /\ table[s][k] = trie[Prefix(s, k)]
  BY <1>1, <1>2, <1>3
<1>4. CASE table' = [table EXCEPT ![s] = [table[s] EXCEPT ![k] = trie[Prefix(s, k)]]]
  <2>1. /\ table'[s] = [table[s] EXCEPT ![k] = trie[Prefix(s, k)]]
        /\ \A t \in Seqs \ {s} : table'[t] = table[t]
    BY <1>a, <1>1, <1>4 DEF Shapes
  <2>2. trie[Prefix(s, k)] \in Blocks
    BY <1>a, <1>2 DEF Shapes
  <2>3. Len(table'[s]) = Len(table[s])
    BY <1>1, <2>1, <2>2
  <2>4. /\ DOMAIN table'[s] = DOMAIN table[s] /\ table'[s][k] = trie[Prefix(s, k)]
        /\ \A j \in DOMAIN table[s] \ {k} : table'[s][j] = table[s][j]
    BY <1>1, <2>1
  <2> QED
    BY <1>2, <2>1, <2>3, <2>4
<1> QED
  BY <1>2, <1>3, <1>4

LEMMA PublishSharedSharing ==
    ASSUME ConstantsAssumption, Frame, CursorHeld, Sharing, PublishShared
    PROVE  Sharing'
<1> DEFINE s == turn.cand
           k == cursor[s] + 1
           b == trie[Prefix(s, k)]
<1>a. Shapes
  BY DEF Frame
<1>1. /\ trie' = trie /\ Prefix(s, k) \in DOMAIN trie
      /\ \A t \in Seqs \ {s} : table'[t] = table[t]
      /\ Len(table'[s]) = Len(table[s]) /\ DOMAIN table'[s] = DOMAIN table[s]
      /\ table'[s][k] = b
      /\ \A j \in DOMAIN table[s] \ {k} : table'[s][j] = table[s][j]
  BY SharedTable
<1>2. /\ s \in Seqs /\ k \in Nat \ {0} /\ k \in 1..Len(table[s])
      /\ cursor'[s] = k /\ \A t \in Seqs \ {s} : cursor'[t] = cursor[t]
  BY PublishSlot
<1>3. cursor[s] \in Nat /\ Len(table[s]) \in Nat
  BY <1>a, <1>2 DEF CursorHeld, Shapes
<1>4. \A t \in Seqs : \A j \in (cursor[t] + 1)..Len(table[t]) : table[t][j] # b
  BY <1>1, SharingParts DEF Private, Alone
<1>k. k = cursor[s] + 1
  OBVIOUS
<1> HIDE DEF s, k, b
<1>5. NodesDeep' /\ NodesDistinct'
  BY <1>1, SharingParts DEF NodesDeep, NodesDistinct
<1>6. ASSUME NEW t \in Seqs PROVE Private(t)'
  <2>1. Private(t) /\ cursor[t] \in Nat /\ Len(table[t]) \in Nat
    BY <1>a, SharingParts DEF CursorHeld, Shapes
  <2>2. cursor'[t] \in Nat /\ cursor'[t] >= cursor[t] /\ Len(table'[t]) = Len(table[t])
    BY <1>1, <1>2, <1>3, <1>k, <2>1
  <2>3. \A j \in (cursor'[t] + 1)..Len(table[t]) : j \in DOMAIN table[t] /\ table[t][j] # b
    BY <1>4, <2>1, <2>2
  <2>4. \A j \in (cursor'[t] + 1)..Len(table'[t]) : j <= Len(table[t]) /\ table'[t][j] = table[t][j]
    <3>1. CASE t = s
      <4>1. \A j \in (cursor'[t] + 1)..Len(table'[t]) : j \in DOMAIN table[t] \ {k} /\ j <= Len(table[t])
        BY <1>2, <2>1, <2>2, <3>1
      <4> QED
        BY <1>1, <3>1, <4>1
    <3>2. CASE t # s
      BY <1>1, <2>1, <2>2, <3>2
    <3> QED
      BY <3>1, <3>2
  <2>5. \A u \in Seqs : \A j \in DOMAIN table'[u] :
               \/ j \in DOMAIN table[u] /\ table'[u][j] = table[u][j]
               \/ \A i \in (cursor'[t] + 1)..Len(table'[t]) : table'[u][j] # table[t][i]
    <3>1. ASSUME NEW u \in Seqs, NEW j \in DOMAIN table'[u]
          PROVE  (j \in DOMAIN table[u] /\ table'[u][j] = table[u][j]) \/ table'[u][j] = b
      <4>1. CASE u = s /\ j = k
        BY <1>1, <4>1
      <4>2. CASE u = s /\ j # k
        BY <1>1, <3>1, <4>2
      <4>3. CASE u # s
        BY <1>1, <3>1, <4>3
      <4> QED
        BY <4>1, <4>2, <4>3
    <3> QED
      BY <2>2, <2>3, <3>1
  <2>6. Len(table'[t]) \in Nat /\ \A p \in DOMAIN trie' : p \in DOMAIN trie /\ trie'[p] = trie[p]
    BY <1>1, <2>1, <2>2
  <2> QED
    BY <1>a, <2>1, <2>2, <2>4, <2>5, <2>6, PrivateKept
<1> QED
  BY <1>5, <1>6, SharingParts

LEMMA NextSharing ==
    ASSUME ConstantsAssumption, Core, CursorHeld', MatchAligned, Sharing, Next
    PROVE  Sharing'
<1>a. Frame /\ Shapes /\ Owned /\ CursorHeld
  BY DEF Core, Frame
<1>1. CASE Client
  <2>1. CASE \E s \in Seqs : EndSession(s)
    BY <1>a, <2>1, ReleaseSharing DEF EndSession
  <2>2. CASE ~\E s \in Seqs : EndSession(s)
    <3>1. UNCHANGED <<table, trie, cursor>>
      BY <1>1, <2>2 DEF Client, AddMessage, StopSession, memVars
    <3> QED
      BY <3>1, SharingKept
  <2> QED
    BY <2>1, <2>2
<1>2. CASE PassStep
  <2>1. \/ MemoryKept
        \/ \E v \in Seqs : ReleasePaging(v)
        \/ MatchBlock
        \/ \E p : EvictLeaf(p) /\ UNCHANGED cursor
        \/ \E b \in Blocks : AllocateBlock(b)
        \/ PublishNew
        \/ PublishShared
    BY <1>2, PassMemory
  <2> QED
    BY <1>a, <2>1, SharingKept, ReleaseSharing, MatchSharing, EvictSharing, AllocateSharing,
       PublishNewSharing, PublishSharedSharing DEF MemoryKept
<1>3. CASE Dispatch \/ Activate \/ \E tok \in Sampled, stop \in SUBSET Rows1 : CollectOutput(tok, stop)
  BY <1>3, SharingKept DEF Dispatch, BuildPrefill, BuildDecode, Activate, CollectOutput, memVars
<1> QED
  BY <1>1, <1>2, <1>3, StepKinds

---------------------------------------------------------------------------
(* What the collection of an output does. *)

LEMMA Collected ==
    ASSUME Frame, NEW tok \in Sampled, NEW stop \in SUBSET Rows1, CollectOutput(tok, stop)
    PROVE  /\ pc = "wait" /\ UNCHANGED <<ref, free, table, trie, cursor>>
           /\ queue' = Tail(queue) /\ pc' = (IF Len(queue) = 1 THEN "send" ELSE "next")
           /\ \A s \in Seqs :
                /\ s \in Applied => /\ hist'[s] = Len(ids[s]) /\ tok[s] \in Tokens
                                    /\ ids'[s] = Append(ids[s], tok[s])
                /\ s \notin Applied => hist'[s] = hist[s] /\ ids'[s] = ids[s]
                /\ \/ status'[s] = status[s]
                   \/ status'[s] = "STOPPED" /\ s \in Applied
                   \/ status'[s] = "WAITING" /\ status[s] \in {"READY", "RUNNING", "WAITING"}
<1> DEFINE finished == [s \in Seqs |-> IF s \in Applied /\ s \in stop THEN "STOPPED" ELSE status[s]]
<1>1. /\ pc = "wait" /\ UNCHANGED <<ref, free, table, trie, cursor>>
      /\ queue' = Tail(queue) /\ pc' = (IF Len(queue) = 1 THEN "send" ELSE "next")
      /\ hist' = [s \in Seqs |-> IF s \in Applied THEN Len(ids[s]) ELSE hist[s]]
      /\ ids' = [s \in Seqs |-> IF s \in Applied THEN Append(ids[s], tok[s]) ELSE ids[s]]
      /\ status' = Preempted(finished)
  BY DEF CollectOutput, memVars
<1>2. ASSUME NEW s \in Seqs
      PROVE  \/ status'[s] = status[s]
             \/ status'[s] = "STOPPED" /\ s \in Applied
             \/ status'[s] = "WAITING" /\ status[s] \in {"READY", "RUNNING", "WAITING"}
  <2>1. finished[s] = status[s] \/ (finished[s] = "STOPPED" /\ s \in Applied)
    OBVIOUS
  <2> HIDE DEF finished
  <2>2. status'[s] = IF s \in toEvict /\ finished[s] \in {"RUNNING", "READY", "WAITING"}
                       THEN "WAITING" ELSE finished[s]
    BY <1>1 DEF Preempted
  <2> QED
    BY <2>1, <2>2
<1>3. \A s \in Applied : tok[s] \in Tokens
  BY DEF Sampled, Applied
<1> QED
  BY <1>1, <1>2, <1>3

\* The last forward in flight changes no sequence: nobody runs any more.
LEMMA CollectedLast ==
    ASSUME Frame, Stepped, ReadySent, NEW tok \in Sampled, NEW stop \in SUBSET Rows1,
           CollectOutput(tok, stop), Len(queue) = 1
    PROVE  /\ pc' = "send" /\ queue' = <<>> /\ Unstarted' = {} /\ Applied = {}
           /\ \A s \in Seqs : hist'[s] = hist[s] /\ ids'[s] = ids[s] /\ status'[s] = status[s]
           /\ Running = {}
<1>1. pc = "wait" /\ queue' = <<>> /\ pc' = "send"
  BY Collected, Waits
<1>2. Running = {} /\ Unstarted = {} /\ pc \notin Passing
  BY <1>1 DEF Stepped, Running, Unstarted, Passing, Candidate
<1>3. Ready = {}
  BY <1>2 DEF ReadySent, Ready
<1>4. Applied = {}
  BY <1>2 DEF Applied, Running
<1>5. ASSUME NEW s \in Seqs PROVE hist'[s] = hist[s] /\ ids'[s] = ids[s] /\ status'[s] = status[s]
  <2>1. status[s] \notin {"READY", "RUNNING"}
    BY <1>2, <1>3 DEF Ready, Running, WithStatus
  <2> QED
    BY <1>4, <2>1, Collected
<1>6. Unstarted' = {}
  BY <1>1 DEF Unstarted
<1> QED
  BY <1>1, <1>2, <1>4, <1>5, <1>6

\* The text of a row of the second forward when the first is collected: it has
\* got the token of the first, if it had a row there.
LEMMA CollectedFirst ==
    ASSUME Frame, NEW tok \in Sampled, NEW stop \in SUBSET Rows1,
           CollectOutput(tok, stop), Len(queue) = 2
    PROVE  /\ pc' = "next" /\ queue # <<>> /\ queue' # <<>> /\ Len(queue') = 1 /\ DOMAIN queue' = 1..1
           /\ queue'[1] = queue[2] /\ Head1' = queue[2] /\ Rows1' = DOMAIN queue[2].rows
           /\ Unstarted = {queue[2]} /\ Unstarted' = {queue[2]} /\ queue[2] \in ForwardSet
           /\ \A f : f = queue[2] => \A s \in DOMAIN f.rows :
                IF f.kind = "decode" /\ s \in Rows1
                  THEN tok[s] \in Tokens /\ FlightText(f, s)' = Append(FlightText(f, s), tok[s])
                  ELSE FlightText(f, s)' = FlightText(f, s)
<1>1. pc = "wait" /\ queue' = Tail(queue) /\ pc' = "next"
  BY Collected
<1>2. Len(queue') = 1 /\ queue'[1] = queue[2]
  BY <1>1, Waits
<1>3. queue \in Seq(ForwardSet) /\ queue # <<>> /\ queue' # <<>> /\ queue[2] \in ForwardSet
  <2>1. queue \in Seq(ForwardSet)
    BY QueueFacts
  <2> QED
    BY <1>2, <2>1
<1>4. Unstarted = {queue[2]} /\ Unstarted' = {queue[2]}
  BY <1>1, <1>2 DEF Unstarted
<1>5. DOMAIN queue' = 1..1
  <2>1. queue' \in Seq(ForwardSet)
    BY <1>1, <1>3, HeadTailProperties, Zenon
  <2> QED
    BY <1>2, <2>1
<1>6. Head1' = queue[2] /\ Rows1' = DOMAIN queue[2].rows
  BY <1>2 DEF Head1, Rows1
<1>7. ASSUME NEW f, f = queue[2], NEW s \in DOMAIN f.rows
      PROVE  IF f.kind = "decode" /\ s \in Rows1
                  THEN tok[s] \in Tokens /\ FlightText(f, s)' = Append(FlightText(f, s), tok[s])
                  ELSE FlightText(f, s)' = FlightText(f, s)
  <2> DEFINE finished == [t \in Seqs |-> IF t \in Applied /\ t \in stop THEN "STOPPED" ELSE status[t]]
  <2>1. wtext' = [t \in Seqs |-> CASE t \notin Carried(finished) -> <<>>
                                   [] t \in Rows1 -> Append(RowText(Head1, t), tok[t])
                                   [] OTHER -> wtext[t]]
    BY DEF CollectOutput
  <2>2. s \in Seqs
    BY <1>3, <1>7, ForwardRows
  <2>3. CASE f.kind # "decode"
    <3>1. f.kind = "prefill"
      BY <1>3, <1>7, <2>3, ForwardRows
    <3> QED
      BY <2>3, <3>1 DEF FlightText
  <2>4. CASE f.kind = "decode"
    <3>1. s \in Carried(finished)
      BY <1>7, <2>2, <2>4 DEF Carried
    <3> HIDE DEF finished
    <3>2. FlightText(f, s)' = wtext'[s]
      BY <1>3, <1>6, <1>7, <2>4 DEF FlightText, DeviceText, RowText
    <3>3. FlightText(f, s) = DeviceText(s)
      BY <2>4 DEF FlightText
    <3>4. CASE s \in Rows1
      <4>1. wtext'[s] = Append(RowText(Head1, s), tok[s])
        BY <2>1, <2>2, <3>1, <3>4
      <4>2. DeviceText(s) = RowText(Head1, s)
        BY <1>3, <3>4 DEF DeviceText
      <4>3. tok[s] \in Tokens
        BY <3>4 DEF Sampled
      <4> QED
        BY <2>4, <3>2, <3>3, <3>4, <4>1, <4>2, <4>3
    <3>5. CASE s \notin Rows1
      <4>1. wtext'[s] = wtext[s]
        BY <2>1, <2>2, <3>1, <3>5
      <4>2. DeviceText(s) = wtext[s]
        BY <3>5 DEF DeviceText
      <4> QED
        BY <3>2, <3>3, <3>5, <4>1, <4>2
    <3> QED
      BY <3>4, <3>5
  <2> QED
    BY <2>3, <2>4
<1> QED
  BY <1>1, <1>2, <1>3, <1>4, <1>5, <1>6, <1>7

---------------------------------------------------------------------------
(* The forward sent last has the tables and the texts of its rows. *)

LEMMA NextLinked ==
    ASSUME ConstantsAssumption, Core, Frame', Linked, Next
    PROVE  Linked'
<1>a. Frame /\ Shapes /\ Stepped /\ Reserved /\ ReadySent
  BY DEF Core, Frame, Flow
<1>0. ASSUME Unstarted' = {} PROVE Linked'
  BY <1>0 DEF Linked
<1>1. CASE Client
  <2>1. UNCHANGED <<queue, pc>>
    BY <1>1 DEF Client, AddMessage, StopSession, EndSession, loopVars
  <2>2. Unstarted' = Unstarted /\ Unstarted \subseteq {queue[Len(queue)]}
    BY <2>1 DEF Unstarted
  <2>3. ASSUME NEW f \in Unstarted, NEW s \in DOMAIN f.rows
        PROVE  /\ pc' = "wait" => status'[s] # "WAITING"
               /\ status'[s] \in {"READY", "RUNNING"} =>
                    /\ f.rows[s].tbl = table'[s]
                    /\ f.kind = "prefill" => f.rows[s].first = hist'[s] /\ f.rows[s].text = ids'[s]
    <3>0. s \in Seqs /\ Referenced(s)
      <4>1. pc \in {"sent", "next"} \/ Len(queue) = 2
        BY <2>3 DEF Unstarted
      <4>2. Len(queue) \in 1..2 /\ queue \in Seq(ForwardSet)
        <5>1. pc \in {"sent", "next"} => Len(queue) = 1
          BY <1>a DEF Frame, QueueShape
        <5>2. Len(queue) \in 0..2 /\ queue \in Seq(ForwardSet)
          BY <1>a, QueueFacts
        <5> QED
          BY <4>1, <5>1, <5>2
      <4>3. f = queue[Len(queue)] /\ Len(queue) \in DOMAIN queue /\ f \in ForwardSet
        <5>1. f = queue[Len(queue)]
          BY <2>2, <2>3
        <5>2. Len(queue) \in DOMAIN queue
          <6>1. DOMAIN queue = 1..Len(queue)
            BY <4>2
          <6>2. ASSUME NEW n \in 1..2 PROVE n \in 1..n
            OBVIOUS
          <6> QED
            BY <4>2, <6>1, <6>2
        <5> QED
          BY <5>1, <5>2, <1>a, QueueFacts
      <4>4. DOMAIN f.rows \subseteq Seqs
        BY <4>3, ForwardRows
      <4> QED
        BY <2>3, <4>3, <4>4 DEF Referenced
    <3>1. /\ pc = "wait" => status[s] # "WAITING"
          /\ status[s] \in {"READY", "RUNNING"} =>
               /\ f.rows[s].tbl = table[s]
               /\ f.kind = "prefill" => f.rows[s].first = hist[s] /\ f.rows[s].text = ids[s]
      BY <2>3 DEF Linked
    <3>2. status'[s] # status[s] => status'[s] \in {"none", "STOPPED"}
      BY <1>a, <1>1, <3>0 DEF Client, AddMessage, StopSession, EndSession, Shapes
    <3>3. status'[s] \in {"READY", "RUNNING"} =>
             table'[s] = table[s] /\ hist'[s] = hist[s] /\ ids'[s] = ids[s]
      <4>1. ASSUME NEW t \in Seqs, NEW prompt \in Prompts, AddMessage(t, prompt)
            PROVE  s # t /\ table'[s] = table[s] /\ hist'[s] = hist[s] /\ ids'[s] = ids[s]
        BY <1>a, <3>0, <4>1 DEF AddMessage, memVars, Shapes
      <4>2. ASSUME NEW t \in Seqs, StopSession(t)
            PROVE  table'[s] = table[s] /\ hist'[s] = hist[s] /\ ids'[s] = ids[s]
        BY <4>2 DEF StopSession, memVars
      <4>3. ASSUME NEW t \in Seqs, EndSession(t), status'[s] \in {"READY", "RUNNING"}
            PROVE  table'[s] = table[s] /\ hist'[s] = hist[s] /\ ids'[s] = ids[s]
        <5>1. s # t
          BY <1>a, <4>3 DEF EndSession, Shapes
        <5> QED
          BY <1>a, <3>0, <4>3, <5>1 DEF EndSession, ReleasePaging, Shapes
      <4> QED
        BY <1>1, <4>1, <4>2, <4>3 DEF Client
    <3> QED
      BY <2>1, <3>1, <3>2, <3>3
  <2> QED
    BY <2>2, <2>3 DEF Linked
<1>2. CASE PassStep
  BY <1>0, <1>2, <1>a, PassUnstarted
<1>3. CASE Dispatch
  <2>1. PICK kind \in {"prefill", "decode"} :
           /\ Unstarted' = {Forward(kind, turn.batch)}
           /\ kind = "prefill" => \A s \in turn.batch : status[s] = "READY"
           /\ kind = "decode" => \A s \in turn.batch : status[s] = "RUNNING"
    BY <1>3, <1>a, Dispatched
  <2>2. UNCHANGED <<table, hist, ids, status>>
    BY <1>3, <1>a, Dispatched
  <2> DEFINE f == Forward(kind, turn.batch)
  <2>3. /\ DOMAIN f.rows = turn.batch /\ f.kind = kind
        /\ \A s \in turn.batch : /\ f.rows[s].tbl = table[s]
                                 /\ kind = "prefill" => f.rows[s].first = hist[s] /\ f.rows[s].text = ids[s]
    BY DEF Forward
  <2> HIDE DEF f
  <2>4. \A s \in DOMAIN f.rows : status'[s] # "WAITING"
    BY <2>1, <2>2, <2>3
  <2> QED
    BY <2>1, <2>2, <2>3, <2>4 DEF Linked, f
<1>4. CASE Activate
  <2>1. pc \in {"sent", "next"} /\ pc' = "prefetch" /\ queue' = queue
    BY <1>4 DEF Activate
  <2>2. Len(queue) = 1
    BY <1>a, <2>1 DEF Frame, QueueShape
  <2> QED
    BY <1>0, <2>1, <2>2 DEF Unstarted
<1>5. ASSUME NEW tok \in Sampled, NEW stop \in SUBSET Rows1, CollectOutput(tok, stop)
      PROVE  Linked'
  <2>1. Len(queue) = 1 \/ Len(queue) = 2
    BY <1>5, <1>a, Collected, Waits
  <2>2. CASE Len(queue) = 1
    BY <1>0, <1>5, <1>a, <2>2, CollectedLast
  <2>3. CASE Len(queue) = 2
    <3>1. /\ pc' = "next" /\ Unstarted = {queue[2]} /\ Unstarted' = {queue[2]} /\ table' = table
          /\ queue[2] \in ForwardSet
      BY <1>5, <1>a, <2>3, CollectedFirst, Collected
    <3>2. ASSUME NEW s \in DOMAIN queue[2].rows, status'[s] \in {"READY", "RUNNING"}
          PROVE  /\ queue[2].rows[s].tbl = table'[s]
                 /\ queue[2].kind = "prefill" =>
                      queue[2].rows[s].first = hist'[s] /\ queue[2].rows[s].text = ids'[s]
      <4>1. s \in Seqs
        BY <3>1, ForwardRows
      <4>2. status[s] = status'[s]
        BY <1>5, <1>a, <3>2, <4>1, Collected
      <4>3. queue[2].kind = "prefill" => s \notin Applied
        BY <1>a, <3>1, ForwardRows DEF Stepped, Applied, WithStatus
      <4>4. queue[2].kind = "prefill" => hist'[s] = hist[s] /\ ids'[s] = ids[s]
        BY <1>5, <1>a, <4>1, <4>3, Collected
      <4> QED
        BY <3>1, <3>2, <4>2, <4>4 DEF Linked
    <3> QED
      BY <3>1, <3>2 DEF Linked
  <2> QED
    BY <2>1, <2>2, <2>3
<1> QED
  BY <1>1, <1>2, <1>3, <1>4, <1>5, StepKinds

---------------------------------------------------------------------------
(* How much of a text has been computed. *)

LengthsOf(s) ==
    /\ hist[s] <= Len(ids[s]) /\ Computed(s) <= BlockSize * Len(table[s])
    /\ status[s] = "none" => table[s] = <<>> /\ hist[s] = 0
    /\ status[s] = "RUNNING" /\ ~Stepping(s) => hist[s] = Len(ids[s]) - 1

LEMMA LengthsByAll == /\ Lengths <=> \A s \in Seqs : LengthsOf(s)
                      /\ Lengths' <=> \A s \in Seqs : LengthsOf(s)'
<1>1. Lengths <=> \A s \in Seqs : LengthsOf(s)
  BY DEF Lengths, LengthsOf
<1>2. Lengths' <=> \A s \in Seqs : LengthsOf(s)'
  BY DEF Lengths, LengthsOf
<1> QED
  BY <1>1, <1>2

LEMMA LengthTypes ==
    ASSUME ConstantsAssumption, Shapes, NEW s \in Seqs
    PROVE  /\ hist[s] \in Nat /\ Len(ids[s]) \in Nat /\ Len(table[s]) \in Nat
           /\ BlockSize * Len(table[s]) \in Nat /\ Computed(s) \in Nat
<1>1. hist[s] \in Nat /\ Len(ids[s]) \in Nat /\ Len(table[s]) \in Nat /\ BlockSize \in Nat
  BY DEF Shapes, ConstantsAssumption
<1> QED
  BY <1>1 DEF Computed

LEMMA LengthKept ==
    ASSUME ConstantsAssumption, Shapes, Shapes', NEW s \in Seqs, LengthsOf(s),
           ids'[s] = ids[s], hist'[s] = hist[s], Len(table[s]) <= Len(table'[s]),
           \/ status'[s] = status[s] /\ (Stepping(s)' <=> Stepping(s))
           \/ status'[s] \notin {"none", "RUNNING"},
           status'[s] = "none" => table'[s] = table[s]
    PROVE  LengthsOf(s)'
<1>1. /\ hist[s] \in Nat /\ Len(ids[s]) \in Nat /\ Len(table[s]) \in Nat /\ Len(table'[s]) \in Nat
      /\ BlockSize \in Nat
  BY DEF Shapes, ConstantsAssumption
<1>2. /\ BlockSize * Len(table[s]) \in Nat /\ BlockSize * Len(table'[s]) \in Nat
      /\ BlockSize * Len(table[s]) <= BlockSize * Len(table'[s])
  BY <1>1, TimesMono
<1>3. Computed(s)' <= Computed(s) /\ Computed(s) \in Nat /\ Computed(s)' \in Nat
  <2>1. hist[s] <= Len(ids[s])
    BY DEF LengthsOf
  <2>2. Stepping(s)' => Stepping(s)
    BY DEF Stepping
  <2> QED
    BY <1>1, <2>1, <2>2 DEF Computed
<1>4. Computed(s)' <= BlockSize * Len(table'[s])
  <2>1. Computed(s) <= BlockSize * Len(table[s])
    BY DEF LengthsOf
  <2> QED
    BY <1>2, <1>3, <2>1
<1>5. status'[s] = "RUNNING" /\ ~Stepping(s)' => hist'[s] = Len(ids'[s]) - 1
  BY DEF LengthsOf
<1>6. status'[s] = "none" => table'[s] = <<>> /\ hist'[s] = 0
  BY DEF LengthsOf
<1>7. hist'[s] <= Len(ids'[s])
  BY DEF LengthsOf
<1> QED
  BY <1>4, <1>5, <1>6, <1>7 DEF LengthsOf

\* A sequence that has lost its blocks.
LEMMA LengthReleased ==
    ASSUME ConstantsAssumption, Shapes', NEW s \in Seqs, table'[s] = <<>>, hist'[s] = 0,
           status'[s] # "RUNNING"
    PROVE  LengthsOf(s)'
<1>1. Len(ids'[s]) \in Nat /\ BlockSize * 0 = 0 /\ Len(<<>>) = 0
  BY DEF Shapes, ConstantsAssumption
<1>2. Computed(s)' = 0
  BY DEF Computed, Stepping
<1> QED
  BY <1>1, <1>2 DEF LengthsOf

LEMMA SteppingKept ==
    ASSUME NEW s, status'[s] = status[s], UNCHANGED queue
    PROVE  Stepping(s)' <=> Stepping(s)
  BY DEF Stepping, Rows1, Head1

LEMMA ClientLengths ==
    ASSUME ConstantsAssumption, Shapes, Shapes', Lengths, Client
    PROVE  Lengths'
<1>1. queue' = queue
  BY DEF Client, AddMessage, StopSession, EndSession, loopVars
<1>2. ASSUME NEW s \in Seqs PROVE LengthsOf(s)'
  <2>0. LengthsOf(s) /\ Len(table[s]) \in Nat
    BY LengthsByAll DEF Shapes
  <2>1. ASSUME NEW t \in Seqs, NEW prompt \in Prompts, AddMessage(t, prompt) PROVE LengthsOf(s)'
    <3>1. CASE s = t
      <4>1. table'[s] = <<>> /\ hist'[s] = 0 /\ status'[s] # "RUNNING"
        BY <2>0, <2>1, <3>1 DEF AddMessage, memVars, LengthsOf, Shapes
      <4> QED
        BY <4>1, LengthReleased
    <3>2. CASE s # t
      <4>1. /\ ids'[s] = ids[s] /\ hist'[s] = hist[s] /\ table'[s] = table[s] /\ status'[s] = status[s]
        BY <2>1, <3>2 DEF AddMessage, memVars, Shapes
      <4> QED
        BY <1>1, <2>0, <4>1, SteppingKept, LengthKept
    <3> QED
      BY <3>1, <3>2
  <2>2. ASSUME NEW t \in Seqs, StopSession(t) PROVE LengthsOf(s)'
    <3>1. /\ ids'[s] = ids[s] /\ hist'[s] = hist[s] /\ table'[s] = table[s]
          /\ status'[s] = status[s] \/ status'[s] = "STOPPED"
      BY <2>2 DEF StopSession, memVars, Shapes
    <3> QED
      BY <1>1, <2>0, <3>1, SteppingKept, LengthKept
  <2>3. ASSUME NEW t \in Seqs, EndSession(t) PROVE LengthsOf(s)'
    <3>1. CASE s = t
      <4>1. table'[s] = <<>> /\ hist'[s] = 0 /\ status'[s] # "RUNNING"
        BY <2>3, <3>1 DEF EndSession, ReleasePaging, Shapes
      <4> QED
        BY <4>1, LengthReleased
    <3>2. CASE s # t
      <4>1. /\ ids'[s] = ids[s] /\ hist'[s] = hist[s] /\ table'[s] = table[s] /\ status'[s] = status[s]
        BY <2>3, <3>2 DEF EndSession, ReleasePaging, Shapes
      <4> QED
        BY <1>1, <2>0, <4>1, SteppingKept, LengthKept
    <3> QED
      BY <3>1, <3>2
  <2> QED
    BY <2>1, <2>2, <2>3 DEF Client
<1> QED
  BY <1>2, LengthsByAll

\* What a pass does to the status of a sequence.
LEMMA PassStatusOf ==
    ASSUME Frame, PassStep, NEW s \in Seqs
    PROVE  /\ status'[s] = status[s] \/ status'[s] \in {"READY", "WAITING"}
           /\ status[s] \in {"none", "STOPPED"} => status'[s] = status[s]
           /\ s # turn.cand => status'[s] = status[s]
           /\ status'[s] = "RUNNING" => status[s] = "RUNNING"
  BY PassStatus DEF Frame, Shapes

LEMMA PassLengths ==
    ASSUME ConstantsAssumption, Core, Frame', CursorHeld', MatchAligned, Lengths, PassStep
    PROVE  Lengths'
<1>a. Frame /\ Shapes /\ Shapes' /\ Control /\ CursorHeld
  BY DEF Core, Frame
<1>1. UNCHANGED <<queue, ids>>
  BY PassMemory
<1>2. ASSUME NEW s \in Seqs, hist'[s] = hist[s], Len(table[s]) <= Len(table'[s]),
             status'[s] = "none" => table'[s] = table[s]
      PROVE  LengthsOf(s)'
  <2>1. LengthsOf(s) /\ ids'[s] = ids[s]
    BY <1>1, LengthsByAll
  <2>2. \/ status'[s] = status[s] /\ (Stepping(s)' <=> Stepping(s))
        \/ status'[s] \notin {"none", "RUNNING"}
    BY <1>a, <1>1, PassStatusOf, SteppingKept
  <2> QED
    BY <1>a, <1>2, <2>1, <2>2, LengthKept
<1>3. ASSUME NEW s \in Seqs, hist'[s] = hist[s], table'[s] = table[s]
      PROVE  LengthsOf(s)'
  <2>1. Len(table[s]) \in Nat
    BY <1>a DEF Shapes
  <2> QED
    BY <1>2, <1>3, <2>1
<1>4. CASE MemoryKept
  BY <1>3, <1>4, LengthsByAll DEF MemoryKept
<1>5. ASSUME NEW v \in Seqs, ReleasePaging(v), status[v] \in {"WAITING", "STOPPED"}
      PROVE  Lengths'
  <2>1. /\ table'[v] = <<>> /\ hist'[v] = 0
        /\ \A s \in Seqs \ {v} : table'[s] = table[s] /\ hist'[s] = hist[s]
    BY <1>a, <1>5 DEF ReleasePaging, Shapes
  <2>2. status'[v] # "RUNNING"
    BY <1>a, <1>5, PassStatusOf
  <2>3. LengthsOf(v)'
    BY <1>a, <2>1, <2>2, LengthReleased
  <2> QED
    BY <1>3, <2>1, <2>3, LengthsByAll
<1>6. CASE MatchBlock
  <2>0. PICK s, k, b : s = turn.cand /\ k = cursor[s] + 1 /\ b = trie[NextPath(s)]
    OBVIOUS
  <2>1. /\ pc = "match" /\ turn.lane = "prefill" /\ CanMatch(s) /\ UNCHANGED status
        /\ table' = [table EXCEPT ![s] = Append(table[s], b)]
        /\ hist' = [hist EXCEPT ![s] = k * BlockSize]
    BY <1>a, <1>6, <2>0 DEF MatchBlock, Control
  <2>2. s \in Seqs /\ status[s] = "WAITING"
    BY <1>a, <2>0, <2>1 DEF Control, Candidate
  <2>3. Len(table[s]) = cursor[s] /\ NextPath(s) \in DOMAIN trie /\ k * BlockSize < Len(ids[s])
    BY <2>0, <2>1 DEF MatchAligned, CanMatch
  <2>4. table[s] \in Seq(Blocks) /\ cursor[s] \in Nat /\ b \in Blocks
    BY <1>a, <2>0, <2>2, <2>3 DEF Shapes, CursorHeld
  <2>5. /\ table'[s] = Append(table[s], b) /\ hist'[s] = k * BlockSize
        /\ \A t \in Seqs \ {s} : table'[t] = table[t] /\ hist'[t] = hist[t]
    BY <1>a, <2>1, <2>2 DEF Shapes
  <2>6. Len(table'[s]) = k /\ k \in Nat
    BY <2>0, <2>3, <2>4, <2>5
  <2>7. k * BlockSize = BlockSize * k /\ k * BlockSize \in Nat /\ Len(ids[s]) \in Nat
    <3>1. BlockSize \in Nat
      BY DEF ConstantsAssumption
    <3>2. Len(ids[s]) \in Nat
      BY <1>a, <2>2 DEF Shapes
    <3> QED
      BY <2>6, <3>1, <3>2
  <2>8. status'[s] = "WAITING" /\ Computed(s)' = k * BlockSize
    BY <2>1, <2>2, <2>5 DEF Computed, Stepping
  <2>9. LengthsOf(s)'
    <3>1. hist'[s] <= Len(ids'[s])
      BY <1>1, <2>3, <2>5, <2>7
    <3>2. Computed(s)' <= BlockSize * Len(table'[s])
      BY <2>6, <2>7, <2>8
    <3> QED
      BY <2>8, <3>1, <3>2 DEF LengthsOf
  <2>10. \A t \in Seqs \ {s} : LengthsOf(t)'
    BY <1>3, <2>5
  <2> QED
    BY <2>9, <2>10, LengthsByAll
<1>7. ASSUME NEW p, EvictLeaf(p) PROVE Lengths'
  <2>1. UNCHANGED <<table, hist>>
    BY <1>7 DEF EvictLeaf, seqVars
  <2> QED
    BY <1>3, <2>1, LengthsByAll
<1>8. ASSUME NEW b \in Blocks, AllocateBlock(b) PROVE Lengths'
  <2>1. /\ pc = "alloc" /\ UNCHANGED <<hist, status>>
        /\ table' = [table EXCEPT ![turn.cand] = Append(table[turn.cand], b)]
    BY <1>8 DEF AllocateBlock, seqVars
  <2>2. turn.cand \in Seqs /\ status[turn.cand] # "none"
    BY <1>a, <2>1 DEF Control, Candidate
  <2>3. ASSUME NEW s \in Seqs
        PROVE  Len(table[s]) <= Len(table'[s]) /\ (s # turn.cand => table'[s] = table[s])
    <3>1. table[s] \in Seq(Blocks)
      BY <1>a DEF Shapes
    <3>2. table'[s] = table[s] \/ table'[s] = Append(table[s], b)
      BY <1>a, <2>1, <2>2 DEF Shapes
    <3> QED
      BY <1>a, <2>1, <2>2, <3>1, <3>2, SMTT(30) DEF Shapes
  <2> QED
    BY <1>2, <2>1, <2>2, <2>3, LengthsByAll
<1>9. CASE PublishNew
  <2>1. UNCHANGED <<table, hist>>
    BY <1>9 DEF PublishNew, seqVars
  <2> QED
    BY <1>3, <2>1, LengthsByAll
<1>10. CASE PublishShared
  <2> DEFINE s == turn.cand
             k == cursor[s] + 1
  <2>1. UNCHANGED <<hist, status>>
    BY <1>10 DEF PublishShared, seqVars
  <2>2. s \in Seqs /\ status[s] # "none"
    BY <1>10, <1>a, PublishSlot
  <2>3. Len(table'[s]) = Len(table[s]) /\ \A t \in Seqs \ {s} : table'[t] = table[t]
    BY <1>10, <1>a, SharedTable
  <2> HIDE DEF s, k
  <2>4. \A t \in Seqs : Len(table[t]) <= Len(table'[t])
    <3>1. \A t \in Seqs : Len(table[t]) \in Nat
      BY <1>a DEF Shapes
    <3> QED
      BY <2>3, <3>1
  <2> QED
    BY <1>2, <2>1, <2>2, <2>3, <2>4, LengthsByAll
<1> QED
  BY <1>4, <1>5, <1>6, <1>7, <1>8, <1>9, <1>10, PassMemory

\* A dispatched forward joins the queue behind the one that executes.
LEMMA DispatchedHead ==
    ASSUME Frame, Stepped, Reserved, Dispatch
    PROVE  /\ queue # <<>> => /\ Len(queue) = 1 /\ Len(queue') = 2 /\ queue' # <<>>
                              /\ Head1' = Head1 /\ Rows1' = Rows1 /\ DOMAIN queue' = 1..2
                              /\ \E kind \in {"prefill", "decode"} : queue'[2] = Forward(kind, turn.batch)
                              /\ \A s : DeviceText(s)' = DeviceText(s)
           /\ queue = <<>> => Running = {}
           /\ Running' = Running
           /\ \A s \in Seqs : Stepping(s)' <=> Stepping(s)
<1>1. PICK kind \in {"prefill", "decode"} :
           /\ queue' = Append(queue, Forward(kind, turn.batch))
           /\ Forward(kind, turn.batch) \in ForwardSet
  BY Dispatched
<1>2. UNCHANGED <<ids, status, wtext>> /\ Len(queue) \in 0..1 /\ queue \in Seq(ForwardSet)
  BY Dispatched
<1>3. Running' = Running /\ (queue = <<>> => Running = {})
  BY <1>2 DEF Running, WithStatus, Stepped
<1>4. CASE queue = <<>>
  BY <1>2, <1>3, <1>4 DEF Stepping, Running, WithStatus
<1>5. CASE queue # <<>>
  <2>1. Len(queue) = 1
    BY <1>2, <1>5, EmptySeq
  <2> DEFINE f == Forward(kind, turn.batch)
  <2> HIDE DEF f
  <2>2. Len(queue') = 2 /\ queue' # <<>> /\ queue'[1] = queue[1] /\ queue'[2] = f /\ DOMAIN queue' = 1..2
    BY <1>1, <1>2, <2>1, QueueAppended DEF f
  <2>3. Head1' = Head1 /\ Rows1' = Rows1
    BY <2>2 DEF Head1, Rows1
  <2>4. \A s : DeviceText(s)' = DeviceText(s)
    BY <1>2, <1>5, <2>2, <2>3 DEF DeviceText, RowText
  <2>5. \A s \in Seqs : Stepping(s)' <=> Stepping(s)
    BY <1>2, <1>5, <2>2, <2>3 DEF Stepping
  <2> QED
    BY <1>3, <1>5, <2>1, <2>2, <2>3, <2>4, <2>5 DEF f
<1> QED
  BY <1>4, <1>5

\* Whoever is ready when the head is activated has a row of it with its text.
LEMMA Activated ==
    ASSUME Core, Linked, Activate
    PROVE  /\ pc \in {"sent", "next"} /\ pc' = "prefetch" /\ Len(queue) = 1 /\ queue # <<>>
           /\ UNCHANGED <<table, trie, cursor, hist, ids, queue, kv, wtext>>
           /\ Unstarted = {Head1} /\ Unstarted' = {}
           /\ \A s \in Seqs :
                IF status[s] = "READY"
                  THEN /\ status'[s] = "RUNNING" /\ s \in Rows1 /\ Head1.kind = "prefill"
                       /\ RowText(Head1, s) = ids[s] /\ Head1.rows[s].tbl = table[s]
                       /\ Head1.rows[s].text = ids[s]
                  ELSE status'[s] = status[s]
<1>a. Frame /\ ReadySent
  BY DEF Core, Flow
<1>1. /\ pc \in {"sent", "next"} /\ pc' = "prefetch"
      /\ UNCHANGED <<table, trie, cursor, hist, ids, queue, kv, wtext>>
      /\ status' = [s \in Seqs |-> IF s \in Rows1 /\ status[s] = "READY" THEN "RUNNING" ELSE status[s]]
  BY DEF Activate, memVars, devVars
<1>2. Len(queue) = 1
  BY <1>1, <1>a DEF Frame, QueueShape
<1>3. queue # <<>>
  BY <1>2
<1>4. Unstarted = {Head1} /\ Unstarted' = {} /\ pc \notin Passing
  BY <1>1, <1>2 DEF Unstarted, Head1, Passing, Candidate
<1>5. ASSUME NEW s \in Seqs, status[s] = "READY"
      PROVE  /\ status'[s] = "RUNNING" /\ s \in Rows1 /\ Head1.kind = "prefill"
             /\ RowText(Head1, s) = ids[s] /\ Head1.rows[s].tbl = table[s]
             /\ Head1.rows[s].text = ids[s]
  <2>1. s \in Rows1 /\ Head1.kind = "prefill" /\ Head1.rows[s].text = ids[s]
    BY <1>a, <1>4, <1>5 DEF ReadySent, WithStatus, Rows1
  <2>2. Head1.rows[s].tbl = table[s]
    BY <1>4, <1>5, <2>1 DEF Linked, Rows1
  <2> QED
    BY <1>1, <1>5, <2>1, <2>2 DEF RowText
<1> QED
  BY <1>1, <1>2, <1>3, <1>4, <1>5

\* Output that has been collected is what had been computed.
LEMMA CollectedHistory ==
    ASSUME Frame, NEW tok \in Sampled, NEW stop \in SUBSET Rows1, CollectOutput(tok, stop),
           NEW s \in Seqs
    PROVE  hist'[s] = Computed(s)
<1>1. queue # <<>>
  <2>1. Len(queue) = 1 \/ Len(queue) = 2
    BY Collected, Waits
  <2> QED
    BY <2>1
<1>2. s \in Applied <=> Stepping(s)
  BY <1>1 DEF Applied, Stepping, WithStatus
<1> QED
  BY <1>2, Collected DEF Computed

LEMMA NextLengths ==
    ASSUME ConstantsAssumption, Core, Frame', CursorHeld', MatchAligned, Linked, Lengths, Next
    PROVE  Lengths'
<1>a. Frame /\ Shapes /\ Shapes' /\ Flow
  BY DEF Core, Frame
<1>b. Stepped /\ Reserved /\ ReadySent /\ TextInStep /\ RowsFit
  BY <1>a DEF Flow
<1>1. CASE Dispatch
  <2>1. UNCHANGED <<table, hist, ids, status>> /\ \A s \in Seqs : Stepping(s)' <=> Stepping(s)
    BY <1>1, <1>a, <1>b, Dispatched, DispatchedHead
  <2> QED
    BY <2>1 DEF Lengths, Computed
<1>2. CASE Activate
  <2> SUFFICES ASSUME NEW s \in Seqs PROVE LengthsOf(s)'
    BY LengthsByAll
  <2>1. LengthsOf(s) /\ UNCHANGED <<table, hist, ids, queue>> /\ Len(queue) = 1 /\ queue # <<>>
    BY <1>2, Activated, LengthsByAll
  <2>2. CASE status[s] = "READY"
    <3>1. /\ status'[s] = "RUNNING" /\ s \in Rows1 /\ Head1.kind = "prefill"
          /\ Head1.rows[s].tbl = table[s] /\ Head1.rows[s].text = ids[s]
      BY <1>2, <2>2, Activated
    <3>2. 1 \in DOMAIN queue /\ PrefillsFit
      BY <1>a, <1>b, <2>1, HeadTyped, FitParts
    <3>3. Len(ids[s]) <= BlockSize * Len(table[s])
      BY <3>1, <3>2 DEF PrefillsFit, Head1, Rows1
    <3>4. Stepping(s)'
      BY <2>1, <3>1 DEF Stepping, Rows1, Head1
    <3> QED
      BY <2>1, <3>1, <3>3, <3>4 DEF LengthsOf, Computed
  <2>3. CASE status[s] # "READY"
    <3>1. status'[s] = status[s] /\ Len(table[s]) \in Nat
      BY <1>2, <1>a, <2>3, Activated DEF Shapes
    <3> QED
      BY <1>a, <2>1, <3>1, SteppingKept, LengthKept
  <2> QED
    BY <2>2, <2>3
<1>3. ASSUME NEW tok \in Sampled, NEW stop \in SUBSET Rows1, CollectOutput(tok, stop)
      PROVE  Lengths'
  <2> SUFFICES ASSUME NEW s \in Seqs PROVE LengthsOf(s)'
    BY LengthsByAll
  <2>0. LengthsOf(s) /\ table' = table /\ Len(table[s]) \in Nat
    BY <1>3, <1>a, LengthsByAll, Collected DEF Shapes
  <2>1. CASE Len(queue) = 1
    <3>1. hist'[s] = hist[s] /\ ids'[s] = ids[s] /\ status'[s] = status[s] /\ queue' = <<>> /\ Running = {}
      BY <1>3, <1>a, <1>b, <2>1, CollectedLast
    <3>2. ~Stepping(s)' /\ ~Stepping(s)
      BY <3>1 DEF Stepping, Running, WithStatus
    <3> QED
      BY <1>a, <2>0, <3>1, <3>2, LengthKept
  <2>2. CASE Len(queue) = 2
    <3>1. /\ queue # <<>> /\ queue' # <<>> /\ Head1' = queue[2] /\ Rows1' = DOMAIN queue[2].rows
          /\ Unstarted = {queue[2]}
      BY <1>3, <1>a, <2>2, CollectedFirst
    <3>2. /\ s \in Applied => hist'[s] = Len(ids[s]) /\ ids'[s] = Append(ids[s], tok[s]) /\ tok[s] \in Tokens
          /\ s \notin Applied => hist'[s] = hist[s] /\ ids'[s] = ids[s]
          /\ status'[s] = "RUNNING" => status[s] = "RUNNING"
          /\ status'[s] = "none" => status[s] = "none"
      BY <1>3, <1>a, Collected
    <3>3. /\ hist[s] \in Nat /\ Len(ids[s]) \in Nat /\ BlockSize * Len(table[s]) \in Nat
          /\ Computed(s) \in Nat /\ ids[s] \in Seq(Tokens)
      BY <1>a, LengthTypes DEF Shapes
    <3>4. hist'[s] = Computed(s)
      BY <1>3, <1>a, CollectedHistory
    <3>5. s \in Applied => Len(ids'[s]) = Len(ids[s]) + 1
      BY <3>2, <3>3
    <3>6. hist'[s] <= Len(ids'[s]) /\ hist'[s] <= BlockSize * Len(table'[s])
      BY <2>0, <3>2, <3>3, <3>4, <3>5 DEF LengthsOf
    <3>7. status'[s] = "none" => table'[s] = <<>> /\ hist'[s] = 0
      <4>1. status[s] = "none" => s \notin Applied
        BY DEF Applied, WithStatus
      <4> QED
        BY <2>0, <3>2, <4>1 DEF LengthsOf
    <3>8. ASSUME status'[s] = "RUNNING", ~Stepping(s)' PROVE hist'[s] = Len(ids'[s]) - 1
      <4>1. CASE s \in Applied
        BY <3>2, <3>3, <3>5, <4>1
      <4>2. CASE s \notin Applied
        <5>1. status[s] = "RUNNING" /\ ~Stepping(s)
          BY <3>1, <3>2, <3>8, <4>2 DEF Applied, Stepping, WithStatus
        <5> QED
          BY <2>0, <3>2, <4>2, <5>1 DEF LengthsOf
      <4> QED
        BY <4>1, <4>2
    <3>9. ASSUME Stepping(s)' PROVE Len(ids'[s]) <= BlockSize * Len(table'[s])
      <4>1. status[s] = "RUNNING" /\ s \in DOMAIN queue[2].rows
        BY <3>1, <3>2, <3>9 DEF Stepping
      <4>2. queue[2].kind = "decode"
        <5>1. s \in Running
          BY <4>1 DEF Running, WithStatus
        <5>2. queue[2].kind # "decode" => Running \cap DOMAIN queue[2].rows = {}
          BY <1>b, <3>1 DEF Stepped, Running
        <5>3. queue[2].kind \in {"prefill", "decode"}
          BY <1>a, <1>3, <2>2, CollectedFirst, ForwardRows
        <5> QED
          BY <4>1, <5>1, <5>2, <5>3
      <4>3. queue[2].rows[s].tbl = table[s]
        BY <3>1, <4>1 DEF Linked
      <4>4. DeviceText(s) = ids[s]
        BY <1>b, <4>1 DEF TextInStep, WithStatus
      <4>5. NextFits
        BY <1>b, FitParts
      <4>6. IF s \in Rows1 THEN Len(ids[s]) + 1 <= BlockSize * Len(table[s])
                           ELSE Len(ids[s]) <= BlockSize * Len(table[s])
        BY <2>2, <4>1, <4>2, <4>3, <4>4, <4>5 DEF NextFits
      <4>7. s \in Applied <=> s \in Rows1
        BY <4>1 DEF Applied, WithStatus
      <4> QED
        BY <2>0, <3>2, <3>5, <4>6, <4>7
    <3>10. Computed(s)' <= BlockSize * Len(table'[s])
      BY <3>6, <3>9 DEF Computed
    <3> QED
      BY <3>6, <3>7, <3>8, <3>10 DEF LengthsOf
  <2> QED
    BY <1>3, <1>a, <2>1, <2>2, Collected, Waits
<1> QED
  BY <1>a, <1>1, <1>2, <1>3, StepKinds, ClientLengths, PassLengths

---------------------------------------------------------------------------
(* The rows of the forward sent last, the tables and the trie. *)

LEMMA AgreeGrown ==
    ASSUME NEW S, NEW x \in Seq(S), NEW y \in Seq(S), NEW a \in S, NEW n \in Nat, Agree(x, y, n)
    PROVE  Agree(Append(x, a), y, n)
<1>1. n <= Len(x) /\ Agree(y, x, n) /\ Append(x, a) \in Seq(S)
  BY DEF Agree
<1>2. Agree(Append(x, a), x, n)
  BY <1>1, AgreeAppended
<1> QED
  BY <1>1, <1>2, AgreeWith

LEMMA FlightTyped ==
    ASSUME Frame, NEW f \in ForwardSet, NEW s \in DOMAIN f.rows
    PROVE  /\ s \in Seqs /\ f.kind \in {"prefill", "decode"} /\ f.rows[s].tbl \in Seq(Blocks)
           /\ f.rows[s].first \in Nat
           /\ FlightText(f, s) \in Seq(Tokens) /\ DeviceText(s) \in Seq(Tokens)
<1>1. f.rows[s] \in Row /\ s \in Seqs /\ f.kind \in {"prefill", "decode"}
  BY ForwardRows
<1>2. DeviceText(s) \in Seq(Tokens)
  <2>1. CASE queue # <<>> /\ s \in Rows1
    BY <2>1, HeadTyped DEF DeviceText
  <2>2. CASE ~(queue # <<>> /\ s \in Rows1)
    BY <1>1, <2>2 DEF DeviceText, Frame, Shapes
  <2> QED
    BY <2>1, <2>2
<1> QED
  BY <1>1, <1>2 DEF FlightText, Row

\* The node whose block a table names is the table's text down to it.
LEMMA SlotNode ==
    ASSUME ConstantsAssumption, Shapes, Rooted, CursorHeld, Sharing, NEW s \in Seqs,
           NEW k \in DOMAIN table[s], NEW p \in DOMAIN trie, trie[p] = table[s][k]
    PROVE  /\ k <= cursor[s] /\ p = Prefix(s, k) /\ Len(p) = k * BlockSize
           /\ Agree(ids[s], p, Len(p)) /\ p \in Seq(Tokens) /\ Len(p) \in Nat
<1>1. cursor[s] \in 0..Len(table[s]) /\ k \in 1..Len(table[s]) /\ Len(table[s]) \in Nat
  BY DEF CursorHeld, Shapes
<1>2. k <= cursor[s]
  <2>1. SUFFICES ASSUME k \in (cursor[s] + 1)..Len(table[s]) PROVE FALSE
    BY <1>1
  <2> QED
    BY <2>1, SharingParts DEF Private, Alone
<1>3. k \in 1..cursor[s] /\ k \in Nat /\ cursor[s] \in Nat
  BY <1>1, <1>2
<1>4. p = Prefix(s, k)
  <2>1. Prefix(s, k) \in DOMAIN trie /\ trie[Prefix(s, k)] = table[s][k]
    BY <1>3 DEF CursorHeld
  <2> QED
    BY <2>1, SharingParts DEF NodesDistinct
<1>5. k * BlockSize <= Len(ids[s]) /\ k * BlockSize \in Nat
  <2>1. k * BlockSize \in Nat /\ k * BlockSize <= cursor[s] * BlockSize
    BY <1>2, <1>3, BlocksMono DEF ConstantsAssumption
  <2>2. cursor[s] * BlockSize <= Len(ids[s]) /\ cursor[s] * BlockSize \in Nat /\ Len(ids[s]) \in Nat
    BY <1>3, BlocksMono, SMTT(30) DEF ConstantsAssumption, Rooted, Shapes
  <2> QED
    BY <2>1, <2>2
<1>6. Prefix(s, k) \in Seq(Tokens) /\ Len(Prefix(s, k)) = k * BlockSize
  BY <1>3, <1>5, PrefixTyped
<1>7. Agree(ids[s], Prefix(s, k), k * BlockSize)
  BY <1>5, AgreeSelf DEF Prefix, Shapes
<1> QED
  BY <1>2, <1>4, <1>5, <1>6, <1>7

LEMMA FlightSame ==
    ASSUME NEW f, NEW s, DeviceText(s)' = DeviceText(s)
    PROVE  FlightText(f, s)' = FlightText(f, s)
  BY DEF FlightText

LEMMA DeviceTextKept ==
    ASSUME UNCHANGED <<queue, wtext>>, NEW s
    PROVE  DeviceText(s)' = DeviceText(s)
  BY DEF DeviceText, RowText, Rows1, Head1

\* A dispatched forward computes the texts of its rows, each from where the
\* blocks of its table stop holding it.
LEMMA DispatchedFlight ==
    ASSUME ConstantsAssumption, Core, Lengths, Dispatch,
           NEW kind \in {"prefill", "decode"}, NEW f, f = Forward(kind, turn.batch),
           queue' = Append(queue, f), NEW s \in turn.batch,
           NEW i, i = Len(queue) + 1
    PROVE  /\ s \in Seqs /\ s \in DOMAIN f.rows /\ f.rows[s].tbl = table[s] /\ queue'[i] = f
           /\ status[s] \in {"READY", "RUNNING"}
           /\ FlightText(f, s)' = ids[s]
           /\ FlightFirst(i, s)' = Computed(s)
<1>a. Frame /\ Shapes /\ Stepped /\ Reserved /\ TextInStep
  BY DEF Core, Frame, Flow
<1>1. /\ UNCHANGED <<ids, status, hist>> /\ Len(queue) \in 0..1 /\ queue \in Seq(ForwardSet)
      /\ s \in Seqs
  BY <1>a, Dispatched
<1>2. PICK k2 \in {"prefill", "decode"} :
        /\ queue' = Append(queue, Forward(k2, turn.batch)) /\ Forward(k2, turn.batch) \in ForwardSet
        /\ k2 = "prefill" => status[s] = "READY"
        /\ k2 = "decode" => queue # <<>> /\ status[s] = "RUNNING"
  BY <1>a, Dispatched
<1>3. queue'[i] = f /\ f = Forward(k2, turn.batch)
  <2> DEFINE g == Forward(k2, turn.batch)
  <2> HIDE DEF g
  <2>1. queue'[Len(queue) + 1] = g
    BY <1>1, <1>2 DEF g
  <2>2. queue'[Len(queue) + 1] = f
    BY <1>1
  <2> QED
    BY <2>1, <2>2 DEF g
<1>4. f.kind = kind /\ f.kind = k2
  BY <1>3 DEF Forward
<1>5. /\ s \in DOMAIN f.rows /\ f.rows[s].tbl = table[s]
      /\ kind = "prefill" => f.rows[s].first = hist[s] /\ f.rows[s].text = ids[s]
  BY DEF Forward
<1>6. CASE kind = "prefill"
  <2>1. FlightText(f, s)' = ids[s] /\ FlightFirst(i, s)' = hist[s]
    <3>1. queue'[i].kind = "prefill" /\ f.kind = "prefill"
      BY <1>3, <1>4, <1>6
    <3>2. FlightText(f, s)' = f.rows[s].text
      BY <3>1 DEF FlightText
    <3>3. FlightFirst(i, s)' = queue'[i].rows[s].first
      BY <3>1 DEF FlightFirst
    <3> QED
      BY <1>3, <1>5, <1>6, <3>2, <3>3
  <2>2. status[s] = "READY" /\ Computed(s) = hist[s]
    BY <1>2, <1>4, <1>6 DEF Computed, Stepping
  <2> QED
    BY <1>1, <1>3, <1>5, <2>1, <2>2
<1>7. CASE kind = "decode"
  <2>1. queue # <<>> /\ status[s] = "RUNNING" /\ i = 2
    <3>1. queue # <<>> /\ status[s] = "RUNNING"
      BY <1>2, <1>4, <1>7
    <3>2. Len(queue) = 1
      BY <1>1, <3>1, EmptySeq
    <3> QED
      BY <3>1, <3>2
  <2>2. DeviceText(s)' = ids[s] /\ Rows1' = Rows1
    <3>1. DeviceText(s)' = DeviceText(s) /\ Rows1' = Rows1
      BY <1>a, <2>1, DispatchedHead
    <3> QED
      BY <1>1, <1>a, <2>1, <3>1 DEF TextInStep, WithStatus
  <2>3. FlightText(f, s)' = ids[s]
    BY <1>4, <1>7, <2>2 DEF FlightText
  <2>4. FlightFirst(i, s)' = IF s \in Rows1 THEN Len(ids[s]) ELSE Len(ids[s]) - 1
    BY <1>3, <1>4, <1>7, <2>1, <2>2 DEF FlightFirst
  <2>5. Computed(s) = IF s \in Rows1 THEN Len(ids[s]) ELSE Len(ids[s]) - 1
    <3>1. CASE s \in Rows1
      BY <2>1, <3>1 DEF Computed, Stepping
    <3>2. CASE s \notin Rows1
      BY <1>1, <2>1, <3>2 DEF Computed, Stepping, Lengths
    <3> QED
      BY <3>1, <3>2
  <2> QED
    BY <1>1, <1>3, <1>5, <2>1, <2>3, <2>4, <2>5
<1> QED
  BY <1>6, <1>7

LEMMA NextPlaced ==
    ASSUME ConstantsAssumption, Core, Frame', Sharing, Lengths, Linked, Placed, Next
    PROVE  Placed'
<1>a. Frame /\ Shapes /\ Flow /\ Rooted /\ CursorHeld /\ Stepped /\ Reserved /\ ReadySent
  BY DEF Core, Frame, Flow
<1>0. ASSUME Unstarted' = {} PROVE Placed'
  BY <1>0 DEF Placed
<1>1. CASE Client
  <2>1. UNCHANGED <<queue, wtext, pc, trie>>
    BY <1>1 DEF Client, AddMessage, StopSession, EndSession, loopVars, devVars, memVars, ReleasePaging
  <2>2. Unstarted' = Unstarted
    BY <2>1 DEF Unstarted
  <2>3. ASSUME NEW t \in Live', NEW j \in (cursor'[t] + 1)..Len(table'[t])
        PROVE  t \in Live /\ j \in (cursor[t] + 1)..Len(table[t]) /\ table'[t][j] = table[t][j]
    <3>0. t \in Seqs
      BY DEF Live, Active, WithStatus
    <3>1. ASSUME NEW u \in Seqs, NEW prompt \in Prompts, AddMessage(u, prompt) PROVE t # u
      <4>1. table'[u] = <<>> /\ cursor'[u] \in Nat
        BY <1>a, <3>1 DEF AddMessage, memVars, Lengths, CursorHeld
      <4> QED
        BY <4>1
    <3>2. ASSUME NEW u \in Seqs, StopSession(u) PROVE t # u
      BY <1>a, <3>2 DEF StopSession, Live, Active, WithStatus, Shapes
    <3>3. ASSUME NEW u \in Seqs, EndSession(u) PROVE t # u
      BY <1>a, <3>3 DEF EndSession, Live, Active, WithStatus, Shapes
    <3>4. PICK u \in Seqs : (\E prompt \in Prompts : AddMessage(u, prompt)) \/ StopSession(u) \/ EndSession(u)
      BY <1>1 DEF Client
    <3>5. t # u
      BY <3>1, <3>2, <3>3, <3>4
    <3>6. table'[t] = table[t] /\ cursor'[t] = cursor[t] /\ status'[t] = status[t]
      BY <1>a, <3>0, <3>4, <3>5
         DEF AddMessage, StopSession, EndSession, ReleasePaging, memVars, Shapes
    <3> QED
      BY <3>0, <3>6 DEF Live, Active, WithStatus
  <2>4. \A f, s : FlightText(f, s)' = FlightText(f, s)
    BY <2>1, DeviceTextKept, FlightSame
  <2> QED
    BY <2>1, <2>2, <2>3, <2>4 DEF Placed
<1>2. CASE PassStep
  BY <1>0, <1>2, <1>a, PassUnstarted
<1>3. CASE Dispatch
  <2>1. PICK kind \in {"prefill", "decode"} :
           /\ queue' = Append(queue, Forward(kind, turn.batch)) /\ Unstarted' = {Forward(kind, turn.batch)}
    BY <1>3, <1>a, Dispatched
  <2>2. PICK f : f = Forward(kind, turn.batch)
    OBVIOUS
  <2>3. UNCHANGED <<table, trie, cursor, status>> /\ Live' = Live
    BY <1>3, <1>a, Dispatched DEF Live, Active, WithStatus
  <2>4. DOMAIN f.rows = turn.batch
    BY <2>2 DEF Forward
  <2>5. ASSUME NEW s \in DOMAIN f.rows
        PROVE  s \in Seqs /\ f.rows[s].tbl = table[s] /\ FlightText(f, s)' = ids[s]
    BY <1>3, <2>1, <2>2, <2>4, DispatchedFlight
  <2>6. ASSUME NEW s \in DOMAIN f.rows, NEW k \in DOMAIN f.rows[s].tbl, NEW p \in DOMAIN trie,
               trie[p] = f.rows[s].tbl[k]
        PROVE  Len(p) = k * BlockSize /\ Agree(FlightText(f, s)', p, Len(p))
    <3>1. s \in Seqs /\ k \in DOMAIN table[s] /\ trie[p] = table[s][k] /\ FlightText(f, s)' = ids[s]
      BY <2>5, <2>6
    <3> QED
      BY <1>a, <3>1, SlotNode
  <2>7. ASSUME NEW s \in DOMAIN f.rows, NEW k \in DOMAIN f.rows[s].tbl, NEW t \in Live,
               NEW j \in (cursor[t] + 1)..Len(table[t]), table[t][j] = f.rows[s].tbl[k]
        PROVE  t = s /\ j = k
    <3>1. s \in Seqs /\ k \in DOMAIN table[s] /\ table[s][k] = table[t][j] /\ t \in Seqs
      BY <2>5, <2>7 DEF Live, Active, WithStatus
    <3>2. Alone(t, j)
      BY <3>1, SharingParts DEF Private
    <3> QED
      BY <3>1, <3>2 DEF Alone
  <2> QED
    BY <2>1, <2>2, <2>3, <2>6, <2>7 DEF Placed, Agree
<1>4. CASE Activate
  BY <1>0, <1>4, Activated
<1>5. ASSUME NEW tok \in Sampled, NEW stop \in SUBSET Rows1, CollectOutput(tok, stop)
      PROVE  Placed'
  <2>1. Len(queue) = 1 \/ Len(queue) = 2
    BY <1>5, <1>a, Collected, Waits
  <2>2. CASE Len(queue) = 1
    BY <1>0, <1>5, <1>a, <2>2, CollectedLast
  <2>3. CASE Len(queue) = 2
    <3>1. PICK f : f = queue[2]
      OBVIOUS
    <3>2. /\ Unstarted = {f} /\ Unstarted' = {f} /\ f \in ForwardSet
          /\ \A s \in DOMAIN f.rows :
                IF f.kind = "decode" /\ s \in Rows1
                  THEN tok[s] \in Tokens /\ FlightText(f, s)' = Append(FlightText(f, s), tok[s])
                  ELSE FlightText(f, s)' = FlightText(f, s)
      BY <1>5, <1>a, <2>3, <3>1, CollectedFirst
    <3>3. UNCHANGED <<table, trie, cursor>> /\ Live' \subseteq Live
      BY <1>5, <1>a, Collected DEF Live, Active, WithStatus
    <3>4. ASSUME NEW s \in DOMAIN f.rows, NEW k \in DOMAIN f.rows[s].tbl, NEW p \in DOMAIN trie,
                 trie[p] = f.rows[s].tbl[k]
          PROVE  Agree(FlightText(f, s)', p, Len(p))
      <4>1. Agree(FlightText(f, s), p, Len(p))
        BY <3>2, <3>4 DEF Placed
      <4>2. p \in Seq(Tokens) /\ Len(p) \in Nat /\ FlightText(f, s) \in Seq(Tokens)
        BY <1>a, <3>2, FlightTyped DEF Shapes
      <4>3. CASE f.kind = "decode" /\ s \in Rows1
        <5>1. tok[s] \in Tokens /\ FlightText(f, s)' = Append(FlightText(f, s), tok[s])
          BY <3>2, <4>3
        <5>2. Agree(Append(FlightText(f, s), tok[s]), p, Len(p))
          BY <4>1, <4>2, <5>1, AgreeGrown
        <5> QED
          BY <5>1, <5>2
      <4>4. CASE ~(f.kind = "decode" /\ s \in Rows1)
        <5>1. FlightText(f, s)' = FlightText(f, s)
          BY <3>2, <4>4
        <5> QED
          BY <4>1, <5>1
      <4> QED
        BY <4>3, <4>4
    <3> QED
      BY <3>2, <3>3, <3>4 DEF Placed, Agree
  <2> QED
    BY <2>1, <2>2, <2>3
<1> QED
  BY <1>1, <1>2, <1>3, <1>4, <1>5, StepKinds

---------------------------------------------------------------------------
(* The rows of the forwards in flight find what they do not write. *)

\* The KV after the head has run depends on the head and the device alone.
LEMMA SettledSame ==
    ASSUME UNCHANGED <<kv, wtext>>,
           queue' = queue \/ (queue # <<>> /\ queue' # <<>> /\ Head1' = Head1)
    PROVE  Settled' = Settled
<1>1. CASE queue = <<>>
  <2>1. queue' = <<>>
    BY <1>1
  <2> QED
    BY <1>1, <2>1 DEF Settled
<1>2. CASE queue # <<>>
  <2>1. queue' # <<>> /\ Head1' = Head1
    BY <1>2 DEF Head1
  <2> DEFINE f == Head1
  <2>2. PICK f0 : f0 = Head1
    OBVIOUS
  <2>3. KvAfter(f0)' = KvAfter(f0)
    BY DEF KvAfter, Written, Fills, RowText, RowFirst
  <2>4. KvAfter(Head1) = KvAfter(f0) /\ KvAfter(Head1)' = KvAfter(f0)'
    BY <2>1, <2>2 DEF KvAfter, Written, Fills, RowText, RowFirst
  <2> QED
    BY <1>2, <2>1, <2>3, <2>4 DEF Settled
<1> QED
  BY <1>1, <1>2

LEMMA FlightKept ==
    ASSUME UNCHANGED <<queue, wtext>>
    PROVE  /\ \A f, s : FlightText(f, s)' = FlightText(f, s)
           /\ \A i, s : FlightFirst(i, s)' = FlightFirst(i, s)
           /\ \A i, s : FlightFills(i, s)' = FlightFills(i, s)
<1>1. \A f, s : FlightText(f, s)' = FlightText(f, s)
  BY DeviceTextKept, FlightSame
<1>2. \A i, s : FlightFirst(i, s)' = FlightFirst(i, s)
  <2>1. \A s : DeviceText(s)' = DeviceText(s)
    BY DeviceTextKept
  <2>2. Rows1' = Rows1
    BY DEF Rows1, Head1
  <2> QED
    BY <2>1, <2>2 DEF FlightFirst
<1>3. ASSUME NEW i, NEW s PROVE FlightFills(i, s)' = FlightFills(i, s)
  <2>1. PICK f : f = queue[i]
    OBVIOUS
  <2>2. FlightFills(i, s) = FlightFirst(i, s)..(Len(FlightText(f, s)) - 1)
    BY <2>1 DEF FlightFills
  <2>3. FlightFills(i, s)' = FlightFirst(i, s)'..(Len(FlightText(f, s)') - 1)
    BY <2>1 DEF FlightFills, FlightText
  <2> QED
    BY <1>1, <1>2, <2>2, <2>3
<1> QED
  BY <1>1, <1>2, <1>3

LEMMA RowsKept ==
    ASSUME UNCHANGED <<queue, kv, wtext>>, RowsSound
    PROVE  RowsSound'
<1>1. Settled' = Settled
  BY SettledSame
<1>2. /\ \A f, s : FlightText(f, s)' = FlightText(f, s)
      /\ \A i, s : FlightFirst(i, s)' = FlightFirst(i, s)
      /\ \A i, s : FlightFills(i, s)' = FlightFills(i, s)
  BY FlightKept
<1>3. \A i \in DOMAIN queue : RowsAlike(queue[i])'
  BY <1>2 DEF RowsSound, RowsAlike, FlightText
<1>4. ASSUME NEW K, NEW i, RowsBacked(K, i) PROVE RowsBacked(K, i)'
  BY <1>2, <1>4 DEF RowsBacked, FlightText
<1>5. PICK k, K : k = kv /\ K = Settled
  OBVIOUS
<1>6. queue # <<>> => RowsBacked(k, 1)'
  BY <1>4, <1>5 DEF RowsSound
<1>7. Len(queue) = 2 => RowsBacked(K, 2)'
  BY <1>4, <1>5 DEF RowsSound
<1>8. k = kv' /\ K = Settled'
  BY <1>1, <1>5
<1>9. queue' # <<>> => RowsBacked(kv, 1)'
  BY <1>6, <1>8 DEF RowsBacked
<1>10. Len(queue') = 2 => RowsBacked(Settled, 2)'
  BY <1>7, <1>8 DEF RowsBacked
<1> QED
  BY <1>3, <1>9, <1>10 DEF RowsSound

\* Two tables that share a block hold one text down to it.
LEMMA SameSlot ==
    ASSUME ConstantsAssumption, Shapes, Rooted, CursorHeld, Sharing,
           NEW s \in Seqs, NEW t \in Seqs,
           NEW j \in DOMAIN table[s], NEW k \in DOMAIN table[t], table[s][j] = table[t][k]
    PROVE  j = k /\ (s = t \/ Agree(ids[s], ids[t], k * BlockSize))
<1>0. /\ cursor[s] \in 0..Len(table[s]) /\ Len(table[s]) \in Nat /\ j \in 1..Len(table[s])
      /\ cursor[t] \in 0..Len(table[t]) /\ Len(table[t]) \in Nat /\ k \in 1..Len(table[t])
  BY SMTT(30) DEF CursorHeld, Shapes
<1>1. CASE j > cursor[s]
  <2>1. j \in (cursor[s] + 1)..Len(table[s])
    BY <1>0, <1>1
  <2>2. Alone(s, j)
    BY <2>1, SharingParts DEF Private
  <2> QED
    BY <2>2 DEF Alone
<1>2. CASE k > cursor[t]
  <2>1. k \in (cursor[t] + 1)..Len(table[t])
    BY <1>0, <1>2
  <2>2. Alone(t, k)
    BY <2>1, SharingParts DEF Private
  <2> QED
    BY <2>2 DEF Alone
<1>3. CASE j <= cursor[s] /\ k <= cursor[t]
  <2>1. Prefix(t, k) \in DOMAIN trie /\ trie[Prefix(t, k)] = table[t][k]
    BY <1>0, <1>3 DEF CursorHeld
  <2>2. PICK p \in DOMAIN trie : p = Prefix(t, k) /\ trie[p] = table[t][k] /\ trie[p] = table[s][j]
    BY <2>1
  <2>3. /\ Len(p) = k * BlockSize /\ Agree(ids[t], p, Len(p)) /\ p \in Seq(Tokens) /\ Len(p) \in Nat
        /\ Len(p) = j * BlockSize /\ Agree(ids[s], p, Len(p))
    BY <2>2, SlotNode
  <2>4. Agree(ids[s], ids[t], Len(p))
    BY <2>3, AgreeWith DEF Shapes
  <2>5. j = k
    <3>1. j \in Nat /\ k \in Nat /\ BlockSize \in Nat \ {0} /\ j * BlockSize = k * BlockSize
      BY <1>0, <2>3 DEF ConstantsAssumption
    <3> QED
      BY <3>1, Z3
  <2> QED
    BY <2>3, <2>4, <2>5
<1> QED
  BY <1>0, <1>1, <1>2, <1>3

\* The block of a position behind the cursor, and of one down to it.
LEMMA BehindCursor ==
    ASSUME ConstantsAssumption, NEW p \in Nat, NEW c \in Nat
    PROVE  BlockNo(p) > c <=> p >= c * BlockSize
<1> DEFINE k == BlockNo(p)
<1>0. BlockSize \in Nat \ {0}
  BY DEF ConstantsAssumption
<1>1. /\ k \in Nat \ {0} /\ k * BlockSize \in Nat /\ p + 1 <= k * BlockSize
      /\ k * BlockSize - BlockSize <= p
  <2>1. /\ k \in Nat \ {0} /\ k * BlockSize \in Nat /\ p + 1 <= k * BlockSize
        /\ p % BlockSize \in 0..(BlockSize - 1) /\ p = k * BlockSize - BlockSize + (p % BlockSize)
    BY Place
  <2> DEFINE o == p % BlockSize
             m == k * BlockSize
  <2> HIDE DEF o, k, m
  <2>2. o \in 0..(BlockSize - 1) /\ p = m - BlockSize + o /\ m \in Nat
    BY <2>1 DEF o, m
  <2>3. m - BlockSize <= p
    BY <1>0, <2>2
  <2> QED
    BY <2>1, <2>3 DEF m
<1> HIDE DEF k
<1>2. CASE k > c
  <2>1. c * BlockSize \in Nat /\ c * BlockSize <= (k - 1) * BlockSize
    <3>1. k - 1 \in Nat /\ c <= k - 1
      BY <1>1, <1>2
    <3> QED
      BY <1>0, <3>1, BlocksMono
  <2>2. (k - 1) * BlockSize = k * BlockSize - BlockSize
    BY <1>0, <1>1, Z3
  <2>3. c * BlockSize <= k * BlockSize - BlockSize
    BY <2>1, <2>2
  <2> DEFINE m == k * BlockSize
             n == c * BlockSize
  <2> HIDE DEF m, n
  <2>4. m \in Nat /\ n \in Nat /\ m - BlockSize <= p /\ n <= m - BlockSize
    BY <1>1, <2>1, <2>3 DEF m, n
  <2>5. p >= n
    BY <1>0, <2>4
  <2> QED
    BY <1>2, <2>5 DEF k, n
<1>3. CASE k <= c
  <2>1. k * BlockSize <= c * BlockSize /\ c * BlockSize \in Nat
    <3>1. k \in Nat
      BY <1>1
    <3> QED
      BY <1>0, <1>3, <3>1, BlocksMono
  <2>2. ~(p >= c * BlockSize)
    <3> DEFINE m == k * BlockSize
               n == c * BlockSize
    <3> HIDE DEF m, n
    <3>1. m \in Nat /\ n \in Nat /\ p + 1 <= m /\ m <= n
      BY <1>1, <2>1 DEF m, n
    <3>2. ~(p >= n)
      BY <3>1
    <3> QED
      BY <3>2 DEF n
  <2> QED
    BY <1>1, <1>3, <2>2 DEF k
<1> QED
  BY <1>1, <1>2, <1>3

\* The node of a block a sequence follows.
LEMMA FollowedNode ==
    ASSUME ConstantsAssumption, Shapes, Rooted, CursorHeld, NEW s \in Seqs, NEW k \in 1..cursor[s]
    PROVE  /\ Prefix(s, k) \in DOMAIN trie /\ trie[Prefix(s, k)] = table[s][k]
           /\ k \in DOMAIN table[s] /\ k * BlockSize \in Nat /\ k * BlockSize <= Len(ids[s])
           /\ Len(Prefix(s, k)) = k * BlockSize /\ Prefix(s, k) \in Seq(Tokens)
           /\ Agree(ids[s], Prefix(s, k), k * BlockSize)
<1>0. /\ cursor[s] \in 0..Len(table[s]) /\ Len(table[s]) \in Nat /\ k \in Nat /\ cursor[s] \in Nat
      /\ k <= cursor[s] /\ k \in 1..Len(table[s]) /\ DOMAIN table[s] = 1..Len(table[s])
  BY DEF CursorHeld, Shapes
<1>1. Prefix(s, k) \in DOMAIN trie /\ trie[Prefix(s, k)] = table[s][k]
  BY DEF CursorHeld
<1>2. k * BlockSize <= Len(ids[s]) /\ k * BlockSize \in Nat
  <2>1. k * BlockSize \in Nat /\ k * BlockSize <= cursor[s] * BlockSize
    BY <1>0, BlocksMono DEF ConstantsAssumption
  <2>2. cursor[s] * BlockSize <= Len(ids[s]) /\ cursor[s] * BlockSize \in Nat /\ Len(ids[s]) \in Nat
    BY <1>0, BlocksMono DEF ConstantsAssumption, Rooted, Shapes
  <2> QED
    BY <2>1, <2>2
<1>3. Prefix(s, k) \in Seq(Tokens) /\ Len(Prefix(s, k)) = k * BlockSize
  BY <1>0, <1>2, PrefixTyped
<1>4. Agree(ids[s], Prefix(s, k), k * BlockSize)
  BY <1>2, AgreeSelf DEF Prefix, Shapes
<1> QED
  BY <1>0, <1>1, <1>2, <1>3, <1>4

\* The node a sequence's text agrees with, not below its cursor, is one it follows.
LEMMA AgreedNode ==
    ASSUME ConstantsAssumption, Shapes, Rooted, CursorHeld, NodesDeep, NEW s \in Seqs,
           NEW p \in DOMAIN trie, Len(p) <= cursor[s] * BlockSize, Agree(ids[s], p, Len(p))
    PROVE  \E k \in 1..cursor[s] : Len(p) = k * BlockSize /\ p = Prefix(s, k) /\ trie[p] = table[s][k]
<1>1. p \in Seq(Tokens) /\ cursor[s] \in Nat /\ Len(p) \in Nat
  BY DEF Shapes, CursorHeld
<1>2. PICK k \in 1..Len(p) : Len(p) = k * BlockSize
  BY DEF NodesDeep
<1>3. k \in 1..cursor[s]
  <2>1. CASE cursor[s] < k
    <3>1. k - 1 \in Nat /\ cursor[s] <= k - 1
      BY <1>1, <2>1
    <3>2. cursor[s] * BlockSize <= (k - 1) * BlockSize /\ cursor[s] * BlockSize \in Nat
      BY <1>1, <3>1, BlocksMono DEF ConstantsAssumption
    <3>3. (k - 1) * BlockSize = k * BlockSize - BlockSize
      BY <1>1, <1>2, Z3 DEF ConstantsAssumption
    <3>4. Len(p) <= Len(p) - BlockSize
      <4> DEFINE m == cursor[s] * BlockSize
      <4> HIDE DEF m
      <4>1. m \in Nat /\ Len(p) <= m /\ m <= Len(p) - BlockSize /\ BlockSize \in Nat
        BY <1>2, <3>2, <3>3 DEF m, ConstantsAssumption
      <4> QED
        BY <1>1, <4>1
    <3> QED
      BY <1>1, <3>4 DEF ConstantsAssumption
  <2> QED
    BY <1>1, <1>2, <2>1
<1>4. /\ Prefix(s, k) \in DOMAIN trie /\ trie[Prefix(s, k)] = table[s][k]
  BY <1>3, FollowedNode
<1>5. p = Prefix(s, k)
  <2>1. SubSeq(ids[s], 1, Len(p)) = SubSeq(p, 1, Len(p))
    BY DEF Agree
  <2>2. SubSeq(p, 1, Len(p)) = p
    <3>1. /\ SubSeq(p, 1, Len(p)) \in Seq(Tokens) /\ Len(SubSeq(p, 1, Len(p))) = Len(p)
          /\ \A i \in 1..Len(p) : SubSeq(p, 1, Len(p))[i] = p[i]
      BY <1>1, SubSeqOf
    <3> QED
      BY <1>1, <3>1, SeqEqual
  <2> QED
    BY <1>2, <2>1, <2>2 DEF Prefix
<1> QED
  BY <1>2, <1>3, <1>4, <1>5

\* Cell o of a node of k blocks is a position of its text in the k-th block.
LEMMA NodeCell ==
    ASSUME ConstantsAssumption, NEW k \in Nat \ {0}, NEW o \in 0..(BlockSize - 1),
           NEW n, n = k * BlockSize, NEW q, q = n - BlockSize + o
    PROVE  /\ n \in Nat \ {0} /\ q \in Nat /\ q < n /\ q + 1 \in Nat /\ q + 1 <= n /\ n - 1 \in Nat
           /\ BlockNo(q) = k /\ q % BlockSize = o /\ BlockNo(n - 1) = k
<1>0. BlockSize \in Nat \ {0}
  BY DEF ConstantsAssumption
<1>1. q \in Nat /\ BlockNo(q) = k /\ q % BlockSize = o
  BY <1>0, CellPosition DEF BlockNo
<1>2. n \in Nat
  BY <1>0
<1>3. q < n
  BY <1>0, <1>1, <1>2
<1>4. BlockNo(n - 1) = k
  <2>1. BlockSize - 1 \in 0..(BlockSize - 1)
    BY <1>0
  <2>2. (k * BlockSize - BlockSize + (BlockSize - 1)) \div BlockSize + 1 = k
    BY <1>0, <2>1, CellPosition
  <2>3. k * BlockSize - BlockSize + (BlockSize - 1) = n - 1
    BY <1>0, <1>2
  <2> QED
    BY <2>2, <2>3 DEF BlockNo
<1> QED
  BY <1>1, <1>2, <1>3, <1>4

\* Where a computed position of a scheduled sequence has its KV: in its cell,
\* or it comes from a sequence scheduled with it.
LEMMA CellBacked ==
    ASSUME ConstantsAssumption, Core, Sharing, Lengths, TailRight, NodesRight,
           pc \in Passing \ Candidate, Len(queue) \in 0..1,
           NEW s \in turn.batch, s \in Seqs, turn.batch \subseteq Seqs,
           status[s] \in {"READY", "RUNNING"},
           NEW p \in 0..(Computed(s) - 1)
    PROVE  /\ Holds(table[s], p)
           /\ \/ Settled[BlockOf(table[s], p)][p % BlockSize] = SubSeq(ids[s], 1, p + 1)
              \/ \E t \in turn.batch : /\ p \in Computed(t)..(Len(ids[t]) - 1) /\ Holds(table[t], p)
                                       /\ BlockOf(table[t], p) = BlockOf(table[s], p)
<1>a. Frame /\ Shapes /\ Rooted /\ CursorHeld /\ NodesDeep
  BY SharingParts DEF Core, Frame
<1>b. /\ p \in Nat /\ p < Computed(s) /\ Computed(s) \in Nat /\ table[s] \in Seq(Blocks)
      /\ ids[s] \in Seq(Tokens) /\ cursor[s] \in Nat /\ Len(table[s]) \in Nat /\ Len(ids[s]) \in Nat
  <2>1. Computed(s) \in Nat
    BY <1>a, LengthTypes
  <2> QED
    BY <1>a, <2>1 DEF Shapes, CursorHeld
<1>1. Computed(s) <= BlockSize * Len(table[s]) /\ BlockSize * Len(table[s]) \in Nat
  BY <1>a, LengthTypes DEF Lengths
<1>2. Holds(table[s], p)
  <2>1. p < BlockSize * Len(table[s])
    BY <1>b, <1>1
  <2> QED
    BY <1>b, <2>1, PositionHeld DEF Holds, ConstantsAssumption
<1>3. CASE BlockNo(p) > cursor[s]
  <2>1. p >= cursor[s] * BlockSize /\ cursor[s] * BlockSize \in Nat
    BY <1>b, <1>3, BehindCursor DEF ConstantsAssumption
  <2>2. p \in (cursor[s] * BlockSize)..(Computed(s) - 1)
    BY <1>b, <2>1
  <2>3. s \in Live
    BY DEF Live, Active, WithStatus
  <2> QED
    BY <1>2, <2>2, <2>3 DEF TailRight
<1>4. CASE ~(BlockNo(p) > cursor[s])
  <2> DEFINE k == BlockNo(p)
             o == p % BlockSize
             P == Prefix(s, k)
  <2>1. /\ k \in Nat \ {0} /\ o \in 0..(BlockSize - 1) /\ p = k * BlockSize - BlockSize + o
        /\ p + 1 \in Nat /\ k * BlockSize \in Nat /\ p + 1 <= k * BlockSize
    BY <1>b, Place
  <2>2. k \in 1..cursor[s]
    BY <1>4, <1>b, <2>1, SMTT(30)
  <2>3. BlockOf(table[s], p) = table[s][k]
    BY <1>b, PlaceHeld
  <2> HIDE DEF k, o, P
  <2>4. /\ P \in DOMAIN trie /\ trie[P] = table[s][k] /\ P \in Seq(Tokens)
        /\ Len(P) = k * BlockSize /\ Len(P) \in Nat /\ Agree(ids[s], P, Len(P))
    <3>1. /\ Prefix(s, k) \in DOMAIN trie /\ trie[Prefix(s, k)] = table[s][k]
          /\ k * BlockSize \in Nat /\ Prefix(s, k) \in Seq(Tokens)
          /\ Len(Prefix(s, k)) = k * BlockSize /\ Agree(ids[s], Prefix(s, k), k * BlockSize)
      BY <1>a, <2>2, FollowedNode
    <3>2. Len(P) = k * BlockSize /\ P = Prefix(s, k)
      BY <3>1 DEF P
    <3> QED
      BY <3>1, <3>2
  <2>5. SubSeq(P, 1, Len(P) - BlockSize + o + 1) = SubSeq(ids[s], 1, p + 1)
    <3>1. Len(P) - BlockSize + o + 1 = p + 1
      BY <2>1, <2>4
    <3>2. p + 1 <= Len(P)
      BY <2>1, <2>4
    <3>3. SubSeq(ids[s], 1, p + 1) = SubSeq(P, 1, p + 1)
      BY <1>b, <2>1, <2>4, <3>2, AgreeLess
    <3> QED
      BY <3>1, <3>3
  <2>6. \/ Settled[trie[P]][o] = SubSeq(P, 1, Len(P) - BlockSize + o + 1)
        \/ ToBeBuilt(P, o)
        \/ ToBeRun(P, o)
    BY <2>1, <2>4 DEF NodesRight
  <2>7. ~ToBeRun(P, o)
    BY DEF ToBeRun
  <2>8. ASSUME ToBeBuilt(P, o)
        PROVE  \E t \in turn.batch : /\ p \in Computed(t)..(Len(ids[t]) - 1) /\ Holds(table[t], p)
                                     /\ BlockOf(table[t], p) = BlockOf(table[s], p)
    <3>1. PICK t \in turn.batch : /\ Len(P) <= cursor[t] * BlockSize /\ Agree(ids[t], P, Len(P))
                                  /\ Computed(t) <= Len(P) - BlockSize + o
      BY <2>8 DEF ToBeBuilt, Candidate
    <3>2. t \in Seqs
      OBVIOUS
    <3>3. PICK m \in 1..cursor[t] : Len(P) = m * BlockSize /\ trie[P] = table[t][m]
      BY <1>a, <2>4, <3>1, <3>2, AgreedNode
    <3>4. m = k
      <4>1. m \in Nat /\ m * BlockSize = k * BlockSize /\ BlockSize \in Nat \ {0} /\ k \in Nat
        BY <1>a, <2>1, <2>4, <3>2, <3>3 DEF ConstantsAssumption
      <4> QED
        BY <4>1, Z3
    <3>5. table[t] \in Seq(Blocks) /\ k \in DOMAIN table[t] /\ ids[t] \in Seq(Tokens)
      BY <1>a, <3>2, <3>3, <3>4, FollowedNode DEF Shapes
    <3>6. Holds(table[t], p) /\ BlockOf(table[t], p) = table[t][k]
      BY <1>b, <3>5, PlaceHeld DEF k
    <3>7. p \in Computed(t)..(Len(ids[t]) - 1)
      <4>1. Len(P) <= Len(ids[t]) /\ Len(ids[t]) \in Nat /\ Computed(t) \in Nat
        BY <1>a, <3>1, <3>2, LengthTypes DEF Agree
      <4>2. Computed(t) <= p /\ p + 1 <= Len(P)
        BY <2>1, <2>4, <3>1
      <4> QED
        BY <1>b, <2>4, <4>1, <4>2
    <3> QED
      BY <2>3, <2>4, <3>3, <3>4, <3>6, <3>7
  <2> QED
    BY <1>2, <2>3, <2>4, <2>5, <2>6, <2>7, <2>8 DEF o
<1> QED
  BY <1>3, <1>4

\* Collection leaves the KV the head has written in every block that a table,
\* the trie or the forward behind it names.
LEMMA CollectedKv ==
    ASSUME Frame, Owned, NEW tok \in Sampled, NEW stop \in SUBSET Rows1, CollectOutput(tok, stop),
           NEW b \in Blocks
    PROVE  /\ \A s \in Seqs : \A k \in DOMAIN table[s] : table[s][k] = b => kv'[b] = Settled[b]
           /\ \A p \in DOMAIN trie : trie[p] = b => kv'[b] = Settled[b]
           /\ \A f : Len(queue) = 2 /\ f = queue[2] =>
                \A s \in DOMAIN f.rows : \A k \in DOMAIN f.rows[s].tbl :
                    f.rows[s].tbl[k] = b => kv'[b] = Settled[b]
<1>1. pc = "wait" /\ (Len(queue) = 1 \/ Len(queue) = 2) /\ queue # <<>>
  <2>1. Len(queue) = 1 \/ Len(queue) = 2
    BY Collected, Waits
  <2> QED
    BY <2>1, Collected
<1>2. kv'[b] = IF b \in Forgotten(Tail(queue)) THEN Blank ELSE KvAfter(Head1)[b]
  BY DEF CollectOutput
<1>3. b \notin Forgotten(Tail(queue)) => kv'[b] = Settled[b]
  BY <1>1, <1>2 DEF Settled
<1>4. b \in free => /\ \A s \in Seqs : \A k \in DOMAIN table[s] : table[s][k] # b
                    /\ \A p \in DOMAIN trie : trie[p] # b
  BY NobodysBlock
<1>5. b \in Forgotten(Tail(queue)) => b \in free
  BY DEF Forgotten
<1>6. ASSUME NEW f, Len(queue) = 2, f = queue[2], NEW s \in DOMAIN f.rows, NEW k \in DOMAIN f.rows[s].tbl,
             f.rows[s].tbl[k] = b
      PROVE  b \notin Forgotten(Tail(queue))
  <2>1. Len(Tail(queue)) = 1 /\ Tail(queue)[1] = f
    BY <1>1, <1>6, Waits
  <2>2. 1 \in DOMAIN Tail(queue)
    <3>1. queue \in Seq(ForwardSet)
      BY QueueFacts
    <3>2. Tail(queue) \in Seq(ForwardSet)
      BY <1>1, <3>1, HeadTailProperties, Zenon
    <3>3. ASSUME NEW q \in Seq(ForwardSet), Len(q) = 1 PROVE 1 \in DOMAIN q
      BY <3>3
    <3> QED
      BY <2>1, <3>2, <3>3
  <2>3. Named(f, b)
    BY <1>6 DEF Named
  <2> QED
    BY <2>1, <2>2, <2>3 DEF Forgotten
<1> QED
  BY <1>3, <1>4, <1>5, <1>6

LEMMA AgreeFlip ==
    ASSUME NEW x, NEW y, NEW n, Agree(x, y, n)
    PROVE  Agree(y, x, n)
  BY DEF Agree

\* The rows of a dispatched forward.
LEMMA DispatchRows ==
    ASSUME ConstantsAssumption, Core, Frame', Sharing, Lengths, TailRight, NodesRight, RowsSound, Dispatch
    PROVE  RowsSound'
<1>a. Frame /\ Shapes /\ Rooted /\ CursorHeld /\ Stepped /\ Reserved
  BY DEF Core, Frame, Flow
<1>1. /\ UNCHANGED <<table, trie, cursor, hist, ids, status, kv, wtext>>
      /\ Len(queue) \in 0..1 /\ queue \in Seq(ForwardSet)
      /\ pc \in Passing \ Candidate /\ turn.batch \subseteq Seqs
  BY <1>a, Dispatched
<1>2. PICK kind \in {"prefill", "decode"} :
        queue' = Append(queue, Forward(kind, turn.batch)) /\ Forward(kind, turn.batch) \in ForwardSet
  BY <1>a, Dispatched
<1>3. PICK f : f = Forward(kind, turn.batch)
  OBVIOUS
<1>4. PICK i : i = Len(queue) + 1
  OBVIOUS
<1>5. /\ DOMAIN f.rows = turn.batch /\ f \in ForwardSet /\ queue'[i] = f
      /\ queue' = Append(queue, f)
      /\ Len(queue') = i /\ DOMAIN queue' = 1..i /\ i \in 1..2
  <2>1. queue' = Append(queue, f) /\ f \in ForwardSet
    BY <1>2, <1>3
  <2>2. Len(queue') = i /\ queue'[i] = f /\ DOMAIN queue' = 1..i
    BY <1>1, <1>4, <2>1
  <2>3. DOMAIN f.rows = turn.batch
    BY <1>3 DEF Forward
  <2> QED
    BY <1>1, <1>4, <2>1, <2>2, <2>3
<1>6. ASSUME NEW s \in turn.batch
      PROVE  /\ s \in Seqs /\ s \in DOMAIN f.rows /\ f.rows[s].tbl = table[s]
             /\ status[s] \in {"READY", "RUNNING"}
             /\ FlightText(f, s)' = ids[s] /\ FlightFirst(i, s)' = Computed(s)
             /\ FlightFills(i, s)' = Computed(s)..(Len(ids[s]) - 1)
  <2>1. /\ s \in Seqs /\ s \in DOMAIN f.rows /\ f.rows[s].tbl = table[s] /\ queue'[i] = f
        /\ status[s] \in {"READY", "RUNNING"}
        /\ FlightText(f, s)' = ids[s]
        /\ FlightFirst(i, s)' = Computed(s)
    BY <1>2, <1>3, <1>4, DispatchedFlight
  <2>2. FlightFills(i, s)' = FlightFirst(i, s)'..(Len(FlightText(f, s)') - 1)
    BY <2>1 DEF FlightFills, FlightText
  <2> QED
    BY <2>1, <2>2
<1>7. RowsAlike(f)'
  <2>1. ASSUME NEW s \in DOMAIN f.rows, NEW t \in DOMAIN f.rows,
               NEW j \in DOMAIN f.rows[s].tbl, NEW k \in DOMAIN f.rows[t].tbl,
               f.rows[s].tbl[j] = f.rows[t].tbl[k]
        PROVE  j = k /\ (s = t \/ Agree(FlightText(f, s)', FlightText(f, t)', k * BlockSize))
    <3>1. /\ s \in Seqs /\ t \in Seqs /\ j \in DOMAIN table[s] /\ k \in DOMAIN table[t]
          /\ table[s][j] = table[t][k] /\ FlightText(f, s)' = ids[s] /\ FlightText(f, t)' = ids[t]
      BY <1>5, <1>6, <2>1
    <3> QED
      BY <1>a, <3>1, SameSlot
  <2> QED
    BY <2>1 DEF RowsAlike, Agree
<1>8. ASSUME NEW s \in turn.batch, NEW p \in 0..(FlightFirst(i, s)' - 1)
      PROVE  /\ Holds(f.rows[s].tbl, p)
             /\ \/ Settled[BlockOf(f.rows[s].tbl, p)][p % BlockSize] = SubSeq(FlightText(f, s)', 1, p + 1)
                \/ \E t \in turn.batch : /\ p \in FlightFills(i, t)' /\ Holds(f.rows[t].tbl, p)
                                         /\ BlockOf(f.rows[t].tbl, p) = BlockOf(f.rows[s].tbl, p)
  <2>1. /\ s \in Seqs /\ f.rows[s].tbl = table[s] /\ status[s] \in {"READY", "RUNNING"}
        /\ FlightText(f, s)' = ids[s] /\ p \in 0..(Computed(s) - 1)
    BY <1>6, <1>8
  <2>2. /\ Holds(table[s], p)
        /\ \/ Settled[BlockOf(table[s], p)][p % BlockSize] = SubSeq(ids[s], 1, p + 1)
           \/ \E t \in turn.batch : /\ p \in Computed(t)..(Len(ids[t]) - 1) /\ Holds(table[t], p)
                                    /\ BlockOf(table[t], p) = BlockOf(table[s], p)
    BY <1>1, <2>1, CellBacked
  <2>3. CASE \E t \in turn.batch : /\ p \in Computed(t)..(Len(ids[t]) - 1) /\ Holds(table[t], p)
                                   /\ BlockOf(table[t], p) = BlockOf(table[s], p)
    <3>1. PICK t \in turn.batch : /\ p \in Computed(t)..(Len(ids[t]) - 1) /\ Holds(table[t], p)
                                  /\ BlockOf(table[t], p) = BlockOf(table[s], p)
      BY <2>3
    <3>2. /\ p \in FlightFills(i, t)' /\ Holds(f.rows[t].tbl, p)
          /\ BlockOf(f.rows[t].tbl, p) = BlockOf(f.rows[s].tbl, p)
      BY <1>6, <2>1, <3>1
    <3> QED
      BY <2>1, <2>2, <3>2
  <2> QED
    BY <2>1, <2>2, <2>3
<1>9. ASSUME NEW K, K = Settled
      PROVE  RowsBacked(K, i)'
  <2>1. queue'[i].rows = f.rows /\ DOMAIN f.rows = turn.batch
    BY <1>5
  <2>2. \A s : FlightText(queue[i], s)' = FlightText(f, s)'
    BY <1>5 DEF FlightText
  <2> QED
    BY <1>8, <1>9, <2>1, <2>2 DEF RowsBacked
<1>10. CASE queue = <<>>
  <2>1. i = 1 /\ Len(queue') = 1 /\ queue' # <<>>
    BY <1>4, <1>5, <1>10
  <2>2. RowsBacked(kv, 1)'
    <3>1. PICK K : K = Settled
      OBVIOUS
    <3>2. K = kv' /\ RowsBacked(K, 1)'
      BY <1>1, <1>9, <1>10, <2>1, <3>1 DEF Settled
    <3> QED
      BY <3>2 DEF RowsBacked
  <2>3. \A n \in DOMAIN queue' : RowsAlike(queue[n])'
    <3>1. ASSUME NEW n \in DOMAIN queue' PROVE RowsAlike(queue[n])'
      <4>1. queue'[n] = f
        BY <1>5, <2>1
      <4> QED
        BY <1>7, <4>1 DEF RowsAlike, FlightText
    <3> QED
      BY <3>1
  <2> QED
    BY <2>1, <2>2, <2>3 DEF RowsSound
<1>11. CASE queue # <<>>
  <2>1. /\ Len(queue) = 1 /\ i = 2 /\ Len(queue') = 2 /\ queue' # <<>> /\ Head1' = Head1 /\ Rows1' = Rows1
        /\ \A s : DeviceText(s)' = DeviceText(s)
    BY <1>a, <1>5, <1>11, DispatchedHead
  <2>2. \A s : FlightText(Head1, s)' = FlightText(Head1, s)
    BY <2>1 DEF FlightText
  <2>3. /\ queue'[1] = queue[1] /\ 1 \in DOMAIN queue
    BY <1>1, <1>5, <2>1
  <2>4. \A s : FlightFirst(1, s)' = FlightFirst(1, s)
    BY <2>1, <2>3 DEF FlightFirst
  <2>5. PICK g : g = queue[1]
    OBVIOUS
  <2>6. \A s : FlightText(g, s)' = FlightText(g, s)
    BY <2>1 DEF FlightText
  <2>7. \A s : FlightFills(1, s)' = FlightFills(1, s)
    <3>1. ASSUME NEW s PROVE FlightFills(1, s)' = FlightFills(1, s)
      <4>1. FlightFills(1, s) = FlightFirst(1, s)..(Len(FlightText(g, s)) - 1)
        BY <2>5 DEF FlightFills
      <4>2. FlightFills(1, s)' = FlightFirst(1, s)'..(Len(FlightText(g, s)') - 1)
        BY <2>3, <2>5 DEF FlightFills, FlightText
      <4> QED
        BY <2>4, <2>6, <4>1, <4>2
    <3> QED
      BY <3>1
  <2>8. RowsAlike(g)'
    <3>1. RowsAlike(g)
      BY <2>3, <2>5 DEF RowsSound
    <3> QED
      BY <2>6, <3>1 DEF RowsAlike
  <2>9. \A n \in DOMAIN queue' : RowsAlike(queue[n])'
    <3>1. ASSUME NEW n \in DOMAIN queue' PROVE RowsAlike(queue[n])'
      <4>1. queue'[n] = f \/ queue'[n] = g
        BY <1>5, <2>1, <2>3, <2>5
      <4> QED
        BY <1>7, <2>8, <4>1 DEF RowsAlike, FlightText
    <3> QED
      BY <3>1
  <2>10. RowsBacked(kv, 1)'
    <3>1. RowsBacked(kv, 1)
      BY <1>11 DEF RowsSound
    <3>2. \A s : FlightText(queue[1], s)' = FlightText(queue[1], s)
      BY <2>3, <2>5, <2>6 DEF FlightText
    <3> QED
      BY <1>1, <2>3, <2>4, <2>7, <3>1, <3>2 DEF RowsBacked
  <2>11. Settled' = Settled
    BY <1>1, <1>11, <2>1, SettledSame
  <2>12. RowsBacked(Settled, 2)'
    <3>1. PICK K : K = Settled
      OBVIOUS
    <3>2. K = Settled' /\ RowsBacked(K, 2)'
      BY <1>9, <2>1, <2>11, <3>1
    <3> QED
      BY <3>2 DEF RowsBacked
  <2> QED
    BY <2>1, <2>9, <2>10, <2>12 DEF RowsSound
<1> QED
  BY <1>10, <1>11

\* The rows of the second forward once the first has been collected.
LEMMA CollectFills ==
    ASSUME Frame, NEW tok \in Sampled, NEW stop \in SUBSET Rows1, CollectOutput(tok, stop),
           Len(queue) = 2, NEW f, f = queue[2], NEW s \in DOMAIN f.rows
    PROVE  /\ FlightText(f, s) \in Seq(Tokens)
           /\ \/ FlightText(f, s)' = FlightText(f, s)
              \/ \E a \in Tokens : FlightText(f, s)' = Append(FlightText(f, s), a)
           /\ FlightFirst(1, s)' = FlightFirst(2, s) /\ FlightFirst(2, s) \in Int
           /\ f.kind = "decode" => FlightFirst(2, s) <= Len(FlightText(f, s))
           /\ f.kind = "prefill" => FlightText(f, s)' = FlightText(f, s)
           /\ FlightFills(2, s) \subseteq FlightFills(1, s)'
<1>1. /\ Head1' = f /\ Rows1' = DOMAIN f.rows /\ queue'[1] = f /\ f \in ForwardSet
      /\ queue # <<>> /\ queue' # <<>>
      /\ IF f.kind = "decode" /\ s \in Rows1
           THEN tok[s] \in Tokens /\ FlightText(f, s)' = Append(FlightText(f, s), tok[s])
           ELSE FlightText(f, s)' = FlightText(f, s)
  BY CollectedFirst
<1>2. /\ FlightText(f, s) \in Seq(Tokens) /\ f.kind \in {"prefill", "decode"}
      /\ f.rows[s].first \in Nat /\ DeviceText(s) \in Seq(Tokens)
  BY <1>1, FlightTyped
<1>3. FlightFills(2, s) = FlightFirst(2, s)..(Len(FlightText(f, s)) - 1)
  BY DEF FlightFills
<1>4. FlightFills(1, s)' = FlightFirst(1, s)'..(Len(FlightText(f, s)') - 1)
  BY <1>1 DEF FlightFills, FlightText
<1>5. CASE f.kind = "prefill"
  <2>1. FlightFirst(2, s) = f.rows[s].first /\ FlightFirst(1, s)' = f.rows[s].first
    BY <1>1, <1>5 DEF FlightFirst
  <2>2. FlightText(f, s)' = FlightText(f, s)
    BY <1>1, <1>5
  <2> QED
    BY <1>2, <1>3, <1>4, <1>5, <2>1, <2>2
<1>6. CASE f.kind = "decode"
  <2>1. FlightText(f, s) = DeviceText(s) /\ FlightText(f, s)' = DeviceText(s)'
    BY <1>6 DEF FlightText
  <2>2. FlightFirst(2, s) = IF s \in Rows1 THEN Len(DeviceText(s)) ELSE Len(DeviceText(s)) - 1
    BY <1>6 DEF FlightFirst
  <2>3. FlightFirst(1, s)' = Len(DeviceText(s)') - 1
    BY <1>1, <1>6 DEF FlightFirst
  <2>4. CASE s \in Rows1
    <3>1. FlightText(f, s)' = Append(FlightText(f, s), tok[s]) /\ tok[s] \in Tokens
      BY <1>1, <1>6, <2>4
    <3>2. Len(FlightText(f, s)') = Len(FlightText(f, s)) + 1
      BY <1>2, <3>1
    <3> DEFINE x == FlightText(f, s)
               y == FlightText(f, s)'
    <3>3. x = DeviceText(s) /\ y = DeviceText(s)' /\ Len(y) = Len(x) + 1 /\ x \in Seq(Tokens)
          /\ y = Append(x, tok[s])
      BY <1>2, <2>1, <3>1, <3>2
    <3> HIDE DEF x, y
    <3>4. Len(x) \in Nat
      BY <3>3
    <3>5. FlightFirst(2, s) = Len(x) /\ FlightFirst(1, s)' = Len(y) - 1
      BY <2>2, <2>3, <2>4, <3>3
    <3>6. FlightFirst(1, s)' = FlightFirst(2, s) /\ FlightFirst(2, s) \in Int
          /\ FlightFirst(2, s) <= Len(x) /\ FlightFills(2, s) \subseteq FlightFills(1, s)'
      <4>1. FlightFills(2, s) = FlightFirst(2, s)..(Len(x) - 1) /\ FlightFills(1, s)' = FlightFirst(1, s)'..(Len(y) - 1)
        BY <1>3, <1>4 DEF x, y
      <4> QED
        BY <3>3, <3>4, <3>5, <4>1
    <3> QED
      BY <1>2, <1>6, <3>1, <3>6 DEF x, y
  <2>5. CASE s \notin Rows1
    <3>1. FlightText(f, s)' = FlightText(f, s)
      BY <1>1, <2>5
    <3>2. FlightFirst(2, s) = Len(DeviceText(s)) - 1 /\ FlightFirst(1, s)' = FlightFirst(2, s)
      BY <2>1, <2>2, <2>3, <2>5, <3>1
    <3>3. Len(DeviceText(s)) \in Nat
      BY <1>2
    <3> QED
      BY <1>2, <1>3, <1>4, <1>6, <2>1, <3>1, <3>2, <3>3
  <2> QED
    BY <2>4, <2>5
<1> QED
  BY <1>2, <1>5, <1>6

LEMMA CollectRows ==
    ASSUME ConstantsAssumption, Core, Sharing, RowsSound,
           NEW tok \in Sampled, NEW stop \in SUBSET Rows1, CollectOutput(tok, stop)
    PROVE  RowsSound'
<1>a. Frame /\ Shapes /\ Owned
  BY DEF Core, Frame
<1>1. pc = "wait" /\ (Len(queue) = 1 \/ Len(queue) = 2)
  BY <1>a, Collected, Waits
<1>2. CASE Len(queue) = 1
  <2>1. queue' = <<>> /\ DOMAIN queue' = {} /\ Len(queue') = 0
    BY <1>1, <1>2, <1>a, Collected, Waits
  <2> QED
    BY <2>1 DEF RowsSound
<1>3. CASE Len(queue) = 2
  <2>1. PICK f : f = queue[2]
    OBVIOUS
  <2>2. /\ queue # <<>> /\ queue' # <<>> /\ Len(queue') = 1 /\ DOMAIN queue' = 1..1
        /\ queue'[1] = f /\ f \in ForwardSet
    BY <1>3, <1>a, <2>1, CollectedFirst
  <2>3. RowsAlike(f) /\ RowsBacked(Settled, 2)
    <3>1. 2 \in DOMAIN queue
      <4>1. queue \in Seq(ForwardSet)
        BY <1>a, QueueFacts
      <4> QED
        BY <1>3, <4>1
    <3> QED
      BY <1>3, <2>1, <3>1 DEF RowsSound
  <2>4. ASSUME NEW s \in DOMAIN f.rows, NEW t \in DOMAIN f.rows,
               NEW j \in DOMAIN f.rows[s].tbl, NEW k \in DOMAIN f.rows[t].tbl,
               f.rows[s].tbl[j] = f.rows[t].tbl[k]
        PROVE  j = k /\ (s = t \/ Agree(FlightText(f, s)', FlightText(f, t)', k * BlockSize))
    <3>1. j = k /\ (s = t \/ Agree(FlightText(f, s), FlightText(f, t), k * BlockSize))
      BY <2>3, <2>4 DEF RowsAlike
    <3>2. ASSUME Agree(FlightText(f, s), FlightText(f, t), k * BlockSize)
          PROVE  Agree(FlightText(f, s)', FlightText(f, t)', k * BlockSize)
      <4> DEFINE x == FlightText(f, s)
                 y == FlightText(f, t)
                 n == k * BlockSize
                 u == FlightText(f, s)'
                 v == FlightText(f, t)'
      <4>1. /\ x \in Seq(Tokens) /\ y \in Seq(Tokens)
            /\ u = x \/ (\E a \in Tokens : u = Append(x, a))
            /\ v = y \/ (\E a \in Tokens : v = Append(y, a))
        BY <1>3, <2>1, CollectFills, <1>a
      <4>2. n \in Nat
        <5>1. f.rows[t].tbl \in Seq(Blocks)
          BY <1>a, <2>2, FlightTyped
        <5>2. k \in Nat /\ BlockSize \in Nat
          BY <5>1 DEF ConstantsAssumption
        <5> QED
          BY <5>2
      <4>3. Agree(x, y, n)
        BY <3>2
      <4> HIDE DEF x, y, n, u, v
      <4>4. Agree(u, y, n) /\ u \in Seq(Tokens)
        <5>1. CASE u = x
          BY <4>1, <4>3, <5>1
        <5>2. ASSUME NEW a \in Tokens, u = Append(x, a) PROVE Agree(u, y, n) /\ u \in Seq(Tokens)
          <6>1. Append(x, a) \in Seq(Tokens)
            BY <4>1
          <6>2. Agree(Append(x, a), y, n)
            BY <4>1, <4>2, <4>3, AgreeGrown
          <6> QED
            BY <5>2, <6>1, <6>2
        <5> QED
          BY <4>1, <5>1, <5>2
      <4>5. Agree(y, u, n)
        BY <4>4, AgreeFlip
      <4>6. Agree(v, u, n)
        BY <4>1, <4>2, <4>4, <4>5, AgreeGrown
      <4> QED
        BY <4>6, AgreeFlip DEF u, v, n
    <3> QED
      BY <3>1, <3>2
  <2>5. RowsAlike(f)'
    BY <2>4 DEF RowsAlike, Agree
  <2>6. ASSUME NEW s \in DOMAIN f.rows, NEW p \in 0..(FlightFirst(1, s)' - 1)
        PROVE  /\ Holds(f.rows[s].tbl, p)
               /\ \/ kv'[BlockOf(f.rows[s].tbl, p)][p % BlockSize] = SubSeq(FlightText(f, s)', 1, p + 1)
                  \/ \E t \in DOMAIN f.rows : /\ p \in FlightFills(1, t)' /\ Holds(f.rows[t].tbl, p)
                                              /\ BlockOf(f.rows[t].tbl, p) = BlockOf(f.rows[s].tbl, p)
    <3>1. /\ FlightText(f, s) \in Seq(Tokens)
          /\ \/ FlightText(f, s)' = FlightText(f, s)
             \/ \E a \in Tokens : FlightText(f, s)' = Append(FlightText(f, s), a)
          /\ FlightFirst(1, s)' = FlightFirst(2, s) /\ FlightFirst(2, s) \in Int
          /\ f.kind = "decode" => FlightFirst(2, s) <= Len(FlightText(f, s))
          /\ f.kind = "prefill" => FlightText(f, s)' = FlightText(f, s)
          /\ f.kind \in {"prefill", "decode"} /\ f.rows[s].tbl \in Seq(Blocks)
      BY <1>3, <1>a, <2>1, <2>2, CollectFills, FlightTyped
    <3>2. p \in 0..(FlightFirst(2, s) - 1) /\ p \in Nat
      BY <3>1
    <3>3. /\ Holds(f.rows[s].tbl, p)
          /\ \/ Settled[BlockOf(f.rows[s].tbl, p)][p % BlockSize] = SubSeq(FlightText(f, s), 1, p + 1)
             \/ \E t \in DOMAIN f.rows : /\ p \in FlightFills(2, t) /\ Holds(f.rows[t].tbl, p)
                                         /\ BlockOf(f.rows[t].tbl, p) = BlockOf(f.rows[s].tbl, p)
      BY <2>1, <2>3, <3>2 DEF RowsBacked
    <3>4. SubSeq(FlightText(f, s)', 1, p + 1) = SubSeq(FlightText(f, s), 1, p + 1)
      <4>1. CASE f.kind = "prefill"
        BY <3>1, <4>1
      <4>2. CASE f.kind = "decode"
        <5>1. p + 1 \in Nat /\ p + 1 <= Len(FlightText(f, s))
          <6>1. FlightFirst(2, s) <= Len(FlightText(f, s)) /\ Len(FlightText(f, s)) \in Nat
            BY <3>1, <4>2
          <6> QED
            BY <3>1, <3>2, <6>1
        <5> QED
          BY <3>1, <5>1, AgreeAppended
      <4> QED
        BY <3>1, <4>1, <4>2
    <3>5. kv'[BlockOf(f.rows[s].tbl, p)] = Settled[BlockOf(f.rows[s].tbl, p)]
      <4>1. /\ BlockOf(f.rows[s].tbl, p) \in Blocks /\ BlockNo(p) \in DOMAIN f.rows[s].tbl
            /\ BlockOf(f.rows[s].tbl, p) = f.rows[s].tbl[BlockNo(p)]
        BY <3>1, <3>2, <3>3, PlaceHeld
      <4> QED
        BY <1>3, <1>a, <2>1, <4>1, CollectedKv
    <3>6. \A t \in DOMAIN f.rows : FlightFills(2, t) \subseteq FlightFills(1, t)'
      BY <1>3, <1>a, <2>1, CollectFills
    <3> QED
      BY <3>3, <3>4, <3>5, <3>6
  <2>7. RowsBacked(kv, 1)'
    <3>1. queue'[1].rows = f.rows
      BY <2>2
    <3>2. \A s : FlightText(queue[1], s)' = FlightText(f, s)'
      BY <2>2 DEF FlightText
    <3> QED
      BY <2>6, <3>1, <3>2 DEF RowsBacked
  <2>8. \A n \in DOMAIN queue' : RowsAlike(queue[n])'
    <3>1. ASSUME NEW n \in DOMAIN queue' PROVE RowsAlike(queue[n])'
      <4>1. queue'[n] = f
        BY <2>2
      <4> QED
        BY <2>5, <4>1 DEF RowsAlike, FlightText
    <3> QED
      BY <3>1
  <2> QED
    BY <2>2, <2>7, <2>8 DEF RowsSound
<1> QED
  BY <1>1, <1>2, <1>3

LEMMA NextRows ==
    ASSUME ConstantsAssumption, Core, Frame', CursorHeld',
           Sharing, Lengths, TailRight, NodesRight, RowsSound, Next
    PROVE  RowsSound'
<1>1. CASE Client
  BY <1>1, RowsKept DEF Client, AddMessage, StopSession, EndSession, loopVars, devVars
<1>2. CASE PassStep
  BY <1>2, PassMemory, RowsKept
<1>3. CASE Activate
  BY <1>3, RowsKept DEF Activate, devVars
<1> QED
  BY <1>1, <1>2, <1>3, StepKinds, DispatchRows, CollectRows

---------------------------------------------------------------------------
(* The blocks of the trie. *)

\* A node is right before the head runs, or a row of the head fills it.
NodesToCome ==
    \A p \in DOMAIN trie : \A o \in 0..(BlockSize - 1) :
        \/ kv[trie[p]][o] = SubSeq(p, 1, Len(p) - BlockSize + o + 1)
        \/ \E s \in Rows1 :
             /\ Len(p) - BlockSize + o \in FlightFills(1, s)
             /\ Holds(Head1.rows[s].tbl, Len(p) - 1) /\ BlockOf(Head1.rows[s].tbl, Len(p) - 1) = trie[p]

NodesSettled ==
    \A p \in DOMAIN trie : \A o \in 0..(BlockSize - 1) :
        Settled[trie[p]][o] = SubSeq(p, 1, Len(p) - BlockSize + o + 1)

LEMMA NodePosition ==
    ASSUME ConstantsAssumption, NEW p \in Seq(Tokens), NEW k \in Nat \ {0}, Len(p) = k * BlockSize,
           NEW o \in 0..(BlockSize - 1)
    PROVE  /\ Len(p) \in Nat \ {0} /\ Len(p) - BlockSize + o \in Nat
           /\ Len(p) - BlockSize + o < Len(p) /\ Len(p) - BlockSize + o + 1 \in Nat
           /\ Len(p) - BlockSize + o + 1 <= Len(p) /\ Len(p) - 1 \in Nat
           /\ BlockNo(Len(p) - BlockSize + o) = k /\ (Len(p) - BlockSize + o) % BlockSize = o
           /\ BlockNo(Len(p) - 1) = k
<1> DEFINE n == Len(p)
           m == n - BlockSize + o
<1> HIDE DEF n, m
<1>1. n = k * BlockSize /\ m = n - BlockSize + o
  BY DEF n, m
<1>2. n \in Nat \ {0} /\ m \in Nat /\ m < n /\ m + 1 \in Nat /\ m + 1 <= n /\ n - 1 \in Nat
  <2>1. m \in Nat
    BY <1>1, NodeCell
  <2>2. n \in Nat
    BY <1>1, NodeCell
  <2>3. m < n
    BY <1>1, NodeCell
  <2> QED
    BY <2>1, <2>2, <2>3
<1>3. BlockNo(m) = k /\ m % BlockSize = o
  BY <1>1, NodeCell
<1>4. BlockNo(n - 1) = k
  BY <1>1, NodeCell
<1> QED
  BY <1>2, <1>3, <1>4 DEF n, m

\* The forward sent last leaves every node right.
LEMMA NodeAfter ==
    ASSUME ConstantsAssumption, Frame, Sharing, Placed, pc \in {"sent", "next"}, NodesToCome,
           NEW p \in DOMAIN trie, NEW o \in 0..(BlockSize - 1)
    PROVE  Settled[trie[p]][o] = SubSeq(p, 1, Len(p) - BlockSize + o + 1)
<1>0. ConstantsAssumption
  OBVIOUS
<1>1. Len(queue) = 1 /\ queue # <<>> /\ Unstarted = {Head1} /\ Shapes
  <2>1. Len(queue) = 1 /\ Shapes
    BY DEF Frame, QueueShape
  <2>2. queue # <<>>
    BY <2>1, EmptySeq, QueueFacts
  <2>3. Unstarted = {queue[1]}
    BY <2>1 DEF Unstarted
  <2> QED
    BY <2>1, <2>2, <2>3 DEF Head1
<1>2. p \in Seq(Tokens) /\ trie[p] \in Blocks /\ Len(p) \in Nat
  BY <1>1 DEF Shapes
<1>3. PICK k \in 1..Len(p) : Len(p) = k * BlockSize
  BY SharingParts DEF NodesDeep
<1>k. k \in Nat \ {0}
  BY <1>2
<1> DEFINE q == Len(p) - BlockSize + o
           b == trie[p]
           t == SubSeq(p, 1, q + 1)
<1>4. /\ Len(p) \in Nat \ {0} /\ q \in Nat /\ q < Len(p) /\ q + 1 \in Nat /\ q + 1 <= Len(p)
      /\ Len(p) - 1 \in Nat /\ BlockNo(q) = k /\ q % BlockSize = o /\ BlockNo(Len(p) - 1) = k
  BY <1>0, <1>k, <1>2, <1>3, NodePosition
<1>5. ASSUME NEW u \in Rows1, NEW r \in Fills(Head1, u, b, o)
      PROVE  r = q /\ SubSeq(RowText(Head1, u), 1, r + 1) = t
  <2>1. Head1.rows[u].tbl \in Seq(Blocks) /\ RowText(Head1, u) \in Seq(Tokens)
    BY <1>1, HeadTyped
  <2>2. /\ r \in 0..(Len(RowText(Head1, u)) - 1) /\ r % BlockSize = o
        /\ Holds(Head1.rows[u].tbl, r) /\ BlockOf(Head1.rows[u].tbl, r) = b
    BY DEF Fills
  <2>3. r \in Nat
    BY <2>1, <2>2
  <2>4. BlockNo(r) \in DOMAIN Head1.rows[u].tbl /\ b = Head1.rows[u].tbl[BlockNo(r)]
    BY <1>0, <2>1, <2>2, <2>3, PlaceHeld
  <2>5. Len(p) = BlockNo(r) * BlockSize /\ Agree(FlightText(Head1, u), p, Len(p))
    BY <1>1, <2>4 DEF Placed, Rows1
  <2>6. BlockNo(r) = k
    <3>1. BlockNo(r) \in Nat \ {0}
      BY <1>0, <2>3, Place
    <3>2. BlockNo(r) * BlockSize = k * BlockSize /\ BlockSize \in Nat \ {0}
      BY <1>0, <1>3, <2>5 DEF ConstantsAssumption
    <3> DEFINE m == BlockNo(r)
    <3> HIDE DEF m
    <3>3. m \in Nat \ {0} /\ m * BlockSize = k * BlockSize
      BY <3>1, <3>2 DEF m
    <3>4. m = k
      BY <1>k, <3>2, <3>3, Z3
    <3> QED
      BY <3>4 DEF m
  <2>7. r = q
    BY <1>0, <1>4, <2>2, <2>3, <2>6, SamePlace
  <2>8. FlightText(Head1, u) = RowText(Head1, u)
    BY <1>1, HeadFlight
  <2>9. Agree(RowText(Head1, u), p, Len(p))
    BY <2>5, <2>8
  <2> DEFINE x == RowText(Head1, u)
             n == Len(p)
             m == q + 1
  <2>10. x \in Seq(Tokens) /\ n \in Nat /\ m \in Nat /\ m <= n /\ Agree(x, p, n)
    BY <1>2, <1>4, <2>1, <2>9
  <2> HIDE DEF x, n, m
  <2>11. SubSeq(x, 1, m) = SubSeq(p, 1, m)
    BY <1>2, <2>10, AgreeLess
  <2> QED
    BY <2>7, <2>11 DEF x, m
<1>6. Written(Head1, b, o) \subseteq {t}
  <2>1. ASSUME NEW y \in Written(Head1, b, o) PROVE y = t
    <3>1. PICK u \in Rows1 : y \in {SubSeq(RowText(Head1, u), 1, r + 1) : r \in Fills(Head1, u, b, o)}
      BY DEF Written, Rows1
    <3> QED
      BY <1>5, <3>1
  <2> QED
    BY <2>1
<1>7. KvAfter(Head1)[b][o] = IF Written(Head1, b, o) = {} THEN kv[b][o] ELSE t
  <2> HIDE DEF b, t
  <2>1. b \in Blocks
    BY <1>2 DEF b
  <2> QED
    BY <1>6, <2>1, AfterOne
<1>8. Written(Head1, b, o) # {} \/ kv[b][o] = t
  <2>1. SUFFICES ASSUME NEW s \in Rows1, q \in FlightFills(1, s),
                        Holds(Head1.rows[s].tbl, Len(p) - 1),
                        BlockOf(Head1.rows[s].tbl, Len(p) - 1) = b
                 PROVE  Written(Head1, b, o) # {}
    BY DEF NodesToCome
  <2>2. /\ Head1.rows[s].tbl \in Seq(Blocks) /\ RowText(Head1, s) \in Seq(Tokens)
        /\ RowFirst(Head1, s) \in Int
    BY <1>1, HeadTyped
  <2>3. Holds(Head1.rows[s].tbl, q) /\ BlockOf(Head1.rows[s].tbl, q) = b
    BY <1>0, <1>4, <2>1, <2>2, PlaceHeld
  <2>4. q \in RowFirst(Head1, s)..(Len(RowText(Head1, s)) - 1)
    <3>1. FlightFirst(1, s) = RowFirst(Head1, s) /\ FlightText(Head1, s) = RowText(Head1, s)
      BY <1>1, HeadFlight
    <3> QED
      BY <2>1, <3>1 DEF FlightFills, Head1
  <2>5. q < Len(RowText(Head1, s)) /\ q >= RowFirst(Head1, s)
    <3> HIDE DEF q
    <3>1. Len(RowText(Head1, s)) \in Nat /\ q \in Nat
      BY <1>4, <2>2
    <3> QED
      BY <2>2, <2>4, <3>1
  <2> HIDE DEF q, b
  <2>6. Written(Head1, BlockOf(Head1.rows[s].tbl, q), q % BlockSize) # {}
    BY <1>1, <1>4, <2>3, <2>5, WriterThere
  <2> QED
    BY <1>4, <2>3, <2>6
<1>9. Settled = KvAfter(Head1)
  BY <1>1 DEF Settled
<1> QED
  BY <1>7, <1>8, <1>9

LEMMA NodesAfter ==
    Frame /\ Sharing /\ Placed /\ pc \in {"sent", "next"} /\ NodesToCome => NodesSettled
  BY ConstantsAssumption, NodeAfter DEF NodesSettled

\* Primed.
LEMMA NodesAfterNext ==
    ASSUME Frame', Sharing', Placed', pc' \in {"sent", "next"}, NodesToCome'
    PROVE  NodesSettled'
<1> DEFINE Givens == Frame /\ Sharing /\ Placed /\ pc \in {"sent", "next"} /\ NodesToCome
<1>1. Givens'
  OBVIOUS
<1>2. Givens => NodesSettled
  BY NodesAfter
<1> HIDE DEF Givens
<1>3. (Givens => NodesSettled)'
  BY NodesAfter, PTL DEF Givens
<1> QED
  BY <1>1, <1>3

\* Whom the nodes to be built wait for.
Builders == turn.batch \cup (IF pc \in {"publish", "accept"} THEN {turn.cand} ELSE {})

LEMMA PublishingSteps ==
    ASSUME PassStep, pc \in {"publish", "accept"}
    PROVE  EndPublish \/ PublishNew \/ PublishShared \/ AcceptPrefill \/ AcceptDecode
<1>1. CASE Prefill /\ ~BuildPrefill
  BY <1>1 DEF Prefill, BeginPrefill, EndPick, MatchBlock, EndMatch, GateRejects, GateAdmits,
     NoRoomPrefill, FallBackToDecode, PickCandidate
<1>2. CASE Capacity
  BY <1>2 DEF Capacity, CapacityFound, NothingToReclaim, EvictEnough, EvictNextVictim, Reclaim, EvictLeaf
<1>3. CASE Publish
  BY <1>3 DEF Publish, BeginPublish, AllocateBlock
<1>4. CASE Decode
  BY <1>4 DEF Decode, BeginDecode, NoRoomDecode, BuildDecode, DecodeDrop, DecodeKeep, DecodeGrow
<1> QED
  BY <1>1, <1>2, <1>3, <1>4 DEF PassStep

\* A pass that has scheduled somebody goes on, and keeps whom it has scheduled.
LEMMA BuildersStay ==
    ASSUME Frame, PassStep, pc \in Passing, NEW s \in Builders
    PROVE  pc' \in Passing /\ s \in Builders'
<1>1. CASE pc \in {"publish", "accept"}
  <2>1. s \in turn.batch \cup {turn.cand}
    BY DEF Builders
  <2>2. CASE EndPublish \/ PublishNew \/ PublishShared
    <3>1. pc' \in {"publish", "accept"} /\ turn' = turn
      BY <2>2 DEF EndPublish, PublishNew, PublishShared
    <3> QED
      BY <2>1, <3>1 DEF Builders, Passing, Candidate
  <2>3. CASE AcceptPrefill
    <3>1. pc' = "pick" /\ turn'.batch = turn.batch \cup {turn.cand}
      BY <2>3 DEF AcceptPrefill, Frame, Shapes, Turns
    <3> QED
      BY <2>1, <3>1 DEF Builders, Passing
  <2>4. CASE AcceptDecode
    <3>1. pc' = "decode" /\ turn'.batch = turn.batch \cup {turn.cand}
      BY <2>4 DEF AcceptDecode, Frame, Shapes, Turns
    <3> QED
      BY <2>1, <3>1 DEF Builders, Passing
  <2> QED
    BY <1>1, <2>2, <2>3, <2>4, PublishingSteps
<1>2. CASE pc \notin {"publish", "accept"}
  <2>1. s \in turn.batch
    BY <1>2 DEF Builders
  <2>2. turn \in Turns
    BY DEF Frame, Shapes
  <2>3. pc' \in Passing /\ turn.batch \subseteq turn'.batch
    <3>1. CASE Prefill /\ ~BuildPrefill
      <4>1. CASE BeginPrefill \/ EndPick \/ MatchBlock \/ EndMatch \/ FallBackToDecode
        BY <2>1, <4>1 DEF BeginPrefill, EndPick, MatchBlock, EndMatch, FallBackToDecode, Passing, Candidate
      <4>2. CASE GateRejects \/ GateAdmits \/ NoRoomPrefill \/ AcceptPrefill
        BY <1>2, <2>2, <4>2 DEF GateRejects, GateAdmits, NoRoomPrefill, AcceptPrefill, Turns, Passing, Candidate
      <4>3. CASE \E t \in Seqs : PickCandidate(t)
        BY <2>2, <4>3 DEF PickCandidate, Turns, Passing, Candidate
      <4> QED
        BY <3>1, <4>1, <4>2, <4>3 DEF Prefill
    <3>2. CASE Capacity
      BY <3>2 DEF Capacity, CapacityFound, NothingToReclaim, EvictEnough, EvictNextVictim, Reclaim,
         EvictLeaf, Passing, Candidate
    <3>3. CASE Publish
      BY <2>2, <3>3 DEF Publish, BeginPublish, PublishNew, PublishShared, EndPublish, AllocateBlock, Turns,
         Passing, Candidate
    <3>4. CASE Decode /\ (BuildDecode => turn.batch = {})
      <4>1. ~BuildDecode
        BY <2>1, <3>4
      <4>2. CASE BeginDecode \/ NoRoomDecode \/ AcceptDecode
        BY <1>2, <2>2, <4>2 DEF BeginDecode, NoRoomDecode, AcceptDecode, Turns, Passing, Candidate
      <4>3. ASSUME NEW t \in Seqs, DecodeDrop(t) \/ DecodeKeep(t) \/ DecodeGrow(t)
            PROVE  pc' \in Passing /\ turn.batch \subseteq turn'.batch
        BY <2>2, <4>3, ZenonT(30) DEF DecodeDrop, DecodeKeep, DecodeGrow, Turns, Passing, Candidate
      <4> QED
        BY <3>4, <4>1, <4>2, <4>3 DEF Decode
    <3> QED
      BY <3>1, <3>2, <3>3, <3>4 DEF PassStep
  <2> QED
    BY <2>1, <2>3 DEF Builders
<1> QED
  BY <1>1, <1>2

\* Nor does it take back their blocks.
LEMMA BuildersKept ==
    ASSUME ConstantsAssumption, Core, Frame', CursorHeld', PassStep, pc \in Passing, NEW s \in Builders
    PROVE  /\ s \in Seqs /\ cursor'[s] >= cursor[s] /\ cursor[s] \in Nat /\ cursor'[s] \in Nat
           /\ Computed(s)' = Computed(s) /\ ids' = ids
<1>a. Frame /\ Shapes /\ Control /\ CursorHeld /\ BatchReserved
  BY DEF Core, Frame, Flow, Reserved
<1>0. UNCHANGED <<queue, kv, wtext, ids>>
  BY PassMemory
<1>1. s \in Seqs
  BY <1>a DEF Builders, Control, Candidate, Shapes, Turns
<1>2. cursor[s] \in Nat /\ cursor'[s] \in Nat /\ cursor \in [Seqs -> Nat \cup {Detached}]
  BY <1>a, <1>1 DEF CursorHeld, Shapes
<1>3. ASSUME status'[s] = "RUNNING" <=> status[s] = "RUNNING", hist'[s] = hist[s]
      PROVE  Computed(s)' = Computed(s)
  BY <1>0, <1>3 DEF Computed, Stepping, Rows1, Head1
<1>4. CASE pc \in {"publish", "accept"}
  <2>1. CASE EndPublish
    <3>1. UNCHANGED <<cursor, hist, status>>
      BY <2>1 DEF EndPublish, seqVars
    <3> QED
      BY <1>0, <1>1, <1>2, <1>3, <3>1
  <2>2. CASE PublishNew \/ PublishShared
    <3>1. UNCHANGED <<hist, status>>
      BY <2>2 DEF PublishNew, PublishShared, seqVars
    <3>2. PICK t, k : t = turn.cand /\ k = cursor[t] + 1
      OBVIOUS
    <3>3. t \in Seqs /\ cursor' = [cursor EXCEPT ![t] = k]
      BY <1>a, <2>2, <3>2, PublishSlot
    <3>4. cursor[t] \in Nat
      BY <1>a, <3>3 DEF CursorHeld
    <3>5. cursor'[s] >= cursor[s]
      BY <1>1, <1>2, <3>2, <3>3, <3>4
    <3> QED
      BY <1>0, <1>1, <1>2, <1>3, <3>1, <3>5
  <2>3. CASE AcceptPrefill
    <3>1. UNCHANGED <<cursor, hist>> /\ status' = [status EXCEPT ![turn.cand] = "READY"]
      BY <2>3 DEF AcceptPrefill, memVars
    <3>2. turn.cand \in Seqs /\ status[turn.cand] = "WAITING"
      BY <1>a, <2>3 DEF AcceptPrefill, Control, Candidate
    <3>3. status'[s] = "RUNNING" <=> status[s] = "RUNNING"
      BY <1>a, <1>1, <3>1, <3>2 DEF Shapes
    <3> QED
      BY <1>0, <1>1, <1>2, <1>3, <3>1, <3>3
  <2>4. CASE AcceptDecode
    <3>1. UNCHANGED <<cursor, hist, status>>
      BY <2>4 DEF AcceptDecode, memVars, seqVars
    <3> QED
      BY <1>0, <1>1, <1>2, <1>3, <3>1
  <2> QED
    BY <1>4, <2>1, <2>2, <2>3, <2>4, PublishingSteps
<1>5. CASE pc \notin {"publish", "accept"}
  <2>1. s \in turn.batch /\ status[s] \in {"READY", "RUNNING"}
    BY <1>a, <1>5 DEF Builders, BatchReserved
  <2>2. pc \in Candidate => s # turn.cand
    BY <2>1 DEF Core, Flow, Reserved
  <2>3. status'[s] = status[s]
    <3>1. CASE AcceptPrefill
      BY <1>5, <3>1 DEF AcceptPrefill
    <3>2. CASE NoRoomDecode /\ status' = [status EXCEPT ![turn.cand] = "WAITING"]
      <4>1. pc \in Candidate
        BY <3>2 DEF NoRoomDecode, Candidate
      <4> QED
        BY <1>a, <1>1, <2>2, <3>2, <4>1 DEF Shapes
    <3> QED
      BY <1>a, <3>1, <3>2, PassStatus
  <2>4. cursor'[s] = cursor[s] /\ hist'[s] = hist[s]
    <3>1. CASE MemoryKept
      BY <3>1 DEF MemoryKept
    <3>2. ASSUME NEW v \in Seqs, ReleasePaging(v), status[v] \in {"WAITING", "STOPPED"}
          PROVE  cursor'[s] = cursor[s] /\ hist'[s] = hist[s]
      <4>1. v # s
        BY <2>1, <3>2
      <4> QED
        BY <1>a, <1>1, <3>2, <4>1 DEF ReleasePaging, Shapes
    <3>3. CASE MatchBlock
      <4>1. /\ cursor' = [cursor EXCEPT ![turn.cand] = @ + 1] /\ pc = "match"
            /\ hist' = [hist EXCEPT ![turn.cand] = (cursor[turn.cand] + 1) * BlockSize]
        BY <3>3 DEF MatchBlock
      <4>2. s # turn.cand
        BY <2>2, <4>1 DEF Candidate
      <4> QED
        BY <1>a, <1>1, <4>1, <4>2 DEF Shapes
    <3>4. ASSUME NEW p, EvictLeaf(p), UNCHANGED cursor PROVE cursor'[s] = cursor[s] /\ hist'[s] = hist[s]
      BY <3>4 DEF EvictLeaf, seqVars
    <3>5. ASSUME NEW b \in Blocks, AllocateBlock(b) PROVE cursor'[s] = cursor[s] /\ hist'[s] = hist[s]
      BY <3>5 DEF AllocateBlock, seqVars
    <3>6. CASE PublishNew \/ PublishShared
      BY <1>5, <3>6 DEF PublishNew, PublishShared
    <3> QED
      BY <3>1, <3>2, <3>3, <3>4, <3>5, <3>6, PassMemory
  <2> QED
    BY <1>0, <1>1, <1>2, <1>3, <2>3, <2>4
<1> QED
  BY <1>4, <1>5

\* The nodes after a step of a pass.
LEMMA PassTrie ==
    ASSUME ConstantsAssumption, Core, CursorHeld', PassStep, NEW p \in DOMAIN trie'
    PROVE  \/ p \in DOMAIN trie /\ trie'[p] = trie[p]
           \/ /\ PublishNew /\ p = Prefix(turn.cand, cursor[turn.cand] + 1)
              /\ trie'[p] = table[turn.cand][cursor[turn.cand] + 1]
<1>1. CASE MemoryKept
  BY <1>1 DEF MemoryKept
<1>2. ASSUME NEW v \in Seqs, ReleasePaging(v) PROVE trie' = trie
  BY <1>2 DEF ReleasePaging
<1>3. CASE MatchBlock
  BY <1>3 DEF MatchBlock
<1>4. ASSUME NEW q, EvictLeaf(q) PROVE p \in DOMAIN trie /\ trie'[p] = trie[p]
  <2>1. trie' = [r \in DOMAIN trie \ {q} |-> trie[r]]
    BY <1>4 DEF EvictLeaf
  <2> QED
    BY <2>1
<1>5. ASSUME NEW b \in Blocks, AllocateBlock(b) PROVE trie' = trie
  BY <1>5 DEF AllocateBlock
<1>6. CASE PublishNew
  <2>1. PICK q, b : /\ q = Prefix(turn.cand, cursor[turn.cand] + 1)
                    /\ b = table[turn.cand][cursor[turn.cand] + 1]
    OBVIOUS
  <2>2. trie' = [r \in DOMAIN trie \cup {q} |-> IF r = q THEN b ELSE trie[r]]
    BY <1>6, <2>1 DEF PublishNew
  <2> QED
    BY <1>6, <2>1, <2>2
<1>7. CASE PublishShared
  BY <1>7 DEF PublishShared
<1> QED
  BY <1>1, <1>2, <1>3, <1>4, <1>5, <1>6, <1>7, PassMemory

\* A pass leaves the nodes right or to be built.
LEMMA PassNodes ==
    ASSUME ConstantsAssumption, Core, Frame', CursorHeld', Sharing, TailRight, NodesRight, PassStep
    PROVE  NodesRight'
<1>a. Frame /\ Shapes /\ Control /\ CursorHeld /\ NodesDeep
  BY SharingParts DEF Core, Frame
<1>b. BlockSize \in Nat \ {0}
  BY DEF ConstantsAssumption
<1>1. UNCHANGED <<queue, kv, wtext, ids>> /\ Len(queue) \in 0..1
  BY <1>a, PassMemory, PassUnstarted
<1>2. Settled' = Settled
  BY <1>1, SettledSame
<1> SUFFICES ASSUME NEW p \in DOMAIN trie', NEW o \in 0..(BlockSize - 1)
             PROVE  \/ Settled'[trie'[p]][o] = SubSeq(p, 1, Len(p) - BlockSize + o + 1)
                    \/ ToBeBuilt(p, o)'
  BY DEF NodesRight
<1>3. CASE p \in DOMAIN trie /\ trie'[p] = trie[p]
  <2>1. ~ToBeRun(p, o)
    BY <1>1 DEF ToBeRun
  <2>2. CASE Settled[trie[p]][o] = SubSeq(p, 1, Len(p) - BlockSize + o + 1)
    BY <1>2, <1>3, <2>2
  <2>3. CASE ToBeBuilt(p, o)
    <3>1. PICK s \in Builders : /\ Len(p) <= cursor[s] * BlockSize /\ Agree(ids[s], p, Len(p))
                                /\ Computed(s) <= Len(p) - BlockSize + o
      BY <2>3 DEF ToBeBuilt, Builders
    <3>2. pc' \in Passing /\ s \in Builders'
      BY <1>a, <2>3, BuildersStay DEF ToBeBuilt
    <3>3. /\ s \in Seqs /\ cursor'[s] >= cursor[s] /\ cursor[s] \in Nat /\ cursor'[s] \in Nat
          /\ Computed(s)' = Computed(s) /\ ids' = ids
      BY <2>3, BuildersKept DEF ToBeBuilt
    <3>4. Len(p) <= cursor'[s] * BlockSize
      <4>1. /\ cursor[s] * BlockSize <= cursor'[s] * BlockSize
            /\ cursor[s] * BlockSize \in Nat /\ cursor'[s] * BlockSize \in Nat
        BY <1>b, <3>3, BlocksMono
      <4>2. Len(p) \in Nat
        BY <1>a, <1>3 DEF Shapes
      <4> DEFINE n == cursor[s] * BlockSize
                 m == cursor'[s] * BlockSize
      <4>3. Len(p) <= n
        BY <3>1
      <4> HIDE DEF n, m
      <4>4. n <= m /\ n \in Nat /\ m \in Nat
        BY <4>1 DEF n, m
      <4>5. Len(p) <= m
        BY <4>2, <4>3, <4>4
      <4> QED
        BY <4>5 DEF m
    <3>5. Agree(ids'[s], p, Len(p)) /\ Computed(s)' <= Len(p) - BlockSize + o
      BY <3>1, <3>3
    <3> QED
      BY <3>2, <3>4, <3>5 DEF ToBeBuilt, Builders, Agree
  <2> QED
    BY <1>3, <2>1, <2>2, <2>3 DEF NodesRight
<1>4. CASE PublishNew /\ p = Prefix(turn.cand, cursor[turn.cand] + 1)
           /\ trie'[p] = table[turn.cand][cursor[turn.cand] + 1]
  <2>1. PICK s, k : s = turn.cand /\ k = cursor[s] + 1
    OBVIOUS
  <2>2. /\ s \in Seqs /\ pc = "publish" /\ status[s] \in {"WAITING", "RUNNING"}
        /\ k \in Nat \ {0} /\ k \in 1..Len(table[s]) /\ k * BlockSize <= Len(ids[s])
        /\ Len(Prefix(s, k)) = k * BlockSize /\ k * BlockSize \in Nat
        /\ cursor'[s] = k
    BY <1>a, <1>4, <2>1, PublishSlot
  <2>3. /\ p = Prefix(s, k) /\ trie'[p] = table[s][k] /\ cursor[s] \in Nat /\ Computed(s) \in Nat
        /\ p \in Seq(Tokens) /\ Len(p) = k * BlockSize /\ Agree(ids[s], p, Len(p))
        /\ ids[s] \in Seq(Tokens) /\ table[s] \in Seq(Blocks)
    <3>1. ids[s] \in Seq(Tokens) /\ table[s] \in Seq(Blocks) /\ cursor[s] \in Nat
      BY <1>a, <2>2 DEF Shapes, CursorHeld
    <3>2. Prefix(s, k) \in Seq(Tokens)
      BY <2>2, <3>1, SubSeqOf DEF Prefix
    <3>3. Agree(ids[s], Prefix(s, k), k * BlockSize)
      BY <2>2, <3>1, AgreeSelf DEF Prefix
    <3>4. Computed(s) \in Nat
      BY <1>a, <2>2, LengthTypes
    <3> QED
      BY <1>4, <2>1, <2>2, <3>1, <3>2, <3>3, <3>4
  <2> DEFINE q == Len(p) - BlockSize + o
  <2>4. /\ q \in Nat /\ q < Len(p) /\ q + 1 \in Nat /\ q + 1 <= Len(p) /\ Len(p) \in Nat
        /\ BlockNo(q) = k /\ q % BlockSize = o
    BY <2>2, <2>3, NodePosition
  <2> HIDE DEF q
  <2>5. CASE q < Computed(s)
    <3>1. BlockNo(q) > cursor[s]
      BY <2>1, <2>3, <2>4
    <3>2. q >= cursor[s] * BlockSize /\ cursor[s] * BlockSize \in Nat
      BY <1>b, <2>3, <2>4, <3>1, BehindCursor
    <3>3. q \in (cursor[s] * BlockSize)..(Computed(s) - 1)
      BY <2>3, <2>4, <2>5, <3>2
    <3>4. s \in Live
      BY <2>2 DEF Live, Waiting, Active, WithStatus
    <3>5. Settled[BlockOf(table[s], q)][q % BlockSize] = SubSeq(ids[s], 1, q + 1)
      BY <3>3, <3>4 DEF TailRight
    <3>6. BlockOf(table[s], q) = table[s][k]
      BY <2>3, <2>4, PlaceHeld
    <3>7. SubSeq(ids[s], 1, q + 1) = SubSeq(p, 1, q + 1)
      BY <2>3, <2>4, AgreeLess
    <3> QED
      BY <1>2, <2>3, <2>4, <3>5, <3>6, <3>7 DEF q
  <2>6. CASE ~(q < Computed(s))
    <3>1. s \in Builders
      BY <2>1, <2>2 DEF Builders
    <3>2. pc' \in Passing /\ s \in Builders'
      BY <1>a, <2>2, <3>1, BuildersStay DEF Passing, Candidate
    <3>3. Computed(s)' = Computed(s) /\ ids' = ids
      BY <2>2, <3>1, BuildersKept DEF Passing, Candidate
    <3>4. Computed(s) <= q
      BY <2>3, <2>4, <2>6
    <3>5. Len(p) <= cursor'[s] * BlockSize
      BY <2>2, <2>3, <2>4
    <3>6. Computed(s)' <= Len(p) - BlockSize + o /\ Agree(ids'[s], p, Len(p))
      BY <2>3, <3>3, <3>4 DEF q
    <3> QED
      BY <3>2, <3>5, <3>6 DEF ToBeBuilt, Builders, Agree
  <2> QED
    BY <2>5, <2>6
<1> QED
  BY <1>3, <1>4, PassTrie

\* A scheduled sequence that a node waits for fills its cell.
LEMMA NodeBuilder ==
    ASSUME ConstantsAssumption, Core, Sharing, Lengths, pc \in Passing \ Candidate,
           NEW p \in DOMAIN trie, NEW o \in 0..(BlockSize - 1), ToBeBuilt(p, o)
    PROVE  \E s \in turn.batch :
             /\ s \in Seqs /\ Len(p) - BlockSize + o \in Computed(s)..(Len(ids[s]) - 1)
             /\ Holds(table[s], Len(p) - 1) /\ BlockOf(table[s], Len(p) - 1) = trie[p]
<1>a. Shapes /\ Rooted /\ CursorHeld /\ NodesDeep
  BY SharingParts DEF Core, Frame
<1>1. PICK s \in turn.batch : /\ Len(p) <= cursor[s] * BlockSize /\ Agree(ids[s], p, Len(p))
                              /\ Computed(s) <= Len(p) - BlockSize + o
  BY DEF ToBeBuilt, Candidate
<1>2. s \in Seqs
  BY <1>a DEF Shapes, Turns
<1>3. PICK m \in 1..cursor[s] : Len(p) = m * BlockSize /\ trie[p] = table[s][m]
  BY <1>a, <1>1, <1>2, AgreedNode
<1>4. /\ table[s] \in Seq(Blocks) /\ m \in DOMAIN table[s] /\ m \in Nat \ {0} /\ p \in Seq(Tokens)
      /\ ids[s] \in Seq(Tokens) /\ Computed(s) \in Nat
  <2>1. m \in DOMAIN table[s]
    BY <1>a, <1>2, <1>3, FollowedNode
  <2>2. cursor[s] \in Nat /\ Computed(s) \in Nat
    BY <1>a, <1>2, LengthTypes DEF CursorHeld
  <2> QED
    BY <1>a, <1>2, <2>1, <2>2, SMTT(30) DEF Shapes
<1> DEFINE q == Len(p) - BlockSize + o
<1>5. /\ q \in Nat /\ q < Len(p) /\ Len(p) \in Nat /\ Len(p) - 1 \in Nat /\ BlockNo(Len(p) - 1) = m
  BY <1>3, <1>4, NodePosition
<1>6. Holds(table[s], Len(p) - 1) /\ BlockOf(table[s], Len(p) - 1) = trie[p]
  BY <1>3, <1>4, <1>5, PlaceHeld
<1>7. q \in Computed(s)..(Len(ids[s]) - 1)
  <2>1. Len(p) <= Len(ids[s]) /\ Len(ids[s]) \in Nat
    BY <1>1, <1>4 DEF Agree
  <2>2. Computed(s) <= q
    BY <1>1
  <2> HIDE DEF q
  <2> QED
    BY <1>4, <1>5, <2>1, <2>2
<1> QED
  BY <1>2, <1>6, <1>7

LEMMA DispatchNodes ==
    ASSUME ConstantsAssumption, Core, Frame', Sharing, Sharing', Placed', Lengths, NodesRight, Dispatch
    PROVE  NodesRight'
<1>a. Frame /\ Stepped /\ Reserved
  BY DEF Core, Flow
<1>1. PICK kind \in {"prefill", "decode"} :
        /\ UNCHANGED <<table, trie, cursor, hist, ids, status, kv, wtext>>
        /\ Len(queue) \in 0..1 /\ queue \in Seq(ForwardSet) /\ pc \in Passing \ Candidate
        /\ queue' = Append(queue, Forward(kind, turn.batch))
        /\ queue = <<>> => pc' = "sent" /\ queue' = <<Forward(kind, turn.batch)>>
  BY <1>a, Dispatched
<1>2. PICK f : f = Forward(kind, turn.batch)
  OBVIOUS
<1>3. PICK i : i = Len(queue) + 1
  OBVIOUS
<1>4. DOMAIN f.rows = turn.batch /\ queue' = Append(queue, f)
  BY <1>1, <1>2 DEF Forward
<1>5. ASSUME NEW p \in DOMAIN trie, NEW o \in 0..(BlockSize - 1)
      PROVE  \/ Settled[trie[p]][o] = SubSeq(p, 1, Len(p) - BlockSize + o + 1)
             \/ \E s \in turn.batch :
                  /\ s \in DOMAIN f.rows /\ Len(p) - BlockSize + o \in FlightFills(i, s)'
                  /\ Holds(f.rows[s].tbl, Len(p) - 1) /\ BlockOf(f.rows[s].tbl, Len(p) - 1) = trie[p]
  <2>1. ~ToBeRun(p, o)
    BY <1>1 DEF ToBeRun
  <2>2. ASSUME ToBeBuilt(p, o)
        PROVE  \E s \in turn.batch :
                 /\ s \in DOMAIN f.rows /\ Len(p) - BlockSize + o \in FlightFills(i, s)'
                 /\ Holds(f.rows[s].tbl, Len(p) - 1) /\ BlockOf(f.rows[s].tbl, Len(p) - 1) = trie[p]
    <3>1. PICK s \in turn.batch :
             /\ s \in Seqs /\ Len(p) - BlockSize + o \in Computed(s)..(Len(ids[s]) - 1)
             /\ Holds(table[s], Len(p) - 1) /\ BlockOf(table[s], Len(p) - 1) = trie[p]
      BY <1>1, <2>2, NodeBuilder
    <3>2. /\ s \in DOMAIN f.rows /\ f.rows[s].tbl = table[s] /\ queue'[i] = f
          /\ FlightText(f, s)' = ids[s] /\ FlightFirst(i, s)' = Computed(s)
      BY <1>2, <1>3, <1>4, DispatchedFlight
    <3>3. FlightFills(i, s)' = FlightFirst(i, s)'..(Len(FlightText(f, s)') - 1)
      BY <3>2 DEF FlightFills, FlightText
    <3> QED
      BY <3>1, <3>2, <3>3
  <2> QED
    BY <2>1, <2>2 DEF NodesRight
<1>6. CASE queue = <<>>
  <2>1. i = 1 /\ Len(queue') = 1 /\ queue' # <<>> /\ queue'[1] = f /\ pc' = "sent" /\ Settled = kv
    BY <1>1, <1>2, <1>3, <1>4, <1>6 DEF Settled
  <2>2. Head1' = f /\ Rows1' = DOMAIN f.rows
    BY <2>1 DEF Head1, Rows1
  <2>3. NodesToCome'
    <3> SUFFICES ASSUME NEW p \in DOMAIN trie', NEW o \in 0..(BlockSize - 1)
                 PROVE  \/ kv'[trie'[p]][o] = SubSeq(p, 1, Len(p) - BlockSize + o + 1)
                        \/ \E s \in Rows1' :
                             /\ Len(p) - BlockSize + o \in FlightFills(1, s)'
                             /\ Holds(Head1'.rows[s].tbl, Len(p) - 1)
                             /\ BlockOf(Head1'.rows[s].tbl, Len(p) - 1) = trie'[p]
      BY DEF NodesToCome
    <3>1. p \in DOMAIN trie /\ trie'[p] = trie[p]
      BY <1>1
    <3>2. CASE Settled[trie[p]][o] = SubSeq(p, 1, Len(p) - BlockSize + o + 1)
      BY <1>1, <2>1, <3>1, <3>2
    <3>3. ASSUME NEW s \in turn.batch, s \in DOMAIN f.rows, Len(p) - BlockSize + o \in FlightFills(i, s)',
                 Holds(f.rows[s].tbl, Len(p) - 1), BlockOf(f.rows[s].tbl, Len(p) - 1) = trie[p]
          PROVE  /\ s \in Rows1' /\ Len(p) - BlockSize + o \in FlightFills(1, s)'
                 /\ Holds(Head1'.rows[s].tbl, Len(p) - 1)
                 /\ BlockOf(Head1'.rows[s].tbl, Len(p) - 1) = trie'[p]
      BY <2>1, <2>2, <3>1, <3>3
    <3> QED
      BY <1>5, <3>1, <3>2, <3>3
  <2>4. NodesSettled'
    BY <2>1, <2>3, NodesAfterNext
  <2> QED
    BY <2>4 DEF NodesSettled, NodesRight
<1>7. CASE queue # <<>>
  <2>1. Len(queue') = 2 /\ queue' # <<>> /\ Head1' = Head1 /\ i = 2 /\ queue'[2] = f
    <3>1. Len(queue) = 1 /\ Len(queue') = 2 /\ queue' # <<>> /\ Head1' = Head1
      BY <1>a, <1>7, DispatchedHead
    <3> QED
      BY <1>1, <1>3, <1>4, <3>1
  <2>2. Settled' = Settled
    BY <1>1, <1>7, <2>1, SettledSame
  <2>3. ASSUME NEW p \in DOMAIN trie', NEW o \in 0..(BlockSize - 1)
        PROVE  Settled'[trie'[p]][o] = SubSeq(p, 1, Len(p) - BlockSize + o + 1) \/ ToBeRun(p, o)'
    <3>1. p \in DOMAIN trie /\ trie'[p] = trie[p]
      BY <1>1
    <3>2. CASE Settled[trie[p]][o] = SubSeq(p, 1, Len(p) - BlockSize + o + 1)
      BY <2>2, <3>1, <3>2
    <3>3. ASSUME NEW s \in turn.batch, s \in DOMAIN f.rows, Len(p) - BlockSize + o \in FlightFills(i, s)',
                 Holds(f.rows[s].tbl, Len(p) - 1), BlockOf(f.rows[s].tbl, Len(p) - 1) = trie[p]
          PROVE  ToBeRun(p, o)'
      BY <2>1, <3>1, <3>3 DEF ToBeRun
    <3> QED
      BY <1>5, <3>1, <3>2, <3>3
  <2> QED
    BY <2>3 DEF NodesRight
<1> QED
  BY <1>6, <1>7

LEMMA CollectNodes ==
    ASSUME ConstantsAssumption, Core, Frame', Sharing', Placed', NodesRight,
           NEW tok \in Sampled, NEW stop \in SUBSET Rows1, CollectOutput(tok, stop)
    PROVE  NodesRight'
<1>a. Frame /\ Shapes /\ Owned /\ Stepped /\ ReadySent
  BY DEF Core, Frame, Flow
<1>1. /\ pc = "wait" /\ trie' = trie /\ queue' = Tail(queue)
      /\ pc' = (IF Len(queue) = 1 THEN "send" ELSE "next")
      /\ (Len(queue) = 1 \/ Len(queue) = 2)
  <2>1. Len(queue) = 1 \/ Len(queue) = 2
    BY <1>a, Collected, Waits
  <2> QED
    BY <1>a, <2>1, Collected
<1>2. \A p \in DOMAIN trie : kv'[trie[p]] = Settled[trie[p]]
  <2> SUFFICES ASSUME NEW p \in DOMAIN trie PROVE kv'[trie[p]] = Settled[trie[p]]
    OBVIOUS
  <2>1. trie[p] \in Blocks
    BY <1>a DEF Shapes
  <2> QED
    BY <1>a, <2>1, CollectedKv
<1>3. ASSUME NEW p \in DOMAIN trie, NEW o \in 0..(BlockSize - 1)
      PROVE  kv'[trie[p]][o] = SubSeq(p, 1, Len(p) - BlockSize + o + 1) \/ ToBeRun(p, o)
  <2>1. ~ToBeBuilt(p, o)
    BY <1>1 DEF ToBeBuilt, Passing, Candidate
  <2> QED
    BY <1>2, <2>1 DEF NodesRight
<1>4. CASE Len(queue) = 1
  <2>1. queue' = <<>>
    BY <1>a, <1>4, CollectedLast
  <2>2. Settled' = kv'
    BY <2>1 DEF Settled
  <2>3. \A p, o : ~ToBeRun(p, o)
    BY <1>4 DEF ToBeRun
  <2> QED
    BY <1>1, <1>3, <2>2, <2>3 DEF NodesRight
<1>5. CASE Len(queue) = 2
  <2>1. pc' = "next" /\ Head1' = queue[2] /\ Rows1' = DOMAIN queue[2].rows
    BY <1>a, <1>5, CollectedFirst
  <2>2. PICK f : f = queue[2]
    OBVIOUS
  <2>3. NodesToCome'
    <3> SUFFICES ASSUME NEW p \in DOMAIN trie', NEW o \in 0..(BlockSize - 1)
                 PROVE  \/ kv'[trie'[p]][o] = SubSeq(p, 1, Len(p) - BlockSize + o + 1)
                        \/ \E s \in Rows1' :
                             /\ Len(p) - BlockSize + o \in FlightFills(1, s)'
                             /\ Holds(Head1'.rows[s].tbl, Len(p) - 1)
                             /\ BlockOf(Head1'.rows[s].tbl, Len(p) - 1) = trie'[p]
      BY DEF NodesToCome
    <3>1. p \in DOMAIN trie /\ trie'[p] = trie[p]
      BY <1>1
    <3>2. ASSUME ToBeRun(p, o)
          PROVE  \E s \in Rows1' :
                   /\ Len(p) - BlockSize + o \in FlightFills(1, s)'
                   /\ Holds(Head1'.rows[s].tbl, Len(p) - 1)
                   /\ BlockOf(Head1'.rows[s].tbl, Len(p) - 1) = trie'[p]
      <4>1. PICK s \in DOMAIN f.rows :
               /\ Len(p) - BlockSize + o \in FlightFills(2, s)
               /\ Holds(f.rows[s].tbl, Len(p) - 1) /\ BlockOf(f.rows[s].tbl, Len(p) - 1) = trie[p]
        BY <2>2, <3>2 DEF ToBeRun
      <4>2. FlightFills(2, s) \subseteq FlightFills(1, s)'
        BY <1>a, <1>5, <2>2, CollectFills
      <4> QED
        BY <2>1, <2>2, <3>1, <4>1, <4>2
    <3> QED
      BY <1>3, <3>1, <3>2
  <2>4. NodesSettled'
    BY <2>1, <2>3, NodesAfterNext
  <2> QED
    BY <2>4 DEF NodesSettled, NodesRight
<1> QED
  BY <1>1, <1>4, <1>5

LEMMA NextNodes ==
    ASSUME ConstantsAssumption, Core, Frame', CursorHeld', Sharing, Sharing', Lengths, TailRight,
           Placed', NodesRight, Next
    PROVE  NodesRight'
<1>1. CASE Client \/ Activate
  <2>1. UNCHANGED <<queue, kv, wtext, trie>> /\ pc \notin Passing
    <3>1. CASE Client
      BY <3>1 DEF Client, AddMessage, StopSession, EndSession, ReleasePaging, Await, memVars, loopVars,
         devVars, Passing, Candidate
    <3>2. CASE Activate
      BY <3>2 DEF Activate, memVars, devVars, Passing, Candidate
    <3> QED
      BY <1>1, <3>1, <3>2
  <2>2. Settled' = Settled
    BY <2>1, SettledSame
  <2>3. ASSUME NEW p \in DOMAIN trie', NEW o \in 0..(BlockSize - 1)
        PROVE  Settled'[trie'[p]][o] = SubSeq(p, 1, Len(p) - BlockSize + o + 1) \/ ToBeRun(p, o)'
    <3>1. ~ToBeBuilt(p, o)
      BY <2>1 DEF ToBeBuilt
    <3>2. ToBeRun(p, o) => ToBeRun(p, o)'
      <4>1. \A i, s : FlightFills(i, s)' = FlightFills(i, s)
        BY <2>1, FlightKept
      <4> QED
        BY <2>1, <4>1 DEF ToBeRun
    <3> QED
      BY <2>1, <2>2, <3>1, <3>2 DEF NodesRight
  <2> QED
    BY <2>3 DEF NodesRight
<1>2. CASE PassStep
  BY <1>2, PassNodes DEF Core
<1>3. CASE Dispatch
  BY <1>3, DispatchNodes
<1>4. ASSUME NEW tok \in Sampled, NEW stop \in SUBSET Rows1, CollectOutput(tok, stop) PROVE NodesRight'
  BY <1>4, CollectNodes
<1> QED
  BY <1>1, <1>2, <1>3, <1>4, StepKinds

---------------------------------------------------------------------------
(* The blocks behind the cursors. *)

TailOf(s) == \A p \in (cursor[s] * BlockSize)..(Computed(s) - 1) :
                 Settled[BlockOf(table[s], p)][p % BlockSize] = SubSeq(ids[s], 1, p + 1)

LEMMA TailByAll == /\ TailRight <=> \A s \in Live : TailOf(s)
                   /\ TailRight' <=> \A s \in Live' : TailOf(s)'
<1>1. TailRight <=> \A s \in Live : TailOf(s)
  BY DEF TailRight, TailOf
<1>2. TailRight' <=> \A s \in Live' : TailOf(s)'
  BY DEF TailRight, TailOf
<1> QED
  BY <1>1, <1>2

\* A position behind the cursor and the slot it lies in.
LEMMA TailSlot ==
    ASSUME ConstantsAssumption, Frame, CursorHeld, Lengths, NEW s \in Seqs,
           NEW p \in (cursor[s] * BlockSize)..(Computed(s) - 1)
    PROVE  /\ p \in Nat /\ p + 1 <= Computed(s) /\ Computed(s) \in Nat /\ Computed(s) <= Len(ids[s])
           /\ Len(ids[s]) \in Nat /\ cursor[s] \in Nat /\ cursor[s] * BlockSize \in Nat
           /\ BlockNo(p) \in DOMAIN table[s] /\ BlockNo(p) > cursor[s] /\ BlockNo(p) \in Nat
           /\ BlockNo(p) \in (cursor[s] + 1)..Len(table[s])
           /\ BlockOf(table[s], p) = table[s][BlockNo(p)] /\ table[s][BlockNo(p)] \in Blocks
           /\ Holds(table[s], p) /\ table[s] \in Seq(Blocks)
<1>a. Shapes /\ BlockSize \in Nat \ {0}
  BY DEF Frame, ConstantsAssumption
<1>1. /\ hist[s] \in Nat /\ Len(ids[s]) \in Nat /\ Len(table[s]) \in Nat
      /\ BlockSize * Len(table[s]) \in Nat /\ Computed(s) \in Nat
  BY <1>a, LengthTypes
<1>2. cursor[s] \in Nat /\ cursor[s] * BlockSize \in Nat /\ table[s] \in Seq(Blocks)
  BY <1>a DEF CursorHeld, Shapes
<1>3. p \in Nat /\ p + 1 <= Computed(s) /\ p >= cursor[s] * BlockSize
  BY <1>1, <1>2
<1>4. Computed(s) <= Len(ids[s]) /\ Computed(s) <= BlockSize * Len(table[s])
  BY <1>1 DEF Lengths, Computed
<1>5. Holds(table[s], p)
  <2>1. p < BlockSize * Len(table[s])
    BY <1>1, <1>3, <1>4
  <2> QED
    BY <1>a, <1>1, <1>3, <2>1, PositionHeld DEF Holds
<1>6. BlockNo(p) \in DOMAIN table[s] /\ BlockOf(table[s], p) = table[s][BlockNo(p)]
  BY <1>2, <1>3, <1>5, PlaceHeld
<1>7. BlockNo(p) > cursor[s] /\ BlockNo(p) \in Nat
  <2>1. BlockNo(p) > cursor[s]
    BY <1>2, <1>3, BehindCursor
  <2> QED
    BY <1>3, <2>1, Place
<1>8. BlockNo(p) \in (cursor[s] + 1)..Len(table[s])
  BY <1>1, <1>2, <1>6, <1>7
<1>9. table[s][BlockNo(p)] \in Blocks
  BY <1>2, <1>6
<1> QED
  BY <1>1, <1>2, <1>3, <1>4, <1>5, <1>6, <1>7, <1>8, <1>9

\* Less of the same text in the same blocks.
LEMMA TailKept ==
    ASSUME ConstantsAssumption, Frame, CursorHeld, Lengths, NEW s \in Seqs, TailOf(s),
           Settled' = Settled, ids'[s] = ids[s],
           cursor'[s] \in Nat, cursor'[s] >= cursor[s],
           Computed(s)' \in Nat, Computed(s)' <= Computed(s),
           table'[s] \in Seq(Blocks),
           \A k \in DOMAIN table[s] : k > cursor'[s] => table'[s][k] = table[s][k]
    PROVE  TailOf(s)'
<1> SUFFICES ASSUME NEW p \in (cursor'[s] * BlockSize)..(Computed(s)' - 1)
             PROVE  Settled[BlockOf(table'[s], p)][p % BlockSize] = SubSeq(ids[s], 1, p + 1)
  BY DEF TailOf, BlockOf
<1>b. BlockSize \in Nat \ {0}
  BY DEF ConstantsAssumption
<1>1. cursor[s] \in Nat /\ Computed(s) \in Nat
  BY LengthTypes DEF Frame, CursorHeld
<1>2. /\ cursor[s] * BlockSize <= cursor'[s] * BlockSize
      /\ cursor[s] * BlockSize \in Nat /\ cursor'[s] * BlockSize \in Nat
  BY <1>b, <1>1, BlocksMono
<1>3. p \in Nat /\ p >= cursor'[s] * BlockSize /\ p \in (cursor[s] * BlockSize)..(Computed(s) - 1)
  <2>1. PICK n, m, x, y : /\ n = cursor[s] * BlockSize /\ m = cursor'[s] * BlockSize
                          /\ x = Computed(s) /\ y = Computed(s)'
    OBVIOUS
  <2>2. n \in Nat /\ m \in Nat /\ n <= m /\ x \in Nat /\ y \in Nat /\ y <= x /\ p \in m..(y - 1)
    BY <1>1, <1>2, <2>1
  <2>3. p \in Nat /\ p >= m /\ p \in n..(x - 1)
    BY <2>2
  <2> QED
    BY <2>1, <2>3
<1>4. BlockNo(p) \in DOMAIN table[s] /\ BlockOf(table[s], p) = table[s][BlockNo(p)]
  BY <1>3, TailSlot
<1>5. BlockNo(p) > cursor'[s]
  BY <1>3, BehindCursor
<1>6. BlockOf(table'[s], p) = BlockOf(table[s], p)
  BY <1>3, <1>4, <1>5, PlaceHeld
<1> QED
  BY <1>3, <1>6 DEF TailOf

---------------------------------------------------------------------------

\* What the forward sent last does not compute is there already, and it writes
\* behind what its rows have.
TailToCome ==
    \A s \in Live : \A p \in (cursor[s] * BlockSize)..(Computed(s) - 1) :
        Stepping(s) \/ kv[BlockOf(table[s], p)][p % BlockSize] = SubSeq(ids[s], 1, p + 1)

Spared == \A s \in Live \cap Rows1 : Stepping(s) \/ hist[s] <= RowFirst(Head1, s)

LEMMA HeadUnstarted ==
    ASSUME Frame, pc \in {"sent", "next"}
    PROVE  Len(queue) = 1 /\ queue # <<>> /\ Unstarted = {Head1}
<1>1. Len(queue) = 1
  BY DEF Frame, QueueShape
<1>2. queue # <<>>
  <2>1. queue \in Seq(ForwardSet)
    BY QueueFacts
  <2>2. ASSUME NEW q \in Seq(ForwardSet), Len(q) = 1 PROVE q # <<>>
    BY <2>2
  <2> QED
    BY <1>1, <2>1, <2>2
<1>3. Unstarted = {queue[1]}
  BY <1>1 DEF Unstarted
<1> QED
  BY <1>1, <1>2, <1>3 DEF Head1

LEMMA TailOneAfter ==
    ASSUME ConstantsAssumption, Frame, CursorHeld, Flow, Lengths, Linked, Placed, RowsSound,
           pc \in {"sent", "next"}, TailToCome, Spared, NEW s \in Live
    PROVE  TailOf(s)
<1> SUFFICES ASSUME NEW p \in (cursor[s] * BlockSize)..(Computed(s) - 1)
             PROVE  Settled[BlockOf(table[s], p)][p % BlockSize] = SubSeq(ids[s], 1, p + 1)
  BY DEF TailOf
<1>0. ConstantsAssumption /\ Shapes
  BY DEF Frame
<1>1. Len(queue) = 1 /\ queue # <<>> /\ Unstarted = {Head1}
  BY HeadUnstarted
<1>2. s \in Seqs
  BY DEF Live, Waiting, Active, WithStatus
<1> DEFINE b == BlockOf(table[s], p)
           o == p % BlockSize
           t == SubSeq(ids[s], 1, p + 1)
<1>3. /\ p \in Nat /\ p + 1 <= Computed(s) /\ Computed(s) \in Nat /\ Computed(s) <= Len(ids[s])
      /\ Len(ids[s]) \in Nat
      /\ BlockNo(p) \in (cursor[s] + 1)..Len(table[s])
      /\ b = table[s][BlockNo(p)] /\ b \in Blocks /\ o \in 0..(BlockSize - 1)
  BY <1>0, <1>2, TailSlot, Place, ZenonT(30)
<1>4. Settled = KvAfter(Head1)
  BY <1>1 DEF Settled
<1>5. CASE Stepping(s)
  <2>1. status[s] = "RUNNING" /\ s \in Rows1
    BY <1>5 DEF Stepping
  <2>2. RowText(Head1, s) = ids[s]
    BY <1>1, <1>2, <2>1 DEF Flow, TextInStep, WithStatus, DeviceText
  <2>3. Head1.rows[s].tbl = table[s]
    BY <1>1, <2>1 DEF Linked, Rows1
  <2>4. RowRight(Head1, s)
    BY <1>1, <2>1, RowsDone DEF Flow
  <2>5. p \in 0..(Len(ids[s]) - 1)
    BY <1>3
  <2> QED
    BY <1>4, <2>2, <2>3, <2>4, <2>5 DEF RowRight
<1>6. CASE ~Stepping(s)
  <2>1. kv[b][o] = t
    BY <1>6 DEF TailToCome
  <2>2. ASSUME NEW u \in Rows1, NEW r \in Fills(Head1, u, b, o) PROVE FALSE
    <3>1. /\ u \in Seqs /\ Head1.rows[u].tbl \in Seq(Blocks) /\ RowText(Head1, u) \in Seq(Tokens)
          /\ RowFirst(Head1, u) \in Int
      BY <1>1, HeadTyped
    <3>2. /\ r \in 0..(Len(RowText(Head1, u)) - 1) /\ r >= RowFirst(Head1, u) /\ r % BlockSize = o
          /\ Holds(Head1.rows[u].tbl, r) /\ BlockOf(Head1.rows[u].tbl, r) = b
      BY DEF Fills
    <3>3. r \in Nat
      BY <3>1, <3>2
    <3>4. BlockNo(r) \in DOMAIN Head1.rows[u].tbl /\ b = Head1.rows[u].tbl[BlockNo(r)]
      BY <1>0, <3>1, <3>2, <3>3, PlaceHeld
    <3>5. s = u /\ BlockNo(p) = BlockNo(r)
      <4>1. table[s][BlockNo(p)] = Head1.rows[u].tbl[BlockNo(r)]
        BY <1>3, <3>4
      <4>2. u \in DOMAIN Head1.rows
        BY DEF Rows1
      <4>3. \A k \in DOMAIN Head1.rows[u].tbl : \A j \in (cursor[s] + 1)..Len(table[s]) :
              table[s][j] = Head1.rows[u].tbl[k] => s = u /\ j = k
        BY <1>1, <4>2 DEF Placed
      <4> QED
        BY <1>3, <3>4, <4>1, <4>3
    <3>6. p = r
      BY <1>0, <1>3, <3>2, <3>3, <3>5, SamePlace
    <3>7. hist[s] <= RowFirst(Head1, s)
      BY <1>6, <3>5 DEF Spared
    <3>8. p < hist[s] /\ hist[s] \in Nat
      <4>1. hist[s] = Computed(s)
        BY <1>6 DEF Computed
      <4> QED
        BY <1>3, <4>1
    <3> HIDE DEF b, o
    <3> QED
      BY <1>3, <3>1, <3>2, <3>5, <3>6, <3>7, <3>8
  <2>3. Written(Head1, b, o) = {}
    <3>1. ASSUME NEW y \in Written(Head1, b, o) PROVE FALSE
      <4>1. PICK u \in Rows1 : y \in {SubSeq(RowText(Head1, u), 1, r + 1) : r \in Fills(Head1, u, b, o)}
        BY DEF Written, Rows1
      <4> QED
        BY <2>2, <4>1
    <3> QED
      BY <3>1
  <2>4. KvAfter(Head1)[b][o] = kv[b][o]
    <3> HIDE DEF b, o, t
    <3> QED
      BY <1>3, <2>3, AfterOne
  <2> QED
    BY <1>4, <2>1, <2>4
<1> QED
  BY <1>5, <1>6

LEMMA TailAfter ==
    /\ Core /\ Lengths /\ Linked /\ Placed /\ RowsSound /\ pc \in {"sent", "next"}
    /\ TailToCome /\ Spared
    => TailRight
  BY ConstantsAssumption, TailOneAfter, TailByAll DEF Core

\* Primed.
LEMMA TailAfterNext ==
    ASSUME Core', Lengths', Linked', Placed', RowsSound', pc' \in {"sent", "next"},
           TailToCome', Spared'
    PROVE  TailRight'
<1> DEFINE Givens == /\ Core /\ Lengths /\ Linked /\ Placed /\ RowsSound /\ pc \in {"sent", "next"}
                     /\ TailToCome /\ Spared
<1>1. Givens'
  OBVIOUS
<1>2. (Givens => TailRight)'
  BY TailAfter, PTL DEF Givens
<1> HIDE DEF Givens
<1> QED
  BY <1>1, <1>2

\* A step that leaves a sequence's blocks, text and progress alone.
LEMMA TailUntouched ==
    ASSUME ConstantsAssumption, Frame, CursorHeld, Lengths, NEW s \in Seqs, TailOf(s),
           Settled' = Settled, UNCHANGED <<table, cursor, hist, ids>>,
           Stepping(s)' => Stepping(s)
    PROVE  TailOf(s)'
<1>1. cursor[s] \in Nat /\ Computed(s) \in Nat /\ hist[s] \in Nat /\ Len(ids[s]) \in Nat
      /\ table[s] \in Seq(Blocks) /\ hist[s] <= Len(ids[s])
  BY LengthTypes, SMTT(30) DEF Frame, Shapes, CursorHeld, Lengths
<1>2. Computed(s)' \in Nat /\ Computed(s)' <= Computed(s)
  <2>1. Computed(s)' = IF Stepping(s)' THEN Len(ids[s]) ELSE hist[s]
    BY DEF Computed
  <2> QED
    BY <1>1, <2>1 DEF Computed
<1> QED
  BY <1>1, <1>2, TailKept

LEMMA TailEmpty ==
    ASSUME ConstantsAssumption, NEW s, cursor'[s] \in Nat,
           Computed(s)' = 0 \/ Computed(s)' = cursor'[s] * BlockSize
    PROVE  TailOf(s)'
<1>1. PICK n : n = cursor'[s] * BlockSize
  OBVIOUS
<1>2. n \in Nat
  BY <1>1 DEF ConstantsAssumption
<1>3. n..(Computed(s)' - 1) = {}
  BY <1>1, <1>2
<1> QED
  BY <1>1, <1>3 DEF TailOf

LEMMA LiveStatus ==
    /\ \A s : s \in Live <=> s \in Seqs /\ status[s] \in {"WAITING", "READY", "RUNNING"}
    /\ \A s : s \in Live' <=> s \in Seqs /\ status'[s] \in {"WAITING", "READY", "RUNNING"}
<1>1. \A s : s \in Live <=> s \in Seqs /\ status[s] \in {"WAITING", "READY", "RUNNING"}
  BY DEF Live, Waiting, Active, WithStatus
<1>2. \A s : s \in Live' <=> s \in Seqs /\ status'[s] \in {"WAITING", "READY", "RUNNING"}
  BY DEF Live, Waiting, Active, WithStatus
<1> QED
  BY <1>1, <1>2

LEMMA ClientTail ==
    ASSUME ConstantsAssumption, Core, Core', Lengths, TailRight, Client
    PROVE  TailRight'
<1>a. Frame /\ CursorHeld /\ Shapes /\ Shapes'
  BY DEF Core, Frame
<1>1. UNCHANGED <<queue, kv, wtext>>
  BY DEF Client, AddMessage, StopSession, EndSession, loopVars, devVars
<1>2. Settled' = Settled
  BY <1>1, SettledSame
<1> SUFFICES ASSUME NEW s \in Live' PROVE TailOf(s)'
  BY TailByAll
<1>3. s \in Seqs /\ status'[s] \in {"WAITING", "READY", "RUNNING"}
  BY LiveStatus
<1>b. cursor'[s] \in Nat
  BY <1>3 DEF Core, CursorHeld
<1>4. ASSUME status'[s] = status[s], ids'[s] = ids[s], table'[s] = table[s], hist'[s] = hist[s],
             cursor'[s] = cursor[s]
      PROVE  TailOf(s)'
  <2>1. TailOf(s)
    BY <1>3, <1>4, LiveStatus, TailByAll
  <2>2. Stepping(s)' <=> Stepping(s)
    BY <1>1, <1>4, SteppingKept
  <2>3. Computed(s)' = Computed(s) /\ Computed(s) \in Nat
    <3>1. Computed(s)' = IF Stepping(s)' THEN Len(ids'[s]) ELSE hist'[s]
      BY DEF Computed
    <3> QED
      BY <1>a, <1>3, <1>4, <2>2, <3>1, LengthTypes DEF Computed
  <2>4. table'[s] \in Seq(Blocks) /\ cursor'[s] >= cursor[s]
    BY <1>a, <1>b, <1>3, <1>4 DEF Shapes
  <2> QED
    BY <1>a, <1>b, <1>2, <1>3, <1>4, <2>1, <2>3, <2>4, TailKept
<1>5. ASSUME NEW t \in Seqs, NEW prompt \in Prompts, AddMessage(t, prompt) PROVE TailOf(s)'
  <2>1. /\ status[t] = "none" /\ status' = [status EXCEPT ![t] = "WAITING"]
        /\ ids' = [ids EXCEPT ![t] = prompt] /\ UNCHANGED <<table, hist, cursor>>
    BY <1>5 DEF AddMessage, memVars
  <2>2. CASE s = t
    <3>1. status'[s] = "WAITING" /\ hist'[s] = 0
      BY <1>a, <2>1, <2>2 DEF Lengths, Shapes
    <3>2. Computed(s)' = 0
      BY <3>1 DEF Computed, Stepping
    <3> QED
      BY <1>b, <3>2, TailEmpty
  <2>3. CASE s # t
    BY <1>a, <1>3, <1>4, <2>1, <2>3 DEF Shapes
  <2> QED
    BY <2>2, <2>3
<1>6. ASSUME NEW t \in Seqs, StopSession(t) PROVE TailOf(s)'
  <2>1. status' = [status EXCEPT ![t] = "STOPPED"] /\ UNCHANGED <<table, hist, cursor, ids>>
    BY <1>6 DEF StopSession, memVars
  <2>2. s # t /\ status'[s] = status[s]
    BY <1>a, <1>3, <2>1 DEF Shapes
  <2> QED
    BY <1>4, <2>1, <2>2
<1>7. ASSUME NEW t \in Seqs, EndSession(t) PROVE TailOf(s)'
  <2>1. /\ status' = [status EXCEPT ![t] = "none"] /\ ids' = [ids EXCEPT ![t] = <<>>]
        /\ table' = [table EXCEPT ![t] = <<>>] /\ cursor' = [cursor EXCEPT ![t] = 0]
        /\ hist' = [hist EXCEPT ![t] = 0]
    BY <1>7 DEF EndSession, ReleasePaging
  <2>2. s # t
    BY <1>a, <1>3, <2>1 DEF Shapes
  <2> QED
    BY <1>a, <1>3, <1>4, <2>1, <2>2 DEF Shapes
<1> QED
  BY <1>5, <1>6, <1>7 DEF Client

LEMMA PassTail ==
    ASSUME ConstantsAssumption, Core, Core', Lengths, TailRight, PassStep
    PROVE  TailRight'
<1>a. Frame /\ Frame' /\ CursorHeld /\ CursorHeld' /\ Shapes /\ Shapes' /\ Control
  BY DEF Core, Frame
<1>1. UNCHANGED <<queue, kv, wtext, ids>>
  BY <1>a, PassMemory
<1>2. Settled' = Settled
  BY <1>1, SettledSame
<1> SUFFICES ASSUME NEW s \in Live' PROVE TailOf(s)'
  BY TailByAll
<1>3. /\ s \in Seqs /\ status[s] \in {"WAITING", "READY", "RUNNING"}
      /\ status'[s] = "RUNNING" => status[s] = "RUNNING"
  <2>1. s \in Seqs /\ status'[s] \in {"WAITING", "READY", "RUNNING"} /\ status[s] \in Statuses
    BY <1>a, LiveStatus DEF Shapes
  <2> QED
    BY <1>a, <2>1, PassStatusOf DEF Statuses
<1>4. TailOf(s)
  BY <1>3, LiveStatus, TailByAll
<1>5. Stepping(s)' => Stepping(s)
  BY <1>1, <1>3 DEF Stepping, Rows1, Head1
<1>6. /\ cursor[s] \in Nat /\ cursor'[s] \in Nat /\ Computed(s) \in Nat /\ hist[s] \in Nat
      /\ Len(ids[s]) \in Nat /\ table[s] \in Seq(Blocks) /\ table'[s] \in Seq(Blocks)
      /\ hist[s] <= Len(ids[s]) /\ ids'[s] = ids[s]
  <2>1. hist[s] \in Nat /\ Len(ids[s]) \in Nat /\ Computed(s) \in Nat
    BY <1>a, <1>3, LengthTypes
  <2>2. table[s] \in Seq(Blocks) /\ table'[s] \in Seq(Blocks) /\ hist[s] <= Len(ids[s]) /\ ids'[s] = ids[s]
    BY <1>a, <1>1, <1>3 DEF Shapes, Lengths
  <2>3. cursor[s] \in 0..Len(table[s]) /\ cursor'[s] \in 0..Len(table'[s])
    BY <1>a, <1>3 DEF CursorHeld
  <2>4. cursor[s] \in Nat /\ cursor'[s] \in Nat
    BY <2>2, <2>3
  <2> QED
    BY <2>1, <2>2, <2>4
<1>7. hist'[s] = hist[s] => Computed(s)' \in Nat /\ Computed(s)' <= Computed(s)
  <2>1. Computed(s)' = IF Stepping(s)' THEN Len(ids'[s]) ELSE hist'[s]
    BY DEF Computed
  <2> QED
    BY <1>5, <1>6, <2>1 DEF Computed
<1>8. ASSUME cursor'[s] >= cursor[s], hist'[s] = hist[s],
             \A k \in DOMAIN table[s] : k > cursor'[s] => table'[s][k] = table[s][k]
      PROVE  TailOf(s)'
  BY <1>a, <1>2, <1>3, <1>4, <1>6, <1>7, <1>8, TailKept
<1>9. CASE MemoryKept
  BY <1>6, <1>8, <1>9 DEF MemoryKept
<1>10. ASSUME NEW v \in Seqs, ReleasePaging(v), status[v] \in {"WAITING", "STOPPED"} PROVE TailOf(s)'
  <2>1. /\ table' = [table EXCEPT ![v] = <<>>] /\ cursor' = [cursor EXCEPT ![v] = 0]
        /\ hist' = [hist EXCEPT ![v] = 0]
    BY <1>10 DEF ReleasePaging
  <2>2. CASE s = v
    <3>1. hist'[s] = 0 /\ status'[s] # "RUNNING"
      BY <1>a, <1>3, <1>10, <2>1, <2>2 DEF Shapes
    <3>2. Computed(s)' = 0
      BY <3>1 DEF Computed, Stepping
    <3> QED
      BY <1>6, <3>2, TailEmpty
  <2>3. CASE s # v
    <3>1. table'[s] = table[s] /\ cursor'[s] = cursor[s] /\ hist'[s] = hist[s]
      BY <1>a, <1>3, <2>1, <2>3 DEF Shapes
    <3> QED
      BY <1>6, <1>8, <3>1
  <2> QED
    BY <2>2, <2>3
<1>11. CASE MatchBlock
  <2>1. PICK t, b : t = turn.cand /\ b = trie[NextPath(t)]
    OBVIOUS
  <2>2. /\ pc = "match" /\ table' = [table EXCEPT ![t] = Append(@, b)]
        /\ cursor' = [cursor EXCEPT ![t] = @ + 1] /\ hist' = [hist EXCEPT ![t] = (cursor[t] + 1) * BlockSize]
        /\ status' = status
    BY <1>11, <2>1 DEF MatchBlock
  <2>3. t \in Seqs /\ status[t] = "WAITING"
    BY <1>a, <2>1, <2>2 DEF Control, Candidate
  <2>4. CASE s = t
    <3>1. hist'[s] = cursor'[s] * BlockSize /\ status'[s] = "WAITING"
      BY <1>a, <1>3, <2>2, <2>3, <2>4 DEF Shapes
    <3>2. Computed(s)' = cursor'[s] * BlockSize
      BY <3>1 DEF Computed, Stepping
    <3> QED
      BY <1>6, <3>2, TailEmpty
  <2>5. CASE s # t
    <3>1. table'[s] = table[s] /\ cursor'[s] = cursor[s] /\ hist'[s] = hist[s]
      BY <1>a, <1>3, <2>2, <2>5 DEF Shapes
    <3> QED
      BY <1>6, <1>8, <3>1
  <2> QED
    BY <2>4, <2>5
<1>12. ASSUME NEW p, EvictLeaf(p), UNCHANGED cursor PROVE TailOf(s)'
  <2>1. UNCHANGED <<table, hist>>
    BY <1>12 DEF EvictLeaf, seqVars
  <2> QED
    BY <1>6, <1>8, <1>12, <2>1
<1>13. ASSUME NEW b \in Blocks, AllocateBlock(b) PROVE TailOf(s)'
  <2>1. PICK t : t = turn.cand
    OBVIOUS
  <2>2. table' = [table EXCEPT ![t] = Append(@, b)] /\ UNCHANGED <<cursor, hist>>
    BY <1>13, <2>1 DEF AllocateBlock, seqVars
  <2>3. table'[s] = table[s] \/ table'[s] = Append(table[s], b)
    BY <1>a, <1>3, <2>2 DEF Shapes
  <2>4. \A k \in DOMAIN table[s] : table'[s][k] = table[s][k]
    BY <1>6, <2>3
  <2> QED
    BY <1>6, <1>8, <2>2, <2>4
<1>14. CASE PublishNew \/ PublishShared
  <2>1. PICK t, k : t = turn.cand /\ k = cursor[t] + 1
    OBVIOUS
  <2>2. t \in Seqs /\ cursor'[t] = k /\ \A u \in Seqs \ {t} : cursor'[u] = cursor[u]
    BY <1>a, <1>14, <2>1, PublishSlot
  <2>3. hist' = hist
    BY <1>14 DEF PublishNew, PublishShared, seqVars
  <2>4. cursor'[s] >= cursor[s]
    BY <1>3, <1>6, <2>1, <2>2
  <2>5. CASE PublishNew
    <3>1. table' = table
      BY <2>5 DEF PublishNew
    <3> QED
      BY <1>8, <2>3, <2>4, <3>1
  <2>6. CASE PublishShared
    <3>1. /\ \A u \in Seqs \ {t} : table'[u] = table[u]
          /\ \A j \in DOMAIN table[t] \ {k} : table'[t][j] = table[t][j]
      BY <1>a, <2>1, <2>6, SharedTable
    <3>2. \A j \in DOMAIN table[s] : j > cursor'[s] => table'[s][j] = table[s][j]
      <4>1. CASE s = t
        <5>1. cursor'[s] = k /\ k \in Nat
          BY <1>6, <2>2, <4>1
        <5>2. ASSUME NEW j \in DOMAIN table[s], j > cursor'[s] PROVE table'[s][j] = table[s][j]
          <6>1. j # k
            BY <5>1, <5>2
          <6> QED
            BY <3>1, <4>1, <6>1
        <5> QED
          BY <5>2
      <4>2. CASE s # t
        BY <1>3, <3>1, <4>2
      <4> QED
        BY <4>1, <4>2
    <3> QED
      BY <1>8, <2>3, <2>4, <3>2
  <2> QED
    BY <1>14, <2>5, <2>6
<1> QED
  BY <1>a, <1>9, <1>10, <1>11, <1>12, <1>13, <1>14, PassMemory

LEMMA DispatchTail ==
    ASSUME ConstantsAssumption, Core, Core', Lengths, Lengths', Linked', Placed', RowsSound',
           TailRight, Dispatch
    PROVE  TailRight'
<1>a. Frame /\ Stepped /\ Reserved /\ CursorHeld /\ CursorHeld' /\ Shapes
  BY DEF Core, Flow, Frame
<1>1. PICK kind \in {"prefill", "decode"} :
        /\ UNCHANGED <<table, trie, cursor, hist, ids, status, kv, wtext>>
        /\ kind = "prefill" => \A s \in turn.batch : status[s] = "READY"
        /\ kind = "decode" => queue # <<>>
        /\ queue = <<>> => pc' = "sent" /\ queue' = <<Forward(kind, turn.batch)>>
  BY <1>a, Dispatched
<1>2. \A s \in Seqs : Stepping(s)' <=> Stepping(s)
  BY <1>a, DispatchedHead
<1>3. CASE queue # <<>>
  <2>1. queue' # <<>> /\ Head1' = Head1
    BY <1>a, <1>3, DispatchedHead
  <2>2. Settled' = Settled
    BY <1>1, <1>3, <2>1, SettledSame
  <2>3. ASSUME NEW s \in Live' PROVE TailOf(s)'
    <3>1. s \in Seqs /\ s \in Live
      BY <1>1, <2>3, LiveStatus
    <3>2. TailOf(s)
      BY <3>1, TailByAll
    <3> QED
      BY <1>a, <1>1, <1>2, <2>2, <3>1, <3>2, TailUntouched
  <2> QED
    BY <2>3, TailByAll
<1>4. CASE queue = <<>>
  <2>1. PICK f : f = Forward(kind, turn.batch)
    OBVIOUS
  <2>2. /\ pc' = "sent" /\ Head1' = f /\ f.kind = "prefill" /\ DOMAIN f.rows = turn.batch
        /\ Rows1' = turn.batch /\ \A s \in turn.batch : f.rows[s].first = hist[s]
    <3>1. queue' = <<f>> /\ kind = "prefill"
      BY <1>1, <1>4, <2>1
    <3>2. f.kind = "prefill" /\ DOMAIN f.rows = turn.batch /\ \A s \in turn.batch : f.rows[s].first = hist[s]
      BY <2>1, <3>1 DEF Forward
    <3>3. queue'[1] = f
      BY <3>1
    <3> QED
      BY <1>1, <1>4, <3>2, <3>3 DEF Head1, Rows1
  <2>3. Settled = kv /\ \A s : ~Stepping(s)
    BY <1>4 DEF Settled, Stepping
  <2>4. TailToCome'
    <3> SUFFICES ASSUME NEW s \in Live', NEW p \in (cursor'[s] * BlockSize)..(Computed(s)' - 1)
                 PROVE  kv'[BlockOf(table'[s], p)][p % BlockSize] = SubSeq(ids'[s], 1, p + 1)
      BY DEF TailToCome
    <3>1. s \in Seqs /\ s \in Live
      BY <1>1, LiveStatus
    <3>2. TailOf(s)
      BY <3>1, TailByAll
    <3>3. Computed(s)' = Computed(s)
      <4>1. ~Stepping(s)' /\ ~Stepping(s)
        BY <1>2, <2>3, <3>1
      <4> QED
        BY <1>1, <4>1 DEF Computed
    <3> QED
      BY <1>1, <2>3, <3>2, <3>3 DEF TailOf, BlockOf
  <2>5. Spared'
    <3> SUFFICES ASSUME NEW s \in Live' \cap Rows1' PROVE hist'[s] <= RowFirst(Head1, s)'
      BY DEF Spared
    <3>1. s \in turn.batch /\ RowFirst(Head1, s)' = f.rows[s].first
      BY <2>2 DEF RowFirst
    <3>2. s \in Seqs /\ hist[s] \in Nat
      BY <1>a, <3>1 DEF Shapes, Turns
    <3> QED
      BY <1>1, <2>2, <3>1, <3>2
  <2> QED
    BY <2>2, <2>4, <2>5, TailAfterNext
<1> QED
  BY <1>3, <1>4

LEMMA ActivateTail ==
    ASSUME ConstantsAssumption, Core, Core', Lengths, Linked, RowsSound, TailRight, Activate
    PROVE  TailRight'
<1>a. Frame /\ CursorHeld /\ RowsFit /\ Shapes
  BY DEF Core, Flow, Frame
<1>1. /\ Len(queue) = 1 /\ queue # <<>>
      /\ UNCHANGED <<table, trie, cursor, hist, ids, queue, kv, wtext>>
      /\ \A s \in Seqs :
           IF status[s] = "READY"
             THEN /\ status'[s] = "RUNNING" /\ s \in Rows1 /\ Head1.kind = "prefill"
                  /\ RowText(Head1, s) = ids[s] /\ Head1.rows[s].tbl = table[s]
             ELSE status'[s] = status[s]
  BY Activated
<1>2. Settled' = Settled /\ Settled = KvAfter(Head1)
  BY <1>1, SettledSame DEF Settled
<1> SUFFICES ASSUME NEW s \in Live' PROVE TailOf(s)'
  BY TailByAll
<1>3. s \in Seqs /\ s \in Live
  <2>1. s \in Seqs /\ status'[s] \in {"WAITING", "READY", "RUNNING"}
    BY LiveStatus
  <2> QED
    BY <1>1, <2>1, LiveStatus
<1>4. CASE status[s] = "READY"
  <2>1. s \in Rows1 /\ RowText(Head1, s) = ids[s] /\ Head1.rows[s].tbl = table[s] /\ status'[s] = "RUNNING"
    BY <1>1, <1>3, <1>4
  <2>2. RowRight(Head1, s)
    BY <1>a, <1>1, <2>1, RowsDone
  <2>3. Computed(s)' = Len(ids[s])
    BY <1>1, <2>1 DEF Computed, Stepping, Rows1, Head1
  <2>4. cursor[s] \in Nat /\ cursor[s] * BlockSize \in Nat /\ Len(ids[s]) \in Nat
    <3>1. cursor[s] \in Nat
      BY <1>a, <1>3 DEF CursorHeld
    <3> QED
      BY <1>a, <1>3, <3>1 DEF Shapes, ConstantsAssumption
  <2>5. \A p \in 0..(Len(ids[s]) - 1) :
          Settled[BlockOf(table[s], p)][p % BlockSize] = SubSeq(ids[s], 1, p + 1)
    BY <1>2, <2>1, <2>2 DEF RowRight
  <2>6. (cursor[s] * BlockSize)..(Len(ids[s]) - 1) \subseteq 0..(Len(ids[s]) - 1)
    BY <2>4
  <2>7. \A p \in (cursor'[s] * BlockSize)..(Computed(s)' - 1) :
          Settled'[BlockOf(table'[s], p)][p % BlockSize] = SubSeq(ids'[s], 1, p + 1)
    BY <1>1, <1>2, <2>3, <2>5, <2>6
  <2> QED
    BY <2>7 DEF TailOf, BlockOf
<1>5. CASE status[s] # "READY"
  <2>1. status'[s] = status[s]
    BY <1>1, <1>3, <1>5
  <2>2. Stepping(s)' <=> Stepping(s)
    BY <1>1, <2>1, SteppingKept
  <2>3. TailOf(s)
    BY <1>3, TailByAll
  <2> QED
    BY <1>a, <1>1, <1>2, <1>3, <2>2, <2>3, TailUntouched
<1> QED
  BY <1>4, <1>5

\* What collection leaves of the blocks behind the cursors.
LEMMA CollectToCome ==
    ASSUME ConstantsAssumption, Core, Lengths, TailRight,
           NEW tok \in Sampled, NEW stop \in SUBSET Rows1, CollectOutput(tok, stop)
    PROVE  \A s \in Live' : \A p \in (cursor'[s] * BlockSize)..(hist'[s] - 1) :
             kv'[BlockOf(table'[s], p)][p % BlockSize] = SubSeq(ids'[s], 1, p + 1)
<1>a. Frame /\ CursorHeld /\ Shapes /\ Owned
  BY DEF Core, Frame
<1> SUFFICES ASSUME NEW s \in Live', NEW p \in (cursor'[s] * BlockSize)..(hist'[s] - 1)
             PROVE  kv'[BlockOf(table'[s], p)][p % BlockSize] = SubSeq(ids'[s], 1, p + 1)
  OBVIOUS
<1>1. UNCHANGED <<table, cursor>>
  BY <1>a, Collected
<1>2. s \in Seqs /\ s \in Live /\ hist'[s] = Computed(s)
  <2>1. s \in Seqs /\ status'[s] \in {"WAITING", "READY", "RUNNING"}
    BY LiveStatus
  <2>2. \/ status'[s] = status[s] \/ status'[s] = "STOPPED"
        \/ status[s] \in {"READY", "RUNNING", "WAITING"}
    BY <1>a, <2>1, Collected
  <2>3. hist'[s] = Computed(s)
    BY <1>a, <2>1, CollectedHistory
  <2> QED
    BY <2>1, <2>2, <2>3, LiveStatus
<1>3. p \in (cursor[s] * BlockSize)..(Computed(s) - 1)
  BY <1>1, <1>2
<1>4. /\ p \in Nat /\ p + 1 <= Computed(s) /\ Computed(s) \in Nat /\ Computed(s) <= Len(ids[s])
      /\ Len(ids[s]) \in Nat /\ BlockNo(p) \in DOMAIN table[s]
      /\ BlockOf(table[s], p) = table[s][BlockNo(p)] /\ table[s][BlockNo(p)] \in Blocks
  BY <1>a, <1>2, <1>3, TailSlot
<1>5. Settled[BlockOf(table[s], p)][p % BlockSize] = SubSeq(ids[s], 1, p + 1)
  BY <1>2, <1>3, TailByAll DEF TailOf
<1>6. kv'[BlockOf(table[s], p)] = Settled[BlockOf(table[s], p)]
  <2>1. PICK b : b = table[s][BlockNo(p)]
    OBVIOUS
  <2>2. b \in Blocks
    BY <1>4, <2>1
  <2>3. \A u \in Seqs : \A k \in DOMAIN table[u] : table[u][k] = b => kv'[b] = Settled[b]
    BY <1>a, <2>2, CollectedKv
  <2> QED
    BY <1>2, <1>4, <2>1, <2>3
<1>7. SubSeq(ids'[s], 1, p + 1) = SubSeq(ids[s], 1, p + 1)
  <2>1. ids'[s] = ids[s] \/ (tok[s] \in Tokens /\ ids'[s] = Append(ids[s], tok[s]))
    BY <1>a, <1>2, Collected
  <2>2. p + 1 \in Nat /\ p + 1 <= Len(ids[s]) /\ ids[s] \in Seq(Tokens)
    BY <1>a, <1>2, <1>4 DEF Shapes
  <2> QED
    BY <2>1, <2>2, AgreeAppended
<1> QED
  BY <1>1, <1>5, <1>6, <1>7

\* The next forward writes behind what its rows have.
LEMMA CollectSpared ==
    ASSUME ConstantsAssumption, Core, Lengths, Linked,
           NEW tok \in Sampled, NEW stop \in SUBSET Rows1, CollectOutput(tok, stop), Len(queue) = 2
    PROVE  Spared'
<1>a. Frame /\ Shapes /\ Stepped /\ ReadySent /\ TextInStep
  BY DEF Core, Frame, Flow
<1>1. PICK f : f = queue[2]
  OBVIOUS
<1>2. /\ pc = "wait" /\ Head1' = f /\ Rows1' = DOMAIN f.rows /\ Unstarted = {f} /\ f \in ForwardSet
      /\ queue # <<>> /\ queue' # <<>>
  BY <1>a, <1>1, Collected, CollectedFirst
<1> SUFFICES ASSUME NEW s \in Live' \cap Rows1' PROVE hist'[s] <= RowFirst(Head1, s)'
  BY DEF Spared
<1>3. /\ s \in Seqs /\ s \in DOMAIN f.rows /\ hist'[s] = Computed(s) /\ status[s] \in {"READY", "RUNNING"}
  <2>1. s \in Seqs /\ status'[s] \in {"WAITING", "READY", "RUNNING"} /\ s \in DOMAIN f.rows
    BY <1>2, LiveStatus
  <2>2. \/ status'[s] = status[s] \/ status'[s] = "STOPPED"
        \/ status[s] \in {"READY", "RUNNING", "WAITING"}
    BY <1>a, <2>1, Collected
  <2>3. hist'[s] = Computed(s)
    BY <1>a, <2>1, CollectedHistory
  <2>4. status[s] # "WAITING"
    BY <1>2, <2>1 DEF Linked
  <2> QED
    BY <2>1, <2>2, <2>3, <2>4
<1>4. /\ RowFirst(Head1, s)' = FlightFirst(2, s) /\ FlightFirst(2, s) \in Int /\ Computed(s) \in Nat
      /\ hist[s] \in Nat /\ Len(ids[s]) \in Nat
  <2>1. FlightFirst(1, s)' = FlightFirst(2, s) /\ FlightFirst(2, s) \in Int
    BY <1>a, <1>1, <1>3, CollectFills
  <2>2. FlightFirst(1, s)' = RowFirst(Head1, s)'
    <3>1. queue'[1] = f /\ s \in Rows1'
      BY <1>2 DEF Head1
    <3>2. CASE f.kind = "prefill"
      BY <1>2, <3>1, <3>2 DEF FlightFirst, RowFirst
    <3>3. CASE f.kind # "prefill"
      <4>1. DeviceText(s)' = RowText(Head1, s)'
        BY <1>2, <3>1 DEF DeviceText
      <4>2. RowText(Head1, s)' = wtext'[s]
        BY <1>2, <3>3 DEF RowText
      <4>3. RowFirst(Head1, s)' = Len(wtext'[s]) - 1
        BY <1>2, <3>3 DEF RowFirst
      <4>4. FlightFirst(1, s)' = Len(DeviceText(s)') - 1
        BY <3>1, <3>3 DEF FlightFirst
      <4> QED
        BY <4>1, <4>2, <4>3, <4>4
    <3> QED
      BY <3>2, <3>3
  <2> QED
    BY <1>a, <1>3, <2>1, <2>2, LengthTypes
<1>5. Computed(s) <= FlightFirst(2, s)
  <2>1. f.kind \in {"prefill", "decode"} /\ (f.kind = "prefill" => f.rows[s].first = hist[s])
    BY <1>2, <1>3, FlightTyped, <1>a DEF Linked
  <2>2. CASE f.kind = "prefill"
    <3>1. status[s] # "RUNNING"
      BY <1>2, <1>3, <1>a, <2>2 DEF Stepped, WithStatus
    <3>2. FlightFirst(2, s) = hist[s] /\ Computed(s) = hist[s]
      BY <1>1, <2>1, <2>2, <3>1 DEF FlightFirst, Computed, Stepping
    <3> QED
      BY <1>4, <3>2
  <2>3. CASE f.kind = "decode"
    <3>1. status[s] = "RUNNING"
      <4>1. pc \notin Passing
        BY <1>2 DEF Passing, Candidate
      <4>2. status[s] # "READY"
        BY <1>2, <1>3, <1>a, <2>3, <4>1 DEF ReadySent, WithStatus
      <4> QED
        BY <1>3, <4>2
    <3>2. DeviceText(s) = ids[s]
      BY <1>3, <1>a, <3>1 DEF TextInStep, WithStatus
    <3>3. CASE s \in Rows1
      <4>1. Computed(s) = Len(ids[s])
        BY <1>2, <3>1, <3>3 DEF Computed, Stepping
      <4>2. FlightFirst(2, s) = Len(ids[s])
        BY <1>1, <2>3, <3>2, <3>3 DEF FlightFirst
      <4> QED
        BY <1>4, <4>1, <4>2
    <3>4. CASE s \notin Rows1
      <4>1. Computed(s) = Len(ids[s]) - 1
        BY <1>3, <3>1, <3>4 DEF Computed, Stepping, Lengths
      <4>2. FlightFirst(2, s) = Len(ids[s]) - 1
        BY <1>1, <2>3, <3>2, <3>4 DEF FlightFirst
      <4> QED
        BY <1>4, <4>1, <4>2
    <3> QED
      BY <3>3, <3>4
  <2> QED
    BY <2>1, <2>2, <2>3
<1> QED
  BY <1>3, <1>4, <1>5

LEMMA CollectTail ==
    ASSUME ConstantsAssumption, Core, Core', Lengths, Lengths', Linked, Linked', Placed', RowsSound',
           TailRight, NEW tok \in Sampled, NEW stop \in SUBSET Rows1, CollectOutput(tok, stop)
    PROVE  TailRight'
<1>a. Frame /\ Stepped /\ ReadySent
  BY DEF Core, Flow
<1>1. Len(queue) = 1 \/ Len(queue) = 2
  BY <1>a, Collected, Waits
<1>2. TailToCome'
  <2> SUFFICES ASSUME NEW s \in Live', NEW p \in (cursor'[s] * BlockSize)..(Computed(s)' - 1), ~Stepping(s)'
               PROVE  kv'[BlockOf(table'[s], p)][p % BlockSize] = SubSeq(ids'[s], 1, p + 1)
    BY DEF TailToCome
  <2>1. Computed(s)' = hist'[s]
    BY DEF Computed
  <2> QED
    BY <2>1, CollectToCome
<1>3. CASE Len(queue) = 1
  <2>1. queue' = <<>>
    BY <1>a, <1>3, CollectedLast
  <2>2. Settled' = kv' /\ \A s : ~Stepping(s)'
    BY <2>1 DEF Settled, Stepping
  <2> QED
    BY <1>2, <2>2 DEF TailToCome, TailRight
<1>4. CASE Len(queue) = 2
  <2>1. pc' = "next"
    BY <1>a, <1>4, CollectedFirst
  <2>2. Spared'
    BY <1>4, CollectSpared
  <2> QED
    BY <1>2, <2>1, <2>2, TailAfterNext
<1> QED
  BY <1>1, <1>3, <1>4

LEMMA NextTail ==
    ASSUME ConstantsAssumption, Core, Core', Lengths, Lengths', Linked, Linked', Placed',
           RowsSound, RowsSound', TailRight, Next
    PROVE  TailRight'
  BY StepKinds, ClientTail, PassTail, DispatchTail, ActivateTail, CollectTail

---------------------------------------------------------------------------
(* The parts together. *)

Data == Sharing /\ Lengths /\ Linked /\ Placed /\ RowsSound /\ NodesRight /\ TailRight

LEMMA InitData ==
    ASSUME Init
    PROVE  Data
<1>1. /\ queue = <<>> /\ pc = "send" /\ DOMAIN trie = {} /\ table = [s \in Seqs |-> <<>>]
      /\ cursor = [s \in Seqs |-> 0] /\ ids = [s \in Seqs |-> <<>>] /\ hist = [s \in Seqs |-> 0]
      /\ status = [s \in Seqs |-> "none"] /\ DOMAIN queue = {} /\ Len(queue) = 0
  BY DEF Init
<1>2. Sharing
  BY <1>1 DEF Sharing
<1>3. Lengths
  <2>1. BlockSize * 0 = 0
    BY ConstantsAssumption DEF ConstantsAssumption
  <2> SUFFICES ASSUME NEW s \in Seqs PROVE LengthsOf(s)
    BY LengthsByAll
  <2>2. Computed(s) = 0 /\ hist[s] = 0 /\ Len(ids[s]) = 0 /\ Len(table[s]) = 0 /\ table[s] = <<>>
        /\ status[s] = "none"
    BY <1>1 DEF Computed, Stepping
  <2> QED
    BY <2>1, <2>2 DEF LengthsOf
<1>4. Unstarted = {}
  BY <1>1 DEF Unstarted
<1>5. Linked /\ Placed
  BY <1>4 DEF Linked, Placed
<1>6. RowsSound
  BY <1>1 DEF RowsSound
<1>7. NodesRight
  BY <1>1 DEF NodesRight
<1>8. TailRight
  BY <1>1, LiveStatus DEF TailRight
<1> QED
  BY <1>2, <1>3, <1>5, <1>6, <1>7, <1>8 DEF Data

LEMMA NextData ==
    ASSUME ConstantsAssumption, Core, Core', MatchAligned, Data, Next
    PROVE  Data'
<1>0. /\ Frame' /\ CursorHeld' /\ Sharing /\ Lengths /\ Linked /\ Placed /\ RowsSound
      /\ NodesRight /\ TailRight
  BY DEF Core, Data
<1>1. Sharing'
  BY <1>0, NextSharing
<1>2. Linked'
  BY <1>0, NextLinked
<1>3. Lengths'
  BY <1>0, NextLengths
<1>4. Placed'
  BY <1>0, NextPlaced
<1>5. RowsSound'
  BY <1>0, NextRows
<1>6. NodesRight'
  BY <1>0, <1>1, <1>4, NextNodes
<1>7. TailRight'
  BY <1>0, <1>2, <1>3, <1>4, <1>5, NextTail
<1> QED
  BY <1>1, <1>2, <1>3, <1>4, <1>5, <1>6, <1>7 DEF Data

LEMMA StutterData ==
    ASSUME Data, UNCHANGED vars
    PROVE  Data'
<1>1. /\ UNCHANGED <<table, trie, cursor, hist, ids, status, queue, kv, wtext, pc, turn>>
      /\ Sharing /\ Lengths /\ Linked /\ Placed /\ RowsSound /\ NodesRight /\ TailRight
  BY DEF vars, memVars, seqVars, loopVars, devVars, Data
<1>2. Settled' = Settled
  BY <1>1, SettledSame
<1>3. \A s : Stepping(s)' <=> Stepping(s)
  BY <1>1 DEF Stepping, Rows1, Head1
<1>4. \A s : Computed(s)' = Computed(s)
  BY <1>1, <1>3 DEF Computed
<1>5. /\ \A f, s : FlightText(f, s)' = FlightText(f, s)
      /\ \A i, s : FlightFills(i, s)' = FlightFills(i, s)
  BY <1>1, FlightKept
<1>6. Unstarted' = Unstarted /\ Live' = Live
  BY <1>1 DEF Unstarted, Live, Waiting, Active, WithStatus
<1>7. Sharing' /\ RowsSound'
  BY <1>1, SharingKept, RowsKept
<1>8. Lengths'
  BY <1>1, <1>3, <1>4 DEF Lengths
<1>9. Linked'
  BY <1>1, <1>6 DEF Linked
<1>10. Placed'
  BY <1>1, <1>5, <1>6 DEF Placed, Agree
<1>11. NodesRight'
  <2>1. ASSUME NEW p, NEW o, ToBeBuilt(p, o) PROVE ToBeBuilt(p, o)'
    BY <1>1, <1>4, <2>1 DEF ToBeBuilt, Agree
  <2>2. ASSUME NEW p, NEW o, ToBeRun(p, o) PROVE ToBeRun(p, o)'
    BY <1>1, <1>5, <2>2 DEF ToBeRun
  <2> QED
    BY <1>1, <1>2, <2>1, <2>2 DEF NodesRight
<1>12. TailRight'
  BY <1>1, <1>2, <1>4, <1>6 DEF TailRight, BlockOf
<1> QED
  BY <1>7, <1>8, <1>9, <1>10, <1>11, <1>12 DEF Data

\* In every behaviour in which a match lands right behind the end of the table
\* it extends, blocks are shared for a common text only and hold that text, or
\* a forward in flight or being built writes it.
THEOREM DataHolds == Spec /\ []MatchAligned => [](Core /\ Data)
<1>1. Init => Data
  BY InitData
<1>2. Core /\ Core' /\ MatchAligned /\ Data /\ [Next]_vars => Data'
  BY NextData, StutterData, ConstantsAssumption
<1>3. TrieSound => CursorHeld
  BY DEF TrieSound
<1>4. Frame /\ Owned /\ Flow /\ Rooted /\ CursorHeld => Core
  BY DEF Core
<1> QED
  BY <1>1, <1>2, <1>3, <1>4, Invariance, FlowHolds, LeavesFound, TrieHolds, PTL DEF Spec

\* In those behaviours a token is delivered only if it was computed from the KV
\* of exactly its sequence's text: its row attended to no block that was shared
\* for another text, evicted, reused or not yet written.
THEOREM DeliveredRight == Spec /\ []MatchAligned => []DeliveredTokensRight
<1>1. ASSUME Core, Data, pc = "wait", NEW s \in Applied
      PROVE  RowRight(Head1, s)
  <2>1. Frame /\ RowsFit /\ RowsSound /\ s \in Rows1
    BY <1>1 DEF Core, Flow, Data, Applied
  <2>2. queue # <<>>
    <3>1. Len(queue) = 1 \/ Len(queue) = 2
      BY <1>1, <2>1, Waits
    <3> QED
      BY <3>1
  <2> QED
    BY <2>1, <2>2, RowsDone, ConstantsAssumption
<1>2. Core /\ Data /\ ComputedTextRight => DeliveredTokensRight
  BY <1>1 DEF DeliveredTokensRight
<1> QED
  BY <1>2, DataHolds, TextsAgree, PTL

\* In those behaviours every block the trie keeps holds the KV of its node's
\* text whenever nothing is in flight, also when the sequence that published it
\* was stopped, preempted or ended before it had computed it.
THEOREM CacheRight == Spec /\ []MatchAligned => []CacheContentsRight
<1>1. ASSUME Data, queue = <<>>, pc = "send", NEW p \in DOMAIN trie, NEW o \in 0..(BlockSize - 1)
      PROVE  kv[trie[p]][o] = SubSeq(p, 1, Len(p) - BlockSize + o + 1)
  <2>1. Settled = kv
    BY <1>1 DEF Settled
  <2>2. ~ToBeBuilt(p, o) /\ ~ToBeRun(p, o)
    BY <1>1 DEF ToBeBuilt, ToBeRun, Passing, Candidate
  <2> QED
    BY <1>1, <2>1, <2>2 DEF Data, NodesRight
<1>2. Core /\ Data => CacheContentsRight
  BY <1>1 DEF CacheContentsRight
<1> QED
  BY <1>2, DataHolds, PTL

=============================================================================
