------------------------- MODULE DecodeBatch_proofs -------------------------
(***************************************************************************)
(* Proofs, for every value of the constants, that somebody steps every     *)
(* running sequence and the loop never sleeps on one; while the sequence   *)
(* whose prompt is being chunked is not listed for decoding, that no       *)
(* sequence is decoded twice or before its prompt is cached, and that the  *)
(* rows of the worker stand where the host's positions say; and that it is *)
(* not listed where clients and memory let no prompt be readmitted so.     *)
(***************************************************************************)
EXTENDS DecodeBatchSteps, FiniteSetTheorems, FunctionTheorems, SequenceTheorems, TLAPS

---------------------------------------------------------------------------
(* Positions in ascending order. *)

Ascending(q) == \A i, j \in DOMAIN q : i < j => q[i] < q[j]

\* How many positions there are up to n.
LEMMA UpTo == \A n \in Nat : IsFiniteSet(1..n) /\ Cardinality(1..n) = n
<1> SUFFICES ASSUME NEW n \in Nat PROVE IsFiniteSet(1..n) /\ Cardinality(1..n) = n
  OBVIOUS
<1>1. 1 \in Int /\ n \in Int
  OBVIOUS
<1>2. IsFiniteSet(1..n) /\ Cardinality(1..n) = IF 1 > n THEN 0 ELSE n - 1 + 1
  BY <1>1, FS_Interval, Zenon
<1> QED
  BY <1>2

\* An ascending enumeration names every position, and each once.
LEMMA AscendingOnto ==
    ASSUME NEW P \in SUBSET Nat, IsFiniteSet(P), NEW q \in [1..Cardinality(P) -> P], Ascending(q)
    PROVE  /\ \A i, j \in DOMAIN q : q[i] = q[j] => i = j
           /\ \A p \in P : \E i \in DOMAIN q : q[i] = p
<1> DEFINE n == Cardinality(P)
<1>1. n \in Nat
  BY FS_CardinalityType
<1>2. DOMAIN q = 1..n
  OBVIOUS
<1>3. \A i, j \in 1..n : q[i] = q[j] => i = j
  <2> SUFFICES ASSUME NEW i \in 1..n, NEW j \in 1..n, q[i] = q[j], i # j
               PROVE  FALSE
    OBVIOUS
  <2>1. q[i] \in Nat /\ q[j] \in Nat
    OBVIOUS
  <2>2. i < j => q[i] < q[j]
    BY DEF Ascending
  <2>3. j < i => q[j] < q[i]
    BY DEF Ascending
  <2> QED
    BY <1>1, <2>1, <2>2, <2>3
<1>4. q \in Injection(1..n, P)
  BY <1>3, Fun_IsInj
<1>5. IsFiniteSet(1..n) /\ Cardinality(1..n) = n
  BY <1>1, UpTo, Zenon
<1>6. q \in Surjection(1..n, P)
  BY <1>4, <1>5, FS_Injection
<1>7. \A p \in P : \E i \in 1..n : q[i] = p
  BY <1>6 DEF Surjection
<1> QED
  BY <1>2, <1>3, <1>7

\* How many positions are not behind p.
LEMMA RankRises ==
    ASSUME NEW P \in SUBSET Nat, IsFiniteSet(P), NEW p \in P, NEW r \in P, p < r
    PROVE  /\ Cardinality({x \in P : x <= p}) \in 1..Cardinality(P)
           /\ Cardinality({x \in P : x <= p}) < Cardinality({x \in P : x <= r})
<1> DEFINE A == {x \in P : x <= p}
           B == {x \in P : x <= r}
<1>0. P \subseteq Int
  OBVIOUS
<1>1. A \subseteq B /\ B \subseteq P /\ p \in A /\ r \in B /\ r \notin A
  <2>1. p \in Int /\ r \in Int /\ ~(r <= p) /\ p <= r /\ p <= p /\ r <= r
    BY <1>0
  <2>2. ASSUME NEW x \in P, x <= p PROVE x <= r
    BY <1>0, <2>1, <2>2
  <2> QED
    BY <2>1, <2>2
<1> HIDE DEF A, B
<1>2. IsFiniteSet(B) /\ Cardinality(B) <= Cardinality(P)
  BY <1>1, FS_Subset
<1>3. IsFiniteSet(A) /\ Cardinality(A) <= Cardinality(B) /\ Cardinality(A) # Cardinality(B)
  BY <1>1, <1>2, FS_Subset
<1>4. Cardinality(A) \in Nat /\ Cardinality(B) \in Nat /\ Cardinality(P) \in Nat
  BY <1>2, <1>3, FS_CardinalityType
<1>5. Cardinality(A) # 0
  BY <1>1, <1>3, FS_EmptySet
<1> QED
  BY <1>2, <1>3, <1>4, <1>5 DEF A, B

\* There is an ascending enumeration, so InOrder is one.
LEMMA InOrderExists ==
    ASSUME NEW P \in SUBSET Nat, IsFiniteSet(P)
    PROVE  InOrder(P) \in [1..Cardinality(P) -> P] /\ Ascending(InOrder(P))
<1> DEFINE n == Cardinality(P)
           f == [p \in P |-> Cardinality({x \in P : x <= p})]
           q == [i \in 1..n |-> CHOOSE p \in P : f[p] = i]
<1>1. n \in Nat
  BY FS_CardinalityType
<1>2. \A p \in P : f[p] \in 1..n
  <2> SUFFICES ASSUME NEW p \in P PROVE f[p] \in 1..n
    OBVIOUS
  <2> DEFINE A == {x \in P : x <= p}
  <2>1. A \subseteq P /\ p \in A
    OBVIOUS
  <2>2. f[p] = Cardinality(A)
    OBVIOUS
  <2> HIDE DEF A, f
  <2>3. IsFiniteSet(A) /\ Cardinality(A) <= n
    BY <2>1, FS_Subset
  <2>4. Cardinality(A) \in Nat /\ Cardinality(A) # 0
    BY <2>1, <2>3, FS_CardinalityType, FS_EmptySet
  <2> QED
    BY <1>1, <2>2, <2>3, <2>4
<1>3. \A p, r \in P : p < r => f[p] < f[r]
  BY RankRises
<1>4. \A p, r \in P : f[p] = f[r] => p = r
  <2> SUFFICES ASSUME NEW p \in P, NEW r \in P, f[p] = f[r], p # r PROVE FALSE
    OBVIOUS
  <2>1. p \in Nat /\ r \in Nat /\ f[p] \in Nat
    BY <1>1, <1>2
  <2>2. p < r \/ r < p
    BY <2>1
  <2> HIDE DEF f
  <2> QED
    BY <1>2, <1>3, <2>1, <2>2
<1>5. f \in [P -> 1..n]
  BY <1>2
<1> HIDE DEF f
<1>6. f \in Injection(P, 1..n)
  BY <1>4, <1>5, Fun_IsInj
<1>7. IsFiniteSet(1..n) /\ Cardinality(1..n) = n
  BY <1>1, UpTo, Zenon
<1>8. f \in Surjection(P, 1..n)
  BY <1>6, <1>7, FS_Injection
<1>9. \A i \in 1..n : \E p \in P : f[p] = i
  BY <1>8, Fun_SurjectionProperties
<1>10. \A i \in 1..n : q[i] \in P /\ f[q[i]] = i
  BY <1>9
<1>11. q \in [1..n -> P] /\ DOMAIN q = 1..n
  BY <1>10
<1> HIDE DEF q
<1>12. ASSUME NEW i \in 1..n, NEW j \in 1..n, i < j
       PROVE  q[i] < q[j]
  <2>1. q[i] \in Nat /\ q[j] \in Nat /\ q[i] \in P /\ q[j] \in P /\ f[q[i]] = i /\ f[q[j]] = j
    BY <1>10
  <2>2. q[j] < q[i] => f[q[j]] < f[q[i]]
    BY <1>3, <2>1
  <2>3. q[i] # q[j]
    BY <2>1, <1>12
  <2> QED
    BY <1>1, <1>12, <2>1, <2>2, <2>3
<1>13. Ascending(q)
  BY <1>11, <1>12 DEF Ascending
<1>14. \E e \in [1..n -> P] : \A i, j \in DOMAIN e : i < j => e[i] < e[j]
  BY <1>11, <1>13 DEF Ascending
<1> QED
  BY <1>14 DEF InOrder, Ascending

\* The entries of a list at some of its positions.
LEMMA PositionsOf ==
    ASSUME NEW n \in Nat, NEW P \in SUBSET (1..n)
    PROVE  /\ Cardinality(P) \in Nat
           /\ InOrder(P) \in [1..Cardinality(P) -> P] /\ InOrder(P) \in Seq(Nat)
           /\ Len(InOrder(P)) = Cardinality(P) /\ DOMAIN InOrder(P) = 1..Cardinality(P)
           /\ Ascending(InOrder(P))
           /\ \A i, j \in DOMAIN InOrder(P) : InOrder(P)[i] = InOrder(P)[j] => i = j
           /\ \A p \in P : \E i \in DOMAIN InOrder(P) : InOrder(P)[i] = p
<1>1. P \in SUBSET Nat
  OBVIOUS
<1>2. IsFiniteSet(P)
  <2>1. IsFiniteSet(1..n)
    BY FS_Interval
  <2> QED
    BY <2>1, FS_Subset
<1>3. Cardinality(P) \in Nat
  BY <1>2, FS_CardinalityType
<1>4. InOrder(P) \in [1..Cardinality(P) -> P] /\ Ascending(InOrder(P))
  BY <1>1, <1>2, InOrderExists
<1>5. /\ \A i, j \in DOMAIN InOrder(P) : InOrder(P)[i] = InOrder(P)[j] => i = j
      /\ \A p \in P : \E i \in DOMAIN InOrder(P) : InOrder(P)[i] = p
  BY <1>1, <1>2, <1>4, AscendingOnto
<1>6. InOrder(P) \in [1..Cardinality(P) -> Nat]
  BY <1>1, <1>4
<1>7. InOrder(P) \in Seq(Nat) /\ DOMAIN InOrder(P) = 1..Cardinality(P)
  BY <1>3, <1>6
<1>8. Len(InOrder(P)) = Cardinality(P)
  BY <1>3, <1>7
<1> QED
  BY <1>3, <1>4, <1>5, <1>7, <1>8

LEMMA EntriesOf ==
    ASSUME NEW S, NEW q \in Seq(S), NEW P \in SUBSET DOMAIN q
    PROVE  /\ Entries(q, P) \in Seq(S)
           /\ \A i \in DOMAIN Entries(q, P) : InOrder(P)[i] \in P /\ Entries(q, P)[i] = q[InOrder(P)[i]]
           /\ \A p \in P : \E i \in DOMAIN Entries(q, P) : Entries(q, P)[i] = q[p]
           /\ DOMAIN Entries(q, P) = DOMAIN InOrder(P)
<1> DEFINE e == Entries(q, P)
           o == InOrder(P)
           n == Cardinality(P)
<1>1. Len(q) \in Nat /\ DOMAIN q = 1..Len(q)
  OBVIOUS
<1>2. /\ n \in Nat /\ DOMAIN o = 1..n /\ \A i \in 1..n : o[i] \in P
      /\ \A p \in P : \E i \in 1..n : o[i] = p
  <2>1. P \in SUBSET (1..Len(q)) /\ Len(q) \in Nat
    BY <1>1
  <2>2. /\ n \in Nat /\ o \in [1..n -> P] /\ DOMAIN o = 1..n
        /\ \A p \in P : \E i \in DOMAIN o : o[i] = p
    BY <2>1, PositionsOf
  <2> HIDE DEF o, n
  <2> QED
    BY <2>2
<1>3. e = [i \in 1..n |-> q[o[i]]]
  BY DEF Entries
<1> HIDE DEF e, o, n
<1>4. \A i \in 1..n : q[o[i]] \in S
  BY <1>1, <1>2
<1>5. e \in [1..n -> S]
  BY <1>3, <1>4
<1>6. e \in Seq(S)
  BY <1>2, <1>5
<1>7. DOMAIN e = 1..n /\ \A i \in 1..n : o[i] \in P /\ e[i] = q[o[i]]
  BY <1>2, <1>3
<1>8. \A p \in P : \E i \in 1..n : e[i] = q[p]
  BY <1>2, <1>7
<1> QED
  BY <1>2, <1>6, <1>7, <1>8 DEF e, o

---------------------------------------------------------------------------
(* Numbers and lists. *)

LEMMA MinType ==
    ASSUME NEW a \in Int, NEW b \in Int
    PROVE  Min({a, b}) \in Int /\ (a \in Nat /\ b \in Nat => Min({a, b}) \in Nat)
<1>1. \E m \in {a, b} : \A x \in {a, b} : m <= x
  <2>1. a <= b \/ b <= a
    OBVIOUS
  <2> QED
    BY <2>1
<1> QED
  BY <1>1 DEF Min

LEMMA MaxType ==
    ASSUME NEW a \in Int
    PROVE  Max({0, a}) \in Nat
<1>1. \E m \in {0, a} : \A x \in {0, a} : m >= x
  OBVIOUS
<1>2. Max({0, a}) \in {0, a} /\ Max({0, a}) >= 0
  BY <1>1 DEF Max
<1> QED
  BY <1>2

LEMMA RequiredType ==
    ASSUME DecodeBatchAssumption, Shapes, NEW s \in Seqs, NEW lim \in Nat, NEW extra \in Nat
    PROVE  Required(s, lim, extra) \in Nat
<1>1. BlockSize \in Nat \ {0} /\ len[s] \in Nat /\ held[s] \in Nat
  BY DEF DecodeBatchAssumption, Shapes, SeqShape
<1> DEFINE tokens == (IF lim = 0 THEN len[s] ELSE Min({len[s], lim})) + extra
<1>2. tokens \in Nat
  BY <1>1, MinType
<1> HIDE DEF tokens
<1>3. (tokens + BlockSize - 1) \div BlockSize \in Int
  BY <1>1, <1>2, Z3
<1>4. (tokens + BlockSize - 1) \div BlockSize - held[s] \in Int
  BY <1>1, <1>3
<1>5. Required(s, lim, extra) = Max({0, (tokens + BlockSize - 1) \div BlockSize - held[s]})
  BY DEF Required, tokens
<1> QED
  BY <1>4, <1>5, MaxType

LEMMA TailOf ==
    ASSUME NEW S, NEW q \in Seq(S), q # <<>>
    PROVE  /\ Tail(q) \in Seq(S) /\ Len(Tail(q)) = Len(q) - 1 /\ Head(q) = q[1] /\ 1 \in DOMAIN q
           /\ \A i \in DOMAIN Tail(q) : i + 1 \in DOMAIN q /\ Tail(q)[i] = q[i + 1]
           /\ \A i \in DOMAIN q : i # 1 => i - 1 \in DOMAIN Tail(q) /\ Tail(q)[i - 1] = q[i]
  OBVIOUS

LEMMA AppendOf ==
    ASSUME NEW S, NEW q \in Seq(S), NEW e \in S
    PROVE  /\ Append(q, e) \in Seq(S) /\ Len(Append(q, e)) = Len(q) + 1
           /\ DOMAIN Append(q, e) = DOMAIN q \cup {Len(q) + 1}
           /\ \A i \in DOMAIN q : Append(q, e)[i] = q[i]
           /\ Append(q, e)[Len(q) + 1] = e
  OBVIOUS

LEMMA ConcatOf ==
    ASSUME NEW S, NEW q \in Seq(S), NEW r \in Seq(S)
    PROVE  /\ q \o r \in Seq(S) /\ Len(q \o r) = Len(q) + Len(r)
           /\ \A i \in DOMAIN q : i \in DOMAIN (q \o r) /\ (q \o r)[i] = q[i]
           /\ \A i \in DOMAIN r : Len(q) + i \in DOMAIN (q \o r) /\ (q \o r)[Len(q) + i] = r[i]
           /\ \A i \in DOMAIN (q \o r) : \/ i \in DOMAIN q
                                         \/ i - Len(q) \in DOMAIN r /\ (q \o r)[i] = r[i - Len(q)]
  OBVIOUS

---------------------------------------------------------------------------
(* What a request for blocks does: the sequences that give theirs up are
   stopped or waiting, and nobody else's history changes. *)

LEMMA RepageTypes ==
    ASSUME SeqShape, NEW V \in SUBSET Seqs, NEW c \in Seqs, NEW lim \in Nat, NEW need \in Nat,
           Repage(V, c, lim, need)
    PROVE  held' \in [Seqs -> Nat] /\ hist' \in [Seqs -> Nat] /\ limit' \in [Seqs -> Nat]
<1>1. \A s \in Seqs : held[s] \in Nat /\ hist[s] \in Nat /\ limit[s] \in Nat
  BY DEF SeqShape
<1>2. held' \in [Seqs -> Nat]
  BY <1>1 DEF Repage
<1>3. hist' \in [Seqs -> Nat]
  BY <1>1 DEF Repage
<1>4. limit' \in [Seqs -> Nat]
  BY <1>1 DEF Repage
<1> QED
  BY <1>2, <1>3, <1>4

LEMMA AskFacts ==
    ASSUME DecodeBatchAssumption, Shapes, NEW c \in Seqs, NEW lim \in Nat, NEW extra \in Nat,
           NEW lim2 \in Nat, Allocate(c, lim, extra) \/ Refuse(c, lim, extra, lim2)
    PROVE  /\ held' \in [Seqs -> Nat] /\ hist' \in [Seqs -> Nat] /\ limit' \in [Seqs -> Nat]
           /\ \A s \in Seqs : s = c \/ status[s] \notin {"STOPPED", "WAITING"} => hist'[s] = hist[s]
<1> DEFINE need == Required(c, lim, extra)
<1>1. need \in Nat
  BY RequiredType
<1>2. SeqShape
  BY DEF Shapes
<1>3. Evictable(c) \subseteq Seqs
      /\ \A s \in Evictable(c) : s # c /\ status[s] \in {"STOPPED", "WAITING"}
  BY DEF Evictable, WithStatus, Waiting
<1> HIDE DEF need
<1>4. PICK V \in SUBSET Evictable(c), l \in Nat, m \in Nat : Repage(V, c, l, m)
  <2>1. CASE Allocate(c, lim, extra)
    BY <1>1, <2>1 DEF Allocate, need
  <2>2. CASE Refuse(c, lim, extra, lim2)
    BY <2>2 DEF Refuse
  <2> QED
    BY <2>1, <2>2
<1>5. V \in SUBSET Seqs
  BY <1>3, <1>4
<1>6. held' \in [Seqs -> Nat] /\ hist' \in [Seqs -> Nat] /\ limit' \in [Seqs -> Nat]
  BY <1>2, <1>4, <1>5, RepageTypes
<1>7. hist' = [s \in Seqs |-> IF s \in V THEN 0 ELSE hist[s]]
  BY <1>4 DEF Repage
<1> QED
  BY <1>3, <1>4, <1>6, <1>7

---------------------------------------------------------------------------
(* What the entries of the list, of a forward and of the worker's rows are. *)

LEMMA FrameTypes ==
    ASSUME DecodeBatchAssumption, Shapes
    PROVE  /\ \A s \in Seqs : len[s] \in Nat /\ hist[s] \in Nat /\ limit[s] \in Nat
           /\ \A s \in Seqs : KvLimit(s) \in Nat /\ ChunkLimit(s) \in Nat /\ NumTokens(s) \in Int /\ Cost(s) \in Int
           /\ \A lim \in Nat : Prealloced(lim) \in Nat
           /\ BlockSize \in Nat /\ ChunkSize \in Nat /\ Prealloc \in Nat /\ ShortTurns \in Nat
           /\ PromptLens \subseteq Nat /\ Gone \in Slots /\ Seqs \subseteq Slots
<1>1. \A s \in Seqs : len[s] \in Nat /\ hist[s] \in Nat /\ limit[s] \in Nat
  BY DEF Shapes, SeqShape
<1>2. /\ BlockSize \in Nat /\ ChunkSize \in Nat /\ Prealloc \in Nat /\ ShortTurns \in Nat
      /\ MaxLen \in Nat /\ PromptLens \subseteq 1..MaxLen
  BY DEF DecodeBatchAssumption
<1>3. \A s \in Seqs : KvLimit(s) \in Nat /\ ChunkLimit(s) \in Nat /\ NumTokens(s) \in Int
  BY <1>1, <1>2 DEF KvLimit, ChunkLimit, NumTokens
<1>4. \A s \in Seqs : Cost(s) \in Int
  BY <1>2, <1>3, MinType DEF Cost
<1>5. \A lim \in Nat : Prealloced(lim) \in Nat
  BY <1>2 DEF Prealloced
<1>6. PromptLens \subseteq Nat
  BY <1>2
<1> QED
  BY <1>1, <1>2, <1>3, <1>4, <1>5, <1>6 DEF Slots

\* The list without those who no longer run, as a prefill leaves it.
LEMMA ValidFacts ==
    ASSUME Shapes
    PROVE  /\ ValidPositions \in Seq(Nat)
           /\ \A i \in DOMAIN ValidPositions : /\ ValidPositions[i] \in DOMAIN running
                                               /\ running[ValidPositions[i]] \in Running
           /\ \A i \in DOMAIN running : running[i] \in Running =>
                \E j \in DOMAIN ValidPositions : ValidPositions[j] = i
           /\ \A i, j \in DOMAIN ValidPositions : ValidPositions[i] = ValidPositions[j] => i = j
           /\ Len(ValidPositions) <= Len(running)
           /\ [i \in DOMAIN ValidPositions |-> running[ValidPositions[i]]] \in Seq(Slots)
           /\ (Len(ValidPositions) = Len(running) => AllValid)
<1> DEFINE P == {i \in DOMAIN running : running[i] \in Running}
           n == Len(running)
<1>1. n \in Nat /\ DOMAIN running = 1..n /\ P \in SUBSET (1..n)
  BY DEF Shapes, MakerShape
<1>2. ValidPositions = InOrder(P)
  BY DEF ValidPositions
<1>3. /\ Cardinality(P) \in Nat
      /\ InOrder(P) \in [1..Cardinality(P) -> P] /\ InOrder(P) \in Seq(Nat)
      /\ Len(InOrder(P)) = Cardinality(P) /\ DOMAIN InOrder(P) = 1..Cardinality(P)
      /\ \A i, j \in DOMAIN InOrder(P) : InOrder(P)[i] = InOrder(P)[j] => i = j
      /\ \A p \in P : \E i \in DOMAIN InOrder(P) : InOrder(P)[i] = p
  BY <1>1, PositionsOf
<1>4. Cardinality(P) <= n /\ (Cardinality(P) = n => P = 1..n)
  <2>1. IsFiniteSet(1..n) /\ Cardinality(1..n) = n
    BY <1>1, UpTo, Zenon
  <2> HIDE DEF n, P
  <2> QED
    BY <1>1, <2>1, FS_Subset
<1>5. \A i \in DOMAIN ValidPositions : ValidPositions[i] \in P
  BY <1>2, <1>3
<1>6. \A p \in P : p \in DOMAIN running /\ running[p] \in Running /\ running[p] \in Slots
  BY DEF Running, WithStatus, Slots
<1>7. \A i \in DOMAIN running : running[i] \in Running => i \in P
  OBVIOUS
<1>8. P = 1..n => AllValid
  BY <1>1 DEF AllValid
<1> HIDE DEF P, n
<1>9. [i \in DOMAIN ValidPositions |-> running[ValidPositions[i]]] \in Seq(Slots)
  <2>1. [i \in 1..Cardinality(P) |-> running[ValidPositions[i]]] \in [1..Cardinality(P) -> Slots]
    BY <1>2, <1>3, <1>5, <1>6
  <2> QED
    BY <1>2, <1>3, <2>1, SMTT(30)
<1> QED
  BY <1>2, <1>3, <1>4, <1>5, <1>6, <1>7, <1>8, <1>9 DEF n

LEMMA RowsTyped ==
    ASSUME Shapes, NEW q \in DOMAIN queue
    PROVE  /\ queue[q] \in ForwardSet /\ queue[q].lane \in {"prefill", "chunk", "decode"}
           /\ queue[q].rows \in Seq(RowSet) /\ queue[q].keep \in Seq(Nat)
           /\ queue[q].reindex \in BOOLEAN /\ queue[q].scoring \in BOOLEAN
           /\ \A i \in RowsOf(queue[q]) : /\ queue[q].rows[i] \in RowSet /\ queue[q].rows[i].seq \in Slots
                                          /\ queue[q].rows[i].len \in Nat /\ queue[q].rows[i].gen \in BOOLEAN
<1>1. queue[q] \in ForwardSet
  BY DEF Shapes, WorkShape
<1>2. queue[q].rows \in Seq(RowSet)
  BY <1>1 DEF ForwardSet
<1>3. \A i \in RowsOf(queue[q]) : queue[q].rows[i] \in RowSet
  BY <1>2 DEF RowsOf
<1> QED
  BY <1>1, <1>2, <1>3 DEF ForwardSet, RowSet

---------------------------------------------------------------------------
(* The forward that is sent. *)

LEMMA PrefillForward ==
    ASSUME Shapes, NEW ss \in Seq(Seqs), DispatchPrefill(ss)
    PROVE  /\ \E f \in ForwardSet :
                /\ Dispatch(f) /\ f.lane = "prefill"
                /\ DOMAIN f.rows = DOMAIN ss
                /\ \A i \in DOMAIN ss : f.rows[i] = PrefillRow(ss[i], len[ss[i]])
                /\ f.reindex = ~AllValid /\ f.keep = IF AllValid THEN <<>> ELSE ValidPositions
                /\ f.scoring = (\E i \in DOMAIN ss : kind[ss[i]] = "score")
           /\ running' = [i \in DOMAIN ValidPositions |-> running[ValidPositions[i]]]
           /\ rounds' = 0
<1> DEFINE rows == [i \in DOMAIN ss |-> PrefillRow(ss[i], len[ss[i]])]
           f == [lane    |-> "prefill",
                 rows    |-> rows,
                 reindex |-> ~AllValid,
                 keep    |-> IF AllValid THEN <<>> ELSE ValidPositions,
                 scoring |-> \E i \in DOMAIN ss : kind[ss[i]] = "score"]
<1>1. \A i \in DOMAIN ss : PrefillRow(ss[i], len[ss[i]]) \in RowSet
  <2> SUFFICES ASSUME NEW i \in DOMAIN ss PROVE PrefillRow(ss[i], len[ss[i]]) \in RowSet
    OBVIOUS
  <2>1. ss[i] \in Seqs /\ len[ss[i]] \in Nat
    BY DEF Shapes, SeqShape
  <2> QED
    BY <2>1 DEF PrefillRow, RowSet, Slots
<1>2. rows \in Seq(RowSet)
  <2>1. DOMAIN ss = 1..Len(ss) /\ Len(ss) \in Nat
    OBVIOUS
  <2>2. rows \in [1..Len(ss) -> RowSet]
    BY <1>1, <2>1
  <2> QED
    BY <2>1, <2>2
<1>3. (IF AllValid THEN <<>> ELSE ValidPositions) \in Seq(Nat)
  BY ValidFacts
<1>4. AllValid \in BOOLEAN
  BY DEF AllValid
<1> HIDE DEF rows
<1>5. f \in ForwardSet
  BY <1>2, <1>3, <1>4 DEF ForwardSet
<1>6. Dispatch(f) /\ rounds' = 0
      /\ running' = [i \in DOMAIN ValidPositions |-> running[ValidPositions[i]]]
  BY DEF DispatchPrefill, rows
<1>7. /\ f.lane = "prefill" /\ f.rows = rows /\ f.reindex = ~AllValid
      /\ f.keep = IF AllValid THEN <<>> ELSE ValidPositions
      /\ f.scoring = (\E i \in DOMAIN ss : kind[ss[i]] = "score")
  OBVIOUS
<1>8. DOMAIN rows = DOMAIN ss /\ \A i \in DOMAIN ss : rows[i] = PrefillRow(ss[i], len[ss[i]])
  BY DEF rows
<1> HIDE DEF f
<1> QED
  BY <1>5, <1>6, <1>7, <1>8

LEMMA ChunkForward ==
    ASSUME DecodeBatchAssumption, Shapes, NEW s \in Seqs, DispatchChunk(s)
    PROVE  /\ \E f \in ForwardSet :
                /\ Dispatch(f) /\ f.lane = "chunk"
                /\ f.rows = <<PrefillRow(s, hist[s] + ChunkSize)>>
                /\ ~f.reindex /\ f.scoring = (kind[s] = "score")
           /\ running' = running /\ rounds' = 0 /\ shorts' = 0
<1> DEFINE row == PrefillRow(s, hist[s] + ChunkSize)
           f == [lane    |-> "chunk",
                 rows    |-> <<row>>,
                 reindex |-> FALSE, keep |-> <<>>,
                 scoring |-> kind[s] = "score"]
<1>1. hist[s] + ChunkSize \in Nat
  BY FrameTypes
<1>2. row \in RowSet
  BY <1>1 DEF PrefillRow, RowSet, Slots
<1> HIDE DEF row
<1>3. f \in ForwardSet
  BY <1>2 DEF ForwardSet
<1>4. Dispatch(f) /\ rounds' = 0 /\ shorts' = 0 /\ running' = running
  BY DEF DispatchChunk, row
<1> QED
  BY <1>3, <1>4 DEF row

LEMMA DecodeForward ==
    ASSUME Frame, SendDecode
    PROVE  \E f \in ForwardSet :
             /\ Dispatch(f) /\ f.lane = "decode"
             /\ DOMAIN f.rows = DOMAIN turn.keep
             /\ \A i \in DOMAIN turn.keep : f.rows[i] = DecodeRow(running[turn.keep[i]])
             /\ f.reindex /\ f.keep = turn.keep /\ ~f.scoring /\ Len(f.rows) = Len(f.keep)
<1> DEFINE rows == [i \in DOMAIN turn.keep |-> DecodeRow(running[turn.keep[i]])]
           f == [lane    |-> "decode",
                 rows    |-> rows,
                 reindex |-> TRUE, keep |-> Positions, scoring |-> FALSE]
<1>1. /\ turn.keep \in Seq(Nat) /\ running \in Seq(Slots) /\ turn.left \in Nat
      /\ \A j \in DOMAIN turn.keep : turn.keep[j] \in (turn.left + 1)..Len(running)
  BY DEF Frame, Shapes, TurnShape, TurnSet, MakerShape, LaneShape, SendDecode
<1>2. \A i \in DOMAIN turn.keep : running[turn.keep[i]] \in Slots
  BY <1>1
<1>3. \A i \in DOMAIN turn.keep : DecodeRow(running[turn.keep[i]]) \in RowSet
  BY <1>2 DEF DecodeRow, RowSet
<1>4. DOMAIN turn.keep = 1..Len(turn.keep) /\ Len(turn.keep) \in Nat
  BY <1>1
<1>5. rows \in [1..Len(turn.keep) -> RowSet]
  BY <1>3, <1>4
<1>6. rows \in Seq(RowSet) /\ DOMAIN rows = DOMAIN turn.keep /\ Len(rows) = Len(turn.keep)
  BY <1>4, <1>5
<1>7. \A i \in DOMAIN turn.keep : rows[i] = DecodeRow(running[turn.keep[i]])
  OBVIOUS
<1>8. Dispatch(f)
  BY DEF SendDecode
<1> HIDE DEF rows
<1>9. f \in ForwardSet
  BY <1>1, <1>6 DEF ForwardSet, Positions
<1>10. /\ f.lane = "decode" /\ f.rows = rows /\ f.reindex /\ f.keep = turn.keep /\ ~f.scoring
  BY DEF Positions
<1> HIDE DEF f
<1> QED
  BY <1>6, <1>7, <1>8, <1>9, <1>10

LEMMA PrefillSent ==
    ASSUME Shapes, NEW ss \in Seq(Seqs), DispatchPrefill(ss)
    PROVE  (\E f : Sent(f)) /\ running' \in Seq(Slots) /\ rounds' \in Int
<1>1. PICK f \in ForwardSet : Dispatch(f) /\ f.lane = "prefill"
  BY PrefillForward
<1>2. running' = [i \in DOMAIN ValidPositions |-> running[ValidPositions[i]]] /\ rounds' = 0
  BY PrefillForward
<1>3. [i \in DOMAIN ValidPositions |-> running[ValidPositions[i]]] \in Seq(Slots)
  BY ValidFacts
<1>4. Sent(f)
  BY <1>1 DEF Sent
<1>5. running' \in Seq(Slots)
  BY <1>2, <1>3
<1> QED
  BY <1>2, <1>4, <1>5

LEMMA LaneFacts ==
    ASSUME Frame
    PROVE  /\ TryChunk => chunk.seq \in Seqs
           /\ Admitted \/ (\E s \in Seqs : Candidate(s)) => turn.batch \in Seq(Seqs) /\ turn.todo \in Seq(Seqs)
<1>1. turn.plan \in Seq(Lanes) /\ turn.batch \in Seq(Seqs) /\ turn.todo \in Seq(Seqs)
  BY DEF Frame, Shapes, TurnShape, TurnSet
<1>2. ASSUME TryChunk PROVE chunk.seq \in Seqs
  <2>1. turn.plan # <<>> /\ Head(turn.plan) = "chunk" /\ pc \in InPass
    BY <1>2 DEF TryChunk, InPass
  <2>2. 1 \in DOMAIN turn.plan /\ turn.plan[1] = "chunk"
    BY <1>1, <2>1
  <2> QED
    BY <2>1, <2>2 DEF Frame, LaneShape, Plans
<1> QED
  BY <1>1, <1>2

LEMMA SendFacts ==
    ASSUME DecodeBatchAssumption, Frame, Sends
    PROVE  /\ \E f : Sent(f)
           /\ pc \in InPass /\ SeqShape' /\ running' \in Seq(Slots)
           /\ UNCHANGED <<len, kind, status, arrival>>
           /\ toEvict' \subseteq Slots /\ chunk' \in [seq : Slots, step : Int]
           /\ (chunk'.seq \in Seqs => chunk'.step \in Nat)
           /\ rounds' \in Int /\ shorts' \in Int
<1>0. Shapes /\ MakerShape /\ SeqShape /\ turn \in TurnSet
  BY DEF Frame, Shapes, TurnShape
<1> USE DEF Sent
<1>1. CASE SendPrefill
  <2>1. turn.batch \in Seq(Seqs) /\ DispatchPrefill(turn.batch)
    BY <1>0, <1>1 DEF SendPrefill, TurnSet
  <2>2. (\E f : Sent(f)) /\ running' \in Seq(Slots) /\ rounds' \in Int
    BY <1>0, <2>1, PrefillSent
  <2>3. Min({shorts + 1, ShortTurns}) \in Int /\ shorts \in Int
    <3>1. shorts \in Int /\ shorts + 1 \in Int /\ ShortTurns \in Int
      BY <1>0, FrameTypes DEF MakerShape
    <3> QED
      BY <3>1, MinType
  <2>4. UNCHANGED <<seqVars, toEvict, chunk>> /\ shorts' \in Int /\ pc = "admit"
    BY <1>1, <2>3 DEF SendPrefill, Admitted
  <2> QED
    BY <1>0, <2>2, <2>4 DEF seqVars, SeqShape, MakerShape, InPass
<1>2. CASE SendFirstChunk
  <2>1. turn.batch \in Seq(Seqs) /\ turn.batch # <<>>
    BY <1>0, <1>2 DEF SendFirstChunk, TurnSet
  <2>2. turn.batch[1] \in Seqs
    BY <2>1
  <2>3. DispatchChunk(turn.batch[1]) /\ UNCHANGED <<seqVars, toEvict>> /\ pc = "admit"
        /\ chunk' = [seq |-> turn.batch[1], step |-> hist[turn.batch[1]]]
    BY <1>2 DEF SendFirstChunk, Admitted
  <2>4. (\E f : Sent(f)) /\ running' = running /\ rounds' \in Int /\ shorts' \in Int
    BY <1>0, <2>2, <2>3, ChunkForward
  <2>5. chunk' \in [seq : Slots, step : Int] /\ (chunk'.seq \in Seqs => chunk'.step \in Nat)
    BY <1>0, <2>2, <2>3, FrameTypes
  <2> QED
    BY <1>0, <2>3, <2>4, <2>5 DEF seqVars, SeqShape, MakerShape, InPass
<1>3. CASE SendNextChunk
  <2>1. chunk.seq \in Seqs /\ pc = "try"
    BY <1>3, LaneFacts DEF SendNextChunk, TryChunk
  <2>2. /\ Allocate(chunk.seq, ChunkLimit(chunk.seq), 0) /\ DispatchChunk(chunk.seq)
        /\ UNCHANGED <<len, kind, status, arrival, toEvict, chunk>>
    BY <1>3 DEF SendNextChunk
  <2>3. held' \in [Seqs -> Nat] /\ hist' \in [Seqs -> Nat] /\ limit' \in [Seqs -> Nat]
    BY <1>0, <2>1, <2>2, AskFacts, FrameTypes
  <2>4. (\E f : Sent(f)) /\ running' = running /\ rounds' \in Int /\ shorts' \in Int
    BY <1>0, <2>1, <2>2, ChunkForward
  <2> QED
    BY <1>0, <2>1, <2>2, <2>3, <2>4 DEF SeqShape, MakerShape, InPass
<1>4. CASE SendLastChunk
  <2>1. chunk.seq \in Seqs /\ pc = "try"
    BY <1>4, LaneFacts DEF SendLastChunk, TryChunk
  <2>2. /\ Allocate(chunk.seq, 0, Prealloc) /\ DispatchPrefill(<<chunk.seq>>)
        /\ UNCHANGED <<len, kind, status, arrival, toEvict>> /\ chunk' = NoChunk /\ shorts' = 0
    BY <1>4 DEF SendLastChunk
  <2>3. held' \in [Seqs -> Nat] /\ hist' \in [Seqs -> Nat] /\ limit' \in [Seqs -> Nat]
    BY <1>0, <2>1, <2>2, AskFacts, FrameTypes
  <2>4. <<chunk.seq>> \in Seq(Seqs)
    BY <2>1
  <2>5. (\E f : Sent(f)) /\ running' \in Seq(Slots) /\ rounds' \in Int
    BY <1>0, <2>4, <2>2, PrefillSent
  <2>6. chunk' \in [seq : Slots, step : Int] /\ chunk'.seq \notin Seqs
    BY <2>2 DEF NoChunk, Slots, DecodeBatchAssumption
  <2>7. SeqShape'
    BY <1>0, <2>2, <2>3 DEF SeqShape
  <2>8. toEvict' \subseteq Slots /\ shorts' \in Int
    BY <1>0, <2>2 DEF MakerShape
  <2> QED
    BY <2>1, <2>2, <2>5, <2>6, <2>7, <2>8 DEF InPass
<1>5. CASE SendDecode
  <2>1. \E f : Sent(f)
    BY <1>5, DecodeForward
  <2>2. UNCHANGED <<seqVars, running, chunk, rounds, shorts>> /\ pc = "grow" /\ toEvict' = LeftOut
    BY <1>5 DEF SendDecode
  <2>3. LeftOut \subseteq Slots
    BY <1>0 DEF LeftOut, MakerShape
  <2> QED
    BY <1>0, <2>1, <2>2, <2>3 DEF seqVars, SeqShape, MakerShape, InPass
<1> QED
  BY <1>1, <1>2, <1>3, <1>4, <1>5 DEF Sends

---------------------------------------------------------------------------
(* The steps of a pass that send nothing. *)

LEMMA NoTurnType ==
    /\ NoTurn \in TurnSet
    /\ \A plan \in Seq(Lanes) : [NoTurn EXCEPT !.plan = plan] \in TurnSet
<1>1. <<>> \in Seq(Lanes) /\ <<>> \in Seq(Seqs) /\ <<>> \in Seq(Nat) /\ 0 \in Int /\ 0 \in Nat
  OBVIOUS
<1>2. NoTurn \in TurnSet
  BY <1>1 DEF NoTurn, TurnSet
<1>3. ASSUME NEW plan \in Seq(Lanes) PROVE [NoTurn EXCEPT !.plan = plan] \in TurnSet
  BY <1>1, <1>3 DEF NoTurn, TurnSet
<1> QED
  BY <1>2, <1>3

LEMMA PlanFacts ==
    ASSUME Frame, turn.plan # <<>>
    PROVE  /\ Tail(turn.plan) \in Seq(Lanes) /\ Plans(Head(turn.plan))
           /\ \A l : (\E i \in DOMAIN Tail(turn.plan) : Tail(turn.plan)[i] = l) => Plans(l)
           /\ \A l : Plans(l) /\ l # Head(turn.plan) => \E i \in DOMAIN Tail(turn.plan) : Tail(turn.plan)[i] = l
<1>1. turn.plan \in Seq(Lanes)
  BY DEF Frame, Shapes, TurnShape, TurnSet
<1> DEFINE p == turn.plan
<1>2. \A l : Plans(l) <=> \E i \in DOMAIN p : p[i] = l
  BY DEF Plans
<1>3. p \in Seq(Lanes) /\ p # <<>>
  BY <1>1
<1> HIDE DEF p
<1>4. /\ Tail(p) \in Seq(Lanes) /\ Head(p) = p[1] /\ 1 \in DOMAIN p
      /\ \A i \in DOMAIN Tail(p) : i + 1 \in DOMAIN p /\ Tail(p)[i] = p[i + 1]
      /\ \A i \in DOMAIN p : i # 1 => i - 1 \in DOMAIN Tail(p) /\ Tail(p)[i - 1] = p[i]
  BY <1>3, TailOf
<1>5. ASSUME NEW l, NEW i \in DOMAIN Tail(p), Tail(p)[i] = l PROVE Plans(l)
  BY <1>2, <1>4, <1>5
<1>6. ASSUME NEW l, Plans(l), l # Head(p) PROVE \E i \in DOMAIN Tail(p) : Tail(p)[i] = l
  <2>1. PICK i \in DOMAIN p : p[i] = l
    BY <1>2, <1>6
  <2>2. i # 1
    BY <1>4, <1>6, <2>1
  <2>3. i - 1 \in DOMAIN Tail(p) /\ Tail(p)[i - 1] = l
    BY <1>4, <2>1, <2>2
  <2> QED
    BY <2>3
<1>7. Plans(Head(p))
  BY <1>2, <1>4
<1>8. /\ Tail(p) \in Seq(Lanes) /\ Plans(Head(p))
      /\ \A l : (\E i \in DOMAIN Tail(p) : Tail(p)[i] = l) => Plans(l)
      /\ \A l : Plans(l) /\ l # Head(p) => \E i \in DOMAIN Tail(p) : Tail(p)[i] = l
  BY <1>4, <1>5, <1>6, <1>7
<1> QED
  BY <1>8 DEF p

\* A position that is kept goes to the front.
LEMMA KeepFacts ==
    ASSUME Frame, pc = "grow", turn.left > 0, NEW t,
           t = [turn EXCEPT !.left = turn.left - 1, !.keep = <<turn.left>> \o @]
    PROVE  /\ t \in TurnSet /\ t.plan = turn.plan /\ t.left = turn.left - 1
           /\ \A j \in DOMAIN t.keep : t.keep[j] \in (t.left + 1)..Len(running)
           /\ t.keep \in Seq(Nat) /\ DOMAIN t.keep = 1..(Len(turn.keep) + 1)
           /\ t.keep[1] = turn.left
           /\ \A j \in DOMAIN turn.keep : t.keep[j + 1] = turn.keep[j]
<1>1. /\ turn \in TurnSet /\ turn.left \in Nat /\ turn.keep \in Seq(Nat)
      /\ turn.left <= Len(running) /\ Len(running) \in Nat
      /\ \A j \in DOMAIN turn.keep : turn.keep[j] \in (turn.left + 1)..Len(running)
  BY DEF Frame, Shapes, TurnShape, TurnSet, MakerShape, LaneShape
<1>2. t.left = turn.left - 1 /\ t.plan = turn.plan /\ t.keep = <<turn.left>> \o turn.keep
  BY <1>1 DEF TurnSet
<1>3. /\ t.keep \in Seq(Nat) /\ DOMAIN t.keep = 1..(Len(turn.keep) + 1) /\ t.keep[1] = turn.left
      /\ \A j \in DOMAIN turn.keep : t.keep[j + 1] = turn.keep[j]
      /\ \A j \in DOMAIN t.keep : j = 1 \/ (j - 1 \in DOMAIN turn.keep /\ t.keep[j] = turn.keep[j - 1])
  <2> DEFINE k == turn.keep
             l == turn.left
  <2>1. k \in Seq(Nat) /\ l \in Nat /\ t.keep = <<l>> \o k
    BY <1>1, <1>2
  <2> HIDE DEF k, l
  <2> DEFINE a == <<l>>
  <2>2. a \in Seq(Nat) /\ Len(a) = 1 /\ DOMAIN a = {1} /\ a[1] = l /\ t.keep = a \o k
    BY <2>1
  <2> HIDE DEF a
  <2>5. /\ a \o k \in Seq(Nat) /\ Len(a \o k) = Len(a) + Len(k)
        /\ \A i \in DOMAIN a : i \in DOMAIN (a \o k) /\ (a \o k)[i] = a[i]
        /\ \A i \in DOMAIN k : Len(a) + i \in DOMAIN (a \o k) /\ (a \o k)[Len(a) + i] = k[i]
        /\ \A i \in DOMAIN (a \o k) : i \in DOMAIN a \/ (i - Len(a) \in DOMAIN k /\ (a \o k)[i] = k[i - Len(a)])
    BY <2>1, <2>2, ConcatOf, SMTT(30)
  <2>6. Len(k) \in Nat
    BY <2>1
  <2>3. /\ t.keep \in Seq(Nat) /\ Len(t.keep) = Len(k) + 1
        /\ t.keep[1] = l
        /\ \A j \in DOMAIN k : t.keep[1 + j] = k[j]
        /\ \A j \in DOMAIN t.keep : j = 1 \/ (j - 1 \in DOMAIN k /\ t.keep[j] = k[j - 1])
    <3>4. t.keep \in Seq(Nat) /\ Len(t.keep) = 1 + Len(k)
      BY <2>2, <2>5, Zenon
    <3>1. t.keep \in Seq(Nat) /\ Len(t.keep) = Len(k) + 1
      BY <2>6, <3>4
    <3>2. t.keep[1] = l /\ \A j \in DOMAIN k : t.keep[1 + j] = k[j]
      BY <2>2, <2>5
    <3>3. \A j \in DOMAIN t.keep : j = 1 \/ (j - 1 \in DOMAIN k /\ t.keep[j] = k[j - 1])
      BY <2>2, <2>5
    <3> QED
      BY <3>1, <3>2, <3>3
  <2>4. DOMAIN t.keep = 1..(Len(k) + 1) /\ \A j \in DOMAIN k : t.keep[j + 1] = k[j]
    BY <2>1, <2>3, SMTT(30)
  <2> QED
    BY <2>3, <2>4 DEF k, l
<1>4. t \in TurnSet
  <2>1. turn.left - 1 \in Nat
    BY <1>1
  <2>2. t = [turn EXCEPT !.left = turn.left - 1, !.keep = t.keep]
    BY <1>2
  <2> QED
    BY <1>1, <1>3, <2>1, <2>2 DEF TurnSet
<1>5. ASSUME NEW j \in DOMAIN t.keep PROVE t.keep[j] \in (t.left + 1)..Len(running)
  <2>1. CASE j = 1
    BY <1>1, <1>2, <1>3, <2>1
  <2>2. CASE j - 1 \in DOMAIN turn.keep /\ t.keep[j] = turn.keep[j - 1]
    BY <1>1, <1>2, <2>2, SMTT(30)
  <2> QED
    BY <1>3, <2>1, <2>2
<1> QED
  BY <1>2, <1>3, <1>4, <1>5

LEMMA QuietFacts ==
    ASSUME DecodeBatchAssumption, Frame, Quiet
    PROVE  QuietStep
<1>0. /\ turn \in TurnSet /\ turn.plan \in Seq(Lanes) /\ turn.todo \in Seq(Seqs) /\ turn.left \in Nat
      /\ turn.keep \in Seq(Nat) /\ turn.batch \in Seq(Seqs)
      /\ running \in Seq(Slots) /\ toEvict \subseteq Slots /\ Len(running) \in Nat
      /\ pc = "grow" => /\ turn.left <= Len(running)
                        /\ \A j \in DOMAIN turn.keep : turn.keep[j] \in (turn.left + 1)..Len(running)
  BY SMTT(30) DEF Frame, Shapes, TurnShape, TurnSet, MakerShape, LaneShape
<1> DEFINE Whole1(t) == \A l : (\E i \in DOMAIN t.plan : t.plan[i] = l) => Plans(l)
<1>a. Whole1(turn') => \A l : Plans(l)' => Plans(l)
  BY DEF Plans
<1>b. Whole1(NoTurn) /\ Whole1(turn)
  BY DEF NoTurn, Plans
<1>c. NoTurn \in TurnSet
  BY NoTurnType
<1>1. CASE EndPass
  <2>1. turn' = NoTurn /\ pc' = NothingSent /\ pc = "try" /\ UNCHANGED <<seqVars, makerVars, workVars>>
    BY <1>1 DEF EndPass
  <2> QED
    BY <1>0, <1>a, <1>b, <1>c, <2>1 DEF makerVars, InPass, QuietStep, NothingSent
<1>2. CASE EnterPrefill
  <2>1. PICK lane \in {"all", "short", "long"}, S \in SUBSET Seqs : EnterLane(lane, S)
    BY <1>2 DEF EnterPrefill, Longs, Waiting, WithStatus
  <2>2. /\ pc = "try" /\ turn.plan # <<>> /\ pc' = "admit"
        /\ UNCHANGED <<seqVars, makerVars, workVars>>
    BY <2>1 DEF EnterLane
  <2>3. PICK todo \in Orders(lane, S) :
          turn' = [NoTurn EXCEPT !.plan = Tail(turn.plan), !.lane = lane, !.todo = todo]
    BY <2>1 DEF EnterLane
  <2>4. todo \in Seq(Seqs)
    <3>1. IsFiniteSet(S)
      <4>1. IsFiniteSet(Seqs)
        BY DEF DecodeBatchAssumption
      <4> QED
        BY <4>1, FS_Subset
    <3>2. Cardinality(S) \in Nat
      BY <3>1, FS_CardinalityType
    <3>3. todo \in [1..Cardinality(S) -> S]
      BY <2>3 DEF Orders
    <3>4. todo \in [1..Cardinality(S) -> Seqs]
      BY <3>3
    <3> QED
      BY <3>2, <3>4
  <2>5. Tail(turn.plan) \in Seq(Lanes)
    BY <2>2, PlanFacts
  <2>6. turn' \in TurnSet /\ turn'.plan = Tail(turn.plan)
    BY <1>c, <2>3, <2>4, <2>5 DEF NoTurn, TurnSet, Lanes
  <2>7. Whole1(turn')
    BY <2>2, <2>6, PlanFacts
  <2> QED
    BY <1>0, <1>a, <2>2, <2>6, <2>7 DEF makerVars, InPass, QuietStep
<1>3. CASE NothingAdmitted
  <2>1. /\ turn' = [NoTurn EXCEPT !.plan = turn.plan] /\ pc' = "try" /\ pc = "admit"
        /\ UNCHANGED <<seqVars, makerVars, workVars>>
    BY <1>3 DEF NothingAdmitted, Admitted
  <2>2. turn' \in TurnSet /\ turn'.plan = turn.plan
    BY <1>0, <2>1, NoTurnType DEF NoTurn
  <2>3. Whole1(turn')
    BY <1>b, <2>2
  <2> QED
    BY <1>0, <1>a, <2>1, <2>2, <2>3 DEF makerVars, InPass, QuietStep
<1>4. CASE \E s \in Seqs : PassOver(s)
  <2>1. PICK s \in Seqs : PassOver(s)
    BY <1>4
  <2>2. /\ turn' = [turn EXCEPT !.todo = IF turn.lane = "short" \/ IsLong(s) THEN Tail(@) ELSE <<>>]
        /\ pc = "admit" /\ turn.todo # <<>> /\ UNCHANGED <<seqVars, makerVars, workVars, pc>>
    BY <2>1 DEF PassOver, Candidate
  <2>3. Tail(turn.todo) \in Seq(Seqs) /\ <<>> \in Seq(Seqs)
    BY <1>0, <2>2
  <2>4. turn' \in TurnSet /\ turn'.plan = turn.plan
    BY <1>0, <2>2, <2>3 DEF TurnSet
  <2>5. Whole1(turn')
    BY <1>b, <2>4
  <2> QED
    BY <1>0, <1>a, <2>2, <2>4, <2>5 DEF makerVars, InPass, QuietStep
<1>5. CASE EnterDecode
  <2>1. pc = "try" /\ turn.plan # <<>> /\ UNCHANGED <<seqVars, makerVars, workVars>>
    BY <1>5 DEF EnterDecode
  <2>2. Tail(turn.plan) \in Seq(Lanes)
    BY <2>1, PlanFacts
  <2>3. CASE running = <<>>
    <3>1. turn' = [turn EXCEPT !.plan = Tail(@)] /\ pc' = pc
      BY <1>5, <2>3 DEF EnterDecode
    <3>2. turn' \in TurnSet /\ turn'.plan = Tail(turn.plan)
      BY <1>0, <2>2, <3>1 DEF TurnSet
    <3>3. Whole1(turn')
      BY <2>1, <3>2, PlanFacts
    <3> QED
      BY <1>0, <1>a, <2>1, <3>1, <3>2, <3>3 DEF makerVars, InPass, QuietStep
  <2>4. CASE running # <<>>
    <3>1. /\ turn' = [NoTurn EXCEPT !.plan = Tail(turn.plan), !.lane = "decode", !.left = Len(running)]
          /\ pc' = "grow"
      BY <1>5, <2>4 DEF EnterDecode
    <3>2. turn' = [plan |-> Tail(turn.plan), lane |-> "decode", todo |-> <<>>, batch |-> <<>>,
                   used |-> 0, left |-> Len(running), keep |-> <<>>]
      BY <3>1 DEF NoTurn
    <3>4. /\ turn'.plan = Tail(turn.plan) /\ turn'.keep = <<>> /\ turn'.left = Len(running)
          /\ turn' \in TurnSet
      BY <1>0, <2>2, <3>2 DEF TurnSet, Lanes
    <3>3. Whole1(turn')
      BY <2>1, <3>4, PlanFacts
    <3> QED
      BY <1>0, <1>a, <2>1, <3>1, <3>4, <3>3, SMTT(30) DEF makerVars, InPass, QuietStep
  <2> QED
    BY <2>3, <2>4
<1>6. CASE DropStopped
  <2>1. /\ pc = "grow" /\ turn.left > 0 /\ turn' = [turn EXCEPT !.left = turn.left - 1]
        /\ UNCHANGED <<seqVars, makerVars, workVars, pc>>
    BY <1>6 DEF DropStopped, Drop
  <2>0. turn.left - 1 \in Nat
    BY <1>0, <2>1, SMTT(30)
  <2>2. turn' \in TurnSet /\ turn'.plan = turn.plan /\ turn'.keep = turn.keep /\ turn'.left = turn.left - 1
    BY <1>0, <2>0, <2>1 DEF TurnSet
  <2>3. Whole1(turn')
    BY <1>b, <2>2
  <2>5. \A j \in DOMAIN turn.keep : turn.keep[j] \in ((turn.left - 1) + 1)..Len(running)
    <3>1. ASSUME NEW l \in Nat, NEW n \in Nat, NEW k \in (l + 1)..n PROVE k \in ((l - 1) + 1)..n
      BY <3>1
    <3> QED
      BY <1>0, <2>1, <3>1
  <2>4. turn'.left <= Len(running) /\ \A j \in DOMAIN turn'.keep : turn'.keep[j] \in (turn'.left + 1)..Len(running)
    BY <1>0, <2>1, <2>2, <2>5
  <2> QED
    BY <1>0, <1>a, <2>1, <2>2, <2>3, <2>4 DEF makerVars, InPass, QuietStep
<1>7. CASE KeepRow
  <2>1. /\ pc = "grow" /\ turn.left > 0
        /\ turn' = [turn EXCEPT !.left = turn.left - 1, !.keep = <<turn.left>> \o @]
        /\ UNCHANGED <<seqVars, makerVars, workVars, pc>>
    BY <1>7 DEF KeepRow, Keep
  <2>2. turn' \in TurnSet /\ turn'.plan = turn.plan /\ turn'.left = turn.left - 1
        /\ \A j \in DOMAIN turn'.keep : turn'.keep[j] \in (turn'.left + 1)..Len(running)
    BY <1>0, <2>1, KeepFacts
  <2>3. Whole1(turn')
    BY <1>b, <2>2
  <2>4. turn'.left <= Len(running)
    BY <1>0, <2>1, <2>2
  <2> QED
    BY <1>0, <1>a, <2>1, <2>2, <2>3, <2>4 DEF makerVars, InPass, QuietStep
<1>8. CASE NoDecode
  <2>1. /\ turn' = [NoTurn EXCEPT !.plan = turn.plan] /\ pc' = "try" /\ pc = "grow" /\ toEvict' = LeftOut
        /\ UNCHANGED <<seqVars, running, chunk, afterChunk, rounds, shorts, workVars>>
    BY <1>8 DEF NoDecode
  <2>2. turn' \in TurnSet /\ turn'.plan = turn.plan
    BY <1>0, <2>1, NoTurnType DEF NoTurn
  <2>3. Whole1(turn')
    BY <1>b, <2>2
  <2>4. LeftOut \subseteq Slots
    BY <1>0 DEF LeftOut
  <2> QED
    BY <1>0, <1>a, <2>1, <2>2, <2>3, <2>4 DEF InPass, QuietStep
<1> QED
  BY <1>1, <1>2, <1>3, <1>4, <1>5, <1>6, <1>7, <1>8 DEF Quiet

---------------------------------------------------------------------------
(* The steps of a pass that ask for blocks. *)

LEMMA PageFacts ==
    ASSUME DecodeBatchAssumption, Frame, Pages
    PROVE  PageStep
<1>0. /\ Shapes /\ SeqShape /\ turn \in TurnSet /\ turn.plan \in Seq(Lanes) /\ turn.todo \in Seq(Seqs)
      /\ turn.left \in Nat /\ turn.keep \in Seq(Nat) /\ turn.batch \in Seq(Seqs) /\ turn.used \in Int
      /\ running \in Seq(Slots) /\ Len(running) \in Nat
      /\ pc = "grow" => /\ turn.left <= Len(running)
                        /\ \A j \in DOMAIN turn.keep : turn.keep[j] \in (turn.left + 1)..Len(running)
  BY SMTT(30) DEF Frame, Shapes, TurnShape, TurnSet, MakerShape, LaneShape
<1> DEFINE Fewer(t) == \A l : (\E i \in DOMAIN t.plan : t.plan[i] = l) => Plans(l)
<1>a. Fewer(turn') => \A l : Plans(l)' => Plans(l)
  BY DEF Plans
<1>b. Fewer(turn)
  BY DEF Plans
<1>1. CASE \E s \in Seqs : Admit(s)
  <2>1. PICK s \in Seqs : Admit(s)
    BY <1>1
  <2>2. /\ Allocate(s, KvLimit(s), Prealloced(KvLimit(s)))
        /\ status' = [status EXCEPT ![s] = "READY"]
        /\ turn' = [turn EXCEPT !.todo = IF IsLong(s) THEN <<>> ELSE Tail(@),
                                !.batch = Append(@, s),
                                !.used = @ + Cost(s)]
        /\ UNCHANGED <<len, kind, arrival, makerVars, workVars, pc>> /\ pc = "admit" /\ turn.todo # <<>>
    BY <2>1 DEF Admit, Candidate
  <2>3. /\ held' \in [Seqs -> Nat] /\ hist' \in [Seqs -> Nat] /\ limit' \in [Seqs -> Nat]
        /\ \A t \in Seqs : t = s \/ status[t] \notin {"STOPPED", "WAITING"} => hist'[t] = hist[t]
    BY <1>0, <2>2, AskFacts, FrameTypes
  <2>4. Append(turn.batch, s) \in Seq(Seqs) /\ Tail(turn.todo) \in Seq(Seqs) /\ <<>> \in Seq(Seqs)
        /\ turn.used + Cost(s) \in Int
    <3>1. Cost(s) \in Int
      BY <1>0, FrameTypes
    <3>2. turn.used + Cost(s) \in Int
      BY <1>0, <3>1
    <3>3. Append(turn.batch, s) \in Seq(Seqs)
      BY <1>0, AppendOf
    <3>4. Tail(turn.todo) \in Seq(Seqs)
      BY <1>0, <2>2, TailOf
    <3> QED
      BY <3>2, <3>3, <3>4
  <2>5. turn' \in TurnSet /\ turn'.plan = turn.plan
    BY <1>0, <2>2, <2>4 DEF TurnSet
  <2>6. SeqShape'
    BY <1>0, <2>2, <2>3 DEF SeqShape, Statuses
  <2>7. Running' \subseteq Running
    BY <1>0, <2>2 DEF Running, WithStatus, SeqShape
  <2>8. \A t \in Seqs : /\ status[t] # "none" => status'[t] # "none"
                        /\ status[t] = "READY" => status'[t] = "READY"
    BY <1>0, <2>2 DEF SeqShape
  <2>9. Fewer(turn')
    BY <1>b, <2>5
  <2> QED
    BY <1>a, <2>2, <2>3, <2>5, <2>6, <2>7, <2>8, <2>9 DEF PageStep, InPass
<1>2. CASE \E s \in Seqs : NoRoomPrefill(s)
  <2>1. PICK s \in Seqs : NoRoomPrefill(s)
    BY <1>2
  <2>2. /\ Refuse(s, KvLimit(s), Prealloced(KvLimit(s)), 0)
        /\ turn' = [turn EXCEPT !.todo = <<>>]
        /\ UNCHANGED <<len, kind, arrival, status, makerVars, workVars, pc>> /\ pc = "admit"
    BY <2>1 DEF NoRoomPrefill, Candidate
  <2>4. <<>> \in Seq(Seqs)
    OBVIOUS
  <2>3. /\ held' \in [Seqs -> Nat] /\ hist' \in [Seqs -> Nat] /\ limit' \in [Seqs -> Nat]
        /\ \A t \in Seqs : t = s \/ status[t] \notin {"STOPPED", "WAITING"} => hist'[t] = hist[t]
    BY <1>0, <2>2, AskFacts, FrameTypes
  <2>5. turn' \in TurnSet /\ turn'.plan = turn.plan
    BY <1>0, <2>2, <2>4 DEF TurnSet
  <2>6. SeqShape'
    BY <1>0, <2>2, <2>3 DEF SeqShape
  <2>7. Running' \subseteq Running
    BY <2>2 DEF Running, WithStatus
  <2>9. Fewer(turn')
    BY <1>b, <2>5
  <2> QED
    BY <1>a, <2>2, <2>3, <2>5, <2>6, <2>7, <2>9 DEF PageStep, InPass
<1>3. CASE NoRoomChunk
  <2> DEFINE s == chunk.seq
  <2>1. s \in Seqs
    BY <1>3, LaneFacts DEF NoRoomChunk
  <2>2. /\ Refuse(s, ChunkLimit(s), Prealloced(ChunkLimit(s)), limit[s])
        /\ turn' = [turn EXCEPT !.plan = Tail(@)] /\ pc = "try" /\ turn.plan # <<>>
        /\ UNCHANGED <<len, kind, arrival, status, makerVars, workVars, pc>>
    BY <1>3 DEF NoRoomChunk, TryChunk
  <2>3. /\ held' \in [Seqs -> Nat] /\ hist' \in [Seqs -> Nat] /\ limit' \in [Seqs -> Nat]
        /\ \A t \in Seqs : t = s \/ status[t] \notin {"STOPPED", "WAITING"} => hist'[t] = hist[t]
    BY <1>0, <2>1, <2>2, AskFacts, FrameTypes
  <2>4. Tail(turn.plan) \in Seq(Lanes)
    BY <2>2, PlanFacts
  <2>5. turn' \in TurnSet /\ turn'.plan = Tail(turn.plan)
    BY <1>0, <2>2, <2>4 DEF TurnSet
  <2>6. SeqShape'
    BY <1>0, <2>2, <2>3 DEF SeqShape
  <2>7. Running' \subseteq Running
    BY <2>2 DEF Running, WithStatus
  <2>9. Fewer(turn')
    BY <2>2, <2>5, PlanFacts
  <2> QED
    BY <1>a, <2>2, <2>3, <2>5, <2>6, <2>7, <2>9 DEF PageStep, InPass
<1>4. CASE GrowRow
  <2> DEFINE s == running[turn.left]
  <2>1. s \in Seqs /\ status[s] = "RUNNING" /\ pc = "grow" /\ turn.left > 0
        /\ UNCHANGED <<len, kind, arrival, makerVars, workVars, pc>>
    BY <1>4 DEF GrowRow, Running, WithStatus
  <2>2. limit[s] \in Nat /\ Prealloc \in Nat
    BY <1>0, <2>1, FrameTypes
  <2>3. CASE Allocate(s, limit[s], Prealloc) /\ Keep(turn.left) /\ UNCHANGED status
    <3>1. /\ held' \in [Seqs -> Nat] /\ hist' \in [Seqs -> Nat] /\ limit' \in [Seqs -> Nat]
          /\ \A t \in Seqs : t = s \/ status[t] \notin {"STOPPED", "WAITING"} => hist'[t] = hist[t]
      BY <1>0, <2>1, <2>2, <2>3, AskFacts
    <3>2. turn' = [turn EXCEPT !.left = turn.left - 1, !.keep = <<turn.left>> \o @]
      BY <2>3 DEF Keep
    <3>3. turn' \in TurnSet /\ turn'.plan = turn.plan /\ turn'.left = turn.left - 1
          /\ \A j \in DOMAIN turn'.keep : turn'.keep[j] \in (turn'.left + 1)..Len(running)
      BY <2>1, <3>2, KeepFacts
    <3>4. turn'.left <= Len(running)
      BY <1>0, <2>1, <3>3
    <3>5. SeqShape'
      BY <1>0, <2>1, <2>3, <3>1 DEF SeqShape
    <3>6. Running' \subseteq Running
      BY <2>3 DEF Running, WithStatus
    <3>7. Fewer(turn')
      BY <1>b, <3>3
    <3> QED
      BY <1>a, <2>1, <2>3, <3>1, <3>3, <3>4, <3>5, <3>6, <3>7 DEF PageStep, InPass
  <2>4. CASE Refuse(s, limit[s], Prealloc, limit[s]) /\ Drop(turn.left) /\ status' = [status EXCEPT ![s] = "WAITING"]
    <3>1. /\ held' \in [Seqs -> Nat] /\ hist' \in [Seqs -> Nat] /\ limit' \in [Seqs -> Nat]
          /\ \A t \in Seqs : t = s \/ status[t] \notin {"STOPPED", "WAITING"} => hist'[t] = hist[t]
      BY <1>0, <2>1, <2>2, <2>4, AskFacts
    <3>2. turn' = [turn EXCEPT !.left = turn.left - 1]
      BY <2>4 DEF Drop
    <3>3. turn.left - 1 \in Nat
      BY <1>0, <2>1, SMTT(30)
    <3>4. turn' \in TurnSet /\ turn'.plan = turn.plan /\ turn'.keep = turn.keep /\ turn'.left = turn.left - 1
      BY <1>0, <3>2, <3>3 DEF TurnSet
    <3>5. turn'.left <= Len(running) /\ \A j \in DOMAIN turn'.keep : turn'.keep[j] \in (turn'.left + 1)..Len(running)
      <4>1. ASSUME NEW l \in Nat, NEW n \in Nat, NEW k \in (l + 1)..n PROVE k \in ((l - 1) + 1)..n
        BY <4>1
      <4>2. \A j \in DOMAIN turn.keep : turn.keep[j] \in ((turn.left - 1) + 1)..Len(running)
        BY <1>0, <2>1, <4>1
      <4> QED
        BY <1>0, <2>1, <3>4, <4>2
    <3>6. SeqShape'
      BY <1>0, <2>1, <2>4, <3>1 DEF SeqShape, Statuses
    <3>7. Running' \subseteq Running
      BY <1>0, <2>1, <2>4 DEF Running, WithStatus, SeqShape
    <3>8. Fewer(turn')
      BY <1>b, <3>4
    <3>9. \A t \in Seqs : /\ status[t] # "none" => status'[t] # "none"
                          /\ status[t] = "READY" => status'[t] = "READY"
      BY <1>0, <2>1, <2>4 DEF SeqShape
    <3> QED
      BY <1>a, <2>1, <3>1, <3>4, <3>5, <3>6, <3>7, <3>8, <3>9 DEF PageStep, InPass
  <2> QED
    BY <1>4, <2>3, <2>4 DEF GrowRow
<1> QED
  BY <1>1, <1>2, <1>3, <1>4 DEF Pages

---------------------------------------------------------------------------
(* The start of a pass. *)

LEMMA PlanTypes ==
    /\ ChunkPlan \in Seq(Lanes) /\ PrefillPlan \in Seq(Lanes) /\ <<"decode">> \in Seq(Lanes)
    /\ \E i \in DOMAIN ChunkPlan : ChunkPlan[i] = "decode"
    /\ \A i \in DOMAIN ChunkPlan : ChunkPlan[i] # "long"
    /\ \E i \in DOMAIN PrefillPlan : PrefillPlan[i] = "decode"
    /\ \A i \in DOMAIN PrefillPlan : PrefillPlan[i] # "chunk"
<1>1. \/ ChunkPlan = <<"decode", "chunk">> \/ ChunkPlan = <<"decode", "short", "chunk">>
      \/ ChunkPlan = <<"short", "chunk", "decode">> \/ ChunkPlan = <<"chunk", "decode">>
  BY DEF ChunkPlan
<1>2. \/ PrefillPlan = <<"all", "decode">> \/ PrefillPlan = <<"long", "short", "decode">>
      \/ PrefillPlan = <<"short", "long", "decode">>
  BY DEF PrefillPlan
<1> DEFINE Fine(q, l) == /\ q \in Seq(Lanes) /\ (\E i \in DOMAIN q : q[i] = "decode")
                         /\ \A i \in DOMAIN q : q[i] # l
<1>3. Fine(ChunkPlan, "long")
  <2>1. Fine(<<"decode", "chunk">>, "long")
    BY DEF Lanes
  <2>2. Fine(<<"decode", "short", "chunk">>, "long")
    BY DEF Lanes
  <2>3. Fine(<<"short", "chunk", "decode">>, "long")
    BY DEF Lanes
  <2>4. Fine(<<"chunk", "decode">>, "long")
    BY DEF Lanes
  <2> HIDE DEF Fine
  <2> QED
    BY <1>1, <2>1, <2>2, <2>3, <2>4
<1>4. Fine(PrefillPlan, "chunk")
  <2>1. Fine(<<"all", "decode">>, "chunk")
    BY DEF Lanes
  <2>2. Fine(<<"long", "short", "decode">>, "chunk")
    BY DEF Lanes
  <2>3. Fine(<<"short", "long", "decode">>, "chunk")
    BY DEF Lanes
  <2> HIDE DEF Fine
  <2> QED
    BY <1>2, <2>1, <2>2, <2>3
<1>5. <<"decode">> \in Seq(Lanes)
  BY DEF Lanes
<1> QED
  BY <1>3, <1>4, <1>5

LEMMA EnabledChunk ==
    ASSUME DecodeBatchAssumption, NEW st \in [Seqs -> Statuses]
    PROVE  /\ CheckEnable(st) = chunk \/ (CheckEnable(st) = NoChunk /\ ~(chunk.seq \in Seqs /\ st[chunk.seq] = "RUNNING"))
           /\ SetRunnable(st) = chunk
              \/ (SetRunnable(st) = NoChunk /\ ~(chunk.seq \in Seqs /\ st[chunk.seq] \in {"READY", "WAITING", "RUNNING"}))
           /\ NoChunk \in [seq : Slots, step : Int] /\ NoChunk.seq = Gone /\ Gone \notin Seqs
<1>1. CheckEnable(st) = chunk \/ (CheckEnable(st) = NoChunk /\ ~(chunk.seq \in Seqs /\ st[chunk.seq] = "RUNNING"))
  BY DEF CheckEnable
<1>2. \/ SetRunnable(st) = chunk
      \/ SetRunnable(st) = NoChunk /\ ~(chunk.seq \in Seqs /\ st[chunk.seq] \in {"READY", "WAITING", "RUNNING"})
  BY <1>1 DEF SetRunnable
<1>3. NoChunk \in [seq : Slots, step : Int] /\ NoChunk.seq = Gone /\ Gone \notin Seqs
  BY DEF NoChunk, Slots, DecodeBatchAssumption
<1> QED
  BY <1>1, <1>2, <1>3

LEMMA BeginFacts ==
    ASSUME DecodeBatchAssumption, Frame, BeginPass
    PROVE  BeginStep
<1>0. status \in [Seqs -> Statuses] /\ rounds \in Int
  BY DEF Frame, Shapes, SeqShape, MakerShape
<1>1. /\ UNCHANGED <<seqVars, running, toEvict, afterChunk, shorts, workVars>>
      /\ pc \in {"send", "prefetch"} /\ pc' = "try" /\ chunk' = CheckEnable(status)
  BY DEF BeginPass
<1>2. rounds' \in Int
  BY <1>0 DEF BeginPass
<1>3. chunk' = chunk \/ (chunk' = NoChunk /\ chunk.seq \notin Running)
  BY <1>0, <1>1, EnabledChunk DEF Running, WithStatus
<1>4. PICK plan : /\ turn' = [NoTurn EXCEPT !.plan = plan]
                  /\ \/ plan = ChunkPlan /\ chunk'.seq \in Seqs
                     \/ plan \in {PrefillPlan, <<"decode">>} /\ chunk'.seq \notin Seqs
  <2>1. turn' = [NoTurn EXCEPT !.plan = IF chunk'.seq \in Seqs THEN ChunkPlan
                                        ELSE IF DoPrefill THEN PrefillPlan
                                        ELSE <<"decode">>]
    BY DEF BeginPass
  <2>2. CASE chunk'.seq \in Seqs
    <3>1. turn' = [NoTurn EXCEPT !.plan = ChunkPlan]
      BY <2>1, <2>2
    <3> QED
      BY <2>2, <3>1, Zenon
  <2>3. CASE chunk'.seq \notin Seqs
    BY <2>1, <2>3
  <2> QED
    BY <2>2, <2>3
<1>5. /\ plan \in Seq(Lanes) /\ (\E i \in DOMAIN plan : plan[i] = "decode")
      /\ (\E i \in DOMAIN plan : plan[i] = "chunk") => chunk'.seq \in Seqs
      /\ (\E i \in DOMAIN plan : plan[i] = "long") => chunk'.seq \notin Seqs
  <2>1. CASE plan = ChunkPlan /\ chunk'.seq \in Seqs
    BY <2>1, PlanTypes
  <2>2. CASE plan = PrefillPlan /\ chunk'.seq \notin Seqs
    BY <2>2, PlanTypes
  <2>3. CASE plan = <<"decode">> /\ chunk'.seq \notin Seqs
    <3>1. plan \in Seq(Lanes) /\ DOMAIN plan = {1} /\ plan[1] = "decode"
      BY <2>3, PlanTypes
    <3> QED
      BY <2>3, <3>1
  <2> QED
    BY <1>4, <2>1, <2>2, <2>3
<1>6. turn'.plan = plan /\ turn'.lane = "none"
  BY <1>4 DEF NoTurn
<1>7. turn' \in TurnSet
  BY <1>4, <1>5, NoTurnType
<1> QED
  BY <1>1, <1>2, <1>3, <1>5, <1>6, <1>7 DEF BeginStep

---------------------------------------------------------------------------
(* Client requests. *)

LEMMA MildFacts ==
    ASSUME DecodeBatchAssumption, Frame,
           NEW s \in Seqs, (\E k \in Kinds, n \in PromptLens : AddMessage(s, k, n)) \/ StopSession(s)
    PROVE  MildStep
<1>0. SeqShape /\ MakerShape /\ Shapes
  BY DEF Frame, Shapes
<1>1. CASE \E k \in Kinds, n \in PromptLens : AddMessage(s, k, n)
  <2>1. PICK k \in Kinds, n \in PromptLens : AddMessage(s, k, n)
    BY <1>1
  <2>2. /\ status[s] = "none" /\ pc \in Await
        /\ kind' = [kind EXCEPT ![s] = k] /\ len' = [len EXCEPT ![s] = n]
        /\ status' = [status EXCEPT ![s] = "WAITING"] /\ arrival' = Append(arrival, s)
        /\ UNCHANGED <<hist, held, limit, makerVars, workVars, pc, turn>>
    BY <2>1 DEF AddMessage
  <2>3. n \in Nat /\ k \in {"generate", "logits", "score"}
    BY <1>0, FrameTypes DEF DecodeBatchAssumption
  <2>4. arrival' \in Seq(Seqs)
    BY <1>0, <2>2, AppendOf DEF SeqShape
  <2>5. SeqShape'
    BY <1>0, <2>2, <2>3, <2>4 DEF SeqShape, Statuses
  <2>6. Running' \subseteq Running /\ Active' \subseteq Active
    BY <1>0, <2>2 DEF SeqShape, Active, Running, WithStatus
  <2>7. \A t \in Seqs : status[t] # "none" => status'[t] # "none" /\ kind'[t] = kind[t] /\ len'[t] = len[t]
    BY <1>0, <2>2 DEF SeqShape
  <2>8. \A t \in Seqs : status'[t] = "READY" => status[t] = "READY"
    BY <1>0, <2>2 DEF SeqShape
  <2>9. \A t \in Seqs : kind'[t] = kind[t] \/ kind'[t] \in Kinds
    BY <1>0, <2>1, <2>2 DEF SeqShape
  <2> QED
    BY <1>0, <2>2, <2>5, <2>6, <2>7, <2>8, <2>9 DEF MildStep, makerVars, MakerShape
<1>2. CASE StopSession(s)
  <2>1. /\ status[s] \notin {"none", "STOPPED"} /\ pc \in Await
        /\ status' = [status EXCEPT ![s] = "STOPPED"] /\ chunk' = SetRunnable(status')
        /\ UNCHANGED <<len, hist, held, limit, kind, arrival, running, toEvict, afterChunk,
                       rounds, shorts, workVars, pc, turn>>
    BY <1>2 DEF StopSession
  <2>2. status' \in [Seqs -> Statuses]
    BY <1>0, <2>1 DEF SeqShape, Statuses
  <2>3. SeqShape'
    BY <1>0, <2>1, <2>2 DEF SeqShape
  <2>4. Running' \subseteq Running /\ Active' \subseteq Active
    BY <1>0, <2>1 DEF SeqShape, Active, Running, WithStatus
  <2>5. chunk' = chunk \/ (chunk' = NoChunk /\ chunk.seq \notin Active')
    BY <2>1, <2>2, EnabledChunk DEF Active, Running, WithStatus
  <2>6. chunk' \in [seq : Slots, step : Int]
    BY <1>0, <2>2, <2>5, EnabledChunk DEF MakerShape
  <2>7. \A t \in Seqs : status[t] # "none" => status'[t] # "none"
    BY <1>0, <2>1 DEF SeqShape
  <2>8. \A t \in Seqs : status'[t] = "READY" => status[t] = "READY"
    BY <1>0, <2>1 DEF SeqShape
  <2> QED
    BY <2>1, <2>3, <2>4, <2>5, <2>6, <2>7, <2>8 DEF MildStep
<1> QED
  BY <1>1, <1>2

LEMMA EndFacts ==
    ASSUME DecodeBatchAssumption, Frame, NEW s \in Seqs, EndSession(s)
    PROVE  EndStep(s)
<1>0. SeqShape /\ MakerShape /\ Shapes
  BY DEF Frame, Shapes
<1>1. /\ UNCHANGED <<afterChunk, rounds, shorts, built, setup, pc, turn>> /\ pc \in Await
      /\ status' = [status EXCEPT ![s] = "none"] /\ kind' = [kind EXCEPT ![s] = "generate"]
      /\ len' = [len EXCEPT ![s] = 0] /\ hist' = [hist EXCEPT ![s] = 0]
      /\ held' = [held EXCEPT ![s] = 0] /\ limit' = [limit EXCEPT ![s] = 0]
  BY DEF EndSession
<1>2. arrival' = Entries(arrival, {i \in DOMAIN arrival : arrival[i] # s})
  BY DEF EndSession
<1>3. /\ running' = [i \in DOMAIN running |-> Ghost(s, running[i])]
      /\ toEvict' = {Ghost(s, t) : t \in toEvict}
      /\ chunk' = [SetRunnable(status') EXCEPT !.seq = Ghost(s, @)]
      /\ batch' = GhostRows(s, batch)
  BY DEF EndSession, Ghost, GhostRows
<1>4. queue' = [i \in DOMAIN queue |-> [queue[i] EXCEPT !.rows = GhostRows(s, queue[i].rows)]]
  BY DEF EndSession, Ghost, GhostRows
<1>5. arrival' \in Seq(Seqs)
  <2>1. arrival \in Seq(Seqs) /\ {i \in DOMAIN arrival : arrival[i] # s} \in SUBSET DOMAIN arrival
    BY <1>0 DEF SeqShape
  <2> QED
    BY <1>2, <2>1, EntriesOf
<1>6. SeqShape'
  BY <1>0, <1>1, <1>5 DEF SeqShape, Statuses
<1>7. \A t \in Seqs : /\ status'[t] = IF t = s THEN "none" ELSE status[t]
                      /\ kind'[t] = IF t = s THEN "generate" ELSE kind[t]
                      /\ t # s => len'[t] = len[t] /\ hist'[t] = hist[t]
  BY <1>0, <1>1 DEF SeqShape
<1>8. \A t \in Slots : Ghost(s, t) \in Slots
  BY DEF Ghost, Slots
<1>9. running' \in Seq(Slots) /\ Len(running') = Len(running)
      /\ \A i \in DOMAIN running : running'[i] = Ghost(s, running[i])
  <2>1. running \in Seq(Slots) /\ Len(running) \in Nat /\ DOMAIN running = 1..Len(running)
    BY <1>0 DEF MakerShape
  <2>2. \A i \in 1..Len(running) : running[i] \in Slots
    BY <2>1
  <2>3. running' \in [1..Len(running) -> Slots]
    BY <1>3, <1>8, <2>1, <2>2
  <2> QED
    BY <1>3, <2>1, <2>3
<1>10. toEvict' \subseteq Slots
  BY <1>0, <1>3, <1>8 DEF MakerShape
<1>11. \/ SetRunnable(status') = chunk
       \/ SetRunnable(status') = NoChunk /\ (chunk.seq \notin Active' \/ chunk.seq = s)
  <2>1. status' \in [Seqs -> Statuses]
    BY <1>6 DEF SeqShape
  <2> QED
    BY <2>1, EnabledChunk DEF Active, Running, WithStatus
<1>12. \/ chunk' = [chunk EXCEPT !.seq = Ghost(s, chunk.seq)]
       \/ chunk' = NoChunk /\ (chunk.seq \notin Active' \/ chunk.seq = s)
  <2>1. CASE SetRunnable(status') = chunk
    BY <1>3, <2>1
  <2>2. CASE SetRunnable(status') = NoChunk /\ (chunk.seq \notin Active' \/ chunk.seq = s)
    <3>1. Ghost(s, Gone) = Gone
      BY DEF Ghost
    <3>2. [NoChunk EXCEPT !.seq = Ghost(s, NoChunk.seq)] = NoChunk
      BY <3>1 DEF NoChunk
    <3> QED
      BY <1>3, <2>2, <3>2
  <2> QED
    BY <1>11, <2>1, <2>2
<1>13. chunk' \in [seq : Slots, step : Int] /\ (chunk'.seq \in Seqs => chunk'.step \in Nat)
  <2>1. chunk \in [seq : Slots, step : Int] /\ (chunk.seq \in Seqs => chunk.step \in Nat)
    BY <1>0 DEF MakerShape
  <2>2. NoChunk \in [seq : Slots, step : Int] /\ NoChunk.seq = Gone /\ Gone \notin Seqs
    BY DEF NoChunk, Slots, DecodeBatchAssumption
  <2>3. Ghost(s, chunk.seq) \in Slots /\ (Ghost(s, chunk.seq) \in Seqs => chunk.seq \in Seqs)
    BY <1>8, <2>1 DEF Ghost, DecodeBatchAssumption
  <2> QED
    BY <1>12, <2>1, <2>2, <2>3
<1> QED
  BY <1>1, <1>3, <1>4, <1>6, <1>7, <1>9, <1>10, <1>12, <1>13 DEF EndStep

LEMMA GhostRowsFacts ==
    ASSUME NEW s \in Seqs, NEW rows \in Seq(RowSet)
    PROVE  /\ GhostRows(s, rows) \in Seq(RowSet) /\ Len(GhostRows(s, rows)) = Len(rows)
           /\ DOMAIN GhostRows(s, rows) = DOMAIN rows
           /\ \A i \in DOMAIN rows : /\ GhostRows(s, rows)[i].seq = Ghost(s, rows[i].seq)
                                     /\ GhostRows(s, rows)[i].gen = rows[i].gen
                                     /\ rows[i].seq # s => GhostRows(s, rows)[i] = rows[i]
<1> DEFINE g == GhostRows(s, rows)
<1>1. DOMAIN rows = 1..Len(rows) /\ Len(rows) \in Nat
  OBVIOUS
<1>2. g = [i \in DOMAIN rows |-> IF rows[i].seq = s
             THEN [rows[i] EXCEPT !.seq = Gone, !.len = 0] ELSE rows[i]]
  BY DEF GhostRows
<1> HIDE DEF g
<1>3. ASSUME NEW i \in DOMAIN rows
      PROVE  g[i] \in RowSet /\ g[i].seq = Ghost(s, rows[i].seq) /\ g[i].gen = rows[i].gen
             /\ (rows[i].seq # s => g[i] = rows[i])
  <2>1. rows[i] \in RowSet
    OBVIOUS
  <2>2. CASE rows[i].seq = s
    <3>1. g[i] = [rows[i] EXCEPT !.seq = Gone, !.len = 0]
      BY <1>2, <2>2
    <3>2. g[i] = [seq |-> Gone, len |-> 0, gen |-> rows[i].gen] /\ rows[i].gen \in BOOLEAN
      BY <2>1, <3>1 DEF RowSet
    <3>3. g[i] \in RowSet
      BY <3>2 DEF RowSet, Slots
    <3> QED
      BY <2>2, <3>2, <3>3 DEF Ghost
  <2>3. CASE rows[i].seq # s
    BY <1>2, <2>1, <2>3 DEF Ghost
  <2> QED
    BY <2>2, <2>3
<1>4. g \in [1..Len(rows) -> RowSet]
  BY <1>1, <1>2, <1>3
<1>5. g \in Seq(RowSet) /\ Len(g) = Len(rows) /\ DOMAIN g = DOMAIN rows
  BY <1>1, <1>4
<1> QED
  BY <1>3, <1>5 DEF g

LEMMA GhostBatchFacts ==
    ASSUME NEW s \in Seqs, NEW rows \in Seq(CarriedSet)
    PROVE  /\ GhostRows(s, rows) \in Seq(CarriedSet) /\ Len(GhostRows(s, rows)) = Len(rows)
           /\ DOMAIN GhostRows(s, rows) = DOMAIN rows
           /\ \A i \in DOMAIN rows : /\ GhostRows(s, rows)[i].seq = Ghost(s, rows[i].seq)
                                     /\ rows[i].seq # s => GhostRows(s, rows)[i] = rows[i]
                                     /\ rows[i].seq = s => GhostRows(s, rows)[i] = [seq |-> Gone, len |-> 0]
<1> DEFINE g == GhostRows(s, rows)
<1>1. DOMAIN rows = 1..Len(rows) /\ Len(rows) \in Nat
  OBVIOUS
<1>2. g = [i \in DOMAIN rows |-> IF rows[i].seq = s
             THEN [rows[i] EXCEPT !.seq = Gone, !.len = 0] ELSE rows[i]]
  BY DEF GhostRows
<1> HIDE DEF g
<1>3. ASSUME NEW i \in DOMAIN rows
      PROVE  g[i] \in CarriedSet /\ g[i].seq = Ghost(s, rows[i].seq)
             /\ (rows[i].seq # s => g[i] = rows[i])
             /\ (rows[i].seq = s => g[i] = [seq |-> Gone, len |-> 0])
  <2>1. rows[i] \in CarriedSet
    OBVIOUS
  <2>2. CASE rows[i].seq = s
    <3>1. g[i] = [rows[i] EXCEPT !.seq = Gone, !.len = 0]
      BY <1>2, <2>2
    <3>2. g[i] = [seq |-> Gone, len |-> 0]
      BY <2>1, <3>1 DEF CarriedSet
    <3> QED
      BY <2>2, <3>2 DEF CarriedSet, Slots, Ghost
  <2>3. CASE rows[i].seq # s
    BY <1>2, <2>1, <2>3 DEF Ghost
  <2> QED
    BY <2>2, <2>3
<1>4. g \in [1..Len(rows) -> CarriedSet]
  BY <1>1, <1>2, <1>3
<1>5. g \in Seq(CarriedSet) /\ Len(g) = Len(rows) /\ DOMAIN g = DOMAIN rows
  BY <1>1, <1>4
<1> QED
  BY <1>3, <1>5 DEF g

LEMMA EndQueue ==
    ASSUME Frame, NEW s \in Seqs, EndStep(s)
    PROVE  /\ queue' \in Seq(ForwardSet) /\ Len(queue') = Len(queue) /\ DOMAIN queue' = DOMAIN queue
           /\ \A q \in DOMAIN queue :
                /\ queue'[q].lane = queue[q].lane /\ queue'[q].reindex = queue[q].reindex
                /\ queue'[q].keep = queue[q].keep /\ queue'[q].scoring = queue[q].scoring
                /\ Len(queue'[q].rows) = Len(queue[q].rows)
                /\ DOMAIN queue'[q].rows = DOMAIN queue[q].rows
                /\ \A i \in DOMAIN queue[q].rows :
                     /\ queue'[q].rows[i].seq = Ghost(s, queue[q].rows[i].seq)
                     /\ queue'[q].rows[i].gen = queue[q].rows[i].gen
                     /\ queue[q].rows[i].seq # s => queue'[q].rows[i] = queue[q].rows[i]
           /\ queue = <<>> <=> queue' = <<>>
<1>1. Shapes /\ queue \in Seq(ForwardSet) /\ Len(queue) \in Nat /\ DOMAIN queue = 1..Len(queue)
  BY DEF Frame, Shapes, WorkShape
<1>2. queue' = [i \in DOMAIN queue |-> [queue[i] EXCEPT !.rows = GhostRows(s, queue[i].rows)]]
  BY DEF EndStep
<1>3. ASSUME NEW q \in DOMAIN queue
      PROVE  /\ queue'[q] \in ForwardSet
             /\ queue'[q].lane = queue[q].lane /\ queue'[q].reindex = queue[q].reindex
             /\ queue'[q].keep = queue[q].keep /\ queue'[q].scoring = queue[q].scoring
             /\ queue'[q].rows = GhostRows(s, queue[q].rows) /\ queue[q].rows \in Seq(RowSet)
  <2>1. queue[q] \in ForwardSet /\ queue[q].rows \in Seq(RowSet)
    BY <1>1, RowsTyped
  <2>2. GhostRows(s, queue[q].rows) \in Seq(RowSet)
    BY <2>1, GhostRowsFacts
  <2>3. queue'[q] = [queue[q] EXCEPT !.rows = GhostRows(s, queue[q].rows)]
    BY <1>2
  <2> QED
    BY <2>1, <2>2, <2>3 DEF ForwardSet
<1>4. queue' \in [1..Len(queue) -> ForwardSet]
  BY <1>1, <1>2, <1>3
<1>5. queue' \in Seq(ForwardSet) /\ Len(queue') = Len(queue) /\ DOMAIN queue' = DOMAIN queue
  BY <1>1, <1>4
<1>6. queue = <<>> <=> queue' = <<>>
  BY <1>1, <1>5
<1>7. ASSUME NEW q \in DOMAIN queue
      PROVE  /\ Len(queue'[q].rows) = Len(queue[q].rows)
             /\ DOMAIN queue'[q].rows = DOMAIN queue[q].rows
             /\ \A i \in DOMAIN queue[q].rows :
                  /\ queue'[q].rows[i].seq = Ghost(s, queue[q].rows[i].seq)
                  /\ queue'[q].rows[i].gen = queue[q].rows[i].gen
                  /\ queue[q].rows[i].seq # s => queue'[q].rows[i] = queue[q].rows[i]
  <2>1. queue'[q].rows = GhostRows(s, queue[q].rows) /\ queue[q].rows \in Seq(RowSet)
    BY <1>3
  <2> QED
    BY <2>1, GhostRowsFacts
<1> QED
  BY <1>3, <1>5, <1>6, <1>7

---------------------------------------------------------------------------
(* The engine loop. *)

\* Who joins the list: the rows that generate, each once and in order.
LEMMA JoiningFacts ==
    ASSUME Shapes, queue # <<>>
    PROVE  /\ Head1 \in ForwardSet /\ 1 \in DOMAIN queue
           /\ Joining \in Seq(Slots)
           /\ \A j \in DOMAIN Joining : \E i \in RowsOf(Head1) : Head1.rows[i].gen /\ SeqAt(i) = Joining[j]
           /\ \A i \in RowsOf(Head1) : Head1.rows[i].gen => \E j \in DOMAIN Joining : Joining[j] = SeqAt(i)
           /\ LET P == {i \in RowsOf(Head1) : Head1.rows[i].gen}
              IN /\ P \in SUBSET (1..Len(Head1.rows)) /\ Len(Head1.rows) \in Nat
                 /\ DOMAIN Joining = DOMAIN InOrder(P)
                 /\ \A j \in DOMAIN Joining : Joining[j] = SeqAt(InOrder(P)[j])
<1> DEFINE P == {i \in RowsOf(Head1) : Head1.rows[i].gen}
           rows == Head1.rows
           e == Entries(rows, P)
<1>1. queue \in Seq(ForwardSet) /\ 1 \in DOMAIN queue
  BY DEF Shapes, WorkShape
<1>2. Head1 \in ForwardSet /\ rows \in Seq(RowSet)
  BY <1>1, RowsTyped DEF Head1
<1>3. P \in SUBSET DOMAIN rows /\ DOMAIN rows = 1..Len(rows) /\ Len(rows) \in Nat
  BY <1>2 DEF RowsOf
<1>4. \A i \in DOMAIN rows : rows[i].seq \in Slots /\ rows[i].seq = SeqAt(i)
  <2>1. \A i \in RowsOf(queue[1]) : queue[1].rows[i].seq \in Slots
    BY <1>1, RowsTyped
  <2> QED
    BY <2>1 DEF SeqAt, RowsOf, Head1
<1>5. Joining = [i \in DOMAIN e |-> e[i].seq]
  BY DEF Joining
<1>6. /\ e \in Seq(RowSet) /\ DOMAIN e = DOMAIN InOrder(P)
      /\ \A i \in DOMAIN e : InOrder(P)[i] \in P /\ e[i] = rows[InOrder(P)[i]]
      /\ \A p \in P : \E i \in DOMAIN e : e[i] = rows[p]
  <2> HIDE DEF rows, P
  <2> QED
    BY <1>2, <1>3, EntriesOf
<1>7. \A i \in RowsOf(Head1) : Head1.rows[i].gen => i \in P
  OBVIOUS
<1>8. \A i \in P : i \in RowsOf(Head1) /\ Head1.rows[i].gen
  OBVIOUS
<1> HIDE DEF e, P, rows
<1>9. DOMAIN e = 1..Len(e) /\ Len(e) \in Nat
  BY <1>6
<1>10. \A j \in DOMAIN e : InOrder(P)[j] \in DOMAIN rows /\ Joining[j] = SeqAt(InOrder(P)[j])
  BY <1>3, <1>4, <1>5, <1>6
<1>11. Joining \in [1..Len(e) -> Slots]
  BY <1>4, <1>5, <1>9, <1>10
<1>12. Joining \in Seq(Slots) /\ DOMAIN Joining = DOMAIN e
  BY <1>5, <1>9, <1>11
<1>13. \A j \in DOMAIN Joining : \E i \in RowsOf(Head1) : Head1.rows[i].gen /\ SeqAt(i) = Joining[j]
  BY <1>6, <1>8, <1>10, <1>12
<1>14. \A i \in RowsOf(Head1) : Head1.rows[i].gen => \E j \in DOMAIN Joining : Joining[j] = SeqAt(i)
  <2> SUFFICES ASSUME NEW i \in P PROVE \E j \in DOMAIN Joining : Joining[j] = SeqAt(i)
    BY <1>7
  <2>1. PICK j \in DOMAIN e : e[j] = rows[i]
    BY <1>6
  <2>2. Joining[j] = rows[i].seq
    BY <1>5, <2>1
  <2> QED
    BY <1>3, <1>4, <1>12, <2>2
<1>15. Len(Head1.rows) \in Nat /\ P \in SUBSET (1..Len(Head1.rows))
  BY <1>3 DEF rows
<1> QED
  BY <1>1, <1>2, <1>6, <1>10, <1>12, <1>13, <1>14, <1>15 DEF P

\* Who has no row in the oldest forward does not join by it.
LEMMA JoinersHaveRows ==
    ASSUME Shapes, queue # <<>>, NEW s, ~Has(Head1, s)
    PROVE  \A j \in DOMAIN Joining : Joining[j] # s
<1> SUFFICES ASSUME NEW j \in DOMAIN Joining PROVE Joining[j] # s
  OBVIOUS
<1>1. PICK i \in RowsOf(Head1) : SeqAt(i) = Joining[j]
  BY JoiningFacts
<1>2. Head1.rows[i].seq = Joining[j]
  BY <1>1 DEF SeqAt
<1>3. Head1.rows[i].seq # s
  BY DEF Has
<1> QED
  BY <1>2, <1>3

LEMMA ActivateFacts ==
    ASSUME DecodeBatchAssumption, Frame, Activate
    PROVE  ActivateStep
<1>0. Shapes /\ SeqShape /\ MakerShape /\ WorkShape
  BY DEF Frame, Shapes
<1>1. /\ UNCHANGED <<len, held, limit, kind, arrival, toEvict, afterChunk, rounds, shorts, workVars, turn>>
      /\ pc \in {"sent", "next"} /\ pc' = "prefetch" /\ running' = ListAfter
      /\ status' = [t \in Seqs |-> IF status[t] = "READY" /\ \E i \in RowsOf(Head1) : SeqAt(i) = t
                                     THEN "RUNNING" ELSE status[t]]
  BY DEF Activate
<1>2. Len(queue) = 1 /\ queue # <<>>
  BY <1>1, SMTT(30) DEF Frame, QueueShape
<1>3. Head1 \in ForwardSet /\ 1 \in DOMAIN queue /\ queue[1] = Head1 /\ Joining \in Seq(Slots)
  BY <1>0, <1>2, JoiningFacts DEF Head1
<1>4. \A t \in Seqs : status'[t] = IF status[t] = "READY" /\ Has(Head1, t) THEN "RUNNING" ELSE status[t]
  BY <1>1 DEF Has, SeqAt
<1>5. status' \in [Seqs -> Statuses]
  BY <1>0, <1>1 DEF SeqShape, Statuses
<1>6. /\ chunk \in [seq : Slots, step : Int] /\ (chunk.seq \in Seqs => chunk.step \in Nat)
      /\ hist \in [Seqs -> Nat] /\ ChunkSize \in Nat
  BY <1>0, FrameTypes DEF SeqShape, MakerShape
<1>8. running' \in Seq(Slots)
  <2>1. [i \in RowsOf(Head1) |-> SeqAt(i)] \in Seq(Slots)
    <3>1. Head1.rows \in Seq(RowSet) /\ DOMAIN Head1.rows = 1..Len(Head1.rows) /\ Len(Head1.rows) \in Nat
      BY <1>3 DEF ForwardSet
    <3>2. \A i \in DOMAIN Head1.rows : SeqAt(i) \in Slots
      BY <1>0, <1>3, RowsTyped DEF SeqAt, RowsOf
    <3>3. [i \in RowsOf(Head1) |-> SeqAt(i)] \in [1..Len(Head1.rows) -> Slots]
      BY <3>1, <3>2 DEF RowsOf
    <3> QED
      BY <3>1, <3>3
  <2>2. running \in Seq(Slots)
    BY <1>0 DEF MakerShape
  <2>3. running \o Joining \in Seq(Slots)
    BY <1>3, <2>2, ConcatOf
  <2> QED
    BY <1>1, <2>1, <2>2, <2>3 DEF ListAfter
<1>9. /\ chunk' \in [seq : Slots, step : Int] /\ (chunk'.seq \in Seqs => chunk'.step \in Nat)
      /\ chunk'.seq = chunk.seq /\ hist' \in [Seqs -> Nat]
      /\ \A t \in Seqs : hist'[t] # hist[t] => Head1.lane = "chunk" /\ t = chunk.seq
  <2>1. CASE Head1.lane = "chunk" /\ chunk.seq \in Seqs /\ IsLong(chunk.seq)
    <3> DEFINE step == chunk.step + ChunkSize
    <3>1. chunk' = [chunk EXCEPT !.step = step] /\ hist' = [hist EXCEPT ![chunk.seq] = step]
      BY <2>1 DEF Activate
    <3>2. step \in Nat /\ step \in Int
      BY <1>6, <2>1
    <3> HIDE DEF step
    <3>3. /\ chunk' \in [seq : Slots, step : Int] /\ (chunk'.seq \in Seqs => chunk'.step \in Nat)
          /\ chunk'.seq = chunk.seq
      BY <1>6, <3>1, <3>2
    <3>4. hist' \in [Seqs -> Nat] /\ \A t \in Seqs : hist'[t] # hist[t] => t = chunk.seq
      BY <1>6, <3>1, <3>2
    <3> QED
      BY <2>1, <3>3, <3>4
  <2>2. CASE ~(Head1.lane = "chunk" /\ chunk.seq \in Seqs /\ IsLong(chunk.seq))
    <3>1. chunk' = chunk /\ hist' = hist
      BY <2>2 DEF Activate
    <3> QED
      BY <1>6, <3>1
  <2> QED
    BY <2>1, <2>2
<1>10. SeqShape'
  BY <1>0, <1>1, <1>5, <1>9 DEF SeqShape
<1>11. MakerShape'
  BY <1>0, <1>1, <1>8, <1>9 DEF MakerShape
<1> QED
  BY <1>1, <1>2, <1>3, <1>4, <1>9, <1>10, <1>11 DEF ActivateStep

\* The worker's rows after a delta and after a token each.
LEMMA ReindexedFacts ==
    ASSUME WorkShape, NEW f \in ForwardSet
    PROVE  /\ Reindexed(f) \in Seq(CarriedSet) /\ Reindexed(f) = Selected(f, batch)
<1>1. f.keep \in Seq(Nat) /\ batch \in Seq(CarriedSet)
  BY DEF ForwardSet, WorkShape
<1>2. DOMAIN f.keep = 1..Len(f.keep) /\ Len(f.keep) \in Nat
  BY <1>1
<1>3. [seq |-> Gone, len |-> 0] \in CarriedSet
  BY DEF CarriedSet, Slots
<1>4. \A i : RowAt(i) \in CarriedSet
  BY <1>1, <1>3 DEF RowAt
<1>5. [i \in DOMAIN f.keep |-> RowAt(f.keep[i])] \in [1..Len(f.keep) -> CarriedSet]
  BY <1>2, <1>4
<1>6. [i \in DOMAIN f.keep |-> RowAt(f.keep[i])] \in Seq(CarriedSet)
  BY <1>2, <1>5
<1>7. Reindexed(f) \in Seq(CarriedSet)
  BY <1>1, <1>6 DEF Reindexed
<1>8. Reindexed(f) = Selected(f, batch)
  BY DEF Reindexed, Selected, RowAt
<1> QED
  BY <1>7, <1>8

LEMMA GrownFacts ==
    ASSUME NEW rows, rows \in Seq(CarriedSet) \/ rows \in Seq(RowSet)
    PROVE  /\ Grown(rows) \in Seq(CarriedSet) /\ Len(Grown(rows)) = Len(rows)
           /\ DOMAIN Grown(rows) = DOMAIN rows
           /\ \A i \in DOMAIN rows : /\ Grown(rows)[i].seq = rows[i].seq
                                     /\ rows[i].seq # Gone => Grown(rows)[i].len = rows[i].len + 1
                                     /\ Grown(rows)[i] \in CarriedSet
<1>1. DOMAIN rows = 1..Len(rows) /\ Len(rows) \in Nat
  OBVIOUS
<1>2. \A i \in DOMAIN rows : rows[i].seq \in Slots /\ rows[i].len \in Nat
  <2>1. CASE rows \in Seq(CarriedSet)
    <3>1. \A i \in DOMAIN rows : rows[i] \in CarriedSet
      BY <2>1
    <3> QED
      BY <3>1 DEF CarriedSet
  <2>2. CASE rows \in Seq(RowSet)
    <3>1. \A i \in DOMAIN rows : rows[i] \in RowSet
      BY <2>2
    <3> QED
      BY <3>1 DEF RowSet
  <2> QED
    BY <2>1, <2>2
<1> DEFINE g == Grown(rows)
<1>3. g = [i \in DOMAIN rows |-> [seq |-> rows[i].seq,
            len |-> IF rows[i].seq = Gone THEN 0 ELSE rows[i].len + 1]]
  BY DEF Grown
<1> HIDE DEF g
<1>4. ASSUME NEW i \in DOMAIN rows
      PROVE  /\ g[i] \in CarriedSet /\ g[i].seq = rows[i].seq
             /\ rows[i].seq # Gone => g[i].len = rows[i].len + 1
  <2>1. g[i] = [seq |-> rows[i].seq, len |-> IF rows[i].seq = Gone THEN 0 ELSE rows[i].len + 1]
    BY <1>3
  <2> QED
    BY <1>2, <2>1 DEF CarriedSet
<1>5. g \in [1..Len(rows) -> CarriedSet]
  BY <1>1, <1>3, <1>4
<1>6. g \in Seq(CarriedSet) /\ Len(g) = Len(rows) /\ DOMAIN g = DOMAIN rows
  BY <1>1, <1>5
<1> QED
  BY <1>4, <1>6 DEF g

LEMMA CollectFacts ==
    ASSUME DecodeBatchAssumption, Frame, pc = "wait", NEW stop \in SUBSET RowsOf(Head1), CollectOutput(stop)
    PROVE  CollectStep
<1> DEFINE stops(s)  == ~Generates(s) \/ \E i \in stop : SeqAt(i) = s
           applied   == [s \in Seqs |-> IF Takes(s) /\ stops(s) THEN "STOPPED" ELSE status[s]]
           preempted == [s \in Seqs |->
                           IF s \in toEvict /\ applied[s] \in {"RUNNING", "READY", "WAITING"}
                             THEN "WAITING" ELSE applied[s]]
<1>0. Shapes /\ SeqShape /\ MakerShape /\ WorkShape
  BY DEF Frame, Shapes
<1>1. /\ UNCHANGED <<held, limit, kind, arrival, running, afterChunk, rounds, shorts, setup, turn>>
      /\ queue' = Tail(queue) /\ toEvict' = {} /\ batch' = BatchAfter(Head1)
      /\ built' = (built \/ (Head1.lane = "prefill" /\ ~Head1.scoring))
  BY DEF CollectOutput
<1>2. /\ hist' = [s \in Seqs |-> IF Takes(s) THEN len[s] ELSE hist[s]]
      /\ len' = [s \in Seqs |-> IF Takes(s) /\ Generates(s) THEN len[s] + 1 ELSE len[s]]
  BY DEF CollectOutput
<1>3. status' = preempted /\ chunk' = SetRunnable(preempted)
  BY DEF CollectOutput
<1>4. pc' = (IF Len(queue) = 1 THEN "send" ELSE "next")
  BY DEF CollectOutput
<1>5. queue # <<>>
  BY DEF Frame, QueueShape
<1>6. Head1 \in ForwardSet
  BY <1>0, <1>5, JoiningFacts
<1>7. \A s \in Seqs : /\ applied[s] \in {status[s], "STOPPED"}
                      /\ Takes(s) /\ stops(s) => applied[s] = "STOPPED"
                      /\ status[s] = "none" => applied[s] = "none"
  <2>1. \A s \in Seqs : Takes(s) => status[s] = "RUNNING"
    BY DEF Takes, Running, WithStatus
  <2> HIDE DEF stops
  <2> QED
    BY <2>1
<1> HIDE DEF applied, stops
<1>8. \A s \in Seqs : /\ preempted[s] = applied[s] \/ (preempted[s] = "WAITING" /\ applied[s] \in {"RUNNING", "READY", "WAITING"})
  OBVIOUS
<1>9. \A s \in Seqs : /\ preempted[s] \in Statuses
                      /\ preempted[s] = "RUNNING" => status[s] = "RUNNING" /\ ~(Takes(s) /\ stops(s))
                      /\ preempted[s] = "READY" => status[s] = "READY"
                      /\ (preempted[s] = "none") = (status[s] = "none")
  BY <1>0, <1>7, <1>8 DEF SeqShape, Statuses
<1>10. preempted \in [Seqs -> Statuses]
  <2>1. DOMAIN preempted = Seqs /\ preempted = [s \in Seqs |-> preempted[s]]
    OBVIOUS
  <2> HIDE DEF preempted
  <2> QED
    BY <1>9, <2>1
<1> HIDE DEF preempted
<1>11. Running' \subseteq Running /\ Active' \subseteq Active
  BY <1>3, <1>9 DEF Running, Active, WithStatus
<1>12. \A t \in Running' : Takes(t) => Generates(t)
  BY <1>3, <1>9 DEF Running, WithStatus, stops
<1>13. chunk' = chunk \/ (chunk' = NoChunk /\ chunk.seq \notin Active')
  BY <1>3, <1>10, EnabledChunk DEF Active, Running, WithStatus
<1>14. chunk' \in [seq : Slots, step : Int]
  BY <1>0, <1>10, <1>13, EnabledChunk DEF MakerShape
<1>15. batch' \in Seq(CarriedSet)
  <2>1. Reindexed(Head1) \in Seq(CarriedSet) /\ Head1.rows \in Seq(RowSet)
    BY <1>0, <1>6, ReindexedFacts DEF ForwardSet
  <2>2. Grown(Reindexed(Head1)) \in Seq(CarriedSet) /\ Grown(Head1.rows) \in Seq(CarriedSet)
    BY <2>1, GrownFacts
  <2>3. Reindexed(Head1) \o Grown(Head1.rows) \in Seq(CarriedSet)
    BY <2>1, <2>2, ConcatOf
  <2> QED
    BY <1>1, <2>1, <2>2, <2>3 DEF BatchAfter
<1>16. hist' \in [Seqs -> Nat] /\ len' \in [Seqs -> Nat]
  <2>1. \A t \in Seqs : hist[t] \in Nat /\ len[t] \in Nat
    BY <1>0 DEF SeqShape
  <2>2. \A t \in Seqs : /\ (IF Takes(t) THEN len[t] ELSE hist[t]) \in Nat
                         /\ (IF Takes(t) /\ Generates(t) THEN len[t] + 1 ELSE len[t]) \in Nat
    BY <2>1
  <2> QED
    BY <1>2, <2>2, Zenon
<1>17. SeqShape'
  BY <1>0, <1>1, <1>3, <1>10, <1>16 DEF SeqShape
<1>18. built' \in BOOLEAN
  BY <1>0, <1>1 DEF WorkShape
<1>19. \A t \in Seqs : /\ hist'[t] = IF Takes(t) THEN len[t] ELSE hist[t]
                       /\ len'[t] = IF Takes(t) /\ Generates(t) THEN len[t] + 1 ELSE len[t]
  BY <1>2
<1> QED
  BY <1>1, <1>3, <1>4, <1>5, <1>9, <1>11, <1>12, <1>13, <1>14, <1>15, <1>17, <1>18, <1>19 DEF CollectStep

---------------------------------------------------------------------------
(* The types and the places of the loop are invariant. *)

LEMMA NextSteps ==
    ASSUME DecodeBatchAssumption, Frame, Next
    PROVE  Steps
<1>1. CASE Client
  BY <1>1, MildFacts, EndFacts DEF Client, Steps
<1>2. CASE Pass
  <2>1. Pass => BeginPass \/ Quiet \/ Pages \/ Sends
    BY DEF Pass, Quiet, Pages, Sends
  <2> QED
    BY <1>2, <2>1, BeginFacts, QuietFacts, PageFacts DEF Steps
<1>3. CASE Loop
  BY <1>3, ActivateFacts, CollectFacts DEF Loop, Steps
<1> QED
  BY <1>1, <1>2, <1>3 DEF Next, Engine

LEMMA EmptyOf ==
    ASSUME NEW S, NEW q \in Seq(S)
    PROVE  Len(q) \in Nat /\ (q = <<>> <=> Len(q) = 0) /\ (1 \in DOMAIN q <=> Len(q) # 0)
  OBVIOUS

LEMMA ShapesStep ==
    ASSUME DecodeBatchAssumption, Frame, Steps
    PROVE  Shapes'
<1>0. Shapes /\ SeqShape /\ MakerShape /\ WorkShape /\ TurnShape /\ QueueShape
  BY DEF Frame, Shapes
<1>1. CASE MildStep
  <2>1. MakerShape'
    <3>1. NoChunk.seq \notin Seqs
      BY DEF NoChunk, DecodeBatchAssumption
    <3> QED
      BY <1>0, <1>1, <3>1 DEF MakerShape, MildStep
  <2>2. WorkShape' /\ TurnShape'
    BY <1>0, <1>1 DEF MildStep, WorkShape, TurnShape, workVars
  <2> QED
    BY <1>1, <2>1, <2>2 DEF MildStep, Shapes
<1>2. ASSUME NEW s \in Seqs, EndStep(s) PROVE Shapes'
  <2>1. queue' \in Seq(ForwardSet)
    BY <1>2, EndQueue
  <2>2. batch' \in Seq(CarriedSet)
    BY <1>0, <1>2, GhostBatchFacts DEF EndStep, WorkShape
  <2>3. MakerShape'
    BY <1>0, <1>2 DEF MakerShape, EndStep
  <2>4. WorkShape' /\ TurnShape'
    BY <1>0, <1>2, <2>1, <2>2 DEF EndStep, WorkShape, TurnShape
  <2> QED
    BY <1>2, <2>3, <2>4 DEF EndStep, Shapes
<1>3. CASE BeginStep
  <2>1. MakerShape'
    <3>1. NoChunk \in [seq : Slots, step : Int] /\ NoChunk.seq \notin Seqs
      BY DEF NoChunk, Slots, DecodeBatchAssumption
    <3> QED
      BY <1>0, <1>3, <3>1 DEF MakerShape, BeginStep
  <2>2. SeqShape' /\ WorkShape' /\ TurnShape'
    BY <1>0, <1>3 DEF BeginStep, SeqShape, WorkShape, TurnShape, seqVars, workVars
  <2> QED
    BY <2>1, <2>2 DEF Shapes
<1>4. CASE QuietStep
  <2>1. MakerShape'
    BY <1>0, <1>4 DEF QuietStep, MakerShape
  <2>2. SeqShape' /\ WorkShape'
    BY <1>0, <1>4 DEF QuietStep, SeqShape, WorkShape, seqVars, workVars
  <2>3. TurnShape'
    BY <1>0, <1>4 DEF QuietStep, TurnShape, InPass, NothingSent
  <2> QED
    BY <2>1, <2>2, <2>3 DEF Shapes
<1>5. CASE PageStep
  <2>1. MakerShape' /\ WorkShape' /\ TurnShape'
    BY <1>0, <1>5 DEF PageStep, MakerShape, WorkShape, TurnShape, makerVars, workVars
  <2> QED
    BY <1>5, <2>1 DEF PageStep, Shapes
<1>6. CASE Sends
  <2>1. PICK f : Sent(f)
    BY <1>6, SendFacts
  <2>2. /\ f \in ForwardSet /\ queue' = Append(queue, f) /\ turn' = NoTurn /\ UNCHANGED <<batch, built, setup>>
        /\ pc' = (IF queue = <<>> THEN "sent" ELSE "wait") /\ afterChunk' = (f.lane = "chunk")
    BY <2>1 DEF Sent, Dispatch
  <2>3. queue' \in Seq(ForwardSet)
    BY <1>0, <2>2, AppendOf DEF WorkShape
  <2>4. WorkShape' /\ TurnShape'
    BY <1>0, <2>2, <2>3, NoTurnType DEF WorkShape, TurnShape
  <2>5. SeqShape' /\ MakerShape'
    BY <1>0, <1>6, <2>2, SendFacts DEF MakerShape
  <2> QED
    BY <2>4, <2>5 DEF Shapes
<1>7. CASE ActivateStep
  <2>1. WorkShape' /\ TurnShape'
    BY <1>0, <1>7 DEF ActivateStep, WorkShape, TurnShape, workVars
  <2> QED
    BY <1>7, <2>1 DEF ActivateStep, Shapes
<1>8. CASE CollectStep
  <2>1. queue \in Seq(ForwardSet) /\ queue # <<>>
    BY <1>0, <1>8 DEF WorkShape, CollectStep
  <2>2. Tail(queue) \in Seq(ForwardSet)
    BY <2>1, TailOf
  <2>3. WorkShape' /\ TurnShape'
    BY <1>0, <1>8, <2>2 DEF CollectStep, WorkShape, TurnShape
  <2>4. NoChunk.seq \notin Seqs
    BY DEF NoChunk, DecodeBatchAssumption
  <2>5. MakerShape'
    <3>1. chunk' \in [seq : Slots, step : Int] /\ (chunk'.seq \in Seqs => chunk'.step \in Nat)
      BY <1>0, <1>8, <2>4 DEF CollectStep, MakerShape
    <3>2. UNCHANGED <<running, afterChunk, rounds, shorts>> /\ toEvict' = {}
      BY <1>8 DEF CollectStep
    <3> QED
      BY <1>0, <3>1, <3>2 DEF MakerShape
  <2> QED
    BY <1>8, <2>3, <2>5 DEF CollectStep, Shapes
<1> QED
  BY <1>1, <1>2, <1>3, <1>4, <1>5, <1>6, <1>7, <1>8 DEF Steps

LEMMA QueueShapeStep ==
    ASSUME DecodeBatchAssumption, Frame, Steps
    PROVE  QueueShape'
<1>0. Shapes /\ WorkShape /\ QueueShape /\ queue \in Seq(ForwardSet)
  BY DEF Frame, Shapes, WorkShape
<1>a. Len(queue) \in Nat /\ (queue = <<>> <=> Len(queue) = 0)
  BY <1>0, EmptyOf
<1>1. CASE MildStep
  BY <1>0, <1>1 DEF MildStep, QueueShape, workVars
<1>2. ASSUME NEW s \in Seqs, EndStep(s) PROVE QueueShape'
  <2>1. Len(queue') = Len(queue) /\ (queue = <<>> <=> queue' = <<>>) /\ pc' = pc
    BY <1>2, EndQueue DEF EndStep
  <2> QED
    BY <1>0, <2>1 DEF QueueShape
<1>3. CASE BeginStep
  <2>1. queue' = queue /\ pc' = "try" /\ (queue = <<>> \/ Len(queue) = 1)
    BY <1>0, <1>3 DEF BeginStep, QueueShape, workVars
  <2>3. Len(queue) <= 1
    <3>1. Len(queue) = 0 \/ Len(queue) = 1
      BY <1>a, <2>1, Zenon
    <3>2. \A n \in Nat : n = 0 \/ n = 1 => n <= 1
      OBVIOUS
    <3> QED
      BY <1>a, <3>1, <3>2, Zenon
  <2>2. Len(queue') <= 1
    BY <2>1, <2>3
  <2> QED
    BY <2>1, <2>2 DEF QueueShape, InPass
<1>4. CASE QuietStep
  <2>1. queue' = queue /\ Len(queue) <= 1 /\ (pc' \in InPass \/ pc' = NothingSent)
    BY <1>0, <1>4 DEF QuietStep, QueueShape, workVars
  <2>2. queue # <<>> => 1 <= Len(queue)
    BY <1>0
  <2> QED
    BY <1>0, <2>1, <2>2 DEF QueueShape, InPass, NothingSent
<1>5. CASE PageStep
  BY <1>0, <1>5 DEF PageStep, QueueShape, workVars
<1>6. CASE Sends
  <2>1. PICK f : Sent(f)
    BY <1>6, SendFacts
  <2>2. f \in ForwardSet /\ queue' = Append(queue, f) /\ pc' = (IF queue = <<>> THEN "sent" ELSE "wait") /\ pc \in InPass
    BY <1>6, <2>1, SendFacts DEF Sent, Dispatch
  <2>3. Len(queue') = Len(queue) + 1 /\ Len(queue) <= 1
    BY <1>0, <2>2, AppendOf DEF QueueShape
  <2>4. CASE queue = <<>>
    <3>1. Len(queue') = 1 /\ pc' = "sent"
      BY <1>a, <2>2, <2>3, <2>4
    <3> QED
      BY <3>1 DEF QueueShape, InPass
  <2>5. CASE queue # <<>>
    <3>1. Len(queue') = 2 /\ pc' = "wait"
      BY <1>a, <2>2, <2>3, <2>5
    <3> QED
      BY <3>1 DEF QueueShape, InPass
  <2> QED
    BY <2>4, <2>5
<1>7. CASE ActivateStep
  BY <1>0, <1>7 DEF ActivateStep, QueueShape, workVars, InPass
<1>8. CASE CollectStep
  <2>0. pc = "wait" => 1 <= Len(queue) /\ Len(queue) <= 2
    BY <1>0 DEF QueueShape
  <2>5. queue # <<>> /\ queue' = Tail(queue) /\ pc' = (IF Len(queue) = 1 THEN "send" ELSE "next") /\ pc = "wait"
    BY <1>8 DEF CollectStep
  <2>6. Len(queue) = 1 \/ Len(queue) = 2
    <3>1. \A n \in Nat : 1 <= n /\ n <= 2 => n = 1 \/ n = 2
      OBVIOUS
    <3> QED
      BY <1>a, <2>0, <2>5, <3>1, Zenon
  <2>1. queue # <<>> /\ queue' = Tail(queue) /\ pc' = (IF Len(queue) = 1 THEN "send" ELSE "next") /\ Len(queue) \in {1, 2}
    BY <2>5, <2>6
  <2>2. Len(queue') = Len(queue) - 1 /\ queue' \in Seq(ForwardSet)
    BY <1>0, <2>1, TailOf
  <2>3. queue' = <<>> <=> Len(queue') = 0
    BY <2>2, EmptyOf
  <2>4. IF Len(queue) = 1 THEN queue' = <<>> /\ pc' = "send" ELSE Len(queue') = 1 /\ pc' = "next"
    BY <2>1, <2>2, <2>3, SMTT(30)
  <2> QED
    BY <2>4 DEF QueueShape, InPass
<1> QED
  BY <1>1, <1>2, <1>3, <1>4, <1>5, <1>6, <1>7, <1>8 DEF Steps

LEMMA LaneShapeStep ==
    ASSUME DecodeBatchAssumption, Frame, Steps
    PROVE  LaneShape'
<1>0. Shapes /\ LaneShape /\ QueueShape /\ queue \in Seq(ForwardSet)
  BY DEF Frame, Shapes, WorkShape
<1> DEFINE Decodes(q) == \A i \in DOMAIN q : q[i].lane = "decode" =>
                           q[i].reindex /\ Len(q[i].keep) = Len(q[i].rows)
<1>a. Decodes(queue)
  BY <1>0 DEF LaneShape
<1>b. Decodes(queue') /\ pc' \notin InPass => LaneShape'
  BY DEF LaneShape, InPass
<1>c. pc \in Await => pc \notin InPass
  BY DEF Await, InPass
<1>1. CASE MildStep
  BY <1>a, <1>b, <1>c, <1>1 DEF MildStep, workVars
<1>2. ASSUME NEW s \in Seqs, EndStep(s) PROVE LaneShape'
  <2>1. Decodes(queue')
    BY <1>a, <1>2, EndQueue
  <2> QED
    BY <1>b, <1>c, <1>2, <2>1 DEF EndStep
<1>3. CASE BeginStep
  BY <1>0, <1>3 DEF BeginStep, LaneShape, Plans, workVars
<1>4. CASE QuietStep
  <2>1. queue' = queue /\ chunk' = chunk /\ running' = running /\ pc \in InPass
    BY <1>4 DEF QuietStep, workVars
  <2>2. pc' \in InPass /\ Plans("chunk")' => chunk'.seq \in Seqs
    BY <1>0, <1>4, <2>1 DEF QuietStep, LaneShape
  <2>3. pc' = "grow" => /\ turn'.left <= Len(running')
                        /\ \A j \in DOMAIN turn'.keep : turn'.keep[j] \in (turn'.left + 1)..Len(running')
    BY <1>4, <2>1 DEF QuietStep
  <2> QED
    BY <1>a, <2>1, <2>2, <2>3 DEF LaneShape
<1>5. CASE PageStep
  <2>1. queue' = queue /\ chunk' = chunk /\ running' = running /\ pc \in InPass /\ pc' = pc
    BY <1>5 DEF PageStep, workVars, makerVars
  <2>2. pc' \in InPass /\ Plans("chunk")' => chunk'.seq \in Seqs
    BY <1>0, <1>5, <2>1 DEF PageStep, LaneShape
  <2>3. pc' = "grow" => /\ turn'.left <= Len(running')
                        /\ \A j \in DOMAIN turn'.keep : turn'.keep[j] \in (turn'.left + 1)..Len(running')
    BY <1>5, <2>1 DEF PageStep
  <2> QED
    BY <1>a, <2>1, <2>2, <2>3 DEF LaneShape
<1>6. CASE Sends
  <2>1. PICK f : Sent(f)
    BY <1>6, SendFacts
  <2>2. f \in ForwardSet /\ queue' = Append(queue, f) /\ pc' \notin InPass
        /\ (f.lane = "decode" => f.reindex /\ Len(f.keep) = Len(f.rows))
    BY <2>1 DEF Sent, Dispatch, InPass
  <2>3. /\ DOMAIN queue' = DOMAIN queue \cup {Len(queue) + 1} /\ queue'[Len(queue) + 1] = f
        /\ \A i \in DOMAIN queue : queue'[i] = queue[i]
    BY <1>0, <2>2, AppendOf
  <2>4. Decodes(queue')
    BY <1>a, <2>2, <2>3
  <2> QED
    BY <1>b, <2>2, <2>4
<1>7. CASE ActivateStep
  BY <1>a, <1>b, <1>7 DEF ActivateStep, workVars, InPass
<1>8. CASE CollectStep
  <2>1. queue # <<>> /\ queue' = Tail(queue) /\ pc' \notin InPass
    BY <1>8 DEF CollectStep, InPass
  <2>2. \A i \in DOMAIN queue' : i + 1 \in DOMAIN queue /\ queue'[i] = queue[i + 1]
    BY <1>0, <2>1, TailOf
  <2>3. Decodes(queue')
    BY <1>a, <2>2
  <2> QED
    BY <1>b, <2>1, <2>3
<1> QED
  BY <1>1, <1>2, <1>3, <1>4, <1>5, <1>6, <1>7, <1>8 DEF Steps

LEMMA FrameStep ==
    ASSUME DecodeBatchAssumption, Frame, Next
    PROVE  Frame' /\ Steps
  BY NextSteps, ShapesStep, QueueShapeStep, LaneShapeStep DEF Frame

---------------------------------------------------------------------------
(* The three kinds of forward. *)

LEMMA SendKinds ==
    ASSUME DecodeBatchAssumption, Frame, Sends
    PROVE  (\E f : SentPrefill(f) \/ SentChunk(f) \/ SentDecode(f)) /\ HistoryKept
<1>0. Shapes /\ SeqShape /\ turn \in TurnSet /\ turn.batch \in Seq(Seqs)
  BY DEF Frame, Shapes, TurnShape, TurnSet
<1>1. CASE SendPrefill
  <2>1. DispatchPrefill(turn.batch) /\ pc = "admit" /\ UNCHANGED <<seqVars, toEvict, chunk>>
    BY <1>1 DEF SendPrefill, Admitted
  <2>2. PICK f \in ForwardSet :
          /\ Dispatch(f) /\ f.lane = "prefill"
          /\ DOMAIN f.rows = DOMAIN turn.batch
          /\ \A i \in DOMAIN turn.batch : f.rows[i] = PrefillRow(turn.batch[i], len[turn.batch[i]])
          /\ f.reindex = ~AllValid /\ f.keep = IF AllValid THEN <<>> ELSE ValidPositions
          /\ f.scoring = (\E i \in DOMAIN turn.batch : kind[turn.batch[i]] = "score")
    BY <1>0, <2>1, PrefillForward
  <2>3. running' = [i \in DOMAIN ValidPositions |-> running[ValidPositions[i]]]
    BY <1>0, <2>1, PrefillForward
  <2>4. Sent(f)
    BY <2>2 DEF Sent
  <2>5. \E ss \in Seq(Seqs) :
         /\ DOMAIN f.rows = DOMAIN ss
         /\ \A i \in DOMAIN ss : f.rows[i] = PrefillRow(ss[i], len[ss[i]])
         /\ f.scoring = (\E i \in DOMAIN ss : kind[ss[i]] = "score")
         /\ \/ pc = "admit" /\ ss = turn.batch /\ chunk' = chunk
            \/ ss = <<chunk.seq>> /\ chunk.seq \in Seqs /\ chunk' = NoChunk
    BY <1>0, <2>1, <2>2
  <2>6. SentPrefill(f)
    BY <2>2, <2>3, <2>4, <2>5 DEF SentPrefill
  <2>7. HistoryKept
    BY <2>1 DEF HistoryKept, seqVars
  <2> QED
    BY <2>6, <2>7
<1>2. CASE SendFirstChunk
  <2>1. /\ DispatchChunk(turn.batch[1]) /\ UNCHANGED <<seqVars, toEvict>> /\ pc = "admit" /\ turn.batch # <<>>
        /\ chunk' = [seq |-> turn.batch[1], step |-> hist[turn.batch[1]]] /\ IsLong(turn.batch[1])
    BY <1>2 DEF SendFirstChunk, Admitted
  <2>2. turn.batch[1] \in Seqs /\ chunk'.seq = turn.batch[1]
    BY <1>0, <2>1
  <2>3. PICK f \in ForwardSet :
          /\ Dispatch(f) /\ f.lane = "chunk"
          /\ f.rows = <<PrefillRow(turn.batch[1], hist[turn.batch[1]] + ChunkSize)>>
          /\ ~f.reindex /\ f.scoring = (kind[turn.batch[1]] = "score")
    BY <1>0, <2>1, <2>2, ChunkForward
  <2>4. running' = running
    BY <1>0, <2>1, <2>2, ChunkForward
  <2>5. Sent(f)
    BY <2>3 DEF Sent
  <2>6. SentChunk(f)
    BY <2>1, <2>2, <2>3, <2>4, <2>5 DEF SentChunk
  <2>7. HistoryKept
    BY <2>1 DEF HistoryKept, seqVars
  <2> QED
    BY <2>6, <2>7
<1>3. CASE SendNextChunk
  <2>1. chunk.seq \in Seqs
    BY <1>3, LaneFacts DEF SendNextChunk
  <2>2. /\ Allocate(chunk.seq, ChunkLimit(chunk.seq), 0) /\ DispatchChunk(chunk.seq) /\ chunk' = chunk
    BY <1>3 DEF SendNextChunk
  <2>3. PICK f \in ForwardSet :
          /\ Dispatch(f) /\ f.lane = "chunk"
          /\ f.rows = <<PrefillRow(chunk.seq, hist[chunk.seq] + ChunkSize)>>
          /\ ~f.reindex /\ f.scoring = (kind[chunk.seq] = "score")
    BY <1>0, <2>1, <2>2, ChunkForward
  <2>4. running' = running
    BY <1>0, <2>1, <2>2, ChunkForward
  <2>5. Sent(f)
    BY <2>3 DEF Sent
  <2>6. SentChunk(f)
    BY <2>1, <2>2, <2>3, <2>4, <2>5 DEF SentChunk
  <2>7. HistoryKept
    BY <1>0, <2>1, <2>2, AskFacts, FrameTypes DEF HistoryKept
  <2> QED
    BY <2>6, <2>7
<1>4. CASE SendLastChunk
  <2>1. chunk.seq \in Seqs
    BY <1>4, LaneFacts DEF SendLastChunk
  <2>2. /\ Allocate(chunk.seq, 0, Prealloc) /\ DispatchPrefill(<<chunk.seq>>) /\ chunk' = NoChunk
    BY <1>4 DEF SendLastChunk
  <2> DEFINE one == <<chunk.seq>>
  <2>3. one \in Seq(Seqs) /\ DispatchPrefill(one)
    BY <2>1, <2>2
  <2>4. one = <<chunk.seq>>
    OBVIOUS
  <2> HIDE DEF one
  <2>5. PICK f \in ForwardSet :
          /\ Dispatch(f) /\ f.lane = "prefill"
          /\ DOMAIN f.rows = DOMAIN one
          /\ \A i \in DOMAIN one : f.rows[i] = PrefillRow(one[i], len[one[i]])
          /\ f.reindex = ~AllValid /\ f.keep = IF AllValid THEN <<>> ELSE ValidPositions
          /\ f.scoring = (\E i \in DOMAIN one : kind[one[i]] = "score")
    BY <1>0, <2>3, PrefillForward
  <2>6. running' = [i \in DOMAIN ValidPositions |-> running[ValidPositions[i]]]
    BY <1>0, <2>3, PrefillForward
  <2>7. Sent(f)
    BY <2>5 DEF Sent
  <2>8. \E ss \in Seq(Seqs) :
         /\ DOMAIN f.rows = DOMAIN ss
         /\ \A i \in DOMAIN ss : f.rows[i] = PrefillRow(ss[i], len[ss[i]])
         /\ f.scoring = (\E i \in DOMAIN ss : kind[ss[i]] = "score")
         /\ \/ pc = "admit" /\ ss = turn.batch /\ chunk' = chunk
            \/ ss = <<chunk.seq>> /\ chunk.seq \in Seqs /\ chunk' = NoChunk
    BY <2>1, <2>2, <2>3, <2>4, <2>5
  <2>9. SentPrefill(f)
    BY <2>5, <2>6, <2>7, <2>8 DEF SentPrefill
  <2>10. HistoryKept
    BY <1>0, <2>1, <2>2, AskFacts, FrameTypes DEF HistoryKept
  <2> QED
    BY <2>9, <2>10
<1>5. CASE SendDecode
  <2>1. PICK f \in ForwardSet :
             /\ Dispatch(f) /\ f.lane = "decode"
             /\ DOMAIN f.rows = DOMAIN turn.keep
             /\ \A i \in DOMAIN turn.keep : f.rows[i] = DecodeRow(running[turn.keep[i]])
             /\ f.reindex /\ f.keep = turn.keep /\ ~f.scoring /\ Len(f.rows) = Len(f.keep)
    BY <1>5, DecodeForward
  <2>2. UNCHANGED <<seqVars, running, chunk, rounds, shorts>> /\ pc = "grow" /\ turn.left = 0
    BY <1>5 DEF SendDecode
  <2>3. Sent(f)
    BY <2>1 DEF Sent
  <2>4. SentDecode(f)
    BY <2>1, <2>2, <2>3 DEF SentDecode
  <2>5. HistoryKept
    BY <2>2 DEF HistoryKept, seqVars
  <2> QED
    BY <2>4, <2>5
<1> QED
  BY <1>1, <1>2, <1>3, <1>4, <1>5 DEF Sends

\* What is common to them, as far as the queue is concerned.
LEMMA SentFacts ==
    ASSUME Frame, NEW f, Sent(f)
    PROVE  /\ f \in ForwardSet /\ f.rows \in Seq(RowSet) /\ queue' = Append(queue, f)
           /\ DOMAIN queue' = DOMAIN queue \cup {Len(queue) + 1} /\ Len(queue') = Len(queue) + 1
           /\ queue'[Len(queue) + 1] = f /\ \A q \in DOMAIN queue : queue'[q] = queue[q]
           /\ turn' = NoTurn /\ batch' = batch
           /\ pc' = IF queue = <<>> THEN "sent" ELSE "wait"
<1>1. /\ f \in ForwardSet /\ queue' = Append(queue, f) /\ turn' = NoTurn /\ batch' = batch
      /\ pc' = IF queue = <<>> THEN "sent" ELSE "wait"
  BY DEF Sent, Dispatch
<1>2. queue \in Seq(ForwardSet)
  BY DEF Frame, Shapes, WorkShape
<1>3. /\ Len(queue') = Len(queue) + 1 /\ DOMAIN queue' = DOMAIN queue \cup {Len(queue) + 1}
      /\ \A q \in DOMAIN queue : queue'[q] = queue[q]
      /\ queue'[Len(queue) + 1] = f
  BY <1>1, <1>2, AppendOf
<1> QED
  BY <1>1, <1>3 DEF ForwardSet

\* Whose rows a prefill and a chunk have.
LEMMA PrefillRows ==
    ASSUME Frame, NEW f, SentPrefill(f)
    PROVE  /\ \A i \in DOMAIN f.rows : /\ f.rows[i].seq \in Seqs
                                       /\ f.rows[i].len = len[f.rows[i].seq]
                                       /\ f.rows[i].gen = (kind[f.rows[i].seq] = "generate")
           /\ f.scoring => \E i \in DOMAIN f.rows : kind[f.rows[i].seq] = "score"
           /\ \/ /\ pc = "admit" /\ chunk' = chunk /\ DOMAIN f.rows = DOMAIN turn.batch
                 /\ \A i \in DOMAIN f.rows : f.rows[i].seq = turn.batch[i]
              \/ /\ chunk.seq \in Seqs /\ chunk' = NoChunk
                 /\ DOMAIN f.rows = {1} /\ f.rows[1].seq = chunk.seq
<1>1. PICK ss \in Seq(Seqs) :
         /\ DOMAIN f.rows = DOMAIN ss
         /\ \A i \in DOMAIN ss : f.rows[i] = PrefillRow(ss[i], len[ss[i]])
         /\ f.scoring = (\E i \in DOMAIN ss : kind[ss[i]] = "score")
         /\ \/ pc = "admit" /\ ss = turn.batch /\ chunk' = chunk
            \/ ss = <<chunk.seq>> /\ chunk.seq \in Seqs /\ chunk' = NoChunk
  BY DEF SentPrefill
<1>2. \A i \in DOMAIN ss : ss[i] \in Seqs
  OBVIOUS
<1>3. \A i \in DOMAIN ss : /\ f.rows[i].seq = ss[i] /\ f.rows[i].len = len[ss[i]]
                          /\ f.rows[i].gen = (kind[ss[i]] = "generate")
  <2> SUFFICES ASSUME NEW i \in DOMAIN ss
               PROVE  /\ f.rows[i].seq = ss[i] /\ f.rows[i].len = len[ss[i]]
                      /\ f.rows[i].gen = (kind[ss[i]] = "generate")
    OBVIOUS
  <2>1. f.rows[i] = [seq |-> ss[i], len |-> len[ss[i]], gen |-> kind[ss[i]] = "generate"]
    BY <1>1 DEF PrefillRow
  <2> QED
    BY <2>1
<1>4. \/ pc = "admit" /\ ss = turn.batch /\ chunk' = chunk
      \/ DOMAIN ss = {1} /\ ss[1] = chunk.seq /\ chunk.seq \in Seqs /\ chunk' = NoChunk
  <2>1. ss = <<chunk.seq>> => DOMAIN ss = {1} /\ ss[1] = chunk.seq
    OBVIOUS
  <2> QED
    BY <1>1, <2>1
<1>5. DOMAIN f.rows = DOMAIN ss /\ f.scoring = (\E i \in DOMAIN ss : kind[ss[i]] = "score")
  BY <1>1
<1>6. \/ /\ pc = "admit" /\ chunk' = chunk /\ DOMAIN f.rows = DOMAIN turn.batch
         /\ \A i \in DOMAIN f.rows : f.rows[i].seq = turn.batch[i]
      \/ /\ chunk.seq \in Seqs /\ chunk' = NoChunk
         /\ DOMAIN f.rows = {1} /\ f.rows[1].seq = chunk.seq
  <2>1. CASE pc = "admit" /\ ss = turn.batch /\ chunk' = chunk
    BY <1>3, <1>5, <2>1
  <2>2. CASE DOMAIN ss = {1} /\ ss[1] = chunk.seq /\ chunk.seq \in Seqs /\ chunk' = NoChunk
    BY <1>3, <1>5, <2>2
  <2> QED
    BY <1>4, <2>1, <2>2
<1> QED
  BY <1>2, <1>3, <1>5, <1>6

LEMMA ChunkRows ==
    ASSUME Frame, NEW f, SentChunk(f)
    PROVE  DOMAIN f.rows = {1} /\ f.rows[1].seq = chunk'.seq /\ f.rows[1].gen = (kind[chunk'.seq] = "generate")
<1>1. PICK l : f.rows = <<PrefillRow(chunk'.seq, l)>>
  BY DEF SentChunk
<1>2. DOMAIN f.rows = {1} /\ f.rows[1] = PrefillRow(chunk'.seq, l)
  BY <1>1
<1> QED
  BY <1>2 DEF PrefillRow

LEMMA DecodeRows ==
    ASSUME Frame, NEW f, SentDecode(f)
    PROVE  /\ DOMAIN f.rows = DOMAIN turn.keep
           /\ \A i \in DOMAIN f.rows : /\ turn.keep[i] \in DOMAIN running
                                       /\ f.rows[i].seq = running[turn.keep[i]] /\ f.rows[i].gen
<1>1. /\ turn.keep \in Seq(Nat) /\ running \in Seq(Slots) /\ turn.left = 0
      /\ \A j \in DOMAIN turn.keep : turn.keep[j] \in (turn.left + 1)..Len(running)
  BY DEF Frame, Shapes, TurnShape, TurnSet, MakerShape, LaneShape, SentDecode
<1>2. \A j \in DOMAIN turn.keep : turn.keep[j] \in DOMAIN running
  BY <1>1
<1>3. DOMAIN f.rows = DOMAIN turn.keep /\ \A i \in DOMAIN turn.keep : f.rows[i] = DecodeRow(running[turn.keep[i]])
  BY DEF SentDecode
<1>4. \A i \in DOMAIN turn.keep : f.rows[i].seq = running[turn.keep[i]] /\ f.rows[i].gen
  <2> SUFFICES ASSUME NEW i \in DOMAIN turn.keep
               PROVE  f.rows[i].seq = running[turn.keep[i]] /\ f.rows[i].gen
    OBVIOUS
  <2>1. f.rows[i] = [seq |-> running[turn.keep[i]], len |-> 0, gen |-> TRUE]
    BY <1>3 DEF DecodeRow
  <2> QED
    BY <2>1
<1> QED
  BY <1>2, <1>3, <1>4

\* Who is on the list, after a prefill has dropped those who do not run.
LEMMA ValidListed ==
    ASSUME Frame, running' = [i \in DOMAIN ValidPositions |-> running[ValidPositions[i]]]
    PROVE  /\ DOMAIN running' = DOMAIN ValidPositions
           /\ \A i \in DOMAIN running' : /\ running'[i] \in Running /\ ValidPositions[i] \in DOMAIN running
                                         /\ running'[i] = running[ValidPositions[i]] /\ Listed(running'[i])
           /\ \A s \in Running : Listed(s) => \E i \in DOMAIN running' : running'[i] = s
<1>1. /\ \A i \in DOMAIN ValidPositions : /\ ValidPositions[i] \in DOMAIN running
                                          /\ running[ValidPositions[i]] \in Running
      /\ \A i \in DOMAIN running : running[i] \in Running =>
                \E j \in DOMAIN ValidPositions : ValidPositions[j] = i
  BY ValidFacts DEF Frame
<1> QED
  BY <1>1 DEF Listed

---------------------------------------------------------------------------
(* Where the loop stands, and which forward has started. *)

LEMMA PlaceFacts ==
    ASSUME Frame
    PROVE  /\ queue \in Seq(ForwardSet) /\ Len(queue) \in Nat /\ Len(queue) <= 2
           /\ (queue = <<>> <=> Len(queue) = 0) /\ DOMAIN queue = 1..Len(queue)
           /\ pc \in InPass \cup {"send", "prefetch"} => Unstarted = {} /\ Len(queue) <= 1
           /\ pc \in InPass \cup {"send", "prefetch", "wait"} => (Started <=> queue # <<>>)
           /\ pc \in {"sent", "next"} => Unstarted = {queue[1]} /\ ~Started /\ Len(queue) = 1
           /\ pc = "wait" => /\ Started /\ 1 \in DOMAIN queue
                             /\ Len(queue) = 1 => Unstarted = {}
                             /\ Len(queue) = 2 => Unstarted = {queue[2]}
           /\ \A f \in Unstarted : \E q \in DOMAIN queue : f = queue[q]
           /\ pc \in InPass \cup {"send", "sent", "next", "prefetch", "wait"}
<1>1. queue \in Seq(ForwardSet) /\ QueueShape /\ TurnShape
  BY DEF Frame, Shapes, WorkShape
<1>2. Len(queue) \in Nat /\ DOMAIN queue = 1..Len(queue) /\ (queue = <<>> <=> Len(queue) = 0)
  BY <1>1, EmptyOf
<1>3. pc \in InPass \cup {"send", "sent", "next", "prefetch", "wait"}
  BY <1>1 DEF TurnShape, InPass
<1>4. PICK n \in Nat : n = Len(queue)
  BY <1>2
<1>5. /\ (queue = <<>> <=> n = 0) /\ DOMAIN queue = 1..n
      /\ pc \in InPass => n <= 1
      /\ pc = "send" => n = 0
      /\ pc \in {"sent", "next", "prefetch"} => n = 1
      /\ pc = "wait" => 1 <= n /\ n <= 2
  BY <1>1, <1>2, <1>4 DEF QueueShape
<1>6. /\ Unstarted = IF pc \in {"sent", "next"} \/ n = 2 THEN {queue[n]} ELSE {}
      /\ Started <=> (queue # <<>> /\ pc \notin {"sent", "next"})
  BY <1>4 DEF Unstarted, Started
<1>7. n <= 2
  BY <1>3, <1>5
<1>8. pc \in InPass \cup {"send", "prefetch"} => Unstarted = {} /\ n <= 1
  BY <1>5, <1>6 DEF InPass
<1>9. pc \in InPass \cup {"send", "prefetch", "wait"} => (Started <=> queue # <<>>)
  BY <1>6 DEF InPass
<1>10. pc \in {"sent", "next"} => Unstarted = {queue[1]} /\ ~Started /\ n = 1
  BY <1>5, <1>6
<1>11. pc = "wait" => /\ Started /\ 1 \in DOMAIN queue
                      /\ n = 1 => Unstarted = {}
                      /\ n = 2 => Unstarted = {queue[2]}
  BY <1>5, <1>6
<1>12. \A f \in Unstarted : \E q \in DOMAIN queue : f = queue[q]
  <2>1. Unstarted # {} => n \in DOMAIN queue
    BY <1>5, <1>6, <1>8, <1>3
  <2> QED
    BY <1>6, <2>1
<1> QED
  BY <1>1, <1>2, <1>3, <1>4, <1>7, <1>8, <1>9, <1>10, <1>11, <1>12

LEMMA PlaceInvariant == Frame => PlaceShape
  BY PlaceFacts DEF PlaceShape

LEMMA PlaceNext ==
    ASSUME Frame'
    PROVE  /\ queue' \in Seq(ForwardSet) /\ Len(queue') \in Nat /\ Len(queue') <= 2
           /\ (queue' = <<>> <=> Len(queue') = 0) /\ DOMAIN queue' = 1..Len(queue')
           /\ pc' \in InPass \cup {"send", "prefetch"} => Unstarted' = {} /\ Len(queue') <= 1
           /\ pc' \in InPass \cup {"send", "prefetch", "wait"} => (Started' <=> queue' # <<>>)
           /\ pc' \in {"sent", "next"} => Unstarted' = {queue'[1]} /\ ~Started' /\ Len(queue') = 1
           /\ pc' = "wait" => /\ Started' /\ 1 \in DOMAIN queue'
                              /\ Len(queue') = 1 => Unstarted' = {}
                              /\ Len(queue') = 2 => Unstarted' = {queue'[2]}
           /\ \A f \in Unstarted' : \E q \in DOMAIN queue' : f = queue'[q]
           /\ pc' \in InPass \cup {"send", "sent", "next", "prefetch", "wait"}
<1>1. PlaceShape'
  BY PlaceInvariant, PTL
<1> QED
  BY <1>1 DEF PlaceShape

---------------------------------------------------------------------------
(* Somebody steps every running sequence. *)

\* Who was covered by the list, by the chunker or by a prefill still is.
LEMMA CoveredStep ==
    ASSUME DecodeBatchAssumption, Frame, Frame', Flow, Steps
    PROVE  Covered'
<1>0. Covered /\ Joined /\ ChunkOwned /\ DecodeWhole /\ AllLive /\ LongAlone /\ Shapes
  BY DEF Flow, Frame
<1> DEFINE Stepped1(s) == \/ \E i \in DOMAIN running : running[i] = s
                          \/ chunk.seq = s
                          \/ \E q \in DOMAIN queue : queue[q].lane = "prefill" /\ \E i \in DOMAIN queue[q].rows : queue[q].rows[i].seq = s
           Stepped2(s) == \/ \E i \in DOMAIN running' : running'[i] = s
                          \/ chunk'.seq = s
                          \/ \E q \in DOMAIN queue' : queue'[q].lane = "prefill" /\ \E i \in DOMAIN queue'[q].rows : queue'[q].rows[i].seq = s
<1>a. \A s \in Running : Stepped1(s)
  BY <1>0 DEF Covered, Listed, Has, RowsOf
<1> SUFFICES ASSUME NEW s \in Running' PROVE Stepped2(s)
  BY DEF Covered, Listed, Has, RowsOf
<1>b. s \in Seqs /\ status'[s] = "RUNNING" /\ s \in Active'
  BY DEF Running, Active, WithStatus
<1>c. Running \subseteq Active /\ Active \subseteq Seqs /\ Gone \notin Seqs
  BY DEF Active, Running, WithStatus, DecodeBatchAssumption
<1>1. CASE MildStep
  BY <1>a, <1>b, <1>1 DEF MildStep, workVars
<1>2. ASSUME NEW e \in Seqs, EndStep(e) PROVE Stepped2(s)
  <2>1. s # e /\ s \in Running
    BY <1>b, <1>2 DEF EndStep, Running, WithStatus
  <2>2. CASE \E i \in DOMAIN running : running[i] = s
    <3>1. PICK i \in DOMAIN running : running[i] = s
      BY <2>2
    <3>2. running'[i] = s
      BY <1>2, <2>1, <3>1 DEF EndStep, Ghost
    <3>3. i \in DOMAIN running'
      BY <1>2, <3>1 DEF EndStep, Frame, Shapes, MakerShape
    <3> QED
      BY <3>2, <3>3
  <2>3. CASE chunk.seq = s
    <3>1. chunk' = [chunk EXCEPT !.seq = Ghost(e, chunk.seq)]
      BY <1>2, <1>b, <2>1, <2>3 DEF EndStep
    <3>2. chunk \in [seq : Slots, step : Int]
      BY DEF Frame, Shapes, MakerShape
    <3> QED
      BY <2>1, <2>3, <3>1, <3>2 DEF Ghost
  <2>4. CASE \E q \in DOMAIN queue : queue[q].lane = "prefill" /\ \E i \in DOMAIN queue[q].rows : queue[q].rows[i].seq = s
    <3>0. PICK q \in DOMAIN queue : queue[q].lane = "prefill" /\ \E i \in DOMAIN queue[q].rows : queue[q].rows[i].seq = s
      BY <2>4
    <3>1. PICK i \in DOMAIN queue[q].rows : queue[q].lane = "prefill" /\ queue[q].rows[i].seq = s
      BY <3>0
    <3>2. /\ q \in DOMAIN queue' /\ queue'[q].lane = "prefill" /\ i \in DOMAIN queue'[q].rows
          /\ queue'[q].rows[i].seq = Ghost(e, s)
      BY <1>2, <3>1, EndQueue, SMTT(30)
    <3> QED
      BY <2>1, <3>2 DEF Ghost
  <2> QED
    BY <1>a, <2>1, <2>2, <2>3, <2>4
<1>3. CASE BeginStep
  BY <1>a, <1>b, <1>3 DEF BeginStep, workVars, seqVars, Running, WithStatus
<1>4. CASE QuietStep
  BY <1>a, <1>b, <1>4 DEF QuietStep, workVars, seqVars, Running, WithStatus
<1>5. CASE PageStep
  BY <1>a, <1>b, <1>5 DEF PageStep, workVars, makerVars
<1>6. CASE Sends
  <2>0. s \in Running
    BY <1>6, SendFacts DEF Running, WithStatus
  <2>1. PICK f : SentPrefill(f) \/ SentChunk(f) \/ SentDecode(f)
    BY <1>6, SendKinds
  <2>2. Sent(f)
    BY <2>1 DEF SentPrefill, SentChunk, SentDecode
  <2>3. /\ DOMAIN queue' = DOMAIN queue \cup {Len(queue) + 1} /\ queue'[Len(queue) + 1] = f
        /\ \A q \in DOMAIN queue : queue'[q] = queue[q]
    BY <2>2, SentFacts
  <2>4. CASE \E q \in DOMAIN queue : queue[q].lane = "prefill" /\ \E i \in DOMAIN queue[q].rows : queue[q].rows[i].seq = s
    BY <2>3, <2>4
  <2>5. CASE \E i \in DOMAIN running : running[i] = s
    <3>1. CASE running' = running
      BY <2>5, <3>1
    <3>2. CASE SentPrefill(f)
      <4>1. running' = [i \in DOMAIN ValidPositions |-> running[ValidPositions[i]]]
        BY <3>2 DEF SentPrefill
      <4> QED
        BY <2>0, <2>5, <4>1, ValidListed DEF Listed
    <3> QED
      BY <2>1, <3>1, <3>2 DEF SentChunk, SentDecode
  <2>6. CASE chunk.seq = s
    <3>1. CASE chunk' = chunk
      BY <2>6, <3>1
    <3>2. CASE SentPrefill(f) /\ chunk' # chunk
      <4>1. DOMAIN f.rows = {1} /\ f.rows[1].seq = s /\ f.lane = "prefill"
        BY <2>6, <3>2, PrefillRows DEF SentPrefill
      <4> QED
        BY <2>3, <4>1
    <3>3. CASE SentChunk(f) /\ chunk' # chunk
      <4>1. pc = "admit" /\ turn.batch # <<>> /\ IsLong(turn.batch[1])
        BY <3>3 DEF SentChunk
      <4>2. chunk.seq \notin Seqs
        BY <1>0, <4>1 DEF LongAlone
      <4> QED
        BY <1>b, <2>6, <4>2
    <3> QED
      BY <2>1, <3>1, <3>2, <3>3 DEF SentDecode
  <2> QED
    BY <1>a, <2>0, <2>4, <2>5, <2>6
<1>7. CASE ActivateStep
  <2>1. /\ queue' = queue /\ running' = ListAfter /\ chunk'.seq = chunk.seq /\ Len(queue) = 1
        /\ 1 \in DOMAIN queue /\ queue[1] = Head1 /\ pc \in {"sent", "next"}
    BY <1>7 DEF ActivateStep, workVars
  <2>2. Unstarted = {Head1}
    BY <2>1, PlaceFacts
  <2>3. queue # <<>>
    BY <2>1
  <2>4. Joining \in Seq(Slots) /\ running \in Seq(Slots)
    BY <1>0, <2>3, JoiningFacts DEF Shapes, MakerShape
  <2>5. CASE Head1.lane = "prefill" /\ Has(Head1, s)
    BY <2>1, <2>5 DEF Has, RowsOf
  <2>6. CASE s \in Running /\ ~Has(Head1, s)
    <3>1. CASE \E i \in DOMAIN running : running[i] = s
      <4>1. Head1.lane # "decode"
        BY <1>0, <2>2, <2>6, <3>1 DEF DecodeWhole, Listed
      <4>2. running' = running \/ running' = running \o Joining
        BY <2>1, <4>1 DEF ListAfter
      <4>3. PICK i \in DOMAIN running : running[i] = s
        BY <3>1
      <4>4. i \in DOMAIN (running \o Joining) /\ (running \o Joining)[i] = s
        BY <2>4, <4>3, ConcatOf
      <4> QED
        BY <4>2, <4>3, <4>4
    <3>2. CASE chunk.seq = s
      BY <2>1, <3>2
    <3>3. CASE \E q \in DOMAIN queue : queue[q].lane = "prefill" /\ \E i \in DOMAIN queue[q].rows : queue[q].rows[i].seq = s
      BY <2>1, <3>3
    <3> QED
      BY <1>a, <2>6, <3>1, <3>2, <3>3
  <2>7. CASE Has(Head1, s) /\ Head1.lane = "decode"
    <3>1. running' = [i \in RowsOf(Head1) |-> SeqAt(i)]
      BY <2>1, <2>7 DEF ListAfter
    <3> QED
      BY <2>7, <3>1 DEF Has, SeqAt
  <2>8. CASE Has(Head1, s) /\ Head1.lane = "chunk"
    <3>1. s \in Active
      BY <1>7, <1>b DEF ActivateStep, Active, Running, WithStatus
    <3>2. s = chunk.seq
      BY <1>0, <2>2, <2>8, <3>1 DEF ChunkOwned, Has
    <3> QED
      BY <2>1, <3>2
  <2>9. s \in Running \/ Has(Head1, s)
    BY <1>7, <1>b DEF ActivateStep, Running, WithStatus
  <2>10. Head1.lane \in {"prefill", "decode", "chunk"}
    BY <1>0, <2>1, RowsTyped
  <2> QED
    BY <2>5, <2>6, <2>7, <2>8, <2>9, <2>10
<1>8. CASE CollectStep
  <2>1. /\ s \in Running /\ running' = running /\ queue' = Tail(queue) /\ queue # <<>> /\ pc = "wait"
        /\ Takes(s) => Generates(s)
    BY <1>8 DEF CollectStep
  <2>2. CASE \E i \in DOMAIN running : running[i] = s
    BY <2>1, <2>2
  <2>3. CASE chunk.seq = s
    BY <1>8, <1>b, <2>3 DEF CollectStep
  <2>4. CASE \E q \in DOMAIN queue : queue[q].lane = "prefill" /\ \E i \in DOMAIN queue[q].rows : queue[q].rows[i].seq = s
    <3>0. PICK q \in DOMAIN queue : queue[q].lane = "prefill" /\ \E i \in DOMAIN queue[q].rows : queue[q].rows[i].seq = s
      BY <2>4
    <3>1. PICK i \in DOMAIN queue[q].rows : queue[q].lane = "prefill" /\ queue[q].rows[i].seq = s
      BY <3>0
    <3>2. CASE q # 1
      <4>1. q - 1 \in DOMAIN Tail(queue) /\ Tail(queue)[q - 1] = queue[q]
        BY <2>1, <3>1, <3>2, TailOf, PlaceFacts
      <4> QED
        BY <2>1, <3>1, <4>1
    <3>3. CASE q = 1
      <4>1. Head1.lane = "prefill" /\ i \in RowsOf(Head1) /\ SeqAt(i) = s
        BY <3>1, <3>3 DEF Head1, RowsOf, SeqAt
      <4>2. Takes(s)
        BY <2>1, <4>1 DEF Takes
      <4>3. kind[s] = "generate"
        BY <2>1, <4>1, <4>2 DEF Generates
      <4>4. Head1.rows[i].gen
        BY <1>0, <1>b, <3>1, <3>3, <4>1, <4>3 DEF AllLive, Head1, RowsOf
      <4>5. Started
        BY <2>1, PlaceFacts
      <4>6. Listed(s)
        BY <1>0, <2>1, <4>1, <4>4, <4>5 DEF Joined
      <4> QED
        BY <2>1, <4>6 DEF Listed
    <3> QED
      BY <3>2, <3>3
  <2> QED
    BY <1>a, <2>1, <2>2, <2>3, <2>4
<1> QED
  BY <1>1, <1>2, <1>3, <1>4, <1>5, <1>6, <1>7, <1>8 DEF Steps

\* Nobody is named who has ended.
LEMMA AllLiveStep ==
    ASSUME DecodeBatchAssumption, Frame, Frame', Flow, Steps
    PROVE  AllLive'
<1>0. AllLive /\ LongAlone /\ Shapes /\ Gone \notin Seqs /\ NoChunk.seq = Gone
  BY DEF Flow, Frame, DecodeBatchAssumption, NoChunk
<1> DEFINE Alive(t) == t \in Seqs => status'[t] # "none"
           Told(f) == \A i \in DOMAIN f.rows :
                        /\ Alive(f.rows[i].seq)
                        /\ f.lane = "prefill" /\ f.rows[i].seq \in Seqs => f.rows[i].gen = (kind'[f.rows[i].seq] = "generate")
<1>a. SUFFICES /\ Alive(chunk'.seq) /\ \A i \in DOMAIN running' : Alive(running'[i])
               /\ \A q \in DOMAIN queue' : Told(queue'[q])
  <2>1. (\A q \in DOMAIN queue' : Told(queue'[q])) =>
          \A q \in DOMAIN queue' : \A i \in DOMAIN queue'[q].rows :
            /\ queue'[q].rows[i].seq \in Seqs => status'[queue'[q].rows[i].seq] # "none"
            /\ queue'[q].lane = "prefill" /\ queue'[q].rows[i].seq \in Seqs =>
                 queue'[q].rows[i].gen = (kind'[queue'[q].rows[i].seq] = "generate")
    OBVIOUS
  <2>2. AllLive' <=> /\ chunk'.seq \in Seqs => status'[chunk'.seq] # "none"
                     /\ \A i \in DOMAIN running' : running'[i] \in Seqs => status'[running'[i]] # "none"
                     /\ \A q \in DOMAIN queue' : \A i \in DOMAIN queue'[q].rows :
                          /\ queue'[q].rows[i].seq \in Seqs => status'[queue'[q].rows[i].seq] # "none"
                          /\ queue'[q].lane = "prefill" /\ queue'[q].rows[i].seq \in Seqs =>
                               queue'[q].rows[i].gen = (kind'[queue'[q].rows[i].seq] = "generate")
    BY DEF AllLive, Live, RowsOf
  <2> QED
    BY <2>1, <2>2
<1>b. /\ chunk.seq \in Seqs => status[chunk.seq] # "none"
      /\ \A i \in DOMAIN running : running[i] \in Seqs => status[running[i]] # "none"
      /\ \A q \in DOMAIN queue : \A i \in DOMAIN queue[q].rows :
           /\ queue[q].rows[i].seq \in Seqs => status[queue[q].rows[i].seq] # "none"
           /\ queue[q].lane = "prefill" /\ queue[q].rows[i].seq \in Seqs =>
                queue[q].rows[i].gen = (kind[queue[q].rows[i].seq] = "generate")
  <2>1. chunk.seq \in Seqs => status[chunk.seq] # "none"
    BY <1>0 DEF AllLive, Live
  <2>2. \A i \in DOMAIN running : running[i] \in Seqs => status[running[i]] # "none"
    BY <1>0 DEF AllLive, Live
  <2>3. ASSUME NEW q \in DOMAIN queue, NEW i \in DOMAIN queue[q].rows
        PROVE  /\ queue[q].rows[i].seq \in Seqs => status[queue[q].rows[i].seq] # "none"
               /\ queue[q].lane = "prefill" /\ queue[q].rows[i].seq \in Seqs =>
                    queue[q].rows[i].gen = (kind[queue[q].rows[i].seq] = "generate")
    BY <1>0 DEF AllLive, Live, RowsOf
  <2> QED
    BY <2>1, <2>2, <2>3
\* What suffices when nobody but those who leave the engine ends.
<1>c. ASSUME \A t \in Seqs : status[t] # "none" => status'[t] # "none" /\ kind'[t] = kind[t]
      PROVE  /\ \A i \in DOMAIN running : Alive(running[i])
             /\ Alive(chunk.seq) /\ \A q \in DOMAIN queue : Told(queue[q])
  BY <1>b, <1>c
<1>1. CASE MildStep
  BY <1>0, <1>c, <1>1 DEF MildStep, workVars
<1>2. ASSUME NEW e \in Seqs, EndStep(e)
      PROVE  /\ Alive(chunk'.seq) /\ \A i \in DOMAIN running' : Alive(running'[i])
             /\ \A q \in DOMAIN queue' : Told(queue'[q])
  <2>1. \A t : Ghost(e, t) \in Seqs => t # e /\ Ghost(e, t) = t
    BY <1>0 DEF Ghost
  <2>2. \A t \in Seqs : t # e => status'[t] = status[t] /\ kind'[t] = kind[t]
    BY <1>2 DEF EndStep
  <2>3. ASSUME NEW i \in DOMAIN running' PROVE Alive(running'[i])
    <3>1. i \in DOMAIN running /\ running'[i] = Ghost(e, running[i])
      BY <1>2 DEF EndStep, Frame, Shapes, MakerShape
    <3> QED
      BY <1>b, <2>1, <2>2, <3>1
  <2>4. Alive(chunk'.seq)
    <3>1. chunk'.seq = Ghost(e, chunk.seq) \/ chunk'.seq = Gone
      BY <1>0, <1>2 DEF EndStep, Shapes, MakerShape
    <3> QED
      BY <1>0, <1>b, <2>1, <2>2, <3>1
  <2>5. ASSUME NEW q \in DOMAIN queue', NEW i \in DOMAIN queue'[q].rows
        PROVE  /\ Alive(queue'[q].rows[i].seq)
               /\ queue'[q].lane = "prefill" /\ queue'[q].rows[i].seq \in Seqs =>
                    queue'[q].rows[i].gen = (kind'[queue'[q].rows[i].seq] = "generate")
    <3>1. /\ q \in DOMAIN queue /\ i \in DOMAIN queue[q].rows /\ queue'[q].lane = queue[q].lane
          /\ queue'[q].rows[i].seq = Ghost(e, queue[q].rows[i].seq)
          /\ queue'[q].rows[i].gen = queue[q].rows[i].gen
      BY <1>2, EndQueue
    <3> QED
      BY <1>b, <2>1, <2>2, <3>1
  <2> QED
    BY <2>3, <2>4, <2>5
<1>3. CASE BeginStep
  BY <1>0, <1>c, <1>3 DEF BeginStep, workVars, seqVars
<1>4. CASE QuietStep
  BY <1>c, <1>4 DEF QuietStep, workVars, seqVars
<1>5. CASE PageStep
  BY <1>c, <1>5 DEF PageStep, workVars, makerVars
<1>6. CASE Sends
  <2>1. PICK f : SentPrefill(f) \/ SentChunk(f) \/ SentDecode(f)
    BY <1>6, SendKinds
  <2>2. Sent(f) /\ status' = status /\ kind' = kind
    BY <1>6, <2>1, SendFacts DEF SentPrefill, SentChunk, SentDecode
  <2>3. /\ DOMAIN queue' = DOMAIN queue \cup {Len(queue) + 1} /\ queue'[Len(queue) + 1] = f
        /\ \A q \in DOMAIN queue : queue'[q] = queue[q]
    BY <2>2, SentFacts
  <2>4. /\ \A i \in DOMAIN running : Alive(running[i])
        /\ Alive(chunk.seq) /\ \A q \in DOMAIN queue : Told(queue[q])
    BY <1>c, <2>2
  <2>5. pc = "admit" => \A i \in DOMAIN turn.batch : turn.batch[i] \in Seqs /\ status[turn.batch[i]] = "READY"
    <3>1. turn.batch \in Seq(Seqs)
      BY DEF Frame, Shapes, TurnShape, TurnSet
    <3> QED
      BY <1>0, <3>1 DEF LongAlone
  <2>6. CASE SentPrefill(f)
    <3>1. running' = [i \in DOMAIN ValidPositions |-> running[ValidPositions[i]]]
      BY <2>6 DEF SentPrefill
    <3>2. \A i \in DOMAIN running' : \E j \in DOMAIN running : running'[i] = running[j]
      BY <3>1, ValidListed DEF Listed
    <3>3. chunk'.seq = chunk.seq \/ chunk'.seq = Gone
      BY <1>0, <2>6, PrefillRows
    <3>4. Told(f)
      <4>1. \A i \in DOMAIN f.rows : f.rows[i].seq \in Seqs /\ f.rows[i].gen = (kind[f.rows[i].seq] = "generate")
        BY <2>6, PrefillRows
      <4>2. \A i \in DOMAIN f.rows : status[f.rows[i].seq] # "none"
        BY <1>b, <2>5, <2>6, PrefillRows
      <4> QED
        BY <2>2, <4>1, <4>2
    <3> QED
      BY <1>0, <2>3, <2>4, <3>2, <3>3, <3>4
  <2>7. CASE SentChunk(f)
    <3>1. running' = running /\ chunk'.seq \in Seqs /\ f.lane = "chunk"
      BY <2>7 DEF SentChunk
    <3>2. Alive(chunk'.seq)
      <4>1. CASE chunk' = chunk
        BY <2>4, <4>1
      <4>2. CASE pc = "admit" /\ turn.batch # <<>> /\ chunk'.seq = turn.batch[1]
        <5>1. turn.batch \in Seq(Seqs)
          BY DEF Frame, Shapes, TurnShape, TurnSet
        <5>2. 1 \in DOMAIN turn.batch
          BY <4>2, <5>1
        <5> QED
          BY <2>2, <2>5, <4>2, <5>2
      <4> QED
        BY <2>7, <4>1, <4>2 DEF SentChunk
    <3>3. Told(f)
      BY <2>7, <3>1, <3>2, ChunkRows
    <3> QED
      BY <2>3, <2>4, <3>1, <3>2, <3>3
  <2>8. CASE SentDecode(f)
    <3>1. running' = running /\ chunk' = chunk /\ f.lane = "decode"
      BY <2>8 DEF SentDecode
    <3>2. Told(f)
      BY <2>4, <2>8, <3>1, DecodeRows
    <3> QED
      BY <2>3, <2>4, <3>1, <3>2
  <2> QED
    BY <2>1, <2>6, <2>7, <2>8
<1>7. CASE ActivateStep
  <2>1. /\ queue' = queue /\ running' = ListAfter /\ chunk'.seq = chunk.seq /\ Len(queue) = 1
        /\ 1 \in DOMAIN queue /\ queue[1] = Head1 /\ kind' = kind
    BY <1>7 DEF ActivateStep, workVars
  <2>2. \A t \in Seqs : status[t] # "none" => status'[t] # "none"
    BY <1>7 DEF ActivateStep
  <2>3. /\ \A i \in DOMAIN running : Alive(running[i])
        /\ Alive(chunk.seq) /\ \A q \in DOMAIN queue : Told(queue[q])
    BY <1>c, <2>1, <2>2
  <2>4. Joining \in Seq(Slots) /\ running \in Seq(Slots)
        /\ \A j \in DOMAIN Joining : \E i \in RowsOf(Head1) : SeqAt(i) = Joining[j]
    <3>1. queue # <<>>
      BY <2>1, PlaceFacts
    <3>2. Joining \in Seq(Slots) /\ \A j \in DOMAIN Joining : \E i \in RowsOf(Head1) : SeqAt(i) = Joining[j]
      BY <1>0, <3>1, JoiningFacts
    <3>3. running \in Seq(Slots)
      BY <1>0 DEF Shapes, MakerShape
    <3> QED
      BY <3>2, <3>3
  <2>5. \A i \in RowsOf(Head1) : Alive(SeqAt(i))
    <3>1. Told(Head1)
      <4> HIDE DEF Told
      <4> QED
        BY <2>1, <2>3
    <3> SUFFICES ASSUME NEW i \in RowsOf(Head1) PROVE Alive(SeqAt(i))
      OBVIOUS
    <3>2. i \in DOMAIN Head1.rows /\ SeqAt(i) = Head1.rows[i].seq
      BY DEF RowsOf, SeqAt
    <3>3. Alive(Head1.rows[i].seq)
      BY <3>1, <3>2
    <3> QED
      BY <3>2, <3>3
  <2>6. \A i \in DOMAIN (running \o Joining) : \/ i \in DOMAIN running /\ (running \o Joining)[i] = running[i]
                                               \/ i - Len(running) \in DOMAIN Joining
                                                  /\ (running \o Joining)[i] = Joining[i - Len(running)]
    BY <2>4, ConcatOf
  <2>7. \A i \in DOMAIN (running \o Joining) : Alive((running \o Joining)[i])
    <3> SUFFICES ASSUME NEW i \in DOMAIN (running \o Joining) PROVE Alive((running \o Joining)[i])
      OBVIOUS
    <3>1. CASE i \in DOMAIN running /\ (running \o Joining)[i] = running[i]
      BY <2>3, <3>1
    <3>2. CASE i - Len(running) \in DOMAIN Joining /\ (running \o Joining)[i] = Joining[i - Len(running)]
      <4>1. PICK j \in RowsOf(Head1) : SeqAt(j) = Joining[i - Len(running)]
        BY <2>4, <3>2
      <4> QED
        BY <2>5, <3>2, <4>1
    <3> QED
      BY <2>6, <3>1, <3>2
  <2>8. \A i \in DOMAIN running' : Alive(running'[i])
    <3>1. CASE running' = running \o Joining
      BY <2>7, <3>1
    <3>2. CASE running' = running
      BY <2>3, <3>2
    <3>3. CASE running' = [i \in RowsOf(Head1) |-> SeqAt(i)]
      BY <2>5, <3>3
    <3> QED
      BY <2>1, <3>1, <3>2, <3>3 DEF ListAfter
  <2> QED
    BY <2>1, <2>3, <2>8
<1>8. CASE CollectStep
  <2>1. /\ running' = running /\ queue' = Tail(queue) /\ queue # <<>> /\ kind' = kind
        /\ chunk' = chunk \/ chunk' = NoChunk
        /\ \A t \in Seqs : status[t] # "none" => status'[t] # "none"
    BY <1>8 DEF CollectStep
  <2>2. /\ \A i \in DOMAIN running : Alive(running[i])
        /\ Alive(chunk.seq) /\ \A q \in DOMAIN queue : Told(queue[q])
    BY <1>c, <2>1
  <2>3. \A q \in DOMAIN queue' : q + 1 \in DOMAIN queue /\ queue'[q] = queue[q + 1]
    BY <2>1, TailOf, PlaceFacts
  <2>4. \A q \in DOMAIN queue' : Told(queue'[q])
    <3> HIDE DEF Told
    <3> QED
      BY <2>2, <2>3
  <2> QED
    BY <1>0, <2>1, <2>2, <2>4
<1> QED
  BY <1>1, <1>2, <1>3, <1>4, <1>5, <1>6, <1>7, <1>8 DEF Steps

---------------------------------------------------------------------------
(* How the started and the unstarted forwards change. *)

LEMMA GhostedQueue ==
    ASSUME Frame, NEW e \in Seqs, EndStep(e)
    PROVE  DOMAIN queue' = DOMAIN queue /\ \A q \in DOMAIN queue : Ghosted(e, queue[q], queue'[q])
  BY EndQueue DEF Ghosted

LEMMA UnstartedSteps ==
    ASSUME DecodeBatchAssumption, Frame, Frame'
    PROVE  /\ MildStep => Unstarted' = Unstarted
           /\ BeginStep \/ QuietStep \/ PageStep \/ ActivateStep => Unstarted' = {}
           /\ \A f : Sends /\ Sent(f) => Unstarted' = {f}
           /\ CollectStep => Unstarted' \subseteq Unstarted
           /\ \A e \in Seqs : EndStep(e) => \A g \in Unstarted' : \E f \in Unstarted : Ghosted(e, f, g)
<1>1. MildStep => Unstarted' = Unstarted
  BY DEF MildStep, Unstarted, workVars
<1>2. ASSUME BeginStep \/ QuietStep \/ PageStep \/ ActivateStep PROVE Unstarted' = {}
  <2>1. CASE pc' \in InPass \cup {"send", "prefetch"}
    BY <2>1, PlaceNext
  <2>2. CASE QuietStep /\ pc' = NothingSent
    <3>1. queue' = queue /\ Len(queue) <= 1 /\ Len(queue) \in Nat /\ (queue = <<>> <=> Len(queue) = 0)
      BY <2>2, PlaceFacts DEF QuietStep, workVars
    <3>2. CASE queue = <<>>
      BY <2>2, <3>2, PlaceNext DEF NothingSent
    <3>3. CASE queue # <<>>
      <4>1. Len(queue') = 1
        <5>1. \A n \in Nat : n <= 1 /\ n # 0 => n = 1
          OBVIOUS
        <5>2. Len(queue) = 1
          BY <3>1, <3>3, <5>1, Zenon
        <5> QED
          BY <3>1, <5>2
      <4>2. pc' = "wait"
        BY <2>2, <3>3 DEF NothingSent
      <4> QED
        BY <4>1, <4>2, PlaceNext
    <3> QED
      BY <3>2, <3>3
  <2> QED
    BY <1>2, <2>1, <2>2 DEF BeginStep, QuietStep, PageStep, ActivateStep, InPass
<1>3. ASSUME NEW f, Sends, Sent(f) PROVE Unstarted' = {f}
  <2>1. /\ Len(queue') = Len(queue) + 1 /\ queue'[Len(queue) + 1] = f
        /\ pc' = IF queue = <<>> THEN "sent" ELSE "wait"
    BY <1>3, SentFacts
  <2>2. Len(queue) \in Nat /\ (queue = <<>> <=> Len(queue) = 0) /\ Len(queue) <= 1
    BY <1>3, PlaceFacts, SendFacts
  <2>3. CASE queue = <<>>
    <3>1. pc' = "sent" /\ queue'[1] = f
      BY <2>1, <2>2, <2>3
    <3> QED
      BY <3>1, PlaceNext
  <2>4. CASE queue # <<>>
    <3>1. pc' = "wait" /\ Len(queue') = 2 /\ queue'[2] = f
      BY <2>1, <2>2, <2>4
    <3> QED
      BY <3>1, PlaceNext
  <2> QED
    BY <2>3, <2>4
<1>4. ASSUME CollectStep PROVE Unstarted' \subseteq Unstarted
  <2>1. pc = "wait" /\ queue # <<>> /\ queue' = Tail(queue) /\ pc' = (IF Len(queue) = 1 THEN "send" ELSE "next")
    BY <1>4 DEF CollectStep
  <2>2. /\ Len(queue) \in Nat /\ Len(queue) <= 2 /\ (queue = <<>> <=> Len(queue) = 0)
        /\ queue \in Seq(ForwardSet)
        /\ Len(queue) = 2 => Unstarted = {queue[2]}
    BY <2>1, PlaceFacts
  <2>3. CASE Len(queue) = 1
    BY <2>1, <2>3, PlaceNext
  <2>4. CASE Len(queue) = 2
    <3>1. pc' = "next"
      BY <2>1, <2>4
    <3>2. 2 \in DOMAIN queue /\ 2 # 1
      BY <2>2, <2>4
    <3>3. 2 - 1 = 1
      OBVIOUS
    <3>4. Tail(queue)[2 - 1] = queue[2]
      BY <2>1, <2>2, <3>2, TailOf
    <3>5. queue'[1] = queue[2]
      BY <2>1, <3>3, <3>4
    <3> QED
      BY <2>2, <2>4, <3>1, <3>5, PlaceNext
  <2>5. Len(queue) = 1 \/ Len(queue) = 2
    <3>1. \A n \in Nat : n <= 2 /\ n # 0 => n = 1 \/ n = 2
      OBVIOUS
    <3> QED
      BY <2>1, <2>2, <3>1, Zenon
  <2> QED
    BY <2>3, <2>4, <2>5
<1>5. ASSUME NEW e \in Seqs, EndStep(e), NEW g \in Unstarted' PROVE \E f \in Unstarted : Ghosted(e, f, g)
  <2>1. /\ pc' = pc /\ Len(queue') = Len(queue) /\ DOMAIN queue' = DOMAIN queue
        /\ \A q \in DOMAIN queue : Ghosted(e, queue[q], queue'[q])
    BY <1>5, GhostedQueue, EndQueue DEF EndStep
  <2>2. g = queue'[Len(queue)] /\ Unstarted = {queue[Len(queue)]}
    BY <1>5, <2>1 DEF Unstarted
  <2>3. Len(queue) \in DOMAIN queue
    <3>1. (pc \in {"sent", "next"} \/ Len(queue) = 2)
      BY <1>5, <2>1 DEF Unstarted
    <3>2. DOMAIN queue = 1..Len(queue) /\ (pc \in {"sent", "next"} => Len(queue) = 1)
      BY PlaceFacts
    <3> QED
      BY <3>1, <3>2
  <2> QED
    BY <2>1, <2>2, <2>3
<1> QED
  BY <1>1, <1>2, <1>3, <1>4, <1>5

LEMMA StartedSteps ==
    ASSUME DecodeBatchAssumption, Frame, Frame'
    PROVE  /\ Started => 1 \in DOMAIN queue
           /\ MildStep \/ BeginStep \/ QuietStep \/ PageStep => (Started' <=> Started) /\ Head1' = Head1
           /\ \A f : Sends /\ Sent(f) => (Started' <=> Started) /\ (Started => Head1' = Head1)
           /\ ActivateStep => Started' /\ ~Started /\ Head1' = Head1 /\ Unstarted = {Head1}
           /\ CollectStep => Started /\ ~Started'
           /\ \A e \in Seqs : EndStep(e) => (Started' <=> Started) /\ (Started => Ghosted(e, Head1, Head1'))
<1>0. Len(queue) \in Nat /\ (queue = <<>> <=> Len(queue) = 0) /\ DOMAIN queue = 1..Len(queue)
  BY PlaceFacts
<1>1. queue # <<>> => 1 \in DOMAIN queue
  BY <1>0
<1>2. ASSUME MildStep \/ BeginStep \/ QuietStep \/ PageStep
      PROVE  (Started' <=> Started) /\ Head1' = Head1
  <2>1. queue' = queue
    BY <1>2 DEF MildStep, BeginStep, QuietStep, PageStep, workVars
  <2>2. pc' \in {"sent", "next"} <=> pc \in {"sent", "next"}
    BY <1>2 DEF MildStep, BeginStep, QuietStep, PageStep, InPass, NothingSent
  <2> QED
    BY <2>1, <2>2 DEF Started, Head1
<1>3. ASSUME NEW f, Sends, Sent(f)
      PROVE  (Started' <=> Started) /\ (Started => Head1' = Head1)
  <2>1. /\ Len(queue') = Len(queue) + 1 /\ \A q \in DOMAIN queue : queue'[q] = queue[q]
        /\ pc' = IF queue = <<>> THEN "sent" ELSE "wait"
    BY <1>3, SentFacts
  <2>2. pc \in InPass
    BY <1>3, SendFacts
  <2>3. Started => 1 \in DOMAIN queue
    BY <1>1 DEF Started
  <2>4. Started <=> queue # <<>>
    BY <2>2, PlaceFacts
  <2>5. Started' <=> queue # <<>>
    <3>1. CASE queue = <<>>
      BY <2>1, <3>1 DEF Started
    <3>2. CASE queue # <<>>
      BY <2>1, <3>2, PlaceNext
    <3> QED
      BY <3>1, <3>2
  <2> QED
    BY <2>1, <2>3, <2>4, <2>5 DEF Head1
<1>4. ASSUME ActivateStep PROVE Started' /\ ~Started /\ Head1' = Head1 /\ Unstarted = {Head1}
  <2>1. queue' = queue /\ pc \in {"sent", "next"} /\ pc' = "prefetch" /\ 1 \in DOMAIN queue
    BY <1>4 DEF ActivateStep, workVars
  <2>2. queue # <<>>
    BY <1>0, <2>1
  <2>3. Unstarted = {Head1} /\ ~Started
    BY <2>1, PlaceFacts DEF Head1
  <2> QED
    BY <2>1, <2>2, <2>3 DEF Started, Head1
<1>5. ASSUME CollectStep PROVE Started /\ ~Started'
  <2>1. pc = "wait" /\ pc' = (IF Len(queue) = 1 THEN "send" ELSE "next")
    BY <1>5 DEF CollectStep
  <2>2. CASE pc' = "next"
    BY <2>1, <2>2, PlaceFacts DEF Started
  <2>3. CASE pc' = "send"
    <3>1. queue' = <<>>
      BY <2>3 DEF Frame, QueueShape
    <3> QED
      BY <2>1, <3>1, PlaceFacts DEF Started
  <2> QED
    BY <2>1, <2>2, <2>3
<1>6. ASSUME NEW e \in Seqs, EndStep(e)
      PROVE  (Started' <=> Started) /\ (Started => Ghosted(e, Head1, Head1'))
  <2>1. /\ pc' = pc /\ (queue = <<>> <=> queue' = <<>>)
        /\ \A q \in DOMAIN queue : Ghosted(e, queue[q], queue'[q])
    BY <1>6, EndQueue, GhostedQueue DEF EndStep
  <2> QED
    BY <1>1, <2>1 DEF Started, Head1
<1> QED
  BY <1>1, <1>2, <1>3, <1>4, <1>5, <1>6 DEF Started

---------------------------------------------------------------------------
(* Whoever generates joins the list; chunks and decodes that wait to start. *)

LEMMA RunningSteps ==
    ASSUME DecodeBatchAssumption, Frame
    PROVE  /\ Running \subseteq Active /\ Active \subseteq Seqs /\ Gone \notin Seqs /\ NoChunk.seq = Gone
           /\ MildStep \/ PageStep \/ CollectStep => Running' \subseteq Running
           /\ BeginStep \/ QuietStep \/ Sends => Running' = Running /\ Active' = Active
           /\ \A e \in Seqs : EndStep(e) => Running' = Running \ {e} /\ Active' = Active \ {e}
<1>1. Running \subseteq Active /\ Active \subseteq Seqs /\ Gone \notin Seqs /\ NoChunk.seq = Gone
  BY DEF Active, Running, WithStatus, DecodeBatchAssumption, NoChunk
<1>2. MildStep \/ PageStep \/ CollectStep => Running' \subseteq Running
  BY DEF MildStep, PageStep, CollectStep
<1>3. BeginStep \/ QuietStep \/ Sends => status' = status
  BY SendFacts DEF BeginStep, QuietStep, seqVars
<1>4. status' = status => Running' = Running /\ Active' = Active
  BY DEF Running, Active, WithStatus
<1>5. ASSUME NEW e \in Seqs, EndStep(e) PROVE Running' = Running \ {e} /\ Active' = Active \ {e}
  BY <1>5 DEF EndStep, Running, Active, WithStatus
<1> QED
  BY <1>1, <1>2, <1>3, <1>4, <1>5

\* Who is on the list and runs stays on it, except that a decode replaces it.
LEMMA ListSteps ==
    ASSUME DecodeBatchAssumption, Frame
    PROVE  /\ MildStep \/ BeginStep \/ QuietStep \/ PageStep \/ CollectStep => running' = running
           /\ \A e \in Seqs : EndStep(e) => \A s \in Seqs : s # e => (Listed(s)' <=> Listed(s))
           /\ \A f : SentPrefill(f) => \A s \in Running : Listed(s)' <=> Listed(s)
           /\ \A f : SentChunk(f) \/ SentDecode(f) => running' = running
<1>1. MildStep \/ BeginStep \/ QuietStep \/ PageStep \/ CollectStep => running' = running
  BY DEF MildStep, BeginStep, QuietStep, PageStep, CollectStep, makerVars
<1>2. ASSUME NEW e \in Seqs, EndStep(e), NEW s \in Seqs, s # e PROVE Listed(s)' <=> Listed(s)
  <2>1. DOMAIN running' = DOMAIN running /\ \A i \in DOMAIN running : running'[i] = Ghost(e, running[i])
    BY <1>2 DEF EndStep, Frame, Shapes, MakerShape
  <2>2. \A t : Ghost(e, t) = s <=> t = s
    BY <1>2 DEF Ghost, DecodeBatchAssumption
  <2> QED
    BY <2>1, <2>2 DEF Listed
<1>3. ASSUME NEW f, SentPrefill(f), NEW s \in Running PROVE Listed(s)' <=> Listed(s)
  <2>1. running' = [i \in DOMAIN ValidPositions |-> running[ValidPositions[i]]]
    BY <1>3 DEF SentPrefill
  <2> QED
    BY <2>1, ValidListed DEF Listed
<1> QED
  BY <1>1, <1>2, <1>3 DEF SentChunk, SentDecode

LEMMA JoinedStep ==
    ASSUME DecodeBatchAssumption, Frame, Frame', Flow, Steps
    PROVE  Joined'
<1>0. Joined /\ Shapes
  BY DEF Flow, Frame
<1> SUFFICES ASSUME Started', Head1'.lane = "prefill", NEW i \in DOMAIN Head1'.rows, NEW s \in Running',
                    s = Head1'.rows[i].seq, Head1'.rows[i].gen
             PROVE  Listed(s)'
  BY DEF Joined, RowsOf, SeqAt, Listed
<1>a. ASSUME Started, Head1' = Head1, Running' \subseteq Running
      PROVE  Listed(s) /\ s \in Running
  BY <1>0, <1>a DEF Joined, RowsOf, SeqAt
<1>1. CASE MildStep \/ PageStep \/ BeginStep \/ QuietStep
  <2>1. Started /\ Head1' = Head1 /\ Running' \subseteq Running /\ running' = running
    BY <1>1, StartedSteps, RunningSteps, ListSteps
  <2> QED
    BY <1>a, <2>1 DEF Listed
<1>2. ASSUME NEW e \in Seqs, EndStep(e) PROVE Listed(s)'
  <2>1. Started /\ Ghosted(e, Head1, Head1') /\ s \in Running /\ s # e /\ s \in Seqs
    BY <1>2, StartedSteps, RunningSteps
  <2>2. i \in DOMAIN Head1.rows /\ Head1.lane = "prefill" /\ Head1.rows[i].gen
        /\ s = Ghost(e, Head1.rows[i].seq)
    BY <2>1 DEF Ghosted
  <2>3. Head1.rows[i].seq = s
    BY <2>1, <2>2 DEF Ghost, DecodeBatchAssumption
  <2>4. Listed(s)
    BY <1>0, <2>1, <2>2, <2>3 DEF Joined, RowsOf, SeqAt
  <2> QED
    BY <1>2, <2>1, <2>4, ListSteps
<1>6. CASE Sends
  <2>1. PICK f : SentPrefill(f) \/ SentChunk(f) \/ SentDecode(f)
    BY <1>6, SendKinds
  <2>2. Sent(f)
    BY <2>1 DEF SentPrefill, SentChunk, SentDecode
  <2>3. Started /\ Head1' = Head1 /\ Running' = Running
    BY <1>6, <2>2, StartedSteps, RunningSteps
  <2>4. Listed(s) /\ s \in Running
    BY <1>a, <2>3
  <2> QED
    BY <2>1, <2>4, ListSteps DEF Listed
<1>7. CASE ActivateStep
  <2>1. Head1' = Head1 /\ queue # <<>> /\ running' = ListAfter /\ running \in Seq(Slots)
    BY <1>0, <1>7, StartedSteps, PlaceFacts DEF ActivateStep, Shapes, MakerShape
  <2>2. running' = running \o Joining
    BY <2>1 DEF ListAfter
  <2>3. Joining \in Seq(Slots) /\ \E j \in DOMAIN Joining : Joining[j] = s
    BY <1>0, <2>1, JoiningFacts DEF RowsOf, SeqAt
  <2>4. \E k \in DOMAIN (running \o Joining) : (running \o Joining)[k] = s
    <3> DEFINE J == Joining
               R == running
    <3>1. J \in Seq(Slots) /\ R \in Seq(Slots) /\ \E j \in DOMAIN J : J[j] = s
      BY <2>1, <2>3
    <3> HIDE DEF J, R
    <3>2. PICK j \in DOMAIN J : J[j] = s
      BY <3>1
    <3>3. Len(R) + j \in DOMAIN (R \o J) /\ (R \o J)[Len(R) + j] = J[j]
      BY <3>1, ConcatOf, SMTT(30)
    <3>4. \E k \in DOMAIN (R \o J) : (R \o J)[k] = s
      BY <3>2, <3>3
    <3> QED
      BY <3>4 DEF R, J
  <2> QED
    BY <2>2, <2>4 DEF Listed
<1>8. CASE CollectStep
  BY <1>8, StartedSteps
<1> QED
  BY <1>1, <1>2, <1>6, <1>7, <1>8 DEF Steps

LEMMA ChunkOwnedStep ==
    ASSUME DecodeBatchAssumption, Frame, Frame', Flow, Steps
    PROVE  ChunkOwned'
<1>0. ChunkOwned /\ Shapes
  BY DEF Flow, Frame
<1> SUFFICES ASSUME NEW g \in Unstarted', g.lane = "chunk", NEW i \in DOMAIN g.rows,
                    g.rows[i].seq \in Active'
             PROVE  g.rows[i].seq = chunk'.seq
  BY DEF ChunkOwned, RowsOf
<1>a. \A f \in Unstarted : f.lane = "chunk" => \A j \in DOMAIN f.rows :
        f.rows[j].seq \in Active => f.rows[j].seq = chunk.seq
  BY <1>0 DEF ChunkOwned, RowsOf
<1>1. CASE MildStep \/ CollectStep
  <2>1. /\ g \in Unstarted /\ Active' \subseteq Active
        /\ chunk' = chunk \/ (chunk' = NoChunk /\ chunk.seq \notin Active')
    BY <1>1, UnstartedSteps DEF MildStep, CollectStep
  <2> QED
    BY <1>a, <2>1
<1>2. ASSUME NEW e \in Seqs, EndStep(e) PROVE g.rows[i].seq = chunk'.seq
  <2>1. PICK f \in Unstarted : Ghosted(e, f, g)
    BY <1>2, UnstartedSteps
  <2>2. /\ Active' = Active \ {e} /\ Active \subseteq Seqs /\ Gone \notin Seqs
        /\ chunk \in [seq : Slots, step : Int]
        /\ \/ chunk' = [chunk EXCEPT !.seq = Ghost(e, chunk.seq)]
           \/ chunk' = NoChunk /\ (chunk.seq \notin Active' \/ chunk.seq = e)
    BY <1>0, <1>2, RunningSteps DEF EndStep, Shapes, MakerShape
  <2>3. /\ f.lane = "chunk" /\ i \in DOMAIN f.rows /\ g.rows[i].seq = Ghost(e, f.rows[i].seq)
    BY <2>1 DEF Ghosted
  <2>4. f.rows[i].seq # e /\ g.rows[i].seq = f.rows[i].seq
    BY <2>2, <2>3 DEF Ghost
  <2>5. chunk.seq = g.rows[i].seq /\ chunk.seq # e
    BY <1>a, <2>2, <2>3, <2>4
  <2> QED
    BY <2>2, <2>5 DEF Ghost
<1>3. CASE BeginStep \/ QuietStep \/ PageStep \/ ActivateStep
  BY <1>3, UnstartedSteps
<1>6. CASE Sends
  <2>1. PICK f : SentPrefill(f) \/ SentChunk(f) \/ SentDecode(f)
    BY <1>6, SendKinds
  <2>2. Sent(f)
    BY <2>1 DEF SentPrefill, SentChunk, SentDecode
  <2>3. g = f
    BY <1>6, <2>2, UnstartedSteps
  <2>4. SentChunk(f)
    BY <2>1, <2>3 DEF SentPrefill, SentDecode
  <2> QED
    BY <2>3, <2>4, ChunkRows
<1> QED
  BY <1>1, <1>2, <1>3, <1>6 DEF Steps

LEMMA DecodeWholeStep ==
    ASSUME DecodeBatchAssumption, Frame, Frame', Flow, Steps
    PROVE  DecodeWhole'
<1>0. DecodeWhole /\ Shapes /\ Tried
  BY DEF Flow, Frame
<1> SUFFICES ASSUME NEW g \in Unstarted', g.lane = "decode", NEW s \in Running', Listed(s)'
             PROVE  \E i \in DOMAIN g.rows : g.rows[i].seq = s
  BY DEF DecodeWhole, RowsOf, Has
<1>a. \A f \in Unstarted : f.lane = "decode" => \A t \in Running :
        Listed(t) => \E i \in DOMAIN f.rows : f.rows[i].seq = t
  BY <1>0 DEF DecodeWhole, RowsOf, Has
<1>1. CASE MildStep \/ CollectStep
  <2>1. g \in Unstarted /\ Running' \subseteq Running /\ running' = running
    BY <1>1, UnstartedSteps, RunningSteps, ListSteps
  <2>2. Listed(s)
    BY <2>1 DEF Listed
  <2> QED
    BY <1>a, <2>1, <2>2
<1>2. ASSUME NEW e \in Seqs, EndStep(e) PROVE \E i \in DOMAIN g.rows : g.rows[i].seq = s
  <2>1. PICK f \in Unstarted : Ghosted(e, f, g)
    BY <1>2, UnstartedSteps
  <2>2. s \in Running /\ s \in Seqs /\ s # e
    BY <1>2, RunningSteps
  <2>3. Listed(s)
    BY <1>2, <2>2, ListSteps
  <2>4. PICK i \in DOMAIN f.rows : f.rows[i].seq = s
    BY <1>a, <2>1, <2>2, <2>3 DEF Ghosted
  <2>5. i \in DOMAIN g.rows /\ g.rows[i].seq = Ghost(e, f.rows[i].seq)
    BY <2>1, <2>4 DEF Ghosted
  <2>6. g.rows[i].seq = s
    BY <2>2, <2>4, <2>5 DEF Ghost
  <2> QED
    BY <2>5, <2>6
<1>3. CASE BeginStep \/ QuietStep \/ PageStep \/ ActivateStep
  BY <1>3, UnstartedSteps
<1>6. CASE Sends
  <2>1. PICK f : SentPrefill(f) \/ SentChunk(f) \/ SentDecode(f)
    BY <1>6, SendKinds
  <2>2. Sent(f)
    BY <2>1 DEF SentPrefill, SentChunk, SentDecode
  <2>3. g = f
    BY <1>6, <2>2, UnstartedSteps
  <2>4. SentDecode(f)
    BY <2>1, <2>3 DEF SentPrefill, SentChunk
  <2>5. pc = "grow" /\ turn.left = 0 /\ running' = running /\ running \in Seq(Slots) /\ Running' = Running
    BY <1>0, <1>6, <2>4, RunningSteps DEF SentDecode, Shapes, MakerShape
  <2>6. PICK p \in DOMAIN running : running[p] = s
    BY <2>5 DEF Listed
  <2>7. ~(p <= turn.left)
    BY <2>5, <2>6
  <2>8. PICK j \in DOMAIN turn.keep : turn.keep[j] = p
    BY <1>0, <2>5, <2>6, <2>7 DEF Tried
  <2>9. j \in DOMAIN f.rows /\ f.rows[j].seq = s
    BY <2>4, <2>6, <2>8, DecodeRows
  <2> QED
    BY <2>3, <2>9
<1> QED
  BY <1>1, <1>2, <1>3, <1>6 DEF Steps

---------------------------------------------------------------------------
(* What a pass has tried, and what it leaves behind. *)

LEMMA NextParts ==
    ASSUME DecodeBatchAssumption, Frame, Next
    PROVE  /\ \/ Quiet \/ Pages \/ BeginStep \/ Sends
              \/ MildStep \/ (\E e \in Seqs : EndStep(e)) \/ ActivateStep \/ CollectStep
           /\ Quiet => QuietStep
           /\ Pages => PageStep
<1>1. CASE Client
  BY <1>1, MildFacts, EndFacts, QuietFacts, PageFacts DEF Client
<1>2. CASE Pass
  <2>1. Pass => BeginPass \/ Quiet \/ Pages \/ Sends
    BY DEF Pass, Quiet, Pages, Sends
  <2> QED
    BY <1>2, <2>1, BeginFacts, QuietFacts, PageFacts
<1>3. CASE Loop
  BY <1>3, ActivateFacts, CollectFacts, QuietFacts, PageFacts DEF Loop
<1> QED
  BY <1>1, <1>2, <1>3 DEF Next, Engine

\* The steps that are no part of a pass, and the sends, leave it or are outside.
LEMMA OutsidePass ==
    ASSUME Frame, MildStep \/ (\E e \in Seqs : EndStep(e)) \/ ActivateStep \/ CollectStep \/ Sends,
           DecodeBatchAssumption
    PROVE  pc' \notin InPass
<1>1. CASE Sends
  <2>1. PICK f : Sent(f)
    BY <1>1, SendFacts
  <2> QED
    BY <2>1 DEF Sent, Dispatch, InPass
<1> QED
  BY <1>1 DEF MildStep, EndStep, ActivateStep, CollectStep, InPass, Await

LEMMA KeptGrows ==
    ASSUME Frame, pc = "grow", turn.left > 0, KeptOf(turn), NEW t,
           t = [turn EXCEPT !.left = turn.left - 1, !.keep = <<turn.left>> \o @]
    PROVE  KeptOf(t)
<1>1. /\ t.left = turn.left - 1 /\ DOMAIN t.keep = 1..(Len(turn.keep) + 1) /\ t.keep[1] = turn.left
      /\ \A j \in DOMAIN turn.keep : t.keep[j + 1] = turn.keep[j]
  BY KeepFacts
<1>2. /\ turn.keep \in Seq(Nat) /\ turn.left \in Nat /\ running \in Seq(Slots)
  BY DEF Frame, Shapes, TurnShape, TurnSet, MakerShape
<1> SUFFICES ASSUME NEW i \in DOMAIN running, running[i] \in Running
             PROVE  i <= t.left \/ \E j \in DOMAIN t.keep : t.keep[j] = i
  BY DEF KeptOf
<1>3. i \in Nat
  BY <1>2
<1>4. CASE i <= turn.left /\ i # turn.left
  BY <1>1, <1>2, <1>3, <1>4
<1>5. CASE i = turn.left
  <2>1. 1 \in DOMAIN t.keep
    BY <1>1, <1>2
  <2> QED
    BY <1>1, <1>5, <2>1
<1>6. CASE \E j \in DOMAIN turn.keep : turn.keep[j] = i
  <2>1. PICK j \in DOMAIN turn.keep : turn.keep[j] = i
    BY <1>6
  <2>2. j + 1 \in DOMAIN t.keep
    BY <1>1, <1>2, <2>1
  <2> QED
    BY <1>1, <2>1, <2>2
<1> QED
  BY <1>4, <1>5, <1>6 DEF KeptOf

LEMMA KeptShrinks ==
    ASSUME Frame, pc = "grow", turn.left > 0, KeptOf(turn), NEW t,
           t = [turn EXCEPT !.left = turn.left - 1]
    PROVE  \A i \in DOMAIN running : running[i] \in Running =>
             i = turn.left \/ i <= t.left \/ \E j \in DOMAIN t.keep : t.keep[j] = i
<1>1. /\ turn.keep \in Seq(Nat) /\ turn.left \in Nat /\ running \in Seq(Slots) /\ turn \in TurnSet
  BY DEF Frame, Shapes, TurnShape, TurnSet, MakerShape
<1>2. t.left = turn.left - 1 /\ t.keep = turn.keep
  BY <1>1 DEF TurnSet
<1> SUFFICES ASSUME NEW i \in DOMAIN running, running[i] \in Running, i # turn.left
             PROVE  i <= t.left \/ \E j \in DOMAIN t.keep : t.keep[j] = i
  OBVIOUS
<1>3. i \in Nat
  BY <1>1
<1>4. CASE i <= turn.left
  BY <1>1, <1>2, <1>3, <1>4
<1> QED
  BY <1>2, <1>4 DEF KeptOf

LEMMA TriedStep ==
    ASSUME DecodeBatchAssumption, Frame, Flow, Next
    PROVE  Tried'
<1>0. /\ Shapes /\ turn \in TurnSet /\ turn.plan \in Seq(Lanes) /\ running \in Seq(Slots) /\ Len(running) \in Nat
      /\ turn.left \in Nat
  BY DEF Frame, Shapes, TurnShape, TurnSet, MakerShape
<1>a. /\ pc = "grow" => KeptOf(turn)
      /\ pc \in {"try", "admit"} /\ ~Plans("decode") => \A s \in Running : ~Listed(s)
  BY DEF Flow, Tried, KeptOf
<1>b. pc' \notin InPass => Tried'
  BY DEF Tried, InPass
\* In the prefill and chunk lanes the decode lane is only looked forward to.
<1>c. ASSUME pc \in {"try", "admit"}, pc' \in {"try", "admit"}, running' = running,
             Running' \subseteq Running, Plans("decode") => Plans("decode")'
      PROVE  Tried'
  BY <1>a, <1>c DEF Tried, Listed
<1>d. ASSUME turn'.plan = turn.plan PROVE Plans("decode") => Plans("decode")'
  BY <1>d DEF Plans
<1>e. ASSUME turn.plan # <<>>, turn'.plan = Tail(turn.plan), Head(turn.plan) # "decode"
      PROVE  Plans("decode") => Plans("decode")'
  <2>1. Plans("decode") => \E i \in DOMAIN Tail(turn.plan) : Tail(turn.plan)[i] = "decode"
    BY <1>e, PlanFacts
  <2> QED
    BY <1>e, <2>1 DEF Plans
<1>f. ASSUME pc' = "grow", running' = running, Running' \subseteq Running,
             \A i \in DOMAIN running : running[i] \in Running' =>
               i <= turn'.left \/ \E j \in DOMAIN turn'.keep : turn'.keep[j] = i
      PROVE  Tried'
  BY <1>f DEF Tried
<1>1. CASE BeginStep
  BY <1>1 DEF BeginStep, Tried, Plans
<1>2. CASE MildStep \/ (\E e \in Seqs : EndStep(e)) \/ ActivateStep \/ CollectStep \/ Sends
  BY <1>b, <1>2, OutsidePass
<1>3. CASE Quiet
  <2>0. running' = running /\ Running' = Running
    <3>1. QuietStep
      BY <1>3, QuietFacts
    <3> QED
      BY <3>1, RunningSteps DEF QuietStep
  <2>1. CASE EndPass
    <3>1. pc' \in {"send", "wait"}
      BY <2>1 DEF EndPass, NothingSent
    <3> QED
      BY <1>b, <3>1 DEF InPass
  <2>2. CASE EnterPrefill
    <3>1. PICK lane \in {"all", "short", "long"}, S \in SUBSET Seqs : EnterLane(lane, S)
      BY <2>2 DEF EnterPrefill, Longs, Waiting, WithStatus
    <3>2. /\ pc = "try" /\ pc' = "admit" /\ turn.plan # <<>> /\ Head(turn.plan) # "decode"
          /\ \E todo : turn' = [NoTurn EXCEPT !.plan = Tail(turn.plan), !.lane = lane, !.todo = todo]
      BY <3>1 DEF EnterLane
    <3>3. turn'.plan = Tail(turn.plan)
      BY <3>2 DEF NoTurn
    <3> QED
      BY <1>c, <1>e, <2>0, <3>2, <3>3
  <2>3. CASE NothingAdmitted
    <3>1. pc = "admit" /\ pc' = "try" /\ turn' = [NoTurn EXCEPT !.plan = turn.plan]
      BY <2>3 DEF NothingAdmitted, Admitted
    <3>2. turn'.plan = turn.plan
      BY <3>1 DEF NoTurn
    <3> QED
      BY <1>c, <1>d, <2>0, <3>1, <3>2
  <2>4. CASE \E s \in Seqs : PassOver(s)
    <3>1. pc = "admit" /\ pc' = pc /\ \E todo : turn' = [turn EXCEPT !.todo = todo]
      BY <2>4 DEF PassOver, Candidate
    <3>2. turn'.plan = turn.plan
      BY <1>0, <3>1 DEF TurnSet
    <3> QED
      BY <1>c, <1>d, <2>0, <3>1, <3>2
  <2>5. CASE EnterDecode
    <3>1. CASE running = <<>>
      <4>1. pc' = pc /\ pc = "try"
        BY <2>5, <3>1 DEF EnterDecode
      <4> QED
        BY <2>0, <3>1, <4>1 DEF Tried, Listed
    <3>2. CASE running # <<>>
      <4>1. /\ turn' = [NoTurn EXCEPT !.plan = Tail(turn.plan), !.lane = "decode", !.left = Len(running)]
            /\ pc' = "grow"
        BY <2>5, <3>2 DEF EnterDecode
      <4>2. turn'.left = Len(running)
        BY <4>1 DEF NoTurn
      <4>3. \A i \in DOMAIN running : i <= turn'.left
        BY <1>0, <4>2
      <4> QED
        BY <1>f, <2>0, <4>1, <4>3
    <3> QED
      BY <3>1, <3>2
  <2>6. CASE DropStopped
    <3>1. /\ pc = "grow" /\ pc' = pc /\ turn.left > 0 /\ running[turn.left] \notin Running
          /\ turn' = [turn EXCEPT !.left = turn.left - 1]
      BY <2>6 DEF DropStopped, Drop
    <3>2. \A i \in DOMAIN running : running[i] \in Running =>
             i = turn.left \/ i <= turn'.left \/ \E j \in DOMAIN turn'.keep : turn'.keep[j] = i
      BY <1>a, <3>1, KeptShrinks
    <3> QED
      BY <1>f, <2>0, <3>1, <3>2
  <2>7. CASE KeepRow
    <3>1. /\ pc = "grow" /\ pc' = pc /\ turn.left > 0
          /\ turn' = [turn EXCEPT !.left = turn.left - 1, !.keep = <<turn.left>> \o @]
      BY <2>7 DEF KeepRow, Keep
    <3>2. KeptOf(turn')
      BY <1>a, <3>1, KeptGrows
    <3> QED
      BY <1>f, <2>0, <3>1, <3>2 DEF KeptOf
  <2>8. CASE NoDecode
    <3>1. pc = "grow" /\ pc' = "try" /\ turn.left = 0 /\ turn.keep = <<>>
      BY <2>8 DEF NoDecode
    <3>2. \A i \in DOMAIN running : running[i] \notin Running
      <4> SUFFICES ASSUME NEW i \in DOMAIN running, running[i] \in Running PROVE FALSE
        OBVIOUS
      <4>1. ~(i <= 0)
        BY <1>0
      <4> QED
        BY <1>a, <3>1, <4>1 DEF KeptOf
    <3> QED
      BY <2>0, <3>1, <3>2 DEF Tried, Listed
  <2> QED
    BY <1>3, <2>1, <2>2, <2>3, <2>4, <2>5, <2>6, <2>7, <2>8 DEF Quiet
<1>4. CASE Pages
  <2>0. /\ running' = running /\ Running' \subseteq Running
    <3>1. PageStep
      BY <1>4, PageFacts
    <3> QED
      BY <3>1 DEF PageStep, makerVars
  <2>1. CASE \E s \in Seqs : Admit(s) \/ NoRoomPrefill(s)
    <3>1. pc = "admit" /\ pc' = pc
      BY <2>1 DEF Admit, NoRoomPrefill, Candidate
    <3>2. turn'.plan = turn.plan
      <4>1. PICK s \in Seqs : Admit(s) \/ NoRoomPrefill(s)
        BY <2>1
      <4>2. CASE Admit(s)
        <5>1. turn' = [turn EXCEPT !.todo = IF IsLong(s) THEN <<>> ELSE Tail(@),
                                   !.batch = Append(@, s),
                                   !.used = @ + Cost(s)]
          BY <4>2 DEF Admit
        <5> QED
          BY <1>0, <5>1 DEF TurnSet
      <4>3. CASE NoRoomPrefill(s)
        <5>1. turn' = [turn EXCEPT !.todo = <<>>]
          BY <4>3 DEF NoRoomPrefill
        <5> QED
          BY <1>0, <5>1 DEF TurnSet
      <4> QED
        BY <4>1, <4>2, <4>3
    <3> QED
      BY <1>c, <1>d, <2>0, <3>1, <3>2
  <2>2. CASE NoRoomChunk
    <3>1. /\ pc = "try" /\ pc' = pc /\ turn.plan # <<>> /\ Head(turn.plan) # "decode"
          /\ turn' = [turn EXCEPT !.plan = Tail(turn.plan)]
      BY <2>2 DEF NoRoomChunk, TryChunk
    <3>2. turn'.plan = Tail(turn.plan)
      BY <1>0, <3>1 DEF TurnSet
    <3> QED
      BY <1>c, <1>e, <2>0, <3>1, <3>2
  <2>3. CASE GrowRow
    <3>1. pc = "grow" /\ pc' = pc /\ turn.left > 0 /\ running[turn.left] \in Running
      BY <2>3 DEF GrowRow
    <3>2. CASE Keep(turn.left)
      <4>1. KeptOf(turn')
        BY <1>a, <3>1, <3>2, KeptGrows DEF Keep
      <4> QED
        BY <1>f, <2>0, <3>1, <4>1 DEF KeptOf
    <3>3. CASE Drop(turn.left) /\ status' = [status EXCEPT ![running[turn.left]] = "WAITING"]
      <4>1. \A i \in DOMAIN running : running[i] \in Running =>
               i = turn.left \/ i <= turn'.left \/ \E j \in DOMAIN turn'.keep : turn'.keep[j] = i
        BY <1>a, <3>1, <3>3, KeptShrinks DEF Drop
      <4>2. running[turn.left] \notin Running'
        <5>1. status \in [Seqs -> Statuses]
          BY <1>0 DEF Shapes, SeqShape
        <5> QED
          BY <3>1, <3>3, <5>1 DEF Running, WithStatus
      <4>3. \A i \in DOMAIN running : running[i] \in Running' =>
               i <= turn'.left \/ \E j \in DOMAIN turn'.keep : turn'.keep[j] = i
        BY <2>0, <4>1, <4>2
      <4> QED
        BY <1>f, <2>0, <3>1, <4>3
    <3> QED
      BY <2>3, <3>2, <3>3 DEF GrowRow
  <2> QED
    BY <1>4, <2>1, <2>2, <2>3 DEF Pages
<1> QED
  BY <1>1, <1>2, <1>3, <1>4, NextParts


LEMMA LongAloneStep ==
    ASSUME DecodeBatchAssumption, Frame, Flow, Next
    PROVE  LongAlone'
<1>0. /\ Shapes /\ turn \in TurnSet /\ turn.plan \in Seq(Lanes) /\ turn.todo \in Seq(Seqs)
      /\ turn.batch \in Seq(Seqs) /\ LongAlone /\ Gone \notin Seqs /\ NoChunk.seq = Gone
      /\ chunk \in [seq : Slots, step : Int]
  BY DEF Frame, Flow, Shapes, TurnShape, TurnSet, DecodeBatchAssumption, NoChunk, MakerShape
<1> DEFINE Apart == turn'.lane = "long" \/ Plans("long")' => chunk'.seq \notin Seqs
<1>a. Apart /\ pc' # "admit" => LongAlone'
  BY DEF LongAlone
<1>b. ASSUME chunk'.seq \in Seqs => chunk.seq \in Seqs,
             turn'.lane = "long" => turn.lane = "long" \/ Plans("long"), Plans("long")' => Plans("long")
      PROVE  Apart
  BY <1>0, <1>b DEF LongAlone
<1>c. ASSUME turn' = turn, chunk'.seq \in Seqs => chunk.seq \in Seqs
      PROVE  Apart
  BY <1>b, <1>c DEF Plans
<1>1. CASE BeginStep
  <2>1. Apart /\ pc' = "try"
    BY <1>1 DEF BeginStep, Plans
  <2> QED
    BY <1>a, <2>1
<1>2. CASE MildStep \/ (\E e \in Seqs : EndStep(e)) \/ ActivateStep \/ CollectStep
  <2>1. pc' # "admit"
    BY <1>2, OutsidePass DEF InPass
  <2>2. turn' = turn
    BY <1>2 DEF MildStep, EndStep, ActivateStep, CollectStep
  <2>3. CASE MildStep \/ ActivateStep \/ CollectStep
    <3>1. chunk'.seq \in Seqs => chunk.seq \in Seqs
      BY <1>0, <2>3 DEF MildStep, ActivateStep, CollectStep
    <3> QED
      BY <1>a, <1>c, <2>1, <2>2, <3>1
  <2>4. ASSUME NEW e \in Seqs, EndStep(e) PROVE LongAlone'
    <3>1. chunk'.seq \in Seqs => chunk.seq \in Seqs
      BY <1>0, <2>4 DEF EndStep, Ghost
    <3> QED
      BY <1>a, <1>c, <2>1, <2>2, <3>1
  <2> QED
    BY <1>2, <2>3, <2>4
<1>3. CASE Sends
  <2>1. PICK f : Sent(f)
    BY <1>3, SendFacts
  <2>2. turn' = NoTurn /\ pc' \notin InPass
    BY <1>3, <2>1, OutsidePass DEF Sent, Dispatch
  <2>3. Apart
    BY <2>2 DEF NoTurn, Plans
  <2> QED
    BY <1>a, <2>2, <2>3 DEF InPass
<1>4. CASE Quiet
  <2>0. QuietStep
    BY <1>4, QuietFacts
  <2>1. chunk' = chunk /\ (Plans("long")' => Plans("long"))
    BY <2>0 DEF QuietStep
  <2>2. CASE EnterPrefill
    <3>1. PICK lane \in {"all", "short", "long"}, S \in SUBSET Seqs :
            EnterLane(lane, S) /\ (lane # "long" => S = Waiting \ Longs)
      <4>1. /\ Waiting \ Longs \in SUBSET Seqs /\ \A s \in Longs : {s} \in SUBSET Seqs
        BY DEF Longs, Waiting, WithStatus
      <4> QED
        BY <2>2, <4>1 DEF EnterPrefill
    <3>2. PICK todo \in Orders(lane, S) :
            turn' = [NoTurn EXCEPT !.plan = Tail(turn.plan), !.lane = lane, !.todo = todo]
      BY <3>1 DEF EnterLane
    <3>3. turn.plan # <<>> /\ Head(turn.plan) = lane
      BY <3>1 DEF EnterLane
    <3>4. turn'.lane = lane /\ turn'.todo = todo /\ turn'.batch = <<>>
      BY <3>2 DEF NoTurn
    <3>5. Apart
      BY <1>b, <2>0, <3>3, <3>4, PlanFacts DEF QuietStep
    <3>6. lane # "long" => \A i \in DOMAIN todo : ~IsLong(todo[i])
      <4>1. todo \in [1..Cardinality(S) -> S]
        BY <3>2 DEF Orders
      <4>2. lane # "long" => \A s \in S : ~IsLong(s)
        BY <3>1 DEF Longs
      <4> QED
        BY <4>1, <4>2
    <3>7. \A s : IsLong(s)' <=> IsLong(s)
      BY <2>0 DEF QuietStep, seqVars, IsLong, NumTokens
    <3> QED
      BY <3>1, <3>4, <3>5, <3>6, <3>7 DEF LongAlone
  <2>3. CASE \E s \in Seqs : PassOver(s)
    <3>1. /\ pc = "admit" /\ turn.batch # <<>> /\ \E todo : turn' = [turn EXCEPT !.todo = todo]
          /\ UNCHANGED seqVars
      BY <2>3 DEF PassOver, Candidate, OverBudget
    <3>2. turn'.plan = turn.plan /\ turn'.lane = turn.lane /\ turn'.batch = turn.batch
      BY <1>0, <3>1 DEF TurnSet
    <3>3. Apart
      <4>1. chunk'.seq \in Seqs => chunk.seq \in Seqs
        BY <2>1
      <4>2. turn'.lane = "long" => turn.lane = "long" \/ Plans("long")
        BY <3>2
      <4>3. Plans("long")' => Plans("long")
        BY <2>1
      <4> HIDE DEF Apart
      <4> QED
        BY <1>b, <4>1, <4>2, <4>3
    <3>4. \A s : IsLong(s)' <=> IsLong(s)
      BY <3>1 DEF seqVars, IsLong, NumTokens
    <3>5. status' = status
      BY <3>1 DEF seqVars
    <3> QED
      BY <1>0, <3>1, <3>2, <3>3, <3>4, <3>5 DEF LongAlone
  <2>4. CASE EndPass \/ NothingAdmitted \/ EnterDecode \/ DropStopped \/ KeepRow \/ NoDecode
    <3>1. pc' # "admit"
      BY <2>4 DEF EndPass, NothingAdmitted, EnterDecode, DropStopped, KeepRow, NoDecode, NothingSent
    <3>2. turn'.lane = "long" => turn.lane = "long"
      <4>1. CASE EndPass
        BY <4>1 DEF EndPass, NoTurn
      <4>2. CASE NothingAdmitted
        BY <4>2 DEF NothingAdmitted, NoTurn
      <4>3. CASE EnterDecode
        <5>1. CASE running = <<>>
          BY <1>0, <4>3, <5>1 DEF EnterDecode, TurnSet
        <5>2. CASE running # <<>>
          BY <4>3, <5>2 DEF EnterDecode, NoTurn
        <5> QED
          BY <5>1, <5>2
      <4>4. CASE DropStopped \/ KeepRow
        BY <1>0, <4>4 DEF DropStopped, KeepRow, Keep, Drop, TurnSet
      <4>5. CASE NoDecode
        BY <4>5 DEF NoDecode, NoTurn
      <4> QED
        BY <2>4, <4>1, <4>2, <4>3, <4>4, <4>5
    <3> QED
      BY <1>a, <1>b, <2>0, <3>1, <3>2 DEF QuietStep
  <2> QED
    BY <1>4, <2>2, <2>3, <2>4 DEF Quiet
<1>5. CASE Pages
  <2>0. PageStep
    BY <1>5, PageFacts
  <2>1. chunk' = chunk /\ len' = len /\ pc' = pc
    BY <2>0 DEF PageStep, makerVars
  <2>2. \A s \in Seqs : hist'[s] = hist[s] => (IsLong(s)' <=> IsLong(s))
    BY <2>1 DEF IsLong, NumTokens
  <2>3. ASSUME NEW s \in Seqs, Admit(s) PROVE LongAlone'
    <3>1. /\ turn' = [turn EXCEPT !.todo = IF IsLong(s) THEN <<>> ELSE Tail(@),
                                  !.batch = Append(@, s),
                                  !.used = @ + Cost(s)]
          /\ status' = [status EXCEPT ![s] = "READY"] /\ pc = "admit"
          /\ turn.todo # <<>> /\ s = Head(turn.todo)
          /\ Allocate(s, KvLimit(s), Prealloced(KvLimit(s)))
      BY <2>3 DEF Admit, Candidate
    <3>2. turn'.plan = turn.plan /\ turn'.lane = turn.lane /\ turn'.batch = Append(turn.batch, s)
      BY <1>0, <3>1 DEF TurnSet
    <3>3. Apart
      BY <1>b, <2>1, <3>2 DEF Plans
    <3>4. hist'[s] = hist[s]
      BY <1>0, <3>1, AskFacts, FrameTypes
    <3>5. \A i \in DOMAIN turn'.batch : status'[turn'.batch[i]] = "READY"
      <4>1. /\ \A i \in DOMAIN turn'.batch : turn'.batch[i] = s \/ (i \in DOMAIN turn.batch /\ turn'.batch[i] = turn.batch[i])
        BY <1>0, <3>2, AppendOf
      <4>2. \A i \in DOMAIN turn.batch : turn.batch[i] \in Seqs /\ status[turn.batch[i]] = "READY"
        BY <1>0, <3>1 DEF LongAlone
      <4>3. status \in [Seqs -> Statuses]
        BY <1>0 DEF Shapes, SeqShape
      <4> QED
        BY <3>1, <4>1, <4>2, <4>3
    <3>6. turn'.batch # <<>>
      BY <1>0, <3>2, SMTT(30)
    <3>b. PICK b : b = turn'.batch[1]
      OBVIOUS
    <3>7. turn.lane # "long" => ~IsLong(b)'
      <4>1. CASE turn.batch = <<>>
        <5>1. turn'.batch[1] = s
          BY <3>2, <4>1
        <5>2. 1 \in DOMAIN turn.todo /\ s = turn.todo[1]
          BY <1>0, <3>1, TailOf
        <5>3. turn.lane # "long" => ~IsLong(s)
          BY <1>0, <3>1, <4>1, <5>2 DEF LongAlone
        <5> QED
          BY <2>2, <3>4, <3>b, <5>1, <5>3
      <4>2. CASE turn.batch # <<>>
        <5>1. 1 \in DOMAIN turn.batch /\ turn'.batch[1] = turn.batch[1]
          BY <1>0, <3>2, <4>2, AppendOf, EmptyOf
        <5>2. turn.batch[1] \in Seqs /\ status[turn.batch[1]] = "READY"
          BY <1>0, <3>1, <5>1 DEF LongAlone
        <5>3. hist'[turn.batch[1]] = hist[turn.batch[1]]
          BY <2>0, <5>2 DEF PageStep
        <5>4. turn.lane # "long" => ~IsLong(turn.batch[1])
          BY <1>0, <3>1, <4>2 DEF LongAlone
        <5> QED
          BY <2>2, <3>b, <5>1, <5>2, <5>3, <5>4
      <4> QED
        BY <4>1, <4>2
    <3> QED
      BY <1>0, <3>1, <3>2, <3>3, <3>5, <3>6, <3>b, <3>7 DEF LongAlone, IsLong, NumTokens
  <2>4. ASSUME NEW s \in Seqs, NoRoomPrefill(s) PROVE LongAlone'
    <3>1. turn' = [turn EXCEPT !.todo = <<>>] /\ status' = status /\ pc = "admit"
      BY <2>4 DEF NoRoomPrefill, Candidate
    <3>2. turn'.plan = turn.plan /\ turn'.lane = turn.lane /\ turn'.batch = turn.batch /\ turn'.todo = <<>>
      BY <1>0, <3>1 DEF TurnSet
    <3>3. Apart
      BY <1>b, <2>1, <3>2 DEF Plans
    <3>b. PICK b : b = turn'.batch[1]
      OBVIOUS
    <3>4. turn.lane # "long" /\ turn.batch # <<>> => ~IsLong(b)'
      <4> SUFFICES ASSUME turn.lane # "long", turn.batch # <<>> PROVE ~IsLong(b)'
        OBVIOUS
      <4>1. 1 \in DOMAIN turn.batch
        BY <1>0, EmptyOf
      <4>2. turn.batch[1] \in Seqs /\ status[turn.batch[1]] = "READY" /\ ~IsLong(turn.batch[1])
        BY <1>0, <3>1, <4>1 DEF LongAlone
      <4>3. hist'[turn.batch[1]] = hist[turn.batch[1]]
        BY <2>0, <4>2 DEF PageStep
      <4> QED
        BY <2>2, <3>b, <3>2, <4>2, <4>3
    <3> QED
      BY <1>0, <3>1, <3>2, <3>3, <3>b, <3>4 DEF LongAlone, IsLong, NumTokens
  <2>5. CASE NoRoomChunk \/ GrowRow
    <3>1. pc' # "admit"
      BY <2>1, <2>5 DEF NoRoomChunk, GrowRow, TryChunk
    <3>2. turn'.lane = turn.lane
      <4>1. NoRoomChunk => turn' = [turn EXCEPT !.plan = Tail(turn.plan)]
        BY DEF NoRoomChunk
      <4>2. \/ turn' = [turn EXCEPT !.plan = Tail(turn.plan)]
            \/ turn' = [turn EXCEPT !.left = turn.left - 1, !.keep = <<turn.left>> \o turn.keep]
            \/ turn' = [turn EXCEPT !.left = turn.left - 1]
        BY <2>5, <4>1 DEF GrowRow, Keep, Drop
      <4> QED
        BY <1>0, <4>2 DEF TurnSet
    <3> QED
      BY <1>a, <1>b, <2>0, <2>1, <3>1, <3>2 DEF PageStep
  <2> QED
    BY <1>5, <2>3, <2>4, <2>5 DEF Pages
<1> QED
  BY <1>1, <1>2, <1>3, <1>4, <1>5, NextParts


LEMMA AtRestStep ==
    ASSUME DecodeBatchAssumption, Frame, Frame', Flow, Next, Steps
    PROVE  AtRest'
<1>0. /\ Shapes /\ AtRest /\ Tried /\ Covered /\ Joined /\ AllLive
      /\ Len(queue) \in Nat /\ (queue = <<>> <=> Len(queue) = 0)
      /\ chunk \in [seq : Slots, step : Int]
  BY PlaceFacts DEF Frame, Flow, Shapes, MakerShape
<1>r. /\ Running \subseteq Seqs /\ Running' \subseteq Seqs /\ Running' \subseteq Active'
      /\ \A s \in Running : status[s] # "none"
  BY DEF Running, Active, WithStatus
<1>a. pc' \notin {"send", "wait"} => AtRest'
  BY DEF AtRest
\* Nobody begins to run, and the chunker stays with whom it has.
<1>b. ASSUME pc' = pc, queue' = queue, Running' \subseteq Running,
             \A s \in Running' : kind'[s] = kind[s] /\ (s = chunk.seq => s = chunk'.seq)
      PROVE  AtRest'
  BY <1>0, <1>b DEF AtRest, Has, RowsOf, Head1
<1>1. CASE MildStep
  <2>1. pc' = pc /\ queue' = queue /\ Running' \subseteq Running
    BY <1>1 DEF MildStep, workVars
  <2>2. \A s \in Running' : kind'[s] = kind[s] /\ (s = chunk.seq => s = chunk'.seq)
    BY <1>r, <1>1, <2>1 DEF MildStep
  <2> QED
    BY <1>b, <2>1, <2>2
<1>2. ASSUME NEW e \in Seqs, EndStep(e) PROVE AtRest'
  <2>1. pc' = pc /\ Len(queue') = Len(queue) /\ Running' = Running \ {e} /\ Active' = Active \ {e}
        /\ DOMAIN queue' = DOMAIN queue
    BY <1>2, EndQueue, RunningSteps DEF EndStep
  <2>2. \A s \in Running' : kind'[s] = kind[s] /\ (s = chunk.seq => s = chunk'.seq)
    <3>1. /\ \A s \in Running' : s # e /\ kind'[s] = kind[s] /\ s \in Active'
          /\ \/ chunk' = [chunk EXCEPT !.seq = Ghost(e, chunk.seq)]
             \/ chunk' = NoChunk /\ (chunk.seq \notin Active' \/ chunk.seq = e)
      BY <1>r, <1>2, <2>1 DEF EndStep
    <3> QED
      BY <1>0, <3>1 DEF Ghost
  <2>3. ASSUME pc = "wait", NEW s \in Running', Has(Head1, s)
        PROVE  Has(Head1, s)' /\ Head1'.lane = Head1.lane
    <3>1. Ghosted(e, Head1, Head1') /\ s # e
      BY <1>2, <2>1, <2>3, PlaceFacts, StartedSteps
    <3>2. PICK i \in DOMAIN Head1.rows : Head1.rows[i].seq = s
      BY <2>3 DEF Has, RowsOf
    <3>3. i \in DOMAIN Head1'.rows /\ Head1'.rows[i].seq = Ghost(e, s) /\ Head1'.lane = Head1.lane
      BY <3>1, <3>2 DEF Ghosted
    <3> QED
      BY <3>1, <3>3 DEF Ghost, Has, RowsOf
  <2> QED
    BY <1>0, <2>1, <2>2, <2>3 DEF AtRest
<1>3. CASE BeginStep
  BY <1>a, <1>3 DEF BeginStep
<1>4. CASE EndPass
  <2>1. /\ pc = "try" /\ turn.plan = <<>> /\ pc' = NothingSent /\ UNCHANGED <<seqVars, makerVars, workVars>>
    BY <1>4 DEF EndPass
  <2>2. \A s \in Running : ~Listed(s)
    BY <1>0, <2>1 DEF Tried, Plans
  <2>3. queue' = queue /\ kind' = kind /\ chunk' = chunk /\ Running' = Running /\ Head1' = Head1
    BY <2>1 DEF seqVars, makerVars, workVars, Running, WithStatus, Head1
  <2>4. \A s \in Running : chunk.seq = s \/ \E q \in DOMAIN queue : queue[q].lane = "prefill" /\ Has(queue[q], s)
    BY <1>0, <2>2 DEF Covered
  <2>5. DOMAIN queue = 1..Len(queue) /\ Len(queue) <= 1 /\ (Started <=> queue # <<>>)
    BY <2>1, PlaceFacts DEF InPass
  <2>6. CASE queue = <<>>
    <3>1. pc' = "send" /\ DOMAIN queue = {}
      BY <2>1, <2>6 DEF NothingSent
    <3>2. \A s \in Running : chunk.seq = s
      BY <2>4, <3>1
    <3> QED
      BY <2>3, <3>1, <3>2 DEF AtRest
  <2>7. CASE queue # <<>>
    <3>1. pc' = "wait" /\ Started
      BY <2>1, <2>5, <2>7 DEF NothingSent
    <3>2. DOMAIN queue = {1}
      BY <1>0, <2>5, <2>7
    <3>3. ASSUME NEW s \in Running, s # chunk.seq
          PROVE  Head1.lane = "prefill" /\ Has(Head1, s) /\ kind[s] # "generate"
      <4>1. Head1.lane = "prefill" /\ Has(Head1, s)
        BY <2>4, <3>2, <3>3 DEF Head1
      <4>2. PICK i \in RowsOf(Head1) : SeqAt(i) = s
        BY <4>1 DEF Has, SeqAt
      <4>3. ~Head1.rows[i].gen
        BY <1>0, <2>2, <3>1, <4>1, <4>2 DEF Joined
      <4>4. Head1.rows[i].gen = (kind[s] = "generate")
        BY <1>0, <1>r, <3>2, <4>1, <4>2 DEF AllLive, Head1, SeqAt
      <4> QED
        BY <4>1, <4>3, <4>4
    <3>4. \A s \in Running' : s = chunk'.seq \/ (Head1'.lane = "prefill" /\ Has(Head1, s)' /\ kind'[s] # "generate")
      BY <2>3, <3>3 DEF Has, RowsOf
    <3> QED
      BY <3>1, <3>4 DEF AtRest
  <2> QED
    BY <2>6, <2>7
<1>5. CASE Quiet /\ ~EndPass
  <2>1. pc' \notin {"send", "wait"}
    <3>1. EnterPrefill => pc' = "admit"
      BY DEF EnterPrefill, EnterLane
    <3>2. NothingAdmitted \/ NoDecode => pc' = "try"
      BY DEF NothingAdmitted, NoDecode
    <3>3. (\E s \in Seqs : PassOver(s)) => pc' = "admit"
      BY DEF PassOver, Candidate
    <3>4. EnterDecode => pc' \in {"try", "grow"}
      BY DEF EnterDecode
    <3>5. DropStopped \/ KeepRow => pc' = "grow"
      BY DEF DropStopped, KeepRow
    <3> QED
      BY <1>5, <3>1, <3>2, <3>3, <3>4, <3>5 DEF Quiet
  <2> QED
    BY <1>a, <2>1
<1>6. CASE PageStep
  BY <1>a, <1>6 DEF PageStep, InPass
<1>7. CASE Sends
  <2>1. PICK f : Sent(f)
    BY <1>7, SendFacts
  <2>2. Len(queue') = Len(queue) + 1 /\ pc' = IF queue = <<>> THEN "sent" ELSE "wait"
    BY <2>1, SentFacts
  <2>3. pc' # "send" /\ (pc' = "wait" => Len(queue') # 1)
    <3>1. \A n \in Nat : n # 0 => n + 1 # 1
      OBVIOUS
    <3>2. queue # <<>> => Len(queue) + 1 # 1
      BY <1>0, <3>1, Zenon
    <3> QED
      BY <2>2, <3>2
  <2> QED
    BY <2>3 DEF AtRest
<1>8. CASE ActivateStep
  BY <1>a, <1>8 DEF ActivateStep
<1>9. CASE CollectStep
  <2>1. /\ pc = "wait" /\ pc' = (IF Len(queue) = 1 THEN "send" ELSE "next") /\ Running' \subseteq Running
        /\ \A t \in Running' : Takes(t) => Generates(t)
        /\ chunk' = chunk \/ (chunk' = NoChunk /\ chunk.seq \notin Active')
    BY <1>9 DEF CollectStep
  <2>2. CASE Len(queue) = 1
    <3> SUFFICES ASSUME NEW s \in Running' PROVE s = chunk'.seq
      BY <2>1, <2>2 DEF AtRest
    <3>1. CASE s = chunk.seq
      BY <1>r, <2>1, <3>1
    <3>2. CASE Head1.lane = "prefill" /\ Has(Head1, s) /\ kind[s] # "generate"
      <4>1. Takes(s) /\ ~Generates(s)
        BY <2>1, <3>2 DEF Takes, Generates, Has, SeqAt
      <4> QED
        BY <2>1, <4>1
    <3> QED
      BY <1>0, <2>1, <2>2, <3>1, <3>2 DEF AtRest
  <2>3. CASE Len(queue) # 1
    BY <1>a, <2>1, <2>3
  <2> QED
    BY <2>2, <2>3
<1> QED
  BY <1>1, <1>2, <1>3, <1>4, <1>5, <1>6, <1>7, <1>8, <1>9, NextParts

---------------------------------------------------------------------------
(* The first invariant. *)

LEMMA FlowStep ==
    ASSUME DecodeBatchAssumption, Frame, Flow, Next
    PROVE  Frame' /\ Flow'
<1>1. Frame' /\ Steps
  BY FrameStep
<1> QED
  BY <1>1, CoveredStep, AllLiveStep, JoinedStep, ChunkOwnedStep, DecodeWholeStep, TriedStep, LongAloneStep,
     AtRestStep DEF Flow


LEMMA FrameInit ==
    ASSUME DecodeBatchAssumption, Init
    PROVE  Frame /\ Flow
<1>1. SeqShape
  BY DEF Init, SeqShape, Statuses
<1>2. MakerShape
  <2>1. /\ running = <<>> /\ toEvict = {} /\ chunk = NoChunk
        /\ afterChunk = FALSE /\ rounds = 0 /\ shorts = 0
    BY DEF Init
  <2>2. NoChunk \in [seq : Slots, step : Int] /\ NoChunk.seq \notin Seqs
    BY DEF NoChunk, Slots, DecodeBatchAssumption
  <2>3. <<>> \in Seq(Slots)
    OBVIOUS
  <2>4. chunk \in [seq : Slots, step : Int] /\ (chunk.seq \in Seqs => chunk.step \in Nat)
    BY <2>1, <2>2
  <2>5. running \in Seq(Slots)
    BY <2>1, <2>3
  <2>6. rounds \in Int /\ shorts \in Int
    BY <2>1
  <2>7. toEvict \subseteq Slots
    BY <2>1
  <2>8. afterChunk \in BOOLEAN
    BY <2>1, Zenon
  <2> QED
    BY <2>4, <2>5, <2>6, <2>7, <2>8 DEF MakerShape
<1>3. WorkShape
  <2>1. queue = <<>> /\ batch = <<>> /\ built = FALSE /\ setup \in Setups
    BY DEF Init
  <2>2. <<>> \in Seq(ForwardSet) /\ <<>> \in Seq(CarriedSet)
    OBVIOUS
  <2> QED
    BY <2>1, <2>2 DEF WorkShape
<1>4. TurnShape
  BY NoTurnType DEF Init, TurnShape
<1>5. pc = "send" /\ queue = <<>> /\ running = <<>> /\ chunk.seq \notin Seqs /\ turn = NoTurn
  BY DEF Init, NoChunk, DecodeBatchAssumption
<1>6. Frame
  BY <1>1, <1>2, <1>3, <1>4, <1>5 DEF Frame, Shapes, QueueShape, LaneShape, InPass
<1>7. Running = {}
  BY DEF Init, Running, WithStatus
<1>8. Unstarted = {} /\ ~Started
  BY <1>5 DEF Unstarted, Started
<1>9. ~Plans("long") /\ turn.lane = "none"
  BY <1>5 DEF NoTurn, Plans
<1>10. Covered /\ Joined /\ ChunkOwned /\ DecodeWhole /\ Tried /\ AtRest
  BY <1>5, <1>7, <1>8 DEF Covered, Joined, ChunkOwned, DecodeWhole, Tried, AtRest
<1>11. AllLive
  BY <1>5 DEF AllLive, Live
<1>12. LongAlone
  BY <1>5, <1>9 DEF LongAlone
<1> QED
  BY <1>6, <1>10, <1>11, <1>12 DEF Flow

LEMMA FrameStutters ==
    ASSUME Frame, Flow, UNCHANGED vars
    PROVE  Frame' /\ Flow'
<1>1. /\ UNCHANGED <<len, hist, held, limit, kind, status, arrival>>
      /\ UNCHANGED <<running, toEvict, chunk, afterChunk, rounds, shorts>>
      /\ UNCHANGED <<queue, batch, built, setup, pc, turn>>
  BY DEF vars, seqVars, makerVars, workVars
<1>2. Frame'
  BY <1>1 DEF Frame, Shapes, SeqShape, MakerShape, WorkShape, TurnShape, QueueShape, LaneShape, Plans
<1>3. Running' = Running /\ Active' = Active /\ Unstarted' = Unstarted /\ Started' = Started /\ Head1' = Head1
  BY <1>1 DEF Running, Active, WithStatus, Unstarted, Started, Head1
<1>4. Covered' /\ Joined' /\ DecodeWhole' /\ AtRest'
  BY <1>1, <1>3 DEF Flow, Covered, Joined, DecodeWhole, AtRest, Listed, Has, RowsOf, SeqAt
<1>5. AllLive' /\ ChunkOwned' /\ Tried' /\ LongAlone'
  BY <1>1, <1>3 DEF Flow, AllLive, Live, ChunkOwned, Tried, LongAlone, Plans, IsLong, NumTokens, Listed, RowsOf
<1> QED
  BY <1>2, <1>4, <1>5 DEF Flow

LEMMA FlowHolds == Spec => [](Frame /\ Flow)
<1>1. Init => Frame /\ Flow
  BY FrameInit, DecodeBatchAssumption
<1>2. Frame /\ Flow /\ [Next]_vars => Frame' /\ Flow'
  BY FlowStep, FrameStutters, DecodeBatchAssumption
<1> QED
  BY <1>1, <1>2, PTL DEF Spec

\* The engine loop goes to sleep on the runnable event only when has_unfinished
\* finds nothing to do; by then no sequence is left running that nobody would
\* ever step (RunableEventAsync, Scheduler.has_unfinished).
THEOREM SleepsOnNobody == Spec => []AwakeWhileRunning
<1>1. Frame /\ Flow => AwakeWhileRunning
  BY DEF Flow, AtRest, AwakeWhileRunning
<1> QED
  BY <1>1, FlowHolds, PTL

\* Between two passes every running sequence is listed for decoding, owned by the
\* chunker or in a prefill in flight (update_running_seqs, LongContextChunker).
THEOREM EverybodyIsStepped == Spec => []SomebodySteps
<1>1. Frame /\ Flow => SomebodySteps
  BY DEF Flow, Covered, SomebodySteps, Listed, Has
<1> QED
  BY <1>1, FlowHolds, PTL


---------------------------------------------------------------------------
(* No sequence is listed twice, as long as the one that is being chunked is
   not listed. *)

LEMMA TodoOnceStep ==
    ASSUME DecodeBatchAssumption, Frame, Flow, Distinct, Next
    PROVE  TodoOnce'
<1>0. /\ Shapes /\ turn \in TurnSet /\ turn.todo \in Seq(Seqs) /\ turn.batch \in Seq(Seqs) /\ TodoOnce /\ LongAlone
      /\ status \in [Seqs -> Statuses]
  BY DEF Frame, Flow, Distinct, Shapes, TurnShape, TurnSet, SeqShape
<1>a. pc' # "admit" => TodoOnce'
  BY DEF TodoOnce
<1>b. turn.todo # <<>> => /\ 1 \in DOMAIN turn.todo /\ Head(turn.todo) = turn.todo[1]
                          /\ \A i \in DOMAIN Tail(turn.todo) : i + 1 \in DOMAIN turn.todo /\ i + 1 # 1
                                                               /\ Tail(turn.todo)[i] = turn.todo[i + 1]
  <2> DEFINE q == turn.todo
  <2>1. q \in Seq(Seqs)
    BY <1>0
  <2> HIDE DEF q
  <2>2. q # <<>> => /\ 1 \in DOMAIN q /\ Head(q) = q[1]
                    /\ \A i \in DOMAIN Tail(q) : i + 1 \in DOMAIN q /\ i + 1 # 1 /\ Tail(q)[i] = q[i + 1]
    BY <2>1
  <2> QED
    BY <2>2 DEF q
<1>1. CASE MildStep \/ (\E e \in Seqs : EndStep(e)) \/ ActivateStep \/ CollectStep \/ Sends \/ BeginStep
  <2>1. pc' # "admit"
    BY <1>1, OutsidePass DEF InPass, BeginStep
  <2> QED
    BY <1>a, <2>1
<1>2. CASE EnterPrefill
  <2>1. PICK lane \in {"all", "short", "long"}, S \in SUBSET Waiting : EnterLane(lane, S)
    BY <1>2 DEF EnterPrefill, Longs
  <2>2. PICK todo \in Orders(lane, S) :
          turn' = [NoTurn EXCEPT !.plan = Tail(turn.plan), !.lane = lane, !.todo = todo]
    BY <2>1 DEF EnterLane
  <2>3. turn'.todo = todo /\ turn'.batch = <<>> /\ status' = status
    BY <2>1, <2>2 DEF NoTurn, EnterLane, seqVars
  <2>4. todo \in [1..Cardinality(S) -> S] /\ \A i, j \in DOMAIN todo : i < j => todo[i] # todo[j]
    BY <2>2 DEF Orders
  <2>5. \A i \in DOMAIN todo : status[todo[i]] = "WAITING"
    BY <2>4 DEF Waiting, WithStatus
  <2>6. \A i, j \in DOMAIN todo : todo[i] = todo[j] => i = j
    <3>1. Cardinality(S) \in Nat
      <4>1. IsFiniteSet(Seqs) /\ S \subseteq Seqs
        BY <2>1 DEF DecodeBatchAssumption, Waiting, WithStatus
      <4> QED
        BY <4>1, FS_Subset, FS_CardinalityType
    <3>2. \A i, j \in 1..Cardinality(S) : i < j \/ j < i \/ i = j
      BY <3>1
    <3> QED
      BY <2>4, <3>2
  <2> QED
    BY <2>3, <2>5, <2>6 DEF TodoOnce
<1>3. CASE \E s \in Seqs : PassOver(s)
  <2>1. /\ pc = "admit" /\ turn.todo # <<>> /\ status' = status
        /\ \/ turn' = [turn EXCEPT !.todo = Tail(turn.todo)]
           \/ turn' = [turn EXCEPT !.todo = <<>>]
    BY <1>3 DEF PassOver, Candidate, seqVars
  <2>2. turn'.batch = turn.batch /\ (turn'.todo = Tail(turn.todo) \/ turn'.todo = <<>>)
    BY <1>0, <2>1 DEF TurnSet
  <2>3. CASE turn'.todo = <<>>
    BY <1>0, <2>1, <2>2, <2>3 DEF TodoOnce
  <2>4. CASE turn'.todo = Tail(turn.todo)
    <3>1. \A i, j \in DOMAIN turn'.todo : turn'.todo[i] = turn'.todo[j] => i = j
      <4>1. \A i \in DOMAIN turn'.todo : i \in Int
        BY <1>0, <2>1, <2>4
      <4>2. \A i, j \in DOMAIN turn'.todo : turn'.todo[i] = turn'.todo[j] => i + 1 = j + 1
        BY <1>0, <1>b, <2>1, <2>4 DEF TodoOnce
      <4> QED
        BY <4>1, <4>2
    <3>2. \A i \in DOMAIN turn'.todo : status[turn'.todo[i]] = "WAITING"
      <4>1. \A i \in DOMAIN turn'.todo : \E k \in DOMAIN turn.todo : turn'.todo[i] = turn.todo[k]
        BY <1>b, <2>1, <2>4
      <4> QED
        BY <1>0, <2>1, <4>1 DEF TodoOnce
    <3> QED
      BY <1>0, <2>1, <2>2, <3>1, <3>2 DEF TodoOnce
  <2> QED
    BY <2>2, <2>3, <2>4
<1>4. ASSUME NEW s \in Seqs, Admit(s) PROVE TodoOnce'
  <2>1. /\ turn' = [turn EXCEPT !.todo = IF IsLong(s) THEN <<>> ELSE Tail(@),
                                !.batch = Append(@, s),
                                !.used = @ + Cost(s)]
        /\ status' = [status EXCEPT ![s] = "READY"] /\ pc = "admit"
        /\ turn.todo # <<>> /\ s = Head(turn.todo)
    BY <1>4 DEF Admit, Candidate
  <2>2. turn'.batch = Append(turn.batch, s) /\ (turn'.todo = Tail(turn.todo) \/ turn'.todo = <<>>)
    BY <1>0, <2>1 DEF TurnSet
  <2>3. 1 \in DOMAIN turn.todo /\ s = turn.todo[1] /\ status[s] = "WAITING"
    BY <1>0, <1>b, <2>1 DEF TodoOnce
  <2>4. \A i, j \in DOMAIN turn'.batch : turn'.batch[i] = turn'.batch[j] => i = j
    <3>1. \A i \in DOMAIN turn'.batch : \/ i = Len(turn.batch) + 1 /\ turn'.batch[i] = s
                                        \/ i \in DOMAIN turn.batch /\ turn'.batch[i] = turn.batch[i]
      BY <1>0, <2>2, AppendOf
    <3>2. \A i \in DOMAIN turn.batch : turn.batch[i] # s
      BY <1>0, <2>1, <2>3 DEF LongAlone
    <3> QED
      BY <1>0, <2>1, <3>1, <3>2, SMTT(30) DEF TodoOnce
  <2>5. CASE turn'.todo = <<>>
    BY <2>4, <2>5 DEF TodoOnce
  <2>6. CASE turn'.todo = Tail(turn.todo)
    <3>1. \A i, j \in DOMAIN turn'.todo : turn'.todo[i] = turn'.todo[j] => i = j
      <4>1. \A i \in DOMAIN turn'.todo : i \in Int
        BY <1>0, <2>1, <2>6
      <4>2. \A i, j \in DOMAIN turn'.todo : turn'.todo[i] = turn'.todo[j] => i + 1 = j + 1
        BY <1>0, <1>b, <2>1, <2>6 DEF TodoOnce
      <4> QED
        BY <4>1, <4>2
    <3>2. \A i \in DOMAIN turn'.todo : status'[turn'.todo[i]] = "WAITING"
      <4> SUFFICES ASSUME NEW i \in DOMAIN turn'.todo PROVE status'[turn'.todo[i]] = "WAITING"
        OBVIOUS
      <4>1. i + 1 \in DOMAIN turn.todo /\ i + 1 # 1 /\ turn'.todo[i] = turn.todo[i + 1]
        BY <1>b, <2>1, <2>6
      <4>2. turn.todo[i + 1] # s /\ status[turn.todo[i + 1]] = "WAITING" /\ turn.todo[i + 1] \in Seqs
        BY <1>0, <2>1, <2>3, <4>1 DEF TodoOnce
      <4> QED
        BY <1>0, <2>1, <4>1, <4>2
    <3> QED
      BY <2>4, <3>1, <3>2 DEF TodoOnce
  <2> QED
    BY <2>2, <2>5, <2>6
<1>5. ASSUME NEW s \in Seqs, NoRoomPrefill(s) PROVE TodoOnce'
  <2>1. turn' = [turn EXCEPT !.todo = <<>>] /\ status' = status /\ pc = "admit"
    BY <1>5 DEF NoRoomPrefill, Candidate
  <2>2. turn'.batch = turn.batch /\ turn'.todo = <<>>
    BY <1>0, <2>1 DEF TurnSet
  <2> QED
    BY <1>0, <2>1, <2>2 DEF TodoOnce
<1>6. CASE EndPass \/ NothingAdmitted \/ EnterDecode \/ DropStopped \/ KeepRow \/ NoDecode \/ NoRoomChunk \/ GrowRow
  <2>1. pc' # "admit"
    BY <1>6 DEF EndPass, NothingAdmitted, EnterDecode, DropStopped, KeepRow, NoDecode, NothingSent,
                NoRoomChunk, TryChunk, GrowRow
  <2> QED
    BY <1>a, <2>1
<1> QED
  BY <1>1, <1>2, <1>3, <1>4, <1>5, <1>6, NextParts DEF Quiet, Pages

\* The positions kept are ascending and behind the one that is looked at.
LEMMA KeepRises ==
    ASSUME Frame, KeepOnce, pc = "grow", turn.left > 0, running[turn.left] \in Running, NEW t,
           t = [turn EXCEPT !.left = turn.left - 1, !.keep = <<turn.left>> \o @]
    PROVE  /\ \A i, j \in DOMAIN t.keep : i < j => t.keep[i] < t.keep[j]
           /\ \A j \in DOMAIN t.keep : running[t.keep[j]] \in Running
<1>1. /\ t.left = turn.left - 1 /\ DOMAIN t.keep = 1..(Len(turn.keep) + 1) /\ t.keep[1] = turn.left
      /\ \A j \in DOMAIN turn.keep : t.keep[j + 1] = turn.keep[j]
  BY KeepFacts
<1>2. /\ turn.keep \in Seq(Nat) /\ turn.left \in Nat /\ Len(turn.keep) \in Nat
      /\ DOMAIN turn.keep = 1..Len(turn.keep)
      /\ \A j \in DOMAIN turn.keep : turn.keep[j] \in (turn.left + 1)..Len(running)
      /\ Len(running) \in Nat
  BY DEF Frame, Shapes, TurnShape, TurnSet, MakerShape, LaneShape
<1>3. \A j \in DOMAIN t.keep : j = 1 \/ (j - 1 \in DOMAIN turn.keep /\ t.keep[j] = turn.keep[j - 1])
  <2> SUFFICES ASSUME NEW j \in DOMAIN t.keep, j # 1
               PROVE  j - 1 \in DOMAIN turn.keep /\ t.keep[j] = turn.keep[j - 1]
    OBVIOUS
  <2>1. j - 1 \in DOMAIN turn.keep /\ (j - 1) + 1 = j
    BY <1>1, <1>2
  <2> QED
    BY <1>1, <2>1
<1>4. \A j \in DOMAIN turn.keep : turn.left < turn.keep[j] /\ turn.keep[j] \in Nat
  BY <1>2
<1>5. ASSUME NEW i \in DOMAIN t.keep, NEW j \in DOMAIN t.keep, i < j PROVE t.keep[i] < t.keep[j]
  <2>1. j # 1 /\ i \in Int /\ j \in Int
    BY <1>1, <1>2, <1>5
  <2>2. CASE i = 1
    BY <1>1, <1>3, <1>4, <2>1, <2>2
  <2>3. CASE i # 1
    <3>1. i - 1 < j - 1
      BY <1>5, <2>1
    <3> QED
      BY <1>3, <2>1, <2>3, <3>1 DEF KeepOnce
  <2> QED
    BY <2>2, <2>3
<1>6. \A j \in DOMAIN t.keep : running[t.keep[j]] \in Running
  BY <1>1, <1>3 DEF KeepOnce
<1> QED
  BY <1>5, <1>6

LEMMA KeepOnceStep ==
    ASSUME DecodeBatchAssumption, Frame, Distinct, Next
    PROVE  KeepOnce'
<1>0. /\ Shapes /\ turn \in TurnSet /\ turn.keep \in Seq(Nat) /\ turn.left \in Nat /\ KeepOnce /\ ListedOnce
      /\ status \in [Seqs -> Statuses] /\ running \in Seq(Slots)
      /\ pc = "grow" => \A j \in DOMAIN turn.keep : turn.keep[j] \in (turn.left + 1)..Len(running)
  BY DEF Frame, Distinct, Shapes, TurnShape, TurnSet, SeqShape, MakerShape, LaneShape
<1>a. pc' # "grow" => KeepOnce'
  BY DEF KeepOnce
<1>1. CASE MildStep \/ (\E e \in Seqs : EndStep(e)) \/ ActivateStep \/ CollectStep \/ Sends \/ BeginStep
  <2>1. pc' # "grow"
    BY <1>1, OutsidePass DEF InPass, BeginStep
  <2> QED
    BY <1>a, <2>1
<1>2. CASE EndPass \/ EnterPrefill \/ NothingAdmitted \/ (\E s \in Seqs : PassOver(s)) \/ NoDecode
           \/ (\E s \in Seqs : Admit(s) \/ NoRoomPrefill(s)) \/ NoRoomChunk
  <2>1. pc' # "grow"
    BY <1>2 DEF EndPass, EnterPrefill, EnterLane, NothingAdmitted, PassOver, NoDecode, NothingSent,
                NoRoomChunk, TryChunk, Admit, NoRoomPrefill, Candidate
  <2> QED
    BY <1>a, <2>1
<1>3. CASE EnterDecode
  <2>1. CASE running = <<>>
    BY <1>3, <1>a, <2>1 DEF EnterDecode
  <2>2. CASE running # <<>>
    <3>1. turn' = [NoTurn EXCEPT !.plan = Tail(turn.plan), !.lane = "decode", !.left = Len(running)]
      BY <1>3, <2>2 DEF EnterDecode
    <3>2. turn'.keep = <<>>
      BY <3>1 DEF NoTurn
    <3> QED
      BY <3>2 DEF KeepOnce
  <2> QED
    BY <2>1, <2>2
<1>4. CASE DropStopped
  <2>1. turn' = [turn EXCEPT !.left = turn.left - 1] /\ status' = status /\ running' = running /\ pc = "grow"
    BY <1>4 DEF DropStopped, Drop, seqVars, makerVars
  <2>2. turn'.keep = turn.keep /\ Running' = Running
    BY <1>0, <2>1 DEF TurnSet, Running, WithStatus
  <2> QED
    BY <1>0, <2>1, <2>2 DEF KeepOnce
<1>5. CASE KeepRow \/ (GrowRow /\ Keep(turn.left) /\ UNCHANGED status)
  <2>1. /\ turn' = [turn EXCEPT !.left = turn.left - 1, !.keep = <<turn.left>> \o @]
        /\ status' = status /\ running' = running /\ pc = "grow" /\ turn.left > 0 /\ running[turn.left] \in Running
    BY <1>5 DEF KeepRow, GrowRow, Keep, seqVars, makerVars
  <2>2. Running' = Running
    BY <2>1 DEF Running, WithStatus
  <2>3. /\ \A i, j \in DOMAIN turn'.keep : i < j => turn'.keep[i] < turn'.keep[j]
        /\ \A j \in DOMAIN turn'.keep : running[turn'.keep[j]] \in Running
    BY <1>0, <2>1, KeepRises
  <2> QED
    BY <2>1, <2>2, <2>3 DEF KeepOnce
<1>6. CASE GrowRow /\ Drop(turn.left) /\ status' = [status EXCEPT ![running[turn.left]] = "WAITING"]
  <2>1. /\ turn' = [turn EXCEPT !.left = turn.left - 1] /\ running' = running /\ pc = "grow"
        /\ turn.left > 0 /\ running[turn.left] \in Running
    BY <1>6 DEF GrowRow, Drop, makerVars
  <2>2. turn'.keep = turn.keep
    BY <1>0, <2>1 DEF TurnSet
  <2>3. \A t \in Running : t # running[turn.left] => t \in Running'
    BY <1>0, <1>6 DEF Running, WithStatus
  <2>4. \A j \in DOMAIN turn.keep : /\ turn.keep[j] \in DOMAIN running /\ turn.left \in DOMAIN running
                                    /\ turn.keep[j] # turn.left
    <3>1. \A j \in DOMAIN turn.keep : turn.keep[j] \in (turn.left + 1)..Len(running)
      BY <1>0, <2>1
    <3>2. \A l \in Nat : l > 0 => \A n \in Nat : \A k \in (l + 1)..n : k \in 1..n /\ l \in 1..n /\ k # l
      OBVIOUS
    <3>3. DOMAIN running = 1..Len(running) /\ Len(running) \in Nat
      BY <1>0
    <3>4. turn.left \in Nat /\ turn.left > 0
      BY <1>0, <2>1
    <3> QED
      BY <3>1, <3>2, <3>3, <3>4
  <2>5. \A j \in DOMAIN turn.keep : running[turn.keep[j]] \in Running'
    BY <1>0, <2>1, <2>3, <2>4 DEF KeepOnce, ListedOnce
  <2> QED
    BY <1>0, <2>1, <2>2, <2>5 DEF KeepOnce
<1> QED
  BY <1>1, <1>2, <1>3, <1>4, <1>5, <1>6, NextParts DEF Quiet, Pages, GrowRow


---------------------------------------------------------------------------
(* The list holds a running sequence once. *)

\* Who starts to run has a row in the forward that is activated.
LEMMA ActivateRuns ==
    ASSUME Frame, ActivateStep
    PROVE  /\ Running \subseteq Running' /\ Active' = Active
           /\ \A t \in Running' : t \in Running \/ (t \in Active /\ status[t] = "READY" /\ Has(Head1, t))
<1>1. \A t \in Seqs : status'[t] = IF status[t] = "READY" /\ Has(Head1, t) THEN "RUNNING" ELSE status[t]
  BY DEF ActivateStep
<1>2. \A t \in Seqs : /\ status[t] = "RUNNING" => status'[t] = "RUNNING"
                      /\ status'[t] = "RUNNING" => status[t] = "RUNNING" \/ (status[t] = "READY" /\ Has(Head1, t))
                      /\ status'[t] \in {"READY", "RUNNING"} <=> status[t] \in {"READY", "RUNNING"}
  BY <1>1
<1>3. \A t : /\ t \in Active <=> t \in Seqs /\ status[t] \in {"READY", "RUNNING"}
             /\ t \in Active' <=> t \in Seqs /\ status'[t] \in {"READY", "RUNNING"}
             /\ t \in Running <=> t \in Seqs /\ status[t] = "RUNNING"
             /\ t \in Running' <=> t \in Seqs /\ status'[t] = "RUNNING"
  BY DEF Active, Running, WithStatus
<1> QED
  BY <1>2, <1>3

\* Two different rows that join bring two sequences.
LEMMA JoiningOnce ==
    ASSUME Frame, RowsOnce, queue # <<>>, NEW j \in DOMAIN Joining, NEW k \in DOMAIN Joining,
           Joining[j] = Joining[k], Joining[j] \in Seqs
    PROVE  j = k
<1> DEFINE P == {i \in RowsOf(Head1) : Head1.rows[i].gen}
<1>1. /\ P \in SUBSET (1..Len(Head1.rows)) /\ Len(Head1.rows) \in Nat
      /\ DOMAIN Joining = DOMAIN InOrder(P)
      /\ \A i \in DOMAIN Joining : Joining[i] = SeqAt(InOrder(P)[i])
      /\ 1 \in DOMAIN queue
  BY JoiningFacts DEF Frame
<1>2. P \subseteq RowsOf(Head1)
  OBVIOUS
<1> HIDE DEF P
<1>3. /\ InOrder(P)[j] \in P /\ InOrder(P)[k] \in P
      /\ InOrder(P)[j] = InOrder(P)[k] => j = k
  BY <1>1, PositionsOf
<1>4. SeqAt(InOrder(P)[j]) = SeqAt(InOrder(P)[k]) /\ SeqAt(InOrder(P)[j]) \in Seqs
  BY <1>1
<1>5. InOrder(P)[j] = InOrder(P)[k]
  BY <1>1, <1>2, <1>3, <1>4 DEF RowsOnce, SeqAt, Head1
<1> QED
  BY <1>3, <1>5

LEMMA ListedOnceStep ==
    ASSUME DecodeBatchAssumption, Frame, Frame', Flow, Distinct, ChunkApart, Steps
    PROVE  ListedOnce'
<1>0. ListedOnce /\ RowsOnce /\ Newcomers /\ Shapes /\ ChunkOwned
  BY DEF Distinct, Frame, Flow
<1> SUFFICES ASSUME NEW i \in DOMAIN running', NEW j \in DOMAIN running',
                    running'[i] = running'[j], running'[i] \in Running'
             PROVE  i = j
  BY DEF ListedOnce
<1>a. \A k, l \in DOMAIN running : running[k] = running[l] /\ running[k] \in Running => k = l
  BY <1>0 DEF ListedOnce
<1>b. Running \subseteq Active /\ Active \subseteq Seqs /\ Gone \notin Seqs /\ NoChunk.seq = Gone
  BY RunningSteps
<1>1. CASE MildStep \/ PageStep \/ BeginStep \/ QuietStep \/ CollectStep
  <2>1. running' = running /\ Running' \subseteq Running
    BY <1>1, RunningSteps, ListSteps
  <2> QED
    BY <1>a, <2>1
<1>2. ASSUME NEW e \in Seqs, EndStep(e) PROVE i = j
  <2>1. DOMAIN running' = DOMAIN running /\ \A k \in DOMAIN running : running'[k] = Ghost(e, running[k])
    BY <1>0, <1>2 DEF EndStep, Shapes, MakerShape
  <2>2. Running' = Running \ {e}
    BY <1>2, RunningSteps
  <2>3. \A t : Ghost(e, t) \in Running' => Ghost(e, t) = t /\ t \in Running
    BY <1>b, <2>2 DEF Ghost
  <2> QED
    BY <1>a, <2>1, <2>3
<1>3. CASE Sends
  <2>1. PICK f : SentPrefill(f) \/ SentChunk(f) \/ SentDecode(f)
    BY <1>3, SendKinds
  <2>2. Running' = Running
    BY <1>3, RunningSteps
  <2>3. CASE SentPrefill(f)
    <3>1. running' = [k \in DOMAIN ValidPositions |-> running[ValidPositions[k]]]
      BY <2>3 DEF SentPrefill
    <3>2. /\ i \in DOMAIN ValidPositions /\ j \in DOMAIN ValidPositions
          /\ ValidPositions[i] \in DOMAIN running /\ ValidPositions[j] \in DOMAIN running
          /\ running'[i] = running[ValidPositions[i]] /\ running'[j] = running[ValidPositions[j]]
      BY <3>1, ValidListed
    <3>3. ValidPositions[i] = ValidPositions[j]
      BY <1>a, <2>2, <3>2
    <3> QED
      BY <1>0, <3>2, <3>3, ValidFacts
  <2> QED
    BY <1>a, <2>1, <2>2, <2>3, ListSteps
<1>4. CASE ActivateStep
  <2>1. /\ queue # <<>> /\ 1 \in DOMAIN queue /\ running' = ListAfter /\ running \in Seq(Slots)
        /\ Unstarted = {Head1} /\ Head1.lane \in {"prefill", "chunk", "decode"}
    BY <1>0, <1>4, StartedSteps, PlaceFacts, RowsTyped DEF ActivateStep, Shapes, MakerShape, Head1
  <2>2. /\ Running' \subseteq Active
        /\ \A t \in Running' : t \in Running \/ (t \in Active /\ Has(Head1, t))
    BY <1>4, <1>b, ActivateRuns
  <2>3. CASE Head1.lane = "decode"
    <3>1. running' = [k \in RowsOf(Head1) |-> SeqAt(k)]
      BY <2>1, <2>3 DEF ListAfter
    <3>2. running'[i] \in Seqs
      BY <1>b, <2>2
    <3> QED
      BY <1>0, <2>1, <3>1, <3>2 DEF RowsOnce, SeqAt, Head1
  <2>4. ASSUME Head1.lane # "decode", NEW k \in DOMAIN running, running[k] \in Running'
        PROVE  running[k] \in Running
    <3>1. SUFFICES ASSUME running[k] \in Active, Has(Head1, running[k]) PROVE FALSE
      BY <2>2, <2>4
    <3>2. Listed(running[k])
      BY <2>4 DEF Listed
    <3>3. CASE Head1.lane = "prefill"
      BY <1>0, <2>1, <3>1, <3>2, <3>3 DEF Newcomers, Has, RowsOf
    <3>4. CASE Head1.lane = "chunk"
      <4>1. running[k] = chunk.seq
        BY <1>0, <2>1, <3>1, <3>4 DEF ChunkOwned, Has, RowsOf
      <4> QED
        BY <3>1, <3>2, <4>1 DEF ChunkApart
    <3> QED
      BY <2>1, <2>4, <3>3, <3>4
  <2>5. CASE Head1.lane = "chunk" /\ chunk # NoChunk
    <3>1. running' = running
      BY <2>1, <2>5 DEF ListAfter
    <3> QED
      BY <1>a, <2>4, <2>5, <3>1
  <2>6. CASE Head1.lane # "decode" /\ ~(Head1.lane = "chunk" /\ chunk # NoChunk)
    <3>1. running' = running \o Joining
      BY <2>6, <2>1 DEF ListAfter
    <3>2. Joining \in Seq(Slots)
      BY <1>0, <2>1, JoiningFacts
    <3>3. ASSUME NEW l \in DOMAIN Joining, Joining[l] \in Running' PROVE ~Listed(Joining[l])
      <4>1. PICK r \in RowsOf(Head1) : SeqAt(r) = Joining[l]
        BY <1>0, <2>1, JoiningFacts
      <4>2. Head1.rows[r].seq = Joining[l] /\ Joining[l] \in Active
        BY <2>2, <3>3, <4>1 DEF SeqAt
      <4>3. CASE Head1.lane = "prefill"
        BY <1>0, <2>1, <4>1, <4>2, <4>3 DEF Newcomers, RowsOf
      <4>4. CASE Head1.lane = "chunk"
        <5>1. Joining[l] = chunk.seq /\ chunk = NoChunk
          BY <1>0, <2>1, <2>6, <4>1, <4>2, <4>4 DEF ChunkOwned, RowsOf
        <5> QED
          BY <1>b, <4>2, <5>1
      <4> QED
        BY <2>1, <2>6, <4>3, <4>4
    <3>4. \A l, m \in DOMAIN Joining : Joining[l] = Joining[m] /\ Joining[l] \in Running' => l = m
      BY <1>0, <1>b, <2>1, <2>2, JoiningOnce
    <3>5. \A l \in DOMAIN running, m \in DOMAIN Joining :
            running[l] = Joining[m] => running[l] \notin Running'
      BY <3>3 DEF Listed
    <3>6. \A l \in DOMAIN running : running[l] \in Running' => running[l] \in Running
      BY <2>4, <2>6
    <3> DEFINE J == Joining
               R == running
    <3>7. /\ J \in Seq(Slots) /\ R \in Seq(Slots) /\ running' = R \o J
          /\ \A l, m \in DOMAIN J : J[l] = J[m] /\ J[l] \in Running' => l = m
          /\ \A l \in DOMAIN R, m \in DOMAIN J : R[l] = J[m] => R[l] \notin Running'
          /\ \A l, m \in DOMAIN R : R[l] = R[m] /\ R[l] \in Running' => l = m
      BY <1>a, <2>1, <3>1, <3>2, <3>4, <3>5, <3>6
    <3> HIDE DEF J, R
    <3>8. /\ R \o J \in Seq(Slots)
          /\ \A l \in DOMAIN R : l \in DOMAIN (R \o J) /\ (R \o J)[l] = R[l]
          /\ \A l \in DOMAIN (R \o J) : \/ l \in DOMAIN R
                                        \/ l - Len(R) \in DOMAIN J /\ (R \o J)[l] = J[l - Len(R)]
      <4>1. J \in Seq(Slots) /\ R \in Seq(Slots)
        BY <3>7
      <4>2. /\ R \o J \in Seq(Slots)
            /\ \A l \in DOMAIN R : l \in DOMAIN (R \o J) /\ (R \o J)[l] = R[l]
        BY <4>1, ConcatOf
      <4>3. \A l \in DOMAIN (R \o J) : \/ l \in DOMAIN R
                                       \/ l - Len(R) \in DOMAIN J /\ (R \o J)[l] = J[l - Len(R)]
        BY <4>1, ConcatOf, SMTT(30)
      <4> QED
        BY <4>2, <4>3
    <3>9. /\ \A l \in DOMAIN running' : \/ l \in DOMAIN R /\ running'[l] = R[l]
                                        \/ l - Len(R) \in DOMAIN J /\ running'[l] = J[l - Len(R)]
          /\ running' \in Seq(Slots)
      BY <3>7, <3>8
    <3>10. i \in Int /\ j \in Int /\ Len(R) \in Int
      BY <3>7, <3>9
    <3>11. CASE i \in DOMAIN R /\ running'[i] = R[i]
      <4>1. \A l \in DOMAIN J : running'[j] # J[l]
        BY <3>7, <3>11
      <4> QED
        BY <3>7, <3>9, <3>11, <4>1
    <3>12. CASE i - Len(R) \in DOMAIN J /\ running'[i] = J[i - Len(R)]
      <4>1. \A l \in DOMAIN R : running'[j] # R[l]
        BY <3>7, <3>12
      <4>2. j - Len(R) \in DOMAIN J /\ running'[j] = J[j - Len(R)]
        BY <3>9, <4>1
      <4>3. i - Len(R) = j - Len(R)
        BY <3>7, <3>12, <4>2
      <4> QED
        BY <3>10, <4>3
    <3> QED
      BY <3>9, <3>11, <3>12
  <2> QED
    BY <2>3, <2>5, <2>6
<1> QED
  BY <1>1, <1>2, <1>3, <1>4 DEF Steps


---------------------------------------------------------------------------
(* A forward has a row once, and whom it brings is new to the list. *)

LEMMA SentOnce ==
    ASSUME DecodeBatchAssumption, Frame, Distinct, NEW f, SentPrefill(f) \/ SentChunk(f) \/ SentDecode(f),
           NEW i \in DOMAIN f.rows, NEW j \in DOMAIN f.rows, f.rows[i].seq = f.rows[j].seq
    PROVE  i = j
<1>1. CASE SentPrefill(f)
  BY <1>1, PrefillRows DEF Distinct, TodoOnce
<1>2. CASE SentChunk(f)
  BY <1>2, ChunkRows
<1>3. CASE SentDecode(f)
  <2>1. /\ i \in DOMAIN turn.keep /\ j \in DOMAIN turn.keep
        /\ turn.keep[i] \in DOMAIN running /\ turn.keep[j] \in DOMAIN running
        /\ running[turn.keep[i]] = running[turn.keep[j]]
    BY <1>3, DecodeRows
  <2>2. /\ \A k, l \in DOMAIN turn.keep : k < l => turn.keep[k] < turn.keep[l]
        /\ running[turn.keep[i]] \in Running
    BY <1>3, <2>1 DEF SentDecode, Distinct, KeepOnce
  <2>3. turn.keep[i] = turn.keep[j]
    BY <2>1, <2>2 DEF Distinct, ListedOnce
  <2>4. turn.keep \in Seq(Nat)
    BY DEF Frame, Shapes, TurnShape, TurnSet
  <2> DEFINE k == turn.keep
  <2>5. i \in Nat /\ j \in Nat /\ turn.keep[i] \in Nat
    <3>1. k \in Seq(Nat) /\ i \in DOMAIN k /\ j \in DOMAIN k
      BY <2>1, <2>4
    <3> HIDE DEF k
    <3>2. i \in Nat /\ j \in Nat /\ k[i] \in Nat
      BY <3>1, SMTT(30)
    <3> QED
      BY <3>2 DEF k
  <2> QED
    BY <2>1, <2>2, <2>3, <2>5
<1> QED
  BY <1>1, <1>2, <1>3

LEMMA RowsOnceStep ==
    ASSUME DecodeBatchAssumption, Frame, Distinct, Steps
    PROVE  RowsOnce'
<1>0. RowsOnce /\ Shapes
  BY DEF Distinct, Frame
<1> SUFFICES ASSUME NEW q \in DOMAIN queue', NEW i \in DOMAIN queue'[q].rows, NEW j \in DOMAIN queue'[q].rows,
                    queue'[q].rows[i].seq = queue'[q].rows[j].seq, queue'[q].rows[i].seq \in Seqs
             PROVE  i = j
  BY DEF RowsOnce, RowsOf
<1>a. \A p \in DOMAIN queue : \A k, l \in DOMAIN queue[p].rows :
        queue[p].rows[k].seq = queue[p].rows[l].seq /\ queue[p].rows[k].seq \in Seqs => k = l
  BY <1>0 DEF RowsOnce, RowsOf
<1>1. CASE MildStep \/ PageStep \/ BeginStep \/ QuietStep \/ ActivateStep
  <2>1. queue' = queue
    BY <1>1 DEF MildStep, PageStep, BeginStep, QuietStep, ActivateStep, workVars
  <2> QED
    BY <1>a, <2>1
<1>2. ASSUME NEW e \in Seqs, EndStep(e) PROVE i = j
  <2>1. q \in DOMAIN queue /\ Ghosted(e, queue[q], queue'[q]) /\ Gone \notin Seqs
    BY <1>2, GhostedQueue, RunningSteps
  <2>2. \A t : Ghost(e, t) \in Seqs => Ghost(e, t) = t
    BY <2>1 DEF Ghost
  <2>3. /\ i \in DOMAIN queue[q].rows /\ j \in DOMAIN queue[q].rows
        /\ queue'[q].rows[i].seq = Ghost(e, queue[q].rows[i].seq)
        /\ queue'[q].rows[j].seq = Ghost(e, queue[q].rows[j].seq)
    BY <2>1 DEF Ghosted
  <2> QED
    BY <1>a, <2>1, <2>2, <2>3
<1>3. CASE CollectStep
  <2>1. queue' = Tail(queue) /\ queue # <<>> /\ queue \in Seq(ForwardSet)
    BY <1>0, <1>3 DEF CollectStep, Shapes, WorkShape
  <2>2. q + 1 \in DOMAIN queue /\ queue'[q] = queue[q + 1]
    BY <2>1, TailOf
  <2> QED
    BY <1>a, <2>2
<1>4. CASE Sends
  <2>1. PICK f : SentPrefill(f) \/ SentChunk(f) \/ SentDecode(f)
    BY <1>4, SendKinds
  <2>2. Sent(f)
    BY <2>1 DEF SentPrefill, SentChunk, SentDecode
  <2>3. (q \in DOMAIN queue /\ queue'[q] = queue[q]) \/ queue'[q] = f
    BY <2>2, SentFacts
  <2>4. CASE queue'[q] = f
    BY <2>1, <2>4, SentOnce
  <2> QED
    BY <1>a, <2>3, <2>4
<1> QED
  BY <1>1, <1>2, <1>3, <1>4 DEF Steps

LEMMA NewcomersStep ==
    ASSUME DecodeBatchAssumption, Frame, Frame', Flow, Distinct, ChunkApart, Steps
    PROVE  Newcomers'
<1>0. Newcomers /\ Shapes /\ LongAlone
  BY DEF Distinct, Frame, Flow
<1>b. Running \subseteq Active /\ Active \subseteq Seqs /\ Gone \notin Seqs /\ NoChunk.seq = Gone
  BY RunningSteps
<1> SUFFICES ASSUME NEW g \in Unstarted', NEW i \in DOMAIN g.rows
             PROVE  /\ g.lane = "prefill" /\ g.rows[i].seq \in Active' => ~Listed(g.rows[i].seq)'
                    /\ g.lane = "decode" /\ g.rows[i].seq \in Seqs => status'[g.rows[i].seq] # "READY"
  <2>1. ASSUME \A g \in Unstarted' : \A i \in DOMAIN g.rows :
                 /\ g.lane = "prefill" /\ g.rows[i].seq \in Active' =>
                      ~\E k \in DOMAIN running' : running'[k] = g.rows[i].seq
                 /\ g.lane = "decode" /\ g.rows[i].seq \in Seqs => status'[g.rows[i].seq] # "READY"
        PROVE  Newcomers'
    BY <2>1 DEF Newcomers, RowsOf, Listed
  <2> QED
    BY <2>1 DEF Listed
<1>a. \A f \in Unstarted : \A k \in DOMAIN f.rows :
        /\ f.lane = "prefill" /\ f.rows[k].seq \in Active => ~Listed(f.rows[k].seq)
        /\ f.lane = "decode" /\ f.rows[k].seq \in Seqs => status[f.rows[k].seq] # "READY"
  BY <1>0 DEF Newcomers, RowsOf
<1>1. CASE MildStep \/ CollectStep
  <2>1. /\ g \in Unstarted /\ Active' \subseteq Active /\ running' = running
        /\ \A t \in Seqs : status'[t] = "READY" => status[t] = "READY"
    BY <1>1, UnstartedSteps, ListSteps DEF MildStep, CollectStep
  <2> QED
    BY <1>a, <2>1 DEF Listed
<1>2. ASSUME NEW e \in Seqs, EndStep(e)
      PROVE  /\ g.lane = "prefill" /\ g.rows[i].seq \in Active' => ~Listed(g.rows[i].seq)'
             /\ g.lane = "decode" /\ g.rows[i].seq \in Seqs => status'[g.rows[i].seq] # "READY"
  <2>1. PICK f \in Unstarted : Ghosted(e, f, g)
    BY <1>2, UnstartedSteps
  <2>2. /\ Active' = Active \ {e}
        /\ \A s \in Seqs : s # e => (Listed(s)' <=> Listed(s))
        /\ \A t \in Seqs : status'[t] = IF t = e THEN "none" ELSE status[t]
    BY <1>2, RunningSteps, ListSteps DEF EndStep
  <2>3. /\ f.lane = g.lane /\ i \in DOMAIN f.rows /\ g.rows[i].seq = Ghost(e, f.rows[i].seq)
    BY <2>1 DEF Ghosted
  <2>4. g.rows[i].seq \in Seqs => g.rows[i].seq = f.rows[i].seq /\ g.rows[i].seq # e
    BY <1>b, <2>3 DEF Ghost
  <2> QED
    BY <1>a, <1>b, <2>2, <2>3, <2>4
<1>3. CASE BeginStep \/ QuietStep \/ PageStep \/ ActivateStep
  BY <1>3, UnstartedSteps
<1>4. CASE Sends
  <2>1. PICK f : SentPrefill(f) \/ SentChunk(f) \/ SentDecode(f)
    BY <1>4, SendKinds
  <2>2. Sent(f)
    BY <2>1 DEF SentPrefill, SentChunk, SentDecode
  <2>3. g = f /\ status' = status /\ Active' = Active
    BY <1>4, <2>2, UnstartedSteps, SendFacts, RunningSteps, SMTT(30)
  <2>4. CASE SentPrefill(f)
    <3>1. SUFFICES ASSUME f.rows[i].seq \in Active PROVE ~Listed(f.rows[i].seq)'
      BY <2>3, <2>4 DEF SentPrefill
    <3>2. SUFFICES ASSUME NEW k \in DOMAIN running', running'[k] = f.rows[i].seq PROVE FALSE
      BY DEF Listed
    <3>3. f.rows[i].seq \in Running /\ Listed(f.rows[i].seq)
      <4>1. running' = [l \in DOMAIN ValidPositions |-> running[ValidPositions[l]]]
        BY <2>4 DEF SentPrefill
      <4> QED
        BY <3>2, <4>1, ValidListed
    <3>4. \/ pc = "admit" /\ \E l \in DOMAIN turn.batch : f.rows[i].seq = turn.batch[l]
          \/ chunk.seq \in Seqs /\ f.rows[i].seq = chunk.seq
      BY <2>3, <2>4, PrefillRows
    <3>5. \A t \in Running : status[t] = "RUNNING"
      BY DEF Running, WithStatus
    <3> QED
      BY <1>0, <3>1, <3>3, <3>4, <3>5 DEF LongAlone, ChunkApart
  <2>5. CASE SentDecode(f)
    <3>1. f.lane = "decode" /\ pc = "grow"
      BY <2>5 DEF SentDecode
    <3>2. i \in DOMAIN turn.keep /\ f.rows[i].seq = running[turn.keep[i]]
      BY <2>3, <2>5, DecodeRows
    <3>3. f.rows[i].seq \in Running
      BY <3>1, <3>2 DEF Distinct, KeepOnce
    <3> QED
      BY <2>3, <3>1, <3>3 DEF Running, WithStatus
  <2>6. CASE SentChunk(f)
    BY <2>3, <2>6 DEF SentChunk
  <2> QED
    BY <2>1, <2>4, <2>5, <2>6
<1> QED
  BY <1>1, <1>2, <1>3, <1>4 DEF Steps


LEMMA DistinctStep ==
    ASSUME DecodeBatchAssumption, Frame, Flow, Distinct, ChunkApart, Next
    PROVE  Distinct'
<1>1. Frame' /\ Flow' /\ Steps
  BY FlowStep, FrameStep
<1>2. ListedOnce' /\ RowsOnce' /\ Newcomers'
  BY <1>1, ListedOnceStep, RowsOnceStep, NewcomersStep
<1>3. TodoOnce' /\ KeepOnce'
  BY TodoOnceStep, KeepOnceStep
<1> QED
  BY <1>2, <1>3 DEF Distinct

---------------------------------------------------------------------------
(* A listed sequence has its whole text but the newest token in the cache. *)

LEMMA WholeStep ==
    ASSUME DecodeBatchAssumption, Frame, Frame', Flow, Distinct, ChunkApart, Whole, Steps
    PROVE  Whole'
<1>0. Newcomers /\ Shapes /\ ChunkOwned
  BY DEF Distinct, Frame, Flow
<1>b. Running \subseteq Active /\ Active \subseteq Seqs /\ Gone \notin Seqs /\ NoChunk.seq = Gone
  BY RunningSteps
<1> SUFFICES ASSUME NEW s \in Running',
                    Listed(s)' \/ \E q \in DOMAIN queue' : queue'[q].lane = "decode" /\ Has(queue'[q], s)
             PROVE  \/ hist'[s] = len'[s] - 1
                    \/ Started' /\ Head1'.lane = "prefill" /\ Has(Head1', s)
  <2>1. ASSUME \A s \in Running' :
                 (\E i \in DOMAIN running' : running'[i] = s)
                   \/ (\E q \in DOMAIN queue' : queue'[q].lane = "decode" /\ Has(queue'[q], s)) =>
                 hist'[s] = len'[s] - 1 \/ (Started' /\ Head1'.lane = "prefill" /\ Has(Head1', s))
        PROVE  Whole'
    BY <2>1 DEF Whole, Listed, Has, RowsOf
  <2> QED
    BY <2>1 DEF Listed
<1>a. ASSUME s \in Running,
             Listed(s) \/ \E q \in DOMAIN queue : queue[q].lane = "decode" /\ Has(queue[q], s)
      PROVE  hist[s] = len[s] - 1 \/ (Started /\ Head1.lane = "prefill" /\ Has(Head1, s))
  BY <1>a DEF Whole
<1>c. s \in Running => s \in Seqs /\ status[s] = "RUNNING" /\ status[s] # "none"
  BY DEF Running, WithStatus
<1>1. CASE MildStep \/ PageStep \/ BeginStep \/ QuietStep
  <2>1. /\ Running' \subseteq Running /\ running' = running /\ queue' = queue
        /\ (Started' <=> Started) /\ Head1' = Head1
    BY <1>1, RunningSteps, ListSteps, StartedSteps DEF MildStep, PageStep, BeginStep, QuietStep, workVars
  <2>2. hist'[s] = hist[s] /\ len'[s] = len[s]
    BY <1>1, <1>c, <2>1 DEF MildStep, PageStep, BeginStep, QuietStep, seqVars
  <2> QED
    BY <1>a, <2>1, <2>2 DEF Listed
<1>2. ASSUME NEW e \in Seqs, EndStep(e)
      PROVE  hist'[s] = len'[s] - 1 \/ (Started' /\ Head1'.lane = "prefill" /\ Has(Head1', s))
  <2>a. s \in Running /\ s # e /\ s \in Seqs
    BY <1>2, <1>b, RunningSteps
  <2>b. (Listed(s)' <=> Listed(s)) /\ hist'[s] = hist[s] /\ len'[s] = len[s]
    BY <1>2, <2>a, ListSteps DEF EndStep
  <2>1. /\ s \in Running /\ s # e /\ s \in Seqs
        /\ (Listed(s)' <=> Listed(s)) /\ hist'[s] = hist[s] /\ len'[s] = len[s]
        /\ (Started' <=> Started) /\ (Started => Ghosted(e, Head1, Head1'))
        /\ DOMAIN queue' = DOMAIN queue /\ \A q \in DOMAIN queue : Ghosted(e, queue[q], queue'[q])
    BY <1>2, <2>a, <2>b, StartedSteps, GhostedQueue
  <2>2. \A f, g : Ghosted(e, f, g) => g.lane = f.lane /\ (Has(g, s) <=> Has(f, s))
    <3>1. \A t : Ghost(e, t) = s <=> t = s
      BY <1>b, <2>1 DEF Ghost
    <3> QED
      BY <3>1, SMTT(30) DEF Ghosted, Has, RowsOf
  <2> QED
    BY <1>a, <2>1, <2>2
<1>3. CASE Sends
  <2>1. PICK f : SentPrefill(f) \/ SentChunk(f) \/ SentDecode(f)
    BY <1>3, SendKinds
  <2>2. Sent(f)
    BY <2>1 DEF SentPrefill, SentChunk, SentDecode
  <2>3. /\ s \in Running /\ len' = len /\ hist'[s] = hist[s]
        /\ (Started' <=> Started) /\ (Started => Head1' = Head1)
    BY <1>3, <1>c, <2>2, RunningSteps, StartedSteps, SendFacts, SendKinds DEF HistoryKept
  <2>4. Listed(s)' <=> Listed(s)
    BY <2>1, <2>3, ListSteps DEF Listed
  <2>5. \A q \in DOMAIN queue' : (q \in DOMAIN queue /\ queue'[q] = queue[q]) \/ queue'[q] = f
    BY <2>2, SentFacts
  <2>6. f.lane = "decode" /\ Has(f, s) => Listed(s)
    BY <2>1, DecodeRows DEF SentPrefill, SentChunk, Has, RowsOf, Listed
  <2>7. Listed(s) \/ \E q \in DOMAIN queue : queue[q].lane = "decode" /\ Has(queue[q], s)
    BY <2>4, <2>5, <2>6
  <2> QED
    BY <1>a, <2>3, <2>7
<1>4. CASE ActivateStep
  <2>1. /\ queue # <<>> /\ 1 \in DOMAIN queue /\ running' = ListAfter /\ running \in Seq(Slots)
        /\ Unstarted = {Head1} /\ Head1.lane \in {"prefill", "chunk", "decode"}
        /\ Started' /\ ~Started /\ Head1' = Head1 /\ queue' = queue /\ len' = len /\ chunk'.seq = chunk.seq
        /\ DOMAIN queue = {1} /\ queue[1] = Head1
    BY <1>0, <1>4, StartedSteps, PlaceFacts, RowsTyped, SMTT(30) DEF ActivateStep, Shapes, MakerShape, Head1, workVars
  <2>2. /\ s \in Active
        /\ s \in Running \/ (status[s] = "READY" /\ Has(Head1, s))
    BY <1>4, <1>b, ActivateRuns
  <2>3. Head1.lane # "chunk" \/ s # chunk.seq => hist'[s] = hist[s]
    BY <1>4, <1>b, <2>2 DEF ActivateStep
  <2>4. CASE Head1.lane = "prefill" /\ ~Has(Head1, s)
    <3>1. running' = running \o Joining /\ Joining \in Seq(Slots)
      BY <1>0, <2>1, <2>4, JoiningFacts DEF ListAfter
    <3>2. \A j \in DOMAIN Joining : Joining[j] # s
      BY <1>0, <2>1, <2>4, JoinersHaveRows
    <3> DEFINE J == Joining
               R == running
    <3>3. J \in Seq(Slots) /\ R \in Seq(Slots) /\ running' = R \o J /\ \A j \in DOMAIN J : J[j] # s
      BY <2>1, <3>1, <3>2
    <3> HIDE DEF J, R
    <3>4. \E i \in DOMAIN running' : running'[i] = s
      BY <2>1, <2>4 DEF Listed
    <3>5. \E i \in DOMAIN R : R[i] = s
      BY <3>3, <3>4, ConcatOf
    <3>6. Listed(s)
      BY <3>5 DEF R, Listed
    <3> QED
      BY <1>a, <2>1, <2>2, <2>3, <2>4, <3>6
  <2>5. CASE Head1.lane = "decode"
    <3>1. running' = [k \in RowsOf(Head1) |-> SeqAt(k)]
      BY <2>1, <2>5 DEF ListAfter
    <3>2. Has(Head1, s)
      BY <2>1, <3>1 DEF Listed, Has, RowsOf, SeqAt
    <3>3. status[s] # "READY"
      BY <1>0, <1>b, <2>1, <2>2, <2>5, <3>2 DEF Newcomers, Has, RowsOf
    <3> QED
      BY <1>a, <2>1, <2>2, <2>3, <2>5, <3>2, <3>3
  <2>6. CASE Head1.lane = "chunk"
    <3>1. Has(Head1, s) => s = chunk.seq
      BY <1>0, <2>1, <2>2, <2>6 DEF ChunkOwned, Has, RowsOf
    <3>2. \E i \in DOMAIN running' : running'[i] = s
      BY <2>1, <2>6 DEF Listed
    <3>3. CASE chunk = NoChunk
      <4>1. s \in Running /\ s # chunk.seq /\ ~Has(Head1, s)
        BY <1>b, <2>2, <3>1, <3>3
      <4>2. running' = running \o Joining /\ Joining \in Seq(Slots)
        BY <1>0, <2>1, <2>6, <3>3, JoiningFacts DEF ListAfter
      <4>3. \A j \in DOMAIN Joining : Joining[j] # s
        BY <1>0, <2>1, <4>1, JoinersHaveRows
      <4> DEFINE J == Joining
                 R == running
      <4>4. J \in Seq(Slots) /\ R \in Seq(Slots) /\ running' = R \o J /\ \A j \in DOMAIN J : J[j] # s
        BY <2>1, <4>2, <4>3
      <4> HIDE DEF J, R
      <4>5. \E i \in DOMAIN R : R[i] = s
        BY <3>2, <4>4, ConcatOf
      <4>6. Listed(s)
        BY <4>5 DEF R, Listed
      <4> QED
        BY <1>a, <2>1, <2>3, <4>1, <4>6
    <3>4. CASE chunk # NoChunk
      <4>1. running' = running
        BY <2>1, <2>6, <3>4 DEF ListAfter
      <4>2. Listed(s)
        BY <3>2, <4>1 DEF Listed
      <4>3. s # chunk.seq
        BY <2>2, <4>2 DEF ChunkApart
      <4> QED
        BY <1>a, <2>1, <2>2, <2>3, <3>1, <4>2, <4>3
    <3> QED
      BY <3>3, <3>4
  <2> QED
    BY <2>1, <2>4, <2>5, <2>6
<1>5. CASE CollectStep
  <2>1. /\ s \in Running /\ queue # <<>> /\ queue \in Seq(ForwardSet) /\ queue' = Tail(queue) /\ running' = running
        /\ (Takes(s) => Generates(s))
        /\ hist'[s] = IF Takes(s) THEN len[s] ELSE hist[s]
        /\ len'[s] = IF Takes(s) /\ Generates(s) THEN len[s] + 1 ELSE len[s]
        /\ len[s] \in Nat
    BY <1>0, <1>5, <1>b, RunningSteps DEF CollectStep, Shapes, WorkShape, SeqShape
  <2>2. \A q \in DOMAIN queue' : q + 1 \in DOMAIN queue /\ queue'[q] = queue[q + 1]
    BY <2>1, TailOf
  <2>3. Listed(s) \/ \E q \in DOMAIN queue : queue[q].lane = "decode" /\ Has(queue[q], s)
    BY <2>1, <2>2 DEF Listed
  <2>4. Head1.lane = "prefill" /\ Has(Head1, s) => Takes(s)
    BY <2>1 DEF Takes, Has, SeqAt, Running
  <2>5. Takes(s) \/ hist[s] = len[s] - 1
    BY <1>a, <2>1, <2>3, <2>4
  <2> QED
    BY <2>1, <2>5
<1> QED
  BY <1>1, <1>2, <1>3, <1>4, <1>5 DEF Steps


LEMMA SoundInit ==
    ASSUME DecodeBatchAssumption, Init
    PROVE  Sound
<1>1. Frame /\ Flow
  BY FrameInit
<1>2. pc = "send" /\ queue = <<>> /\ running = <<>> /\ Running = {}
  BY DEF Init, Running, WithStatus
<1>3. Unstarted = {}
  BY <1>2 DEF Unstarted
<1>4. Distinct
  BY <1>2, <1>3 DEF Distinct, ListedOnce, RowsOnce, Newcomers, TodoOnce, KeepOnce
<1> QED
  BY <1>1, <1>2, <1>4 DEF Sound, Whole

LEMMA SoundStep ==
    ASSUME DecodeBatchAssumption, Sound, ChunkApart, [Next]_vars
    PROVE  Sound'
<1>1. CASE Next
  <2>1. Frame' /\ Flow' /\ Distinct' /\ Steps
    BY <1>1, FlowStep, FrameStep, DistinctStep DEF Sound
  <2>2. Whole'
    BY <2>1, WholeStep DEF Sound
  <2> QED
    BY <2>1, <2>2 DEF Sound
<1>2. CASE UNCHANGED vars
  <2>1. /\ UNCHANGED <<len, hist, held, limit, kind, status, arrival>>
        /\ UNCHANGED <<running, toEvict, chunk, afterChunk, rounds, shorts>>
        /\ UNCHANGED <<queue, batch, built, setup, pc, turn>>
    BY <1>2 DEF vars, seqVars, makerVars, workVars
  <2>2. Running' = Running /\ Active' = Active /\ Unstarted' = Unstarted /\ Started' = Started /\ Head1' = Head1
    BY <2>1 DEF Running, Active, WithStatus, Unstarted, Started, Head1
  <2>3. Distinct'
    BY <2>1, <2>2 DEF Sound, Distinct, ListedOnce, RowsOnce, Newcomers, TodoOnce, KeepOnce, Listed, RowsOf
  <2>4. Whole'
    BY <2>1, <2>2 DEF Sound, Whole, Listed, Has, RowsOf
  <2> QED
    BY <1>2, <2>3, <2>4, FrameStutters DEF Sound
<1> QED
  BY <1>1, <1>2

LEMMA SoundHolds == Spec /\ []ChunkApart => []Sound
<1>1. Init => Sound
  BY SoundInit, DecodeBatchAssumption
<1>2. Sound /\ ChunkApart /\ [Next]_vars => Sound'
  BY SoundStep, DecodeBatchAssumption
<1> QED
  BY <1>1, <1>2, PTL DEF Spec

\* While the sequence whose prompt is being chunked is not on the list as well,
\* every running sequence is stepped between two passes, and the list steps it
\* once: no sequence is credited with two tokens for one (update_running_seqs).
THEOREM EverybodyIsSteppedOnce == Spec /\ []ChunkApart => []SteppedOnce
<1>1. Sound => SteppedOnce
  BY DEF Sound, Flow, Covered, SteppedOnce, SomebodySteps, Listed, Has, Distinct
<1> QED
  BY <1>1, SoundHolds, PTL

\* Under the same condition, a sequence is decoded only when all of its text but
\* the newest token is in the KV cache: chunks that are not the last one and
\* prefills whose output has not come yet lead to no decode of it
\* (InputsMakerAsync, LongContextChunker).
THEOREM PromptsComeWhole == Spec /\ []ChunkApart => []WholePromptFirst
<1>1. Sound => WholePromptFirst
  <2> SUFFICES ASSUME Sound, pc = "wait", Head1.lane = "decode", NEW i \in RowsOf(Head1), SeqAt(i) \in Running
               PROVE  hist[SeqAt(i)] = len[SeqAt(i)] - 1
    BY DEF WholePromptFirst
  <2>1. 1 \in DOMAIN queue /\ queue[1] = Head1
    BY PlaceFacts DEF Sound, Head1
  <2>2. Has(Head1, SeqAt(i))
    BY DEF Has, SeqAt
  <2> QED
    BY <2>1, <2>2 DEF Sound, Whole
<1> QED
  BY <1>1, SoundHolds, PTL


---------------------------------------------------------------------------
(* The worker's rows across a step. *)

\* As many positions as there are rows are all of them, in order.
LEMMA AscendingIdentity ==
    ASSUME NEW n \in Nat, NEW q \in [1..n -> 1..n], Ascending(q), NEW i \in 1..n
    PROVE  q[i] = i
<1>1. i \in Nat /\ q[i] \in Nat /\ 1 <= i /\ i <= n /\ 1 <= q[i] /\ q[i] <= n
  OBVIOUS
<1>2. \A k, l \in 1..n : k < l => q[k] < q[l]
  BY DEF Ascending
<1>3. \A k, l \in 1..n : q[k] = q[l] => k = l
  <2> SUFFICES ASSUME NEW k \in 1..n, NEW l \in 1..n, q[k] = q[l], k # l PROVE FALSE
    OBVIOUS
  <2>1. k < l \/ l < k
    OBVIOUS
  <2>2. q[k] \in Nat
    OBVIOUS
  <2>3. ~(q[k] < q[k])
    BY <2>2
  <2> QED
    BY <1>2, <2>1, <2>3
<1>4. i <= q[i]
  <2> DEFINE f == [k \in 1..i |-> q[k]]
  <2>1. \A k \in 1..i : k \in 1..n /\ (k = i \/ k < i)
    BY <1>1
  <2>2. \A k \in 1..i : q[k] \in 1..n /\ q[k] <= q[i]
    <3> SUFFICES ASSUME NEW k \in 1..i PROVE q[k] \in 1..n /\ q[k] <= q[i]
      OBVIOUS
    <3>1. k \in 1..n /\ q[k] \in 1..n /\ (k = i \/ q[k] < q[i])
      BY <1>2, <2>1
    <3>2. q[k] = q[i] \/ q[k] < q[i]
      BY <3>1
    <3>3. q[k] \in Nat /\ q[i] \in Nat
      BY <1>1, <3>1
    <3>4. \A a, b \in Nat : a = b \/ a < b => a <= b
      OBVIOUS
    <3> QED
      BY <3>1, <3>2, <3>3, <3>4, Zenon
  <2>3. f \in [1..i -> 1..q[i]]
    BY <1>1, <2>2
  <2>4. \A k, l \in 1..i : f[k] = f[l] => k = l
    BY <1>3, <2>1
  <2>5. f \in Injection(1..i, 1..q[i])
    BY <2>3, <2>4, Fun_IsInj
  <2>6. Cardinality(1..i) = i /\ IsFiniteSet(1..q[i]) /\ Cardinality(1..q[i]) = q[i]
    BY <1>1, FS_Interval
  <2> QED
    BY <2>5, <2>6, FS_Injection
<1>5. q[i] <= i
  <2> DEFINE f == [k \in i..n |-> q[k]]
  <2>1. \A k \in i..n : k \in 1..n /\ (k = i \/ i < k)
    BY <1>1
  <2>2. \A k \in i..n : q[k] \in 1..n /\ q[i] <= q[k]
    <3> SUFFICES ASSUME NEW k \in i..n PROVE q[k] \in 1..n /\ q[i] <= q[k]
      OBVIOUS
    <3>1. k \in 1..n /\ q[k] \in 1..n /\ (k = i \/ q[i] < q[k])
      BY <1>2, <2>1
    <3>2. q[k] = q[i] \/ q[i] < q[k]
      BY <3>1
    <3>3. q[k] \in Nat /\ q[i] \in Nat
      BY <1>1, <3>1
    <3>4. \A a, b \in Nat : a = b \/ b < a => b <= a
      OBVIOUS
    <3> QED
      BY <3>1, <3>2, <3>3, <3>4, Zenon
  <2>3. f \in [i..n -> q[i]..n]
    BY <1>1, <2>2
  <2>4. \A k, l \in i..n : f[k] = f[l] => k = l
    BY <1>3, <2>1
  <2>5. f \in Injection(i..n, q[i]..n)
    BY <2>3, <2>4, Fun_IsInj
  <2>a. i \in Int /\ n \in Int /\ q[i] \in Int /\ ~(i > n) /\ ~(q[i] > n)
    BY <1>1
  <2>b. IsFiniteSet(i..n) /\ Cardinality(i..n) = n - i + 1
    BY <2>a, FS_Interval
  <2>c. IsFiniteSet(q[i]..n) /\ Cardinality(q[i]..n) = n - q[i] + 1
    BY <2>a, FS_Interval
  <2>6. Cardinality(i..n) = n - i + 1 /\ IsFiniteSet(q[i]..n) /\ Cardinality(q[i]..n) = n - q[i] + 1
    BY <2>b, <2>c
  <2>7. n - i + 1 <= n - q[i] + 1
    BY <2>5, <2>6, FS_Injection
  <2> QED
    BY <1>1, <2>7
<1> QED
  BY <1>1, <1>4, <1>5

LEMMA SelectedType ==
    ASSUME NEW f \in ForwardSet, NEW rows \in Seq(CarriedSet)
    PROVE  /\ Selected(f, rows) \in Seq(CarriedSet)
           /\ After(f, rows) \in Seq(CarriedSet)
<1>1. f.keep \in Seq(Nat) /\ f.rows \in Seq(RowSet)
  BY DEF ForwardSet
<1>2. DOMAIN f.keep = 1..Len(f.keep) /\ Len(f.keep) \in Nat
  BY <1>1
<1>3. [seq |-> Gone, len |-> 0] \in CarriedSet
  BY DEF CarriedSet, Slots
<1> DEFINE sel == [i \in DOMAIN f.keep |->
                     IF f.keep[i] \in DOMAIN rows THEN rows[f.keep[i]] ELSE [seq |-> Gone, len |-> 0]]
<1>4. sel \in [1..Len(f.keep) -> CarriedSet]
  BY <1>2, <1>3
<1>5. sel \in Seq(CarriedSet)
  BY <1>2, <1>4
<1>6. Selected(f, rows) \in Seq(CarriedSet)
  BY <1>5 DEF Selected
<1>7. Grown(f.rows) \in Seq(CarriedSet) /\ Grown(Selected(f, rows)) \in Seq(CarriedSet)
  BY <1>1, <1>6, GrownFacts
<1>8. Selected(f, rows) \o Grown(f.rows) \in Seq(CarriedSet)
  BY <1>6, <1>7, ConcatOf
<1> QED
  BY <1>6, <1>7, <1>8 DEF After

LEMMA WorkerIs ==
    /\ Worker = IF Started THEN After(Head1, batch) ELSE batch
    /\ Worker' = IF Started' THEN After(Head1', batch') ELSE batch'
    /\ \A f : BatchAfter(f) = After(f, batch)
    /\ \A f : Reindexed(f) = Selected(f, batch) /\ Reindexed(f)' = Selected(f, batch')
<1>1. \A f : Reindexed(f) = Selected(f, batch) /\ Reindexed(f)' = Selected(f, batch')
  BY DEF Reindexed, Selected, RowAt
<1>2. \A f : BatchAfter(f) = After(f, batch)
  BY <1>1 DEF BatchAfter, After
<1>3. BatchAfter(Head1)' = After(Head1', batch')
  BY DEF BatchAfter, After, Reindexed, Selected, RowAt
<1> QED
  BY <1>1, <1>2, <1>3 DEF Worker

LEMMA SelectedSameBut ==
    ASSUME NEW e \in Seqs, Gone \notin Seqs, NEW f \in ForwardSet, NEW g \in ForwardSet, Ghosted(e, f, g),
           NEW rows \in Seq(CarriedSet), NEW rows2 \in Seq(CarriedSet), SameBut(e, rows, rows2)
    PROVE  SameBut(e, Selected(f, rows), Selected(g, rows2))
<1>1. g.reindex = f.reindex /\ g.keep = f.keep /\ f.keep \in Seq(Nat)
  BY DEF Ghosted, ForwardSet
<1>2. Len(rows2) = Len(rows) /\ DOMAIN rows2 = DOMAIN rows
  BY DEF SameBut
<1>3. CASE ~f.reindex \/ Len(f.keep) = Len(rows)
  BY <1>1, <1>2, <1>3 DEF Selected
<1>4. CASE ~(~f.reindex \/ Len(f.keep) = Len(rows))
  <2> DEFINE a == Selected(f, rows)
             b == Selected(g, rows2)
  <2>1. a = [i \in DOMAIN f.keep |->
                IF f.keep[i] \in DOMAIN rows THEN rows[f.keep[i]] ELSE [seq |-> Gone, len |-> 0]]
    BY <1>4 DEF Selected
  <2>2. b = [i \in DOMAIN f.keep |->
                IF f.keep[i] \in DOMAIN rows THEN rows2[f.keep[i]] ELSE [seq |-> Gone, len |-> 0]]
    BY <1>1, <1>2, <1>4 DEF Selected
  <2>3. a \in Seq(CarriedSet) /\ b \in Seq(CarriedSet)
    BY SelectedType
  <2> HIDE DEF a, b
  <2>4. DOMAIN a = DOMAIN b
    BY <2>1, <2>2
  <2>5. Len(a) = Len(b)
    BY <2>3, <2>4
  <2>6. ASSUME NEW i \in DOMAIN a, a[i].seq # e PROVE b[i] = a[i]
    BY <2>1, <2>2, <2>6 DEF SameBut
  <2>7. SameBut(e, a, b)
    BY <2>4, <2>5, <2>6 DEF SameBut
  <2> QED
    BY <2>7 DEF a, b
<1> QED
  BY <1>3, <1>4

LEMMA GrownSameBut ==
    ASSUME NEW e \in Seqs, NEW rows, NEW rows2, SameBut(e, rows, rows2),
           rows \in Seq(CarriedSet) \/ rows \in Seq(RowSet), rows2 \in Seq(CarriedSet) \/ rows2 \in Seq(RowSet)
    PROVE  SameBut(e, Grown(rows), Grown(rows2))
<1>1. /\ Len(Grown(rows)) = Len(rows) /\ DOMAIN Grown(rows) = DOMAIN rows
      /\ \A i \in DOMAIN rows : Grown(rows)[i].seq = rows[i].seq
  BY GrownFacts
<1>2. Len(Grown(rows2)) = Len(rows2) /\ DOMAIN Grown(rows2) = DOMAIN rows2
  BY GrownFacts
<1>3. ASSUME NEW i \in DOMAIN rows, rows[i].seq # e PROVE Grown(rows2)[i] = Grown(rows)[i]
  BY <1>3 DEF SameBut, Grown
<1> QED
  BY <1>1, <1>2, <1>3 DEF SameBut

LEMMA ConcatSameBut ==
    ASSUME NEW e \in Seqs, NEW a \in Seq(CarriedSet), NEW a2 \in Seq(CarriedSet), SameBut(e, a, a2),
           NEW b \in Seq(CarriedSet), NEW b2 \in Seq(CarriedSet), SameBut(e, b, b2)
    PROVE  SameBut(e, a \o b, a2 \o b2)
<1> DEFINE c  == a \o b
           c2 == a2 \o b2
<1>1. /\ c \in Seq(CarriedSet) /\ Len(c) = Len(a) + Len(b)
      /\ \A i \in DOMAIN a : i \in DOMAIN c /\ c[i] = a[i]
      /\ \A i \in DOMAIN b : Len(a) + i \in DOMAIN c /\ c[Len(a) + i] = b[i]
      /\ \A i \in DOMAIN c : i \in DOMAIN a \/ (i - Len(a) \in DOMAIN b /\ c[i] = b[i - Len(a)])
  BY ConcatOf
<1>2. /\ c2 \in Seq(CarriedSet) /\ Len(c2) = Len(a2) + Len(b2)
      /\ \A i \in DOMAIN a2 : i \in DOMAIN c2 /\ c2[i] = a2[i]
      /\ \A i \in DOMAIN b2 : Len(a2) + i \in DOMAIN c2 /\ c2[Len(a2) + i] = b2[i]
  BY ConcatOf
<1> HIDE DEF c, c2
<1>3. /\ Len(a2) = Len(a) /\ DOMAIN a2 = DOMAIN a /\ Len(b2) = Len(b) /\ DOMAIN b2 = DOMAIN b
      /\ \A i \in DOMAIN a : a[i].seq # e => a2[i] = a[i]
      /\ \A i \in DOMAIN b : b[i].seq # e => b2[i] = b[i]
  BY DEF SameBut
<1>4. Len(c2) = Len(c) /\ DOMAIN c2 = DOMAIN c
  BY <1>1, <1>2, <1>3
<1>5. ASSUME NEW i \in DOMAIN c, c[i].seq # e PROVE c2[i] = c[i]
  <2>1. CASE i \in DOMAIN a
    BY <1>1, <1>2, <1>3, <1>5, <2>1
  <2>2. CASE i - Len(a) \in DOMAIN b /\ c[i] = b[i - Len(a)]
    <3> DEFINE k == i - Len(a)
    <3>1. k \in DOMAIN b /\ c[i] = b[k] /\ i = Len(a) + k
      BY <1>1, <2>2
    <3> HIDE DEF k
    <3> QED
      BY <1>2, <1>3, <1>5, <3>1
  <2> QED
    BY <1>1, <2>1, <2>2
<1>6. SameBut(e, c, c2)
  BY <1>4, <1>5 DEF SameBut
<1> QED
  BY <1>6 DEF c, c2

LEMMA AfterSameBut ==
    ASSUME NEW e \in Seqs, Gone \notin Seqs, NEW f \in ForwardSet, NEW g \in ForwardSet, Ghosted(e, f, g),
           NEW rows \in Seq(CarriedSet), NEW rows2 \in Seq(CarriedSet), SameBut(e, rows, rows2)
    PROVE  SameBut(e, After(f, rows), After(g, rows2))
<1>1. SameBut(e, Selected(f, rows), Selected(g, rows2))
  BY SelectedSameBut
<1>2. Selected(f, rows) \in Seq(CarriedSet) /\ Selected(g, rows2) \in Seq(CarriedSet)
  BY SelectedType
<1>3. SameBut(e, Grown(Selected(f, rows)), Grown(Selected(g, rows2)))
  BY <1>1, <1>2, GrownSameBut
<1>4. f.rows \in Seq(RowSet) /\ g.rows \in Seq(RowSet) /\ SameBut(e, f.rows, g.rows)
  BY DEF Ghosted, SameBut, ForwardSet
<1>5. /\ SameBut(e, Grown(f.rows), Grown(g.rows))
      /\ Grown(f.rows) \in Seq(CarriedSet) /\ Grown(g.rows) \in Seq(CarriedSet)
  BY <1>4, GrownSameBut, GrownFacts
<1>6. SameBut(e, Selected(f, rows) \o Grown(f.rows), Selected(g, rows2) \o Grown(g.rows))
  BY <1>1, <1>2, <1>5, ConcatSameBut
<1>7. g.scoring = f.scoring /\ g.lane = f.lane
  BY DEF Ghosted
<1> QED
  BY <1>1, <1>3, <1>6, <1>7 DEF After


\* What happens to the worker's rows, and to the lengths due, in a step.
LEMMA WorkerSteps ==
    ASSUME DecodeBatchAssumption, Frame, Frame'
    PROVE  /\ Worker \in Seq(CarriedSet) /\ Worker' \in Seq(CarriedSet) /\ batch \in Seq(CarriedSet)
           /\ MildStep \/ BeginStep \/ QuietStep \/ PageStep \/ CollectStep => Worker' = Worker
           /\ \A f : Sends /\ Sent(f) => Worker' = Worker
           /\ ActivateStep => Worker = batch /\ Worker' = After(Head1, batch)
           /\ \A e \in Seqs : EndStep(e) => SameBut(e, Worker, Worker')
<1>0. batch \in Seq(CarriedSet) /\ batch' \in Seq(CarriedSet) /\ Gone \notin Seqs
  BY DEF Frame, Shapes, WorkShape, DecodeBatchAssumption
<1>a. /\ Worker = IF Started THEN After(Head1, batch) ELSE batch
      /\ Worker' = IF Started' THEN After(Head1', batch') ELSE batch'
      /\ \A f : BatchAfter(f) = After(f, batch)
  BY WorkerIs
<1>b. (Started => Head1 \in ForwardSet) /\ (Started' => Head1' \in ForwardSet)
  <2>1. ASSUME Started PROVE Head1 \in ForwardSet
    <3>1. queue # <<>> /\ queue \in Seq(ForwardSet)
      BY <2>1 DEF Started, Frame, Shapes, WorkShape
    <3> QED
      BY <3>1, TailOf DEF Head1
  <2>2. ASSUME Started' PROVE Head1' \in ForwardSet
    <3>1. queue' # <<>> /\ queue' \in Seq(ForwardSet)
      BY <2>2 DEF Started, Frame, Shapes, WorkShape
    <3>2. queue'[1] \in ForwardSet
      BY <3>1, TailOf
    <3> QED
      BY <3>2 DEF Head1
  <2> QED
    BY <2>1, <2>2
<1>1. Worker \in Seq(CarriedSet) /\ Worker' \in Seq(CarriedSet)
  BY <1>0, <1>a, <1>b, SelectedType
<1>2. MildStep \/ BeginStep \/ QuietStep \/ PageStep => Worker' = Worker
  <2>1. MildStep \/ BeginStep \/ QuietStep \/ PageStep => batch' = batch
    BY DEF MildStep, BeginStep, QuietStep, PageStep, workVars
  <2> QED
    BY <1>a, <2>1, StartedSteps
<1>3. CollectStep => Worker' = Worker
  <2>1. CollectStep => batch' = BatchAfter(Head1)
    BY DEF CollectStep
  <2> QED
    BY <1>a, <2>1, StartedSteps
<1>4. ASSUME NEW f, Sends, Sent(f) PROVE Worker' = Worker
  <2>1. batch' = batch /\ (Started' <=> Started) /\ (Started => Head1' = Head1)
    BY <1>4, SentFacts, StartedSteps
  <2> QED
    BY <1>a, <2>1
<1>5. ActivateStep => Worker = batch /\ Worker' = After(Head1, batch)
  <2>1. ActivateStep => batch' = batch
    BY DEF ActivateStep, workVars
  <2> QED
    BY <1>a, <2>1, StartedSteps
<1>6. ASSUME NEW e \in Seqs, EndStep(e) PROVE SameBut(e, Worker, Worker')
  <2>1. batch' = GhostRows(e, batch)
    BY <1>6 DEF EndStep
  <2>2. SameBut(e, batch, batch')
    BY <1>0, <2>1, GhostBatchFacts DEF SameBut
  <2>3. (Started' <=> Started) /\ (Started => Ghosted(e, Head1, Head1'))
    BY <1>6, StartedSteps
  <2>4. CASE Started
    <3>1. SameBut(e, After(Head1, batch), After(Head1', batch'))
      BY <1>0, <1>b, <2>2, <2>3, <2>4, AfterSameBut
    <3> QED
      BY <1>a, <2>3, <2>4, <3>1
  <2>5. CASE ~Started
    BY <1>a, <2>2, <2>3, <2>5
  <2> QED
    BY <2>4, <2>5
<1> QED
  BY <1>0, <1>1, <1>2, <1>3, <1>4, <1>5, <1>6

LEMMA DueSteps ==
    ASSUME DecodeBatchAssumption, Frame, Frame'
    PROVE  /\ MildStep \/ BeginStep \/ QuietStep \/ PageStep \/ CollectStep =>
                \A s \in Running' : s \in Running /\ Dues'[s] = Dues[s]
           /\ \A f : Sends /\ Sent(f) => \A s \in Running' : s \in Running /\ Dues'[s] = Dues[s]
           /\ \A e \in Seqs : EndStep(e) => \A s \in Running' : s \in Running /\ s # e /\ Dues'[s] = Dues[s]
           /\ ActivateStep => \A s \in Running' :
                /\ Dues[s] = len[s]
                /\ Dues'[s] = IF Head1.lane # "chunk" /\ Has(Head1, s) THEN len[s] + 1 ELSE len[s]
<1>a. \A s \in Seqs : Dues'[s] = IF Started' /\ Head1'.lane # "chunk" /\ Has(Head1', s) THEN len'[s] + 1 ELSE len'[s]
  BY DEF Dues, Has, RowsOf
<1>b. /\ \A s \in Running : s \in Seqs /\ status[s] # "none"
      /\ \A s \in Running' : s \in Seqs
      /\ Gone \notin Seqs
  BY DEF Running, WithStatus, DecodeBatchAssumption
<1>1. ASSUME MildStep \/ BeginStep \/ QuietStep \/ PageStep, NEW s \in Running'
      PROVE  s \in Running /\ Dues'[s] = Dues[s]
  <2>1. s \in Running /\ (Started' <=> Started) /\ Head1' = Head1
    BY <1>1, RunningSteps, StartedSteps
  <2>2. len'[s] = len[s]
    BY <1>1, <1>b, <2>1 DEF MildStep, BeginStep, QuietStep, PageStep, seqVars
  <2> QED
    BY <1>a, <1>b, <2>1, <2>2 DEF Dues
<1>2. ASSUME CollectStep, NEW s \in Running' PROVE s \in Running /\ Dues'[s] = Dues[s]
  <2>1. /\ s \in Running /\ Started /\ ~Started' /\ s \in Seqs
        /\ (Takes(s) => Generates(s))
        /\ len'[s] = IF Takes(s) /\ Generates(s) THEN len[s] + 1 ELSE len[s]
    BY <1>2, <1>b, RunningSteps, StartedSteps DEF CollectStep
  <2>2. Takes(s) <=> Head1.lane # "chunk" /\ Has(Head1, s)
    BY <2>1 DEF Takes, Has, SeqAt
  <2> QED
    BY <1>a, <1>b, <2>1, <2>2 DEF Dues
<1>3. ASSUME NEW f, Sends, Sent(f), NEW s \in Running' PROVE s \in Running /\ Dues'[s] = Dues[s]
  <2>1. s \in Running /\ (Started' <=> Started) /\ (Started => Head1' = Head1) /\ len' = len
    BY <1>3, RunningSteps, StartedSteps, SendFacts
  <2> QED
    BY <1>a, <1>b, <2>1 DEF Dues
<1>4. ASSUME NEW e \in Seqs, EndStep(e), NEW s \in Running' PROVE s \in Running /\ s # e /\ Dues'[s] = Dues[s]
  <2>1. s \in Running /\ s # e /\ s \in Seqs
    BY <1>4, <1>b, RunningSteps
  <2>2. (Started' <=> Started) /\ (Started => Ghosted(e, Head1, Head1')) /\ len'[s] = len[s]
    BY <1>4, <2>1, StartedSteps DEF EndStep
  <2>3. \A t : Ghost(e, t) = s <=> t = s
    BY <1>b, <2>1 DEF Ghost
  <2>4. Started => Head1'.lane = Head1.lane /\ (Has(Head1', s) <=> Has(Head1, s))
    BY <2>2, <2>3, SMTT(30) DEF Ghosted, Has, RowsOf
  <2> QED
    BY <1>a, <2>1, <2>2, <2>4 DEF Dues
<1>5. ASSUME ActivateStep, NEW s \in Running'
      PROVE  /\ Dues[s] = len[s]
             /\ Dues'[s] = IF Head1.lane # "chunk" /\ Has(Head1, s) THEN len[s] + 1 ELSE len[s]
  <2>1. Started' /\ ~Started /\ Head1' = Head1 /\ len' = len
    BY <1>5, StartedSteps DEF ActivateStep
  <2> QED
    BY <1>a, <1>b, <2>1 DEF Dues
<1> QED
  BY <1>1, <1>2, <1>3, <1>4, <1>5

\* Only requests that generate come in.
LEMMA GeneratingStep ==
    ASSUME DecodeBatchAssumption, Frame, Frame', Generating, Kinds \subseteq {"generate"}, Steps
    PROVE  Generating'
<1>0. Shapes /\ \A t \in Seqs : kind[t] = "generate"
  BY DEF Generating, Frame
<1>a. \A t \in Seqs : kind'[t] = "generate"
  <2>1. BeginStep \/ QuietStep \/ PageStep \/ Sends \/ ActivateStep \/ CollectStep => kind' = kind
    BY SendFacts DEF BeginStep, QuietStep, PageStep, ActivateStep, CollectStep, seqVars
  <2>2. MildStep => \A t \in Seqs : kind'[t] = "generate"
    BY <1>0 DEF MildStep
  <2>3. ASSUME NEW e \in Seqs, EndStep(e) PROVE \A t \in Seqs : kind'[t] = "generate"
    BY <1>0, <2>3 DEF EndStep
  <2> QED
    BY <1>0, <2>1, <2>2, <2>3 DEF Steps
<1> DEFINE Plain(f) == /\ ~f.scoring /\ \A i \in DOMAIN f.rows : f.rows[i].gen
                       /\ f.lane = "chunk" => ~f.reindex
<1>b. \A q \in DOMAIN queue : Plain(queue[q])
  BY DEF Generating, RowsOf
<1>c. SUFFICES ASSUME NEW q \in DOMAIN queue' PROVE Plain(queue'[q])
  BY <1>a DEF Generating, RowsOf
<1>1. CASE MildStep \/ PageStep \/ BeginStep \/ QuietStep \/ ActivateStep
  <2>1. queue' = queue
    BY <1>1 DEF MildStep, PageStep, BeginStep, QuietStep, ActivateStep, workVars
  <2> QED
    BY <1>b, <2>1
<1>2. ASSUME NEW e \in Seqs, EndStep(e) PROVE Plain(queue'[q])
  <2>1. q \in DOMAIN queue /\ Ghosted(e, queue[q], queue'[q])
    BY <1>2, GhostedQueue
  <2>2. Plain(queue[q])
    BY <1>b, <2>1
  <2> QED
    BY <2>1, <2>2 DEF Ghosted
<1>3. CASE CollectStep
  <2>1. queue' = Tail(queue) /\ queue # <<>> /\ queue \in Seq(ForwardSet)
    BY <1>0, <1>3 DEF CollectStep, Shapes, WorkShape
  <2>2. q + 1 \in DOMAIN queue /\ queue'[q] = queue[q + 1]
    BY <2>1, TailOf
  <2> QED
    BY <1>b, <2>2
<1>4. CASE Sends
  <2>1. PICK f : SentPrefill(f) \/ SentChunk(f) \/ SentDecode(f)
    BY <1>4, SendKinds
  <2>2. Sent(f)
    BY <2>1 DEF SentPrefill, SentChunk, SentDecode
  <2>3. (q \in DOMAIN queue /\ queue'[q] = queue[q]) \/ queue'[q] = f
    BY <2>2, SentFacts
  <2>4. Plain(f)
    <3>1. CASE SentPrefill(f)
      <4>1. f.lane = "prefill"
        BY <3>1 DEF SentPrefill
      <4>2. /\ \A i \in DOMAIN f.rows : f.rows[i].seq \in Seqs /\ f.rows[i].gen = (kind[f.rows[i].seq] = "generate")
            /\ f.scoring => \E i \in DOMAIN f.rows : kind[f.rows[i].seq] = "score"
        BY <3>1, PrefillRows
      <4>3. ~f.scoring
        BY <1>0, <4>2
      <4> QED
        BY <1>0, <4>1, <4>2, <4>3
    <3>2. CASE SentChunk(f)
      <4>1. ~f.reindex /\ f.scoring = (kind[chunk'.seq] = "score") /\ chunk'.seq \in Seqs
        BY <3>2 DEF SentChunk
      <4>2. DOMAIN f.rows = {1} /\ f.rows[1].gen = (kind[chunk'.seq] = "generate")
        BY <3>2, ChunkRows
      <4> QED
        BY <1>0, <4>1, <4>2
    <3>3. CASE SentDecode(f)
      BY <3>3, DecodeRows DEF SentDecode
    <3> QED
      BY <2>1, <3>1, <3>2, <3>3
  <2> QED
    BY <1>b, <2>3, <2>4
<1> QED
  BY <1>1, <1>2, <1>3, <1>4 DEF Steps


---------------------------------------------------------------------------
(* A started decode works on the rows of the sequences it names. *)

\* A decode selects as many rows as it has.
LEMMA DecodeDomain ==
    ASSUME Frame, NEW q \in DOMAIN queue, queue[q].lane = "decode", NEW rows \in Seq(CarriedSet)
    PROVE  /\ DOMAIN Selected(queue[q], rows) = DOMAIN queue[q].rows
           /\ queue[q].reindex /\ Len(queue[q].keep) = Len(queue[q].rows)
<1>1. queue[q].reindex /\ Len(queue[q].keep) = Len(queue[q].rows)
  BY DEF Frame, LaneShape
<1>2. queue[q].rows \in Seq(RowSet) /\ queue[q].keep \in Seq(Nat)
  BY RowsTyped DEF Frame
<1>3. DOMAIN queue[q].keep = DOMAIN queue[q].rows
  BY <1>1, <1>2
<1>4. CASE Len(queue[q].keep) = Len(rows)
  <2>1. Selected(queue[q], rows) = rows
    BY <1>4 DEF Selected
  <2>2. DOMAIN rows = 1..Len(rows) /\ DOMAIN queue[q].rows = 1..Len(queue[q].rows)
    BY <1>2
  <2> QED
    BY <1>1, <1>4, <2>1, <2>2
<1>5. CASE Len(queue[q].keep) # Len(rows)
  BY <1>1, <1>3, <1>5 DEF Selected
<1> QED
  BY <1>1, <1>4, <1>5

LEMMA HeadAlignedStep ==
    ASSUME DecodeBatchAssumption, Frame, Frame', Flow, Distinct, Aligned, Steps
    PROVE  HeadAligned'
<1> SUFFICES ASSUME Started', Head1'.lane = "decode", NEW i \in DOMAIN Head1'.rows,
                    NEW s \in Running', s = Head1'.rows[i].seq
             PROVE  /\ \E k \in DOMAIN running' : running'[k] = s
                    /\ Selected(Head1', batch')[i] = [seq |-> s, len |-> len'[s]]
  BY WorkerIs DEF HeadAligned, Listed, SeqAt, RowsOf
<1>a. ASSUME Started, Head1.lane = "decode", i \in DOMAIN Head1.rows, s = Head1.rows[i].seq, s \in Running
      PROVE  Listed(s) /\ Selected(Head1, batch)[i] = [seq |-> s, len |-> len[s]]
  BY <1>a, WorkerIs DEF Aligned, HeadAligned, SeqAt, RowsOf
<1>b. Running \subseteq Seqs /\ Gone \notin Seqs /\ batch \in Seq(CarriedSet)
  BY RunningSteps DEF Frame, Shapes, WorkShape
<1>1. CASE MildStep \/ PageStep \/ BeginStep \/ QuietStep
  <2>1. s \in Running /\ Started /\ Head1' = Head1 /\ running' = running
    BY <1>1, RunningSteps, StartedSteps, ListSteps
  <2>2. batch' = batch /\ len'[s] = len[s]
    <3>1. s \in Seqs /\ status[s] # "none"
      BY <2>1 DEF Running, WithStatus
    <3> QED
      BY <1>1, <3>1 DEF MildStep, PageStep, BeginStep, QuietStep, workVars, seqVars
  <2>3. Listed(s) /\ Selected(Head1, batch)[i] = [seq |-> s, len |-> len[s]]
    BY <1>a, <2>1
  <2> QED
    BY <2>1, <2>2, <2>3 DEF Listed
<1>2. CASE Sends
  <2>1. PICK f : SentPrefill(f) \/ SentChunk(f) \/ SentDecode(f)
    BY <1>2, SendKinds
  <2>2. Sent(f)
    BY <2>1 DEF SentPrefill, SentChunk, SentDecode
  <2>3. s \in Running /\ Started /\ Head1' = Head1 /\ batch' = batch /\ len' = len
    BY <1>2, <2>2, RunningSteps, StartedSteps, SentFacts, SendFacts
  <2>4. Listed(s) /\ Selected(Head1, batch)[i] = [seq |-> s, len |-> len[s]]
    BY <1>a, <2>3
  <2>5. Listed(s)'
    BY <2>1, <2>3, <2>4, ListSteps DEF Listed
  <2>6. \E k \in DOMAIN running' : running'[k] = s
    BY <2>5 DEF Listed
  <2> QED
    BY <2>3, <2>4, <2>6
<1>3. ASSUME NEW e \in Seqs, EndStep(e)
      PROVE  /\ \E k \in DOMAIN running' : running'[k] = s
             /\ Selected(Head1', batch')[i] = [seq |-> s, len |-> len'[s]]
  <2>1. s \in Running /\ s # e /\ Started /\ Ghosted(e, Head1, Head1')
    BY <1>3, RunningSteps, StartedSteps
  <2>2. i \in DOMAIN Head1.rows /\ s = Head1.rows[i].seq /\ Head1.lane = "decode"
    BY <1>b, <2>1 DEF Ghosted, Ghost
  <2>3. Listed(s) /\ Selected(Head1, batch)[i] = [seq |-> s, len |-> len[s]]
    BY <1>a, <2>1, <2>2
  <2>4. 1 \in DOMAIN queue /\ queue[1] = Head1 /\ Head1 \in ForwardSet
    BY <2>1, StartedSteps, RowsTyped DEF Head1, Frame
  <2>5. i \in DOMAIN Selected(Head1, batch)
    BY <1>b, <2>2, <2>4, DecodeDomain
  <2>6. batch' = GhostRows(e, batch) /\ batch' \in Seq(CarriedSet)
    BY <1>3 DEF EndStep, Frame, Shapes, WorkShape
  <2>7. SameBut(e, batch, batch')
    BY <1>b, <2>6, GhostBatchFacts DEF SameBut
  <2>8. Head1' \in ForwardSet
    BY <2>4, <1>3, EndQueue DEF Head1
  <2>9. SameBut(e, Selected(Head1, batch), Selected(Head1', batch'))
    BY <1>b, <2>1, <2>4, <2>6, <2>7, <2>8, SelectedSameBut
  <2>10. Selected(Head1', batch')[i] = Selected(Head1, batch)[i]
    BY <2>1, <2>3, <2>5, <2>9 DEF SameBut
  <2>11. len'[s] = len[s]
    BY <1>3, <1>b, <2>1 DEF EndStep
  <2>12. Listed(s)'
    BY <1>3, <1>b, <2>1, <2>3, ListSteps
  <2>13. \E k \in DOMAIN running' : running'[k] = s
    BY <2>12 DEF Listed
  <2> QED
    BY <2>3, <2>10, <2>11, <2>13
<1>4. CASE ActivateStep
  <2>1. Head1' = Head1 /\ Unstarted = {Head1} /\ batch' = batch /\ len' = len /\ running' = ListAfter
    BY <1>4, StartedSteps DEF ActivateStep, workVars
  <2>2. s \in Running
    <3>1. status[s] # "READY"
      <4>1. s \in Seqs
        BY <1>4, ActivateRuns, RunningSteps
      <4> QED
        BY <2>1, <4>1 DEF Distinct, Newcomers, RowsOf
    <3> QED
      BY <1>4, <3>1, ActivateRuns
  <2>3. Selected(Head1, Worker)[i] = [seq |-> s, len |-> Dues[s]]
    BY <2>1, <2>2 DEF Aligned, PendingAligned, RowsOf
  <2>4. Worker = batch /\ Dues[s] = len[s]
    BY <1>4, WorkerSteps, DueSteps
  <2>5. running' = [k \in DOMAIN Head1.rows |-> Head1.rows[k].seq]
    BY <2>1 DEF ListAfter, RowsOf, SeqAt
  <2>6. i \in DOMAIN running' /\ running'[i] = s
    BY <2>1, <2>5
  <2> QED
    BY <2>1, <2>3, <2>4, <2>6
<1>5. CASE CollectStep
  BY <1>5, StartedSteps
<1> QED
  BY <1>1, <1>2, <1>3, <1>4, <1>5 DEF Steps


---------------------------------------------------------------------------
(* So will the forward that waits to start. *)

LEMMA PendingIs ==
    /\ PendingAligned <=> PendingOf(Unstarted, Worker, running, Running, Dues, Active, len)
    /\ PendingAligned' <=> PendingOf(Unstarted', Worker', running', Running', Dues', Active', len')
<1>1. PendingAligned <=> PendingOf(Unstarted, Worker, running, Running, Dues, Active, len)
  BY DEF PendingAligned, PendingOf, Matches, Picks, Fits, InStep, RowsOf
<1>2. PendingAligned' <=> PendingOf(Unstarted', Worker', running', Running', Dues', Active', len')
  BY DEF PendingAligned, PendingOf, Matches, Picks, Fits, InStep, RowsOf, Selected
<1> QED
  BY <1>1, <1>2

\* Ascending positions of rows select these rows, all of them if they are as many.
LEMMA PositionsSelect ==
    ASSUME NEW f \in ForwardSet, f.reindex, NEW rows \in Seq(CarriedSet), Ascending(f.keep),
           \A i \in DOMAIN f.keep : f.keep[i] \in DOMAIN rows
    PROVE  /\ DOMAIN Selected(f, rows) = DOMAIN f.keep /\ Len(Selected(f, rows)) = Len(f.keep)
           /\ \A i \in DOMAIN f.keep : Selected(f, rows)[i] = rows[f.keep[i]]
<1>1. f.keep \in Seq(Nat) /\ DOMAIN f.keep = 1..Len(f.keep) /\ Len(f.keep) \in Nat
  BY DEF ForwardSet
<1>2. DOMAIN rows = 1..Len(rows) /\ Len(rows) \in Nat
  OBVIOUS
<1>3. CASE Len(f.keep) = Len(rows)
  <2>1. Selected(f, rows) = rows
    BY <1>3 DEF Selected
  <2>2. f.keep \in [1..Len(rows) -> 1..Len(rows)]
    BY <1>1, <1>2, <1>3
  <2>3. \A i \in 1..Len(rows) : f.keep[i] = i
    BY <1>2, <2>2, AscendingIdentity
  <2> QED
    BY <1>1, <1>2, <1>3, <2>1, <2>3
<1>4. CASE Len(f.keep) # Len(rows)
  <2> DEFINE a == Selected(f, rows)
  <2>1. a = [i \in DOMAIN f.keep |->
                IF f.keep[i] \in DOMAIN rows THEN rows[f.keep[i]] ELSE [seq |-> Gone, len |-> 0]]
    BY <1>4 DEF Selected
  <2>2. a \in Seq(CarriedSet)
    BY SelectedType
  <2> HIDE DEF a
  <2>3. DOMAIN a = DOMAIN f.keep /\ \A i \in DOMAIN f.keep : a[i] = rows[f.keep[i]]
    BY <2>1
  <2>4. Len(a) = Len(f.keep)
    BY <1>1, <2>2, <2>3
  <2> QED
    BY <2>3, <2>4 DEF a
<1> QED
  BY <1>3, <1>4

\* A step that leaves the forward, the rows and the list alone.
LEMMA PendingKept ==
    ASSUME PendingAligned, Unstarted' = Unstarted, Worker' = Worker, running' = running,
           \A s \in Running' : s \in Running /\ Dues'[s] = Dues[s],
           \A f \in Unstarted : f.lane = "prefill" => \A i \in DOMAIN f.rows :
             f.rows[i].seq \in Active' => f.rows[i].seq \in Active /\ len'[f.rows[i].seq] = len[f.rows[i].seq]
    PROVE  PendingAligned'
<1>1. PendingOf(Unstarted, Worker, running, Running, Dues, Active, len)
  BY PendingIs
<1>2. ASSUME NEW rows, Matches(rows, running, Running, Dues) PROVE Matches(rows, running, Running', Dues')
  BY <1>2 DEF Matches
<1>3. ASSUME NEW f, NEW rows, Picks(f, rows, Running, Dues) PROVE Picks(f, rows, Running', Dues')
  BY <1>3 DEF Picks
<1>4. PendingOf(Unstarted, Worker, running, Running', Dues', Active', len')
  BY <1>1, <1>2, <1>3 DEF PendingOf
<1> QED
  BY <1>4, PendingIs

LEMMA PendingUntouched ==
    ASSUME DecodeBatchAssumption, Frame, Frame', PendingAligned,
           MildStep \/ BeginStep \/ QuietStep \/ PageStep
    PROVE  PendingAligned'
<1>1. Worker' = Worker /\ running' = running
  BY WorkerSteps, ListSteps
<1>2. \A s \in Running' : s \in Running /\ Dues'[s] = Dues[s]
  BY DueSteps
<1>3. CASE MildStep
  <2>1. Unstarted' = Unstarted
    BY <1>3, UnstartedSteps
  <2>2. \A t \in Active' : t \in Active /\ len'[t] = len[t]
    <3>1. \A t \in Active : t \in Seqs /\ status[t] # "none"
      BY DEF Active, Running, WithStatus
    <3> QED
      BY <1>3, <3>1 DEF MildStep
  <2> QED
    BY <1>1, <1>2, <2>1, <2>2, PendingKept
<1>4. CASE BeginStep \/ QuietStep \/ PageStep
  <2>1. pc \in InPass \cup {"send", "prefetch"}
    BY <1>4 DEF BeginStep, QuietStep, PageStep
  <2>2. Unstarted = {} /\ Unstarted' = {}
    BY <1>4, <2>1, PlaceFacts, UnstartedSteps
  <2> QED
    BY <1>1, <1>2, <2>2, PendingKept
<1> QED
  BY <1>3, <1>4

\* No output reaches a sequence that a waiting prefill brings.
LEMMA PendingCollects ==
    ASSUME DecodeBatchAssumption, Frame, Frame', Flow, Distinct, Aligned, CollectStep
    PROVE  PendingAligned'
<1>1. Worker' = Worker /\ running' = running
  BY WorkerSteps, ListSteps
<1>2. \A s \in Running' : s \in Running /\ Dues'[s] = Dues[s]
  BY DueSteps
<1>3. queue \in Seq(ForwardSet) /\ queue # <<>> /\ queue' = Tail(queue) /\ Len(queue) \in Nat
  BY PlaceFacts DEF CollectStep
<1>4. Unstarted' = Unstarted
  <2>1. Len(queue) = 1 \/ Len(queue) = 2
    BY <1>3, PlaceFacts
  <2>2. pc = "wait" /\ pc' = IF Len(queue) = 1 THEN "send" ELSE "next"
    BY DEF CollectStep
  <2>3. CASE Len(queue) = 1
    BY <2>2, <2>3, PlaceFacts, PlaceNext
  <2>4. CASE Len(queue) = 2
    <3> DEFINE q == queue
    <3>a. q \in Seq(ForwardSet) /\ q # <<>> /\ 2 \in DOMAIN q
      BY <1>3, <2>4, PlaceFacts
    <3> HIDE DEF q
    <3>b. \A i \in DOMAIN q : i # 1 => Tail(q)[i - 1] = q[i]
      BY <3>a, TailOf
    <3>c. Tail(q)[1] = q[2]
      <4>1. 2 # 1 /\ 2 - 1 = 1
        OBVIOUS
      <4>2. Tail(q)[2 - 1] = q[2]
        BY <3>a, <3>b, <4>1, Zenon
      <4> QED
        BY <4>1, <4>2, Zenon
    <3>1. Tail(queue)[1] = queue[2]
      BY <3>c DEF q
    <3> QED
      BY <1>3, <2>2, <2>4, <3>1, PlaceFacts, PlaceNext
  <2> QED
    BY <2>1, <2>3, <2>4
<1>5. ASSUME NEW f \in Unstarted, f.lane = "prefill", NEW i \in DOMAIN f.rows, f.rows[i].seq \in Active'
      PROVE  f.rows[i].seq \in Active /\ len'[f.rows[i].seq] = len[f.rows[i].seq]
  <2> DEFINE s == f.rows[i].seq
  <2>1. s \in Active /\ s \in Seqs
    BY <1>5, RunningSteps DEF CollectStep
  <2>2. ~Listed(s)
    BY <1>5, <2>1 DEF Distinct, Newcomers, RowsOf
  <2>3. ~Takes(s)
    <3> SUFFICES ASSUME Takes(s) PROVE FALSE
      OBVIOUS
    <3>1. PICK j \in RowsOf(Head1) : SeqAt(j) = s
      BY DEF Takes
    <3>2. s \in Running /\ Head1.lane # "chunk" /\ Started /\ 1 \in DOMAIN queue /\ queue[1] = Head1
      BY StartedSteps DEF Takes, Head1
    <3>3. CASE Head1.lane = "decode"
      BY <2>2, <3>1, <3>2, <3>3 DEF Aligned, HeadAligned
    <3>4. CASE Head1.lane = "prefill"
      <4>1. Head1.rows[j].gen
        BY <3>1, <3>2 DEF Aligned, Generating
      <4> QED
        BY <2>2, <3>1, <3>2, <3>4, <4>1 DEF Flow, Joined
    <3>5. Head1.lane \in {"prefill", "chunk", "decode"}
      BY <3>2, RowsTyped DEF Frame
    <3> QED
      BY <3>2, <3>3, <3>4, <3>5
  <2>4. len'[s] = len[s]
    BY <2>1, <2>3 DEF CollectStep
  <2> QED
    BY <2>1, <2>4
<1> QED
  BY <1>1, <1>2, <1>4, <1>5, PendingKept DEF Aligned


\* A session that ends takes its rows with it on both sides.
LEMMA PendingEnds ==
    ASSUME DecodeBatchAssumption, Frame, Frame', Aligned, NEW e \in Seqs, EndStep(e)
    PROVE  PendingAligned'
<1>1. /\ SameBut(e, Worker, Worker') /\ Worker \in Seq(CarriedSet) /\ Worker' \in Seq(CarriedSet)
      /\ \A s \in Running' : s \in Running /\ s # e /\ Dues'[s] = Dues[s]
      /\ Gone \notin Seqs /\ Running' = Running \ {e} /\ Active' = Active \ {e} /\ Active \subseteq Seqs
      /\ Running \subseteq Seqs
  BY WorkerSteps, DueSteps, RunningSteps
<1>2. /\ running \in Seq(Slots) /\ running' \in Seq(Slots) /\ Len(running') = Len(running)
      /\ DOMAIN running' = DOMAIN running
      /\ \A i \in DOMAIN running : running'[i] = Ghost(e, running[i])
  <2>1. running \in Seq(Slots) /\ running' \in Seq(Slots) /\ Len(running') = Len(running)
    BY DEF EndStep, Frame, Shapes, MakerShape
  <2>2. DOMAIN running' = DOMAIN running
    BY <2>1
  <2> QED
    BY <2>1, <2>2 DEF EndStep
<1>3. \A t : Ghost(e, t) \in Active' => Ghost(e, t) = t /\ t # e
  BY <1>1 DEF Ghost
<1>4. /\ \A g \in Unstarted' : \E f \in Unstarted : Ghosted(e, f, g)
      /\ \A f \in Unstarted : \E g \in Unstarted' : Ghosted(e, f, g)
      /\ Unstarted \subseteq ForwardSet /\ Unstarted' \subseteq ForwardSet
  <2>1. \A g \in Unstarted' : \E f \in Unstarted : Ghosted(e, f, g)
    BY UnstartedSteps
  <2>2. /\ DOMAIN queue' = DOMAIN queue /\ \A q \in DOMAIN queue : Ghosted(e, queue[q], queue'[q])
        /\ Len(queue') = Len(queue) /\ pc' = pc
    BY GhostedQueue, EndQueue DEF EndStep
  <2>3. ASSUME NEW f \in Unstarted PROVE \E g \in Unstarted' : Ghosted(e, f, g)
    <3> DEFINE n == Len(queue)
    <3>1. f = queue[n] /\ n \in DOMAIN queue
      <4>1. f = queue[n] /\ (pc \in {"sent", "next"} \/ n = 2)
        BY <2>3 DEF Unstarted
      <4>2. n \in DOMAIN queue
        BY <4>1, PlaceFacts
      <4> QED
        BY <4>1, <4>2
    <3>2. queue'[n] \in Unstarted'
      <4>1. pc \in {"sent", "next"} \/ n = 2
        BY <2>3 DEF Unstarted
      <4>2. Unstarted' = {queue'[n]}
        BY <2>2, <4>1 DEF Unstarted
      <4> QED
        BY <4>2
    <3> QED
      BY <2>2, <3>1, <3>2
  <2>4. Unstarted \subseteq ForwardSet
    BY PlaceFacts
  <2>5. Unstarted' \subseteq ForwardSet
    BY PlaceNext
  <2> QED
    BY <2>1, <2>3, <2>4, <2>5
<1>5. PendingOf(Unstarted, Worker, running, Running, Dues, Active, len)
  BY PendingIs DEF Aligned
<1>6. ASSUME NEW a \in Seq(CarriedSet), NEW b \in Seq(CarriedSet), SameBut(e, a, b),
             Matches(a, running, Running, Dues)
      PROVE  Matches(b, running', Running', Dues')
  <2> SUFFICES ASSUME NEW i \in DOMAIN running', running'[i] \in Running'
               PROVE  i \in DOMAIN b /\ b[i] = [seq |-> running'[i], len |-> Dues'[running'[i]]]
    BY DEF Matches
  <2>1. i \in DOMAIN running /\ running'[i] = running[i] /\ running[i] # e
    BY <1>1, <1>2 DEF Ghost
  <2>2. running[i] \in Running /\ Dues'[running[i]] = Dues[running[i]]
    BY <1>1, <2>1
  <2>3. i \in DOMAIN a /\ a[i] = [seq |-> running[i], len |-> Dues[running[i]]]
    BY <1>6, <2>1, <2>2 DEF Matches
  <2>4. i \in DOMAIN b /\ b[i] = a[i]
    BY <1>6, <2>1, <2>3 DEF SameBut
  <2> QED
    BY <2>1, <2>2, <2>3, <2>4
<1>7. ASSUME NEW f \in Unstarted, NEW g \in Unstarted', Ghosted(e, f, g)
      PROVE  /\ SameBut(e, Selected(f, Worker), Selected(g, Worker')) /\ g.lane = f.lane
             /\ Selected(f, Worker) \in Seq(CarriedSet) /\ Selected(g, Worker') \in Seq(CarriedSet)
  BY <1>1, <1>4, <1>7, SelectedSameBut, SelectedType DEF Ghosted
<1>8. (\A g \in Unstarted' : g.lane = "chunk") =>
         Len(Worker') <= Len(running') /\ Matches(Worker', running', Running', Dues')
  <2> SUFFICES ASSUME \A g \in Unstarted' : g.lane = "chunk"
               PROVE  Len(Worker') <= Len(running') /\ Matches(Worker', running', Running', Dues')
    OBVIOUS
  <2>1. \A f \in Unstarted : f.lane = "chunk"
    BY <1>4 DEF Ghosted
  <2>2. Len(Worker) <= Len(running) /\ Matches(Worker, running, Running, Dues)
    BY <1>5, <2>1 DEF PendingOf
  <2>3. Len(Worker') = Len(Worker)
    BY <1>1 DEF SameBut
  <2> QED
    BY <1>1, <1>2, <1>6, <2>2, <2>3
<1>9. ASSUME NEW g \in Unstarted', g.lane = "decode" PROVE Picks(g, Worker', Running', Dues')
  <2>1. PICK f \in Unstarted : Ghosted(e, f, g)
    BY <1>4
  <2>2. SameBut(e, Selected(f, Worker), Selected(g, Worker')) /\ f.lane = "decode"
    BY <1>7, <1>9, <2>1
  <2>3. PICK q \in DOMAIN queue : f = queue[q]
    BY PlaceFacts
  <2>4. DOMAIN Selected(f, Worker) = DOMAIN f.rows
    BY <1>1, <2>2, <2>3, DecodeDomain
  <2> SUFFICES ASSUME NEW i \in DOMAIN g.rows, g.rows[i].seq \in Running'
               PROVE  Selected(g, Worker')[i] = [seq |-> g.rows[i].seq, len |-> Dues'[g.rows[i].seq]]
    BY DEF Picks
  <2> DEFINE s == f.rows[i].seq
  <2>5. i \in DOMAIN f.rows /\ g.rows[i].seq = Ghost(e, s)
    BY <2>1 DEF Ghosted
  <2>6. g.rows[i].seq = s /\ s \in Running /\ s # e /\ Dues'[s] = Dues[s]
    <3>1. Ghost(e, s) = s
      BY <1>1, <2>5 DEF Ghost
    <3> QED
      BY <1>1, <2>5, <3>1
  <2>7. Selected(f, Worker)[i] = [seq |-> s, len |-> Dues[s]]
    BY <1>5, <2>2, <2>5, <2>6 DEF PendingOf, Picks
  <2>8. Selected(f, Worker)[i].seq = s
    BY <2>7
  <2>9. Selected(g, Worker')[i] = Selected(f, Worker)[i]
    BY <2>2, <2>4, <2>5, <2>6, <2>8 DEF SameBut
  <2> QED
    BY <2>6, <2>7, <2>9
<1>10. ASSUME NEW g \in Unstarted', g.lane = "prefill"
       PROVE  /\ Len(Selected(g, Worker')) = Len(running')
              /\ Matches(Selected(g, Worker'), running', Running', Dues')
              /\ \A i \in DOMAIN g.rows : g.rows[i].seq \in Active' => g.rows[i].len = len'[g.rows[i].seq]
  <2>1. PICK f \in Unstarted : Ghosted(e, f, g)
    BY <1>4
  <2>2. /\ SameBut(e, Selected(f, Worker), Selected(g, Worker')) /\ f.lane = "prefill"
        /\ Selected(f, Worker) \in Seq(CarriedSet) /\ Selected(g, Worker') \in Seq(CarriedSet)
    BY <1>7, <1>10, <2>1
  <2>3. /\ Len(Selected(f, Worker)) = Len(running) /\ Matches(Selected(f, Worker), running, Running, Dues)
        /\ \A i \in DOMAIN f.rows : f.rows[i].seq \in Active => f.rows[i].len = len[f.rows[i].seq]
    BY <1>5, <2>2 DEF PendingOf
  <2>4. Len(Selected(g, Worker')) = Len(running')
    BY <1>2, <2>2, <2>3 DEF SameBut
  <2>5. Matches(Selected(g, Worker'), running', Running', Dues')
    BY <1>6, <2>2, <2>3
  <2>6. ASSUME NEW i \in DOMAIN g.rows, g.rows[i].seq \in Active' PROVE g.rows[i].len = len'[g.rows[i].seq]
    <3>1. i \in DOMAIN f.rows /\ g.rows[i].seq = Ghost(e, f.rows[i].seq)
      BY <2>1 DEF Ghosted
    <3>2. g.rows[i].seq = f.rows[i].seq /\ f.rows[i].seq # e /\ f.rows[i].seq \in Active
      BY <1>1, <1>3, <2>6, <3>1
    <3>3. g.rows[i] = f.rows[i]
      BY <2>1, <3>1, <3>2 DEF Ghosted
    <3>4. len'[f.rows[i].seq] = len[f.rows[i].seq]
      BY <1>1, <3>2 DEF EndStep
    <3> QED
      BY <2>3, <3>1, <3>2, <3>3, <3>4
  <2> QED
    BY <2>4, <2>5, <2>6
<1>11. PendingOf(Unstarted', Worker', running', Running', Dues', Active', len')
  BY <1>8, <1>9, <1>10 DEF PendingOf
<1> QED
  BY <1>11, PendingIs


\* What is sent names positions of rows that are where the list says.
LEMMA PendingSends ==
    ASSUME DecodeBatchAssumption, Frame, Frame', Distinct, Aligned, Sends
    PROVE  PendingAligned'
<1>1. PICK f : SentPrefill(f) \/ SentChunk(f) \/ SentDecode(f)
  BY SendKinds
<1>2. Sent(f) /\ f \in ForwardSet
  BY <1>1 DEF SentPrefill, SentChunk, SentDecode, Sent
<1>3. /\ Unstarted' = {f} /\ Worker' = Worker /\ Worker \in Seq(CarriedSet) /\ Running' = Running
      /\ \A s \in Running : Dues'[s] = Dues[s]
      /\ len' = len
  BY <1>2, UnstartedSteps, WorkerSteps, RunningSteps, DueSteps, SendFacts
<1>4. Len(Worker) <= Len(running) /\ Matches(Worker, running, Running, Dues)
  <2>1. Unstarted = {}
    <3>1. pc \in InPass
      BY SendFacts
    <3> QED
      BY <3>1, PlaceFacts
  <2>2. PendingOf(Unstarted, Worker, running, Running, Dues, Active, len)
    BY PendingIs DEF Aligned
  <2> QED
    BY <2>1, <2>2 DEF PendingOf
<1>5. running \in Seq(Slots) /\ DOMAIN running = 1..Len(running) /\ Len(running) \in Nat
  BY DEF Frame, Shapes, MakerShape
<1>6. DOMAIN Worker = 1..Len(Worker) /\ Len(Worker) \in Nat
  BY <1>3
<1>7. \A i \in DOMAIN running : running[i] \in Running =>
         i \in DOMAIN Worker /\ Worker[i] = [seq |-> running[i], len |-> Dues[running[i]]]
  BY <1>4 DEF Matches
<1>8. CASE SentChunk(f)
  <2>1. running' = running /\ f.lane = "chunk"
    BY <1>8 DEF SentChunk
  <2>2. Matches(Worker, running, Running, Dues')
    BY <1>3, <1>4 DEF Matches
  <2>3. PendingOf(Unstarted', Worker', running', Running', Dues', Active', len')
    BY <1>3, <1>4, <2>1, <2>2 DEF PendingOf
  <2> QED
    BY <2>3, PendingIs
<1>9. CASE SentDecode(f)
  <2>1. f.lane = "decode" /\ f.reindex /\ f.keep = turn.keep /\ DOMAIN f.rows = DOMAIN turn.keep /\ pc = "grow"
    BY <1>9 DEF SentDecode
  <2>2. \A i \in DOMAIN f.keep : f.keep[i] \in DOMAIN running /\ f.rows[i].seq = running[f.keep[i]]
    BY <1>9, <2>1, DecodeRows
  <2>3. Ascending(f.keep) /\ \A i \in DOMAIN f.keep : running[f.keep[i]] \in Running
    BY <2>1 DEF Distinct, KeepOnce, Ascending
  <2>4. \A i \in DOMAIN f.keep : f.keep[i] \in DOMAIN Worker
    BY <1>7, <2>2, <2>3
  <2>5. \A i \in DOMAIN f.keep : Selected(f, Worker)[i] = Worker[f.keep[i]]
    BY <1>2, <1>3, <2>1, <2>3, <2>4, PositionsSelect
  <2>6. ASSUME NEW i \in DOMAIN f.rows
        PROVE  Selected(f, Worker)[i] = [seq |-> f.rows[i].seq, len |-> Dues'[f.rows[i].seq]]
    <3>1. i \in DOMAIN f.keep
      BY <2>1
    <3>2. Worker[f.keep[i]] = [seq |-> f.rows[i].seq, len |-> Dues[f.rows[i].seq]]
      BY <1>7, <2>2, <2>3, <3>1
    <3>3. Dues'[f.rows[i].seq] = Dues[f.rows[i].seq]
      BY <1>3, <2>2, <2>3, <3>1
    <3> QED
      BY <2>5, <3>1, <3>2, <3>3
  <2>7. Picks(f, Worker, Running', Dues')
    BY <2>6 DEF Picks
  <2>8. PendingOf(Unstarted', Worker', running', Running', Dues', Active', len')
    BY <1>3, <2>1, <2>7 DEF PendingOf
  <2> QED
    BY <2>8, PendingIs
<1>10. CASE SentPrefill(f)
  <2> DEFINE VP == ValidPositions
             P  == {i \in DOMAIN running : running[i] \in Running}
  <2>1. f.lane = "prefill" /\ f.reindex = ~AllValid /\ f.keep = (IF AllValid THEN <<>> ELSE VP)
    BY <1>10 DEF SentPrefill
  <2>2. running' = [i \in DOMAIN VP |-> running[VP[i]]]
    BY <1>10 DEF SentPrefill
  <2>3. P \in SUBSET (1..Len(running)) /\ VP = InOrder(P)
    BY <1>5 DEF ValidPositions
  <2>4. /\ VP \in Seq(Nat) /\ \A i \in DOMAIN VP : VP[i] \in DOMAIN running /\ running[VP[i]] \in Running
    BY ValidFacts DEF Frame
  <2>5. Ascending(VP)
    <3> HIDE DEF VP, P
    <3>1. Ascending(InOrder(P))
      BY <1>5, <2>3, PositionsOf
    <3> QED
      BY <2>3, <3>1
  <2>6. \A i \in DOMAIN VP : /\ VP[i] \in DOMAIN Worker
                             /\ Worker[VP[i]] = [seq |-> running[VP[i]], len |-> Dues[running[VP[i]]]]
    BY <1>7, <2>4
  <2>7. DOMAIN VP = 1..Len(VP) /\ Len(VP) \in Nat
    BY <2>4
  <2> HIDE DEF VP
  <2>8. /\ DOMAIN Selected(f, Worker) = DOMAIN VP /\ Len(Selected(f, Worker)) = Len(VP)
        /\ \A i \in DOMAIN VP : Selected(f, Worker)[i] = Worker[VP[i]]
    <3>1. CASE ~AllValid
      <4>1. f.reindex /\ f.keep = VP
        BY <2>1, <3>1
      <4>2. Ascending(f.keep) /\ \A i \in DOMAIN f.keep : f.keep[i] \in DOMAIN Worker
        BY <2>5, <2>6, <4>1
      <4>3. /\ DOMAIN Selected(f, Worker) = DOMAIN f.keep /\ Len(Selected(f, Worker)) = Len(f.keep)
            /\ \A i \in DOMAIN f.keep : Selected(f, Worker)[i] = Worker[f.keep[i]]
        BY <1>2, <1>3, <4>1, <4>2, PositionsSelect
      <4> QED
        BY <4>1, <4>3
    <3>2. CASE AllValid
      <4>1. Selected(f, Worker) = Worker
        BY <2>1, <3>2 DEF Selected
      <4>2. P = 1..Len(running)
        BY <1>5, <3>2 DEF AllValid
      <4>3. Len(VP) = Len(running)
        <5>1. Cardinality(1..Len(running)) = Len(running)
          BY <1>5, UpTo, Zenon
        <5>2. Len(InOrder(P)) = Cardinality(P)
          <6> HIDE DEF P
          <6> QED
            BY <1>5, <2>3, PositionsOf
        <5> QED
          BY <2>3, <4>2, <5>1, <5>2
      <4>4. VP \in [1..Len(running) -> 1..Len(running)]
        BY <1>5, <2>4, <2>7, <4>3
      <4>5. \A i \in 1..Len(running) : VP[i] = i
        BY <1>5, <2>5, <4>4, AscendingIdentity
      <4>6. \A i \in 1..Len(running) : i \in 1..Len(Worker)
        BY <1>6, <2>6, <2>7, <4>3, <4>5
      <4>7. Len(Worker) = Len(running)
        <5> DEFINE n == Len(running)
                   m == Len(Worker)
        <5>1. n \in Nat /\ m \in Nat /\ m <= n /\ \A i \in 1..n : i \in 1..m
          BY <1>4, <1>5, <1>6, <4>6
        <5> HIDE DEF n, m
        <5>2. n # 0 => n \in 1..n
          BY <5>1
        <5>3. n # 0 => n <= m
          BY <5>1, <5>2
        <5>4. n = m
          BY <5>1, <5>3
        <5> QED
          BY <5>4 DEF n, m
      <4> QED
        BY <1>6, <2>7, <4>1, <4>3, <4>5, <4>7
    <3> QED
      BY <3>1, <3>2
  <2>9. DOMAIN running' = DOMAIN VP /\ Len(running') = Len(VP)
    <3>1. DOMAIN running' = 1..Len(VP)
      BY <2>2, <2>7
    <3>2. running' \in Seq(Slots)
      BY DEF Frame, Shapes, MakerShape
    <3>3. DOMAIN running' = 1..Len(running') /\ Len(running') \in Nat
      BY <3>2
    <3> QED
      BY <2>7, <3>1, <3>3
  <2>10. Matches(Selected(f, Worker), running', Running', Dues')
    <3> SUFFICES ASSUME NEW i \in DOMAIN running', running'[i] \in Running'
                 PROVE  /\ i \in DOMAIN Selected(f, Worker)
                        /\ Selected(f, Worker)[i] = [seq |-> running'[i], len |-> Dues'[running'[i]]]
      BY DEF Matches
    <3>1. i \in DOMAIN VP /\ running'[i] = running[VP[i]]
      BY <2>2, <2>9
    <3>2. Dues'[running[VP[i]]] = Dues[running[VP[i]]]
      BY <1>3, <2>4, <3>1
    <3> QED
      BY <2>6, <2>8, <3>1, <3>2
  <2>11. \A i \in DOMAIN f.rows : f.rows[i].len = len'[f.rows[i].seq]
    BY <1>3, <1>10, PrefillRows
  <2>12. Len(Selected(f, Worker)) = Len(running')
    BY <2>8, <2>9
  <2>13. PendingOf(Unstarted', Worker', running', Running', Dues', Active', len')
    BY <1>3, <2>1, <2>10, <2>11, <2>12 DEF PendingOf
  <2> QED
    BY <2>13, PendingIs
<1> QED
  BY <1>1, <1>8, <1>9, <1>10


\* All rows of a prefill join the list in their order when all of them generate.
LEMMA JoiningAll ==
    ASSUME Frame, queue # <<>>, \A i \in RowsOf(Head1) : Head1.rows[i].gen
    PROVE  /\ DOMAIN Joining = DOMAIN Head1.rows /\ Joining \in Seq(Slots) /\ Len(Joining) = Len(Head1.rows)
           /\ \A i \in DOMAIN Head1.rows : Joining[i] = SeqAt(i)
<1> DEFINE P == {i \in RowsOf(Head1) : Head1.rows[i].gen}
           n == Len(Head1.rows)
           o == InOrder(P)
<1>1. /\ P \in SUBSET (1..n) /\ n \in Nat /\ DOMAIN Joining = DOMAIN o
      /\ \A i \in DOMAIN Joining : Joining[i] = SeqAt(o[i])
      /\ Head1 \in ForwardSet /\ Joining \in Seq(Slots)
  BY JoiningFacts DEF Frame
<1>2. DOMAIN Head1.rows = 1..n
  <2>1. Head1.rows \in Seq(RowSet)
    BY <1>1 DEF ForwardSet
  <2> QED
    BY <2>1
<1>3. P = 1..n
  BY <1>2 DEF RowsOf
<1> HIDE DEF P
<1>4. o \in [1..Cardinality(P) -> P] /\ Ascending(o) /\ DOMAIN o = 1..Cardinality(P)
  BY <1>1, PositionsOf
<1>5. Cardinality(P) = n
  BY <1>1, <1>3, FS_Interval
<1> HIDE DEF o, n
<1>6. o \in [1..n -> 1..n]
  BY <1>3, <1>4, <1>5
<1>7. \A i \in 1..n : o[i] = i
  BY <1>1, <1>4, <1>6, AscendingIdentity
<1>8. DOMAIN Joining = 1..n
  BY <1>1, <1>4, <1>5
<1>9. Len(Joining) = n
  BY <1>1, <1>8
<1> QED
  BY <1>1, <1>2, <1>7, <1>8, <1>9 DEF n

\* Two sequences in step with two others are so in a row.
LEMMA MatchesConcat ==
    ASSUME NEW a \in Seq(CarriedSet), NEW b \in Seq(CarriedSet), NEW r \in Seq(Slots), NEW j \in Seq(Slots),
           NEW R, NEW due, Len(a) = Len(r), Matches(a, r, R, due), Matches(b, j, R, due)
    PROVE  Matches(a \o b, r \o j, R, due)
<1> DEFINE c == a \o b
           l == r \o j
<1>1. /\ \A i \in DOMAIN a : i \in DOMAIN c /\ c[i] = a[i]
      /\ \A i \in DOMAIN b : Len(a) + i \in DOMAIN c /\ c[Len(a) + i] = b[i]
  BY ConcatOf
<1>2. /\ l \in Seq(Slots)
      /\ \A i \in DOMAIN r : i \in DOMAIN l /\ l[i] = r[i]
      /\ \A i \in DOMAIN l : \/ i \in DOMAIN r
                             \/ i - Len(r) \in DOMAIN j /\ l[i] = j[i - Len(r)]
  BY ConcatOf
<1> HIDE DEF c, l
<1>3. ASSUME NEW i \in DOMAIN l, l[i] \in R PROVE i \in DOMAIN c /\ c[i] = [seq |-> l[i], len |-> due[l[i]]]
  <2>1. CASE i \in DOMAIN r
    <3>1. i \in DOMAIN a /\ a[i] = [seq |-> l[i], len |-> due[l[i]]]
      BY <1>2, <1>3, <2>1 DEF Matches
    <3> QED
      BY <1>1, <3>1
  <2>2. CASE i - Len(r) \in DOMAIN j /\ l[i] = j[i - Len(r)]
    <3> DEFINE k == i - Len(r)
    <3>1. k \in DOMAIN j /\ l[i] = j[k] /\ Len(a) + k = i
      <4>1. i \in Int /\ Len(r) \in Int /\ Len(a) = Len(r)
        BY <1>2
      <4> QED
        BY <2>2, <4>1
    <3> HIDE DEF k
    <3>2. k \in DOMAIN b /\ b[k] = [seq |-> l[i], len |-> due[l[i]]]
      BY <1>3, <3>1 DEF Matches
    <3> QED
      BY <1>1, <3>1, <3>2
  <2> QED
    BY <1>2, <2>1, <2>2
<1>4. Matches(c, l, R, due)
  BY <1>3 DEF Matches
<1> QED
  BY <1>4 DEF c, l


\* Activation joins to the list whom the worker will have rows of.
LEMMA PendingActivates ==
    ASSUME DecodeBatchAssumption, Frame, Frame', Flow, Distinct, ChunkApart, Aligned, ActivateStep
    PROVE  PendingAligned'
<1>1. /\ queue # <<>> /\ 1 \in DOMAIN queue /\ queue[1] = Head1 /\ Head1 \in ForwardSet
      /\ Unstarted = {Head1} /\ Unstarted' = {} /\ running' = ListAfter
      /\ Head1.lane \in {"prefill", "chunk", "decode"} /\ Head1.rows \in Seq(RowSet)
  BY StartedSteps, UnstartedSteps, PlaceFacts, RowsTyped DEF ActivateStep, Head1, Frame
<1>2. /\ batch \in Seq(CarriedSet) /\ Worker = batch /\ Worker' = After(Head1, batch) /\ Worker' \in Seq(CarriedSet)
      /\ \A s \in Running' : /\ Dues[s] = len[s]
                             /\ Dues'[s] = IF Head1.lane # "chunk" /\ Has(Head1, s) THEN len[s] + 1 ELSE len[s]
  BY WorkerSteps, DueSteps
<1>3. /\ Running \subseteq Running' /\ Running' \subseteq Active /\ Running' \subseteq Seqs /\ Gone \notin Seqs
      /\ \A t \in Running' : t \in Running \/ (t \in Active /\ status[t] = "READY" /\ Has(Head1, t))
      /\ NoChunk.seq = Gone
  BY ActivateRuns, RunningSteps
<1>4. /\ running \in Seq(Slots) /\ running' \in Seq(Slots)
      /\ \A t \in Seqs : len[t] \in Nat
  BY DEF Frame, Shapes, MakerShape, SeqShape
<1>5. PendingOf({Head1}, batch, running, Running, Dues, Active, len)
  BY <1>1, <1>2, PendingIs DEF Aligned
<1>6. ~Head1.scoring /\ (\A i \in RowsOf(Head1) : Head1.rows[i].gen) /\ (Head1.lane = "chunk" => ~Head1.reindex)
  BY <1>1 DEF Aligned, Generating
<1>7. SUFFICES Len(Worker') <= Len(running') /\ Matches(Worker', running', Running', Dues')
  <2> SUFFICES ASSUME Len(Worker') <= Len(running') /\ Matches(Worker', running', Running', Dues')
               PROVE  PendingOf(Unstarted', Worker', running', Running', Dues', Active', len')
    BY PendingIs
  <2> QED
    BY <1>1 DEF PendingOf
<1>8. ASSUME Head1.lane # "decode", NEW k \in DOMAIN running, running[k] \in Running'
      PROVE  running[k] \in Running
  <2>1. SUFFICES ASSUME running[k] \in Active, Has(Head1, running[k]) PROVE FALSE
    BY <1>3, <1>8
  <2>2. Listed(running[k])
    BY <1>8 DEF Listed
  <2>3. CASE Head1.lane = "prefill"
    BY <1>1, <2>1, <2>2, <2>3 DEF Distinct, Newcomers, Has, RowsOf
  <2>4. CASE Head1.lane = "chunk"
    <3>1. running[k] = chunk.seq
      BY <1>1, <2>1, <2>4 DEF Flow, ChunkOwned, Has, RowsOf
    <3> QED
      BY <2>1, <2>2, <3>1 DEF ChunkApart
  <2> QED
    BY <1>1, <1>8, <2>3, <2>4
<1>9. CASE Head1.lane = "decode"
  <2> DEFINE a == Selected(Head1, batch)
  <2>1. Worker' = Grown(a) /\ a \in Seq(CarriedSet) /\ DOMAIN a = DOMAIN Head1.rows
    BY <1>1, <1>2, <1>6, <1>9, SelectedType, DecodeDomain DEF After
  <2>2. running' = [k \in DOMAIN Head1.rows |-> Head1.rows[k].seq]
    BY <1>1, <1>9 DEF ListAfter, RowsOf, SeqAt
  <2>3. \A i \in DOMAIN Head1.rows : Head1.rows[i].seq \in Running =>
           a[i] = [seq |-> Head1.rows[i].seq, len |-> Dues[Head1.rows[i].seq]]
    BY <1>5, <1>9 DEF PendingOf, Picks
  <2> HIDE DEF a
  <2>4. /\ Len(Grown(a)) = Len(a) /\ DOMAIN Grown(a) = DOMAIN a
        /\ Grown(a) \in Seq(CarriedSet)
    BY <2>1, GrownFacts
  <2>5. Len(Worker') <= Len(running')
    <3>1. DOMAIN running' = DOMAIN a /\ DOMAIN a = 1..Len(a) /\ Len(a) \in Nat
      BY <2>1, <2>2
    <3>2. DOMAIN running' = 1..Len(running') /\ Len(running') \in Nat
      BY <1>4
    <3>3. Len(running') = Len(a)
      BY <3>1, <3>2
    <3> QED
      BY <2>1, <2>4, <3>1, <3>3
  <2>6. ASSUME NEW i \in DOMAIN running', running'[i] \in Running'
        PROVE  i \in DOMAIN Worker' /\ Worker'[i] = [seq |-> running'[i], len |-> Dues'[running'[i]]]
    <3> DEFINE s == Head1.rows[i].seq
    <3>1. i \in DOMAIN Head1.rows /\ running'[i] = s /\ s \in Seqs
      BY <1>3, <2>2, <2>6
    <3>2. s \in Running
      <4>1. status[s] # "READY"
        BY <1>1, <1>9, <3>1 DEF Distinct, Newcomers, RowsOf
      <4> QED
        BY <1>3, <2>6, <3>1, <4>1
    <3>3. a[i] = [seq |-> s, len |-> len[s]]
      BY <1>2, <2>3, <2>6, <3>1, <3>2
    <3>4. Dues'[s] = len[s] + 1
      <4>1. Has(Head1, s)
        BY <3>1 DEF Has, RowsOf
      <4> QED
        BY <1>2, <1>9, <2>6, <3>1, <4>1
    <3>5. Grown(a)[i] = [seq |-> s, len |-> len[s] + 1]
      <4>1. a[i].seq = s /\ a[i].len = len[s] /\ s # Gone /\ i \in DOMAIN a
        BY <1>3, <2>1, <3>1, <3>3
      <4> QED
        BY <4>1 DEF Grown
    <3> QED
      BY <2>1, <2>4, <3>1, <3>4, <3>5
  <2> QED
    BY <2>5, <2>6 DEF Matches
<1>10. CASE Head1.lane = "chunk"
  <2>1. Worker' = batch
    BY <1>2, <1>6, <1>10 DEF After, Selected
  <2>2. Len(batch) <= Len(running) /\ Matches(batch, running, Running, Dues)
    BY <1>5, <1>10 DEF PendingOf
  <2>3. \A s \in Running' : Dues'[s] = Dues[s]
    BY <1>2, <1>10
  <2>4. Matches(batch, running, Running', Dues')
    BY <1>8, <1>10, <2>2, <2>3 DEF Matches
  <2>5. CASE chunk # NoChunk
    <3>1. running' = running
      BY <1>1, <1>10, <2>5 DEF ListAfter
    <3> QED
      BY <2>1, <2>2, <2>4, <3>1
  <2>6. CASE chunk = NoChunk
    <3>1. running' = running \o Joining
      BY <1>1, <1>10, <2>6 DEF ListAfter
    <3>2. Joining \in Seq(Slots)
      BY <1>1, JoiningFacts DEF Frame
    <3>3. ASSUME NEW l \in DOMAIN Joining PROVE Joining[l] \notin Running'
      <4> SUFFICES ASSUME Joining[l] \in Running' PROVE FALSE
        OBVIOUS
      <4>1. PICK r \in RowsOf(Head1) : SeqAt(r) = Joining[l]
        BY <1>1, JoiningFacts DEF Frame
      <4>2. Head1.rows[r].seq = Joining[l] /\ Joining[l] \in Active
        BY <1>3, <4>1 DEF SeqAt
      <4>3. Joining[l] = chunk.seq
        BY <1>1, <1>10, <4>1, <4>2 DEF Flow, ChunkOwned, RowsOf
      <4> QED
        BY <1>3, <2>6, <4>3
    <3> DEFINE J == Joining
               R == running
    <3>4. J \in Seq(Slots) /\ R \in Seq(Slots) /\ running' = R \o J /\ \A l \in DOMAIN J : J[l] \notin Running'
      BY <1>4, <3>1, <3>2, <3>3
    <3>5. Len(batch) <= Len(R) /\ Matches(batch, R, Running', Dues')
      BY <2>2, <2>4
    <3> HIDE DEF J, R
    <3>6. /\ Len(R \o J) = Len(R) + Len(J)
          /\ \A l \in DOMAIN (R \o J) : \/ l \in DOMAIN R
                                        \/ l - Len(R) \in DOMAIN J /\ (R \o J)[l] = J[l - Len(R)]
          /\ \A l \in DOMAIN R : (R \o J)[l] = R[l]
      <4>1. J \in Seq(Slots) /\ R \in Seq(Slots)
        BY <3>4
      <4> QED
        BY <4>1, ConcatOf, SMTT(30)
    <3>7. Len(batch) <= Len(running')
      <4>1. Len(R) \in Nat /\ Len(J) \in Nat /\ Len(batch) \in Nat
        BY <1>2, <3>4
      <4> QED
        BY <3>4, <3>5, <3>6, <4>1
    <3>8. Matches(batch, running', Running', Dues')
      BY <3>4, <3>5, <3>6 DEF Matches
    <3> QED
      BY <2>1, <3>7, <3>8
  <2> QED
    BY <2>5, <2>6
<1>11. CASE Head1.lane = "prefill"
  <2> DEFINE a == Selected(Head1, batch)
             b == Grown(Head1.rows)
             J == Joining
  <2>1. Worker' = a \o b /\ a \in Seq(CarriedSet)
    BY <1>1, <1>2, <1>6, <1>11, SelectedType DEF After
  <2>2. b \in Seq(CarriedSet) /\ Len(b) = Len(Head1.rows) /\ DOMAIN b = DOMAIN Head1.rows
    BY <1>1, GrownFacts
  <2>3. /\ Len(a) = Len(running) /\ Matches(a, running, Running, Dues)
        /\ \A i \in DOMAIN Head1.rows : Head1.rows[i].seq \in Active => Head1.rows[i].len = len[Head1.rows[i].seq]
    BY <1>5, <1>11 DEF PendingOf
  <2>4. running' = running \o J
    BY <1>1, <1>11 DEF ListAfter
  <2>5. /\ DOMAIN J = DOMAIN Head1.rows /\ J \in Seq(Slots) /\ Len(J) = Len(Head1.rows)
        /\ \A i \in DOMAIN Head1.rows : J[i] = Head1.rows[i].seq
    BY <1>1, <1>6, JoiningAll DEF SeqAt
  <2>6. Matches(a, running, Running', Dues')
    <3> SUFFICES ASSUME NEW i \in DOMAIN running, running[i] \in Running'
                 PROVE  i \in DOMAIN a /\ a[i] = [seq |-> running[i], len |-> Dues'[running[i]]]
      BY DEF Matches
    <3>1. running[i] \in Running /\ Listed(running[i])
      BY <1>8, <1>11 DEF Listed
    <3>2. ~Has(Head1, running[i])
      <4>1. running[i] \in Active
        BY <1>3
      <4> QED
        BY <1>1, <1>11, <3>1, <4>1 DEF Distinct, Newcomers, Has, RowsOf
    <3>3. Dues'[running[i]] = Dues[running[i]]
      BY <1>2, <3>2
    <3>4. i \in DOMAIN a /\ a[i] = [seq |-> running[i], len |-> Dues[running[i]]]
      BY <2>3, <3>1 DEF Matches
    <3> QED
      BY <3>3, <3>4
  <2>7. Matches(b, J, Running', Dues')
    <3> SUFFICES ASSUME NEW i \in DOMAIN J, J[i] \in Running'
                 PROVE  i \in DOMAIN b /\ b[i] = [seq |-> J[i], len |-> Dues'[J[i]]]
      BY DEF Matches
    <3> DEFINE s == Head1.rows[i].seq
    <3>1. i \in DOMAIN Head1.rows /\ J[i] = s /\ s \in Active /\ s # Gone
      BY <1>3, <2>5
    <3>2. Head1.rows[i].len = len[s] /\ Has(Head1, s)
      BY <2>3, <3>1 DEF Has, RowsOf
    <3>3. Dues'[s] = len[s] + 1
      BY <1>2, <1>11, <3>1, <3>2
    <3>4. Grown(Head1.rows)[i] = [seq |-> s, len |-> len[s] + 1]
      BY <3>1, <3>2 DEF Grown
    <3> QED
      BY <2>2, <3>1, <3>3, <3>4
  <2> HIDE DEF a, b, J
  <2>8. Matches(Worker', running', Running', Dues')
    <3>1. Matches(a \o b, running \o J, Running', Dues')
      BY <1>4, <2>1, <2>2, <2>3, <2>5, <2>6, <2>7, MatchesConcat
    <3> QED
      BY <2>1, <2>4, <3>1
  <2>9. Len(Worker') <= Len(running')
    <3> DEFINE R == running
    <3>0. R \in Seq(Slots) /\ running' = R \o J /\ Len(a) = Len(R)
      BY <1>4, <2>3, <2>4
    <3> HIDE DEF R
    <3>a. Len(a \o b) = Len(a) + Len(b)
      <4>1. a \in Seq(CarriedSet) /\ b \in Seq(CarriedSet)
        BY <2>1, <2>2
      <4> QED
        BY <4>1, ConcatOf
    <3>b. Len(R \o J) = Len(R) + Len(J)
      <4>1. R \in Seq(Slots) /\ J \in Seq(Slots)
        BY <2>5, <3>0
      <4> QED
        BY <4>1, ConcatOf
    <3>1. Len(a \o b) = Len(a) + Len(b) /\ Len(R \o J) = Len(R) + Len(J)
      BY <3>a, <3>b
    <3>2. Len(a) \in Nat /\ Len(b) \in Nat
      BY <2>1, <2>2
    <3> QED
      BY <2>1, <2>2, <2>5, <3>0, <3>1, <3>2
  <2> QED
    BY <2>8, <2>9
<1> QED
  BY <1>1, <1>9, <1>10, <1>11


---------------------------------------------------------------------------
(* The rows of the worker stand where the positions of the host say. *)

LEMMA AlignedInit ==
    ASSUME DecodeBatchAssumption, Init
    PROVE  Aligned
<1>1. /\ pc = "send" /\ queue = <<>> /\ running = <<>> /\ batch = <<>>
      /\ \A s \in Seqs : kind[s] = "generate"
  BY DEF Init
<1>2. Unstarted = {} /\ ~Started
  BY <1>1 DEF Unstarted, Started
<1>3. Worker = batch
  BY <1>2 DEF Worker
<1>4. PendingAligned
  BY <1>1, <1>2, <1>3 DEF PendingAligned, Fits, InStep
<1> QED
  BY <1>1, <1>2, <1>4 DEF Aligned, Generating, HeadAligned

LEMMA PendingAlignedStep ==
    ASSUME DecodeBatchAssumption, Frame, Frame', Flow, Distinct, ChunkApart, Aligned, Steps
    PROVE  PendingAligned'
<1>1. PendingAligned
  BY DEF Aligned
<1> QED
  BY <1>1, PendingUntouched, PendingCollects, PendingEnds, PendingSends, PendingActivates DEF Steps

LEMMA AlignedStep ==
    ASSUME DecodeBatchAssumption, Kinds \subseteq {"generate"}, Sound, ChunkApart, Aligned, [Next]_vars
    PROVE  Aligned'
<1>1. CASE Next
  <2>1. Frame' /\ Steps
    BY <1>1, FrameStep DEF Sound
  <2>2. Generating'
    BY <2>1, GeneratingStep DEF Sound, Aligned
  <2>3. HeadAligned'
    BY <2>1, HeadAlignedStep DEF Sound
  <2>4. PendingAligned'
    BY <2>1, PendingAlignedStep DEF Sound
  <2> QED
    BY <2>2, <2>3, <2>4 DEF Aligned
<1>2. CASE UNCHANGED vars
  <2>1. /\ UNCHANGED <<len, hist, held, limit, kind, status, arrival>>
        /\ UNCHANGED <<running, toEvict, chunk, afterChunk, rounds, shorts>>
        /\ UNCHANGED <<queue, batch, built, setup, pc, turn>>
    BY <1>2 DEF vars, seqVars, makerVars, workVars
  <2>2. Running' = Running /\ Active' = Active /\ Unstarted' = Unstarted /\ Started' = Started /\ Head1' = Head1
    BY <2>1 DEF Running, Active, WithStatus, Unstarted, Started, Head1
  <2>3. Worker' = Worker
    BY <2>1, <2>2, WorkerIs
  <2>4. Dues' = Dues
    BY <2>1, <2>2 DEF Dues, Has, RowsOf
  <2>5. PendingAligned'
    BY <2>1, <2>2, <2>3, <2>4, PendingKept DEF Aligned
  <2>6. Generating'
    BY <2>1 DEF Aligned, Generating, RowsOf
  <2>7. HeadAligned'
    <3> SUFFICES ASSUME Started', Head1'.lane = "decode", NEW i \in DOMAIN Head1'.rows,
                        Head1'.rows[i].seq \in Running'
                 PROVE  /\ \E k \in DOMAIN running' : running'[k] = Head1'.rows[i].seq
                        /\ Selected(Head1', batch')[i] =
                             [seq |-> Head1'.rows[i].seq, len |-> len'[Head1'.rows[i].seq]]
      BY WorkerIs DEF HeadAligned, Listed, SeqAt, RowsOf
    <3>1. /\ \E k \in DOMAIN running : running[k] = Head1.rows[i].seq
          /\ Selected(Head1, batch)[i] = [seq |-> Head1.rows[i].seq, len |-> len[Head1.rows[i].seq]]
      BY <2>2, WorkerIs DEF Aligned, HeadAligned, Listed, SeqAt, RowsOf
    <3> QED
      BY <2>1, <2>2, <3>1
  <2> QED
    BY <2>5, <2>6, <2>7 DEF Aligned
<1> QED
  BY <1>1, <1>2

\* As long as all requests generate, and the sequence whose prompt is being
\* chunked is not on the list as well, the worker decodes at each position that
\* still matters the row of the sequence the host will credit with the token,
\* with that sequence's text so far (ModelInputsDelta.indices against
\* ARStepInputs, through prefills, preemptions and sessions that end).
THEOREM RowsStayAligned ==
    ASSUME Kinds \subseteq {"generate"}
    PROVE  Spec /\ []ChunkApart => []RowsAligned
<1>1. Init => Aligned
  BY AlignedInit, DecodeBatchAssumption
<1>2. Sound /\ ChunkApart /\ Aligned /\ [Next]_vars => Aligned'
  BY AlignedStep, DecodeBatchAssumption
<1>3. Sound /\ Aligned => RowsAligned
  <2> SUFFICES ASSUME Sound, Aligned, pc = "wait" PROVE Started
    BY DEF RowsAligned, Aligned, HeadAligned
  <2> QED
    BY PlaceFacts DEF Sound
<1> QED
  BY <1>1, <1>2, <1>3, SoundHolds, PTL DEF Spec

---------------------------------------------------------------------------
(* The blocks that are held, and a request that cannot be refused. *)

\* A text within its limit, with what is reserved ahead, fits.
LEMMA DivisionRises ==
    ASSUME NEW m \in Int, NEW n \in Int, NEW B \in Nat \ {0}, m <= n
    PROVE  m \div B <= n \div B
<1> DEFINE p == m \div B
           q == n \div B
<1>1. p \in Int /\ q \in Int /\ B * p <= m /\ n < B * q + B
  BY Z3
<1> HIDE DEF p, q
<1>2. p <= q
  <2> SUFFICES ASSUME q + 1 <= p PROVE FALSE
    BY <1>1
  <2>1. B * (q + 1) <= B * p
    BY <1>1, Z3
  <2>2. B * (q + 1) = B * q + B
    BY <1>1, Z3
  <2>3. B * q \in Int /\ B * p \in Int
    BY <1>1
  <2> QED
    BY <1>1, <2>1, <2>2, <2>3
<1> QED
  BY <1>2 DEF p, q

LEMMA FitType ==
    ASSUME DecodeBatchAssumption
    PROVE  Fit \in Nat
<1>1. MaxLen \in Nat \ {0} /\ BlockSize \in Nat \ {0} /\ Prealloc \in Nat
  BY DEF DecodeBatchAssumption
<1>2. MaxLen - 1 + Prealloc + BlockSize - 1 \in Nat
  BY <1>1
<1> QED
  BY <1>1, <1>2, Z3 DEF Fit

LEMMA RequiredFits ==
    ASSUME DecodeBatchAssumption, Shapes, NEW c \in Seqs, NEW lim \in Nat, NEW extra \in Nat,
           len[c] < MaxLen, extra <= Prealloc, held[c] <= Fit
    PROVE  Required(c, lim, extra) \in Nat /\ held[c] + Required(c, lim, extra) <= Fit
<1>1. /\ BlockSize \in Nat \ {0} /\ MaxLen \in Nat \ {0} /\ Prealloc \in Nat
      /\ len[c] \in Nat /\ held[c] \in Nat
  BY DEF DecodeBatchAssumption, Shapes, SeqShape
<1> DEFINE tokens == (IF lim = 0 THEN len[c] ELSE Min({len[c], lim})) + extra
           x == (tokens + BlockSize - 1) \div BlockSize
<1>2. Min({len[c], lim}) \in Nat /\ Min({len[c], lim}) <= len[c]
  <2>1. \E m \in {len[c], lim} : \A y \in {len[c], lim} : m <= y
    <3>1. len[c] <= lim \/ lim <= len[c]
      BY <1>1
    <3> QED
      BY <1>1, <3>1
  <2> QED
    BY <1>1, <2>1 DEF Min
<1>3. tokens \in Nat /\ tokens + BlockSize - 1 <= MaxLen - 1 + Prealloc + BlockSize - 1
  BY <1>1, <1>2
<1> HIDE DEF tokens
<1>4. x <= Fit
  <2>1. tokens + BlockSize - 1 \in Int /\ MaxLen - 1 + Prealloc + BlockSize - 1 \in Int
    BY <1>1, <1>3
  <2> QED
    BY <1>1, <1>3, <2>1, DivisionRises DEF Fit
<1>5. x \in Int
  BY <1>1, <1>3, Z3
<1>6. Required(c, lim, extra) = Max({0, x - held[c]})
  BY DEF Required, tokens
<1> HIDE DEF x
<1>7. Max({0, x - held[c]}) \in {0, x - held[c]} /\ Max({0, x - held[c]}) >= 0
  <2>1. \E m \in {0, x - held[c]} : \A y \in {0, x - held[c]} : m >= y
    <3>1. 0 >= x - held[c] \/ x - held[c] >= 0
      BY <1>1, <1>5
    <3> QED
      BY <1>1, <1>5, <3>1
  <2> QED
    BY <1>1, <1>5, <2>1 DEF Max
<1>8. x - held[c] \in Int /\ Fit \in Nat
  BY <1>1, <1>5, FitType
<1> QED
  BY <1>1, <1>4, <1>5, <1>6, <1>7, <1>8

\* What all hold is no more than what some hold, c holds and the others hold.
LEMMA HeldCover ==
    ASSUME DecodeBatchAssumption, Shapes, NEW c \in Seqs, NEW E \in SUBSET Seqs,
           \A s \in Seqs : held[s] <= Fit
    PROVE  /\ HeldBy(Seqs) \in Nat /\ HeldBy(E) \in Nat
           /\ HeldBy(Seqs) <= held[c] + (Cardinality(Seqs) - 1) * Fit
           /\ (\A s \in Seqs : s = c \/ held[s] = 0 \/ s \in E) => HeldBy(Seqs) <= HeldBy(E) + held[c]
<1>0. /\ IsFiniteSet(Seqs) /\ Fit \in Nat /\ \A s \in Seqs : held[s] \in Nat
      /\ Cardinality(Seqs) \in Nat
  BY FitType, FS_CardinalityType DEF DecodeBatchAssumption, Shapes, SeqShape
<1>1. IsFiniteSet(1..Fit) /\ Cardinality(1..Fit) = Fit
  <2>1. 1 \in Int /\ Fit \in Int
    BY <1>0
  <2>2. IsFiniteSet(1..Fit) /\ Cardinality(1..Fit) = IF 1 > Fit THEN 0 ELSE Fit - 1 + 1
    BY <2>1, FS_Interval
  <2> QED
    BY <1>0, <2>2
<1> DEFINE O == (Seqs \ {c}) \X (1..Fit)
           C == {c} \X (1..held[c])
<1>2. IsFiniteSet(O) /\ Cardinality(O) = (Cardinality(Seqs) - 1) * Fit
  <2>1. IsFiniteSet(Seqs \ {c}) /\ Cardinality(Seqs \ {c}) = Cardinality(Seqs) - 1
    BY <1>0, FS_RemoveElement
  <2> QED
    BY <1>1, <2>1, FS_Product
<1>3. IsFiniteSet(C) /\ Cardinality(C) = held[c]
  <2> DEFINE n == held[c]
  <2>1. 1 \in Int /\ n \in Nat
    BY <1>0
  <2> HIDE DEF n
  <2>3. Cardinality(1..n) = n /\ IsFiniteSet(1..n)
    BY <2>1, UpTo, Zenon
  <2>4. IsFiniteSet({c}) /\ Cardinality({c}) = 1
    BY FS_Singleton
  <2>5. IsFiniteSet({c} \X (1..n)) /\ Cardinality({c} \X (1..n)) = 1 * n
    BY <2>3, <2>4, FS_Product
  <2>6. Cardinality({c} \X (1..n)) = n
    BY <2>1, <2>5
  <2> QED
    BY <2>5, <2>6 DEF n
<1>4. Cells(Seqs) \subseteq C \cup O /\ Cells(E) \subseteq C \cup O
  <2>1. \A s \in Seqs : {s} \X (1..held[s]) \subseteq C \cup O
    <3> SUFFICES ASSUME NEW s \in Seqs, s # c PROVE {s} \X (1..held[s]) \subseteq O
      OBVIOUS
    <3>1. 1..held[s] \subseteq 1..Fit
      BY <1>0
    <3> QED
      BY <3>1
  <2> HIDE DEF C, O
  <2> QED
    BY <2>1 DEF Cells
<1>5. (\A s \in Seqs : s = c \/ held[s] = 0 \/ s \in E) => Cells(Seqs) \subseteq Cells(E) \cup C
  <2> SUFFICES ASSUME \A s \in Seqs : s = c \/ held[s] = 0 \/ s \in E,
                      NEW s \in Seqs, NEW x \in {s} \X (1..held[s])
               PROVE  x \in Cells(E) \/ x \in C
    BY DEF Cells
  <2>1. held[s] # 0
    <3>1. x[2] \in 1..held[s]
      OBVIOUS
    <3> QED
      BY <3>1
  <2>2. CASE s = c
    BY <2>2
  <2>3. CASE s \in E
    BY <2>3 DEF Cells
  <2> QED
    BY <2>1, <2>2, <2>3
<1> HIDE DEF C, O
<1>6. IsFiniteSet(C \cup O) /\ Cardinality(C \cup O) <= Cardinality(C) + Cardinality(O)
  <2>1. IsFiniteSet(C \cup O) /\ Cardinality(C \cup O) = Cardinality(C) + Cardinality(O) - Cardinality(C \cap O)
    BY <1>2, <1>3, FS_Union
  <2>2. IsFiniteSet(C \cap O)
    <3>1. C \cap O \subseteq C
      OBVIOUS
    <3> QED
      BY <1>3, <3>1, FS_Subset
  <2>3. Cardinality(C \cap O) \in Nat /\ Cardinality(C) \in Nat /\ Cardinality(O) \in Nat
    BY <1>2, <1>3, <2>2, FS_CardinalityType
  <2> QED
    BY <2>1, <2>3
<1>7. /\ IsFiniteSet(Cells(Seqs)) /\ Cardinality(Cells(Seqs)) <= Cardinality(C \cup O)
      /\ IsFiniteSet(Cells(E))
  BY <1>4, <1>6, FS_Subset
<1>8. /\ Cardinality(Cells(Seqs)) \in Nat /\ Cardinality(Cells(E)) \in Nat
      /\ Cardinality(C \cup O) \in Nat /\ Cardinality(C) \in Nat /\ Cardinality(O) \in Nat
  BY <1>2, <1>3, <1>6, <1>7, FS_CardinalityType
<1>9. Cells(Seqs) \subseteq Cells(E) \cup C => Cardinality(Cells(Seqs)) <= Cardinality(Cells(E)) + Cardinality(C)
  <2>1. /\ IsFiniteSet(Cells(E) \cup C)
        /\ Cardinality(Cells(E) \cup C) = Cardinality(Cells(E)) + Cardinality(C) - Cardinality(Cells(E) \cap C)
    BY <1>3, <1>7, FS_Union
  <2>2. IsFiniteSet(Cells(E) \cap C)
    <3>1. Cells(E) \cap C \subseteq C
      OBVIOUS
    <3> QED
      BY <1>3, <3>1, FS_Subset
  <2>3. Cardinality(Cells(E) \cap C) \in Nat /\ Cardinality(Cells(E) \cup C) \in Nat
    BY <2>1, <2>2, FS_CardinalityType
  <2>4. Cells(Seqs) \subseteq Cells(E) \cup C => Cardinality(Cells(Seqs)) <= Cardinality(Cells(E) \cup C)
    BY <2>1, FS_Subset
  <2> QED
    BY <1>8, <2>1, <2>3, <2>4
<1>10. HeldBy(Seqs) = Cardinality(Cells(Seqs)) /\ HeldBy(E) = Cardinality(Cells(E))
  BY DEF HeldBy, Cells
<1> QED
  BY <1>2, <1>3, <1>5, <1>6, <1>7, <1>8, <1>9, <1>10

\* A sequence that nobody else keeps from the pool gets what its text needs.
LEMMA NeverRefused ==
    ASSUME DecodeBatchAssumption, CalmEngines, Shapes, Fitting,
           NEW c \in Seqs, NEW lim \in Nat, NEW extra \in Nat, NEW lim2 \in Nat,
           status[c] \in {"WAITING", "READY", "RUNNING"}, extra <= Prealloc,
           setup.patient => \A t \in Active : t = c
    PROVE  ~Refuse(c, lim, extra, lim2)
<1>1. /\ \A s \in Seqs : held[s] <= Fit /\ held[s] \in Nat
      /\ len[c] < MaxLen /\ Fit \in Nat /\ setup.blocks \in Nat
  BY FitType DEF Fitting, Shapes, SeqShape, WorkShape, DecodeBatchAssumption
<1>2. Required(c, lim, extra) \in Nat /\ held[c] + Required(c, lim, extra) <= Fit
  BY <1>1, RequiredFits
<1> DEFINE E == Evictable(c)
<1>3. E \in SUBSET Seqs
  BY DEF Evictable, WithStatus, Waiting
<1>4. \A t \in Seqs : t \in Active \/ held[t] = 0 \/ t \in E \/ t = c
  <2> SUFFICES ASSUME NEW t \in Seqs, t \notin Active, held[t] # 0, t # c PROVE t \in E
    OBVIOUS
  <2>1. status[t] \in Statuses /\ status[t] # "none" /\ status[t] \notin {"READY", "RUNNING"}
    BY DEF Fitting, Active, Running, WithStatus, Shapes, SeqShape
  <2>2. held[t] > 0
    BY <1>1
  <2> QED
    BY <2>1, <2>2 DEF Evictable, WithStatus, Waiting, Statuses
<1> HIDE DEF E
<1>5. /\ HeldBy(Seqs) \in Nat /\ HeldBy(E) \in Nat
      /\ HeldBy(Seqs) <= held[c] + (Cardinality(Seqs) - 1) * Fit
      /\ (\A s \in Seqs : s = c \/ held[s] = 0 \/ s \in E) => HeldBy(Seqs) <= HeldBy(E) + held[c]
  BY <1>1, <1>3, HeldCover
<1>6. FreeBlocks + HeldBy(E) >= Required(c, lim, extra)
  <2>0. FreeBlocks = setup.blocks - HeldBy(Seqs)
    BY DEF FreeBlocks
  <2>1. CASE setup.patient /\ setup.blocks >= Fit
    <3>1. HeldBy(Seqs) <= HeldBy(E) + held[c]
      BY <1>4, <1>5, <2>1
    <3> QED
      BY <1>1, <1>2, <1>5, <2>0, <2>1, <3>1
  <2>2. CASE setup.blocks >= Cardinality(Seqs) * Fit
    <3>1. Cardinality(Seqs) \in Nat
      BY FS_CardinalityType DEF DecodeBatchAssumption
    <3>2. Cardinality(Seqs) * Fit = (Cardinality(Seqs) - 1) * Fit + Fit /\ (Cardinality(Seqs) - 1) * Fit \in Int
      BY <1>1, <3>1, Z3
    <3> QED
      BY <1>1, <1>2, <1>5, <2>0, <2>2, <3>2
  <2>3. setup \in Setups
    BY DEF Shapes, WorkShape
  <2> QED
    BY <2>1, <2>2, <2>3 DEF CalmEngines
<1>7. Required(c, lim, extra) \in Int /\ FreeBlocks + HeldBy(E) \in Int
  BY <1>1, <1>2, <1>5 DEF FreeBlocks
<1> QED
  BY <1>6, <1>7 DEF Refuse, E

\* Who gets blocks holds no more than its text needs; others only lose some.
LEMMA AskFits ==
    ASSUME DecodeBatchAssumption, Shapes, Fitting,
           NEW c \in Seqs, NEW lim \in Nat, NEW extra \in Nat, NEW lim2 \in Nat,
           status[c] \in {"WAITING", "READY", "RUNNING"}, extra <= Prealloc,
           Allocate(c, lim, extra) \/ Refuse(c, lim, extra, lim2)
    PROVE  \A s \in Seqs : held'[s] <= Fit /\ (held[s] = 0 /\ s # c => held'[s] = 0)
<1>1. /\ \A s \in Seqs : held[s] <= Fit /\ held[s] \in Nat
      /\ len[c] < MaxLen /\ Fit \in Nat
  BY FitType DEF Fitting, Shapes, SeqShape
<1> DEFINE need == Required(c, lim, extra)
<1>2. need \in Nat /\ held[c] + need <= Fit
  BY <1>1, RequiredFits
<1> HIDE DEF need
<1>3. PICK m \in {0, need} : \E V, l : Repage(V, c, l, m)
  <2>1. CASE Allocate(c, lim, extra)
    BY <2>1 DEF Allocate, need
  <2>2. CASE Refuse(c, lim, extra, lim2)
    BY <2>2 DEF Refuse
  <2> QED
    BY <2>1, <2>2
<1>4. PICK V : held' = [s \in Seqs |-> CASE s \in V -> 0
                               [] s = c   -> held[s] + m
                               [] OTHER   -> held[s]]
  BY <1>3 DEF Repage
<1>5. \A s \in Seqs : held'[s] = 0 \/ held'[s] = held[s] \/ (s = c /\ held'[s] = held[s] + m)
  BY <1>4
<1> QED
  BY <1>1, <1>2, <1>3, <1>5

---------------------------------------------------------------------------
(* The steps again, with the actions that take them. *)

LEMMA NextActions ==
    ASSUME DecodeBatchAssumption, Frame, Next
    PROVE  \/ \E s \in Seqs : (Adds(s) \/ StopSession(s)) /\ MildStep
           \/ \E e \in Seqs : EndSession(e) /\ EndStep(e)
           \/ BeginPass /\ BeginStep
           \/ Quiet /\ QuietStep
           \/ Pages /\ PageStep
           \/ Sends
           \/ Activate /\ ActivateStep
           \/ pc = "wait" /\ \E stop \in SUBSET RowsOf(Head1) : CollectOutput(stop) /\ CollectStep
<1>1. CASE Client
  <2>1. PICK s \in Seqs : Adds(s) \/ StopSession(s) \/ EndSession(s)
    BY <1>1 DEF Client, Adds
  <2>2. CASE Adds(s) \/ StopSession(s)
    BY <2>2, MildFacts DEF Adds
  <2>3. CASE EndSession(s)
    BY <2>3, EndFacts
  <2> QED
    BY <2>1, <2>2, <2>3
<1>2. CASE Pass
  <2>1. Pass => BeginPass \/ Quiet \/ Pages \/ Sends
    BY DEF Pass, Quiet, Pages, Sends
  <2> QED
    BY <1>2, <2>1, BeginFacts, QuietFacts, PageFacts
<1>3. CASE Loop
  BY <1>3, ActivateFacts, CollectFacts DEF Loop
<1> QED
  BY <1>1, <1>2, <1>3 DEF Next, Engine

LEMMA StatusSets ==
    \A t : /\ t \in Active <=> t \in Seqs /\ status[t] \in {"READY", "RUNNING"}
           /\ t \in Running <=> t \in Seqs /\ status[t] = "RUNNING"
           /\ t \in Waiting <=> t \in Seqs /\ status[t] = "WAITING"
           /\ t \in WithStatus("READY") <=> t \in Seqs /\ status[t] = "READY"
           /\ Waits(t) <=> t \in Seqs /\ status[t] \in {"WAITING", "READY"}
           /\ Threat(t) <=> t \in toEvict /\ t \in Seqs /\ status[t] \in {"WAITING", "READY", "RUNNING"}
           /\ t \in Active' <=> t \in Seqs /\ status'[t] \in {"READY", "RUNNING"}
           /\ t \in Running' <=> t \in Seqs /\ status'[t] = "RUNNING"
           /\ t \in Waiting' <=> t \in Seqs /\ status'[t] = "WAITING"
           /\ t \in WithStatus("READY")' <=> t \in Seqs /\ status'[t] = "READY"
           /\ Waits(t)' <=> t \in Seqs /\ status'[t] \in {"WAITING", "READY"}
           /\ Threat(t)' <=> t \in toEvict' /\ t \in Seqs /\ status'[t] \in {"WAITING", "READY", "RUNNING"}
  BY DEF Active, Running, Waiting, WithStatus, Waits, Threat

\* What a message and a stop do to a status.
LEMMA ClientStatus ==
    ASSUME DecodeBatchAssumption, Frame, NEW s \in Seqs, Adds(s) \/ StopSession(s)
    PROVE  /\ \A t \in Seqs : status'[t] \in {"WAITING", "READY", "RUNNING"} =>
                status'[t] = status[t] \/ (status[t] = "none" /\ status'[t] = "WAITING" /\ len'[t] < MaxLen)
           /\ \A t \in Seqs : status[t] \in {"WAITING", "READY", "RUNNING"} /\ status'[t] # status[t] =>
                t = s /\ (setup.patient => s # chunk.seq)
           /\ toEvict' = toEvict
<1>0. status \in [Seqs -> Statuses] /\ len \in [Seqs -> Nat]
  BY DEF Frame, Shapes, SeqShape
<1>1. CASE Adds(s)
  BY <1>0, <1>1 DEF Adds, AddMessage, makerVars
<1>2. CASE StopSession(s)
  BY <1>0, <1>2 DEF StopSession
<1> QED
  BY <1>1, <1>2

LEMMA EndMore ==
    ASSUME DecodeBatchAssumption, Frame, NEW e \in Seqs, EndSession(e)
    PROVE  /\ toEvict' = {Ghost(e, t) : t \in toEvict}
           /\ \A t \in Seqs : t \in toEvict' => t # e /\ t \in toEvict
           /\ held' = [held EXCEPT ![e] = 0] /\ (setup.patient => e # chunk.seq)
<1>1. /\ toEvict' = {Ghost(e, t) : t \in toEvict}
      /\ held' = [held EXCEPT ![e] = 0] /\ (setup.patient => e # chunk.seq)
  BY DEF EndSession, Ghost
<1>2. Gone \notin Seqs
  BY DEF DecodeBatchAssumption
<1> QED
  BY <1>1, <1>2 DEF Ghost

\* In these places nobody is admitted without being sent.
LEMMA NobodyReady ==
    ASSUME DecodeBatchAssumption, Frame, ReadySent, pc \in {"send", "prefetch", "try", "grow"}
    PROVE  (\A s \in Seqs : status[s] # "READY") /\ Active = Running
<1>1. Unstarted = {}
  BY PlaceFacts DEF InPass
<1>2. \A s \in Seqs : status[s] # "READY"
  BY <1>1 DEF ReadySent, WithStatus
<1> QED
  BY <1>2, StatusSets

\* A forward that ends a session keeps the others, and a collected one is not
\* the forward that waits.
LEMMA UnstartedKept ==
    ASSUME DecodeBatchAssumption, Frame, Frame'
    PROVE  /\ CollectStep => Unstarted' = Unstarted
           /\ \A e \in Seqs : EndStep(e) => \A f \in Unstarted : \E g \in Unstarted' : Ghosted(e, f, g)
<1>1. ASSUME CollectStep PROVE Unstarted' = Unstarted
  <2>1. pc = "wait" /\ queue # <<>> /\ queue' = Tail(queue) /\ pc' = (IF Len(queue) = 1 THEN "send" ELSE "next")
    BY <1>1 DEF CollectStep
  <2>2. /\ Len(queue) \in Nat /\ Len(queue) <= 2 /\ (queue = <<>> <=> Len(queue) = 0)
        /\ Len(queue) = 1 => Unstarted = {}
        /\ Len(queue) = 2 => Unstarted = {queue[2]}
    BY <2>1, PlaceFacts
  <2>3. CASE Len(queue) = 1
    BY <1>1, <2>2, <2>3, UnstartedSteps
  <2>4. CASE Len(queue) = 2
    <3>1. Unstarted' \subseteq {queue[2]}
      BY <1>1, <2>2, <2>4, UnstartedSteps
    <3>2. Unstarted' # {}
      <4>1. pc' = "next"
        BY <2>1, <2>4
      <4> QED
        BY <4>1, PlaceNext
    <3>3. Unstarted = {queue[2]}
      BY <2>2, <2>4
    <3> QED
      BY <3>1, <3>2, <3>3, Zenon
  <2>5. Len(queue) = 1 \/ Len(queue) = 2
    <3>1. \A n \in Nat : n <= 2 /\ n # 0 => n = 1 \/ n = 2
      OBVIOUS
    <3> QED
      BY <2>1, <2>2, <3>1, Zenon
  <2> QED
    BY <2>3, <2>4, <2>5
<1>2. ASSUME NEW e \in Seqs, EndStep(e), NEW f \in Unstarted PROVE \E g \in Unstarted' : Ghosted(e, f, g)
  <2>1. /\ pc' = pc /\ Len(queue') = Len(queue)
        /\ \A q \in DOMAIN queue : Ghosted(e, queue[q], queue'[q])
    BY <1>2, GhostedQueue, EndQueue DEF EndStep
  <2>2. f = queue[Len(queue)] /\ Unstarted' = {queue'[Len(queue)]} /\ (pc \in {"sent", "next"} \/ Len(queue) = 2)
    BY <1>2, <2>1 DEF Unstarted
  <2>3. Len(queue) \in DOMAIN queue
    <3>2. DOMAIN queue = 1..Len(queue) /\ (pc \in {"sent", "next"} => Len(queue) = 1)
      BY PlaceFacts
    <3> QED
      BY <2>2, <3>2
  <2> QED
    BY <2>1, <2>2, <2>3
<1> QED
  BY <1>1, <1>2

LEMMA PageMore ==
    ASSUME DecodeBatchAssumption, CalmEngines, Poised, Pages
    PROVE  /\ \A s \in Seqs : held'[s] <= Fit /\ (status[s] = "none" => held'[s] = 0)
           /\ \/ (\E s \in Seqs : Admits(s)) \/ GivesUp \/ ChunkWaits \/ RowGrows
              \/ \E s \in Seqs : RowRefused(s)
<1>0. /\ Frame /\ Shapes /\ Fitting /\ PlanShape /\ ChunkApart /\ TodoOnce
  BY DEF Poised, Sound, Calm, Frame, Distinct
<1>1. /\ \A s \in Seqs : KvLimit(s) \in Nat /\ ChunkLimit(s) \in Nat /\ limit[s] \in Nat
      /\ \A lim \in Nat : Prealloced(lim) \in Nat /\ Prealloced(lim) <= Prealloc
      /\ Prealloc \in Nat
  <2>1. /\ \A s \in Seqs : KvLimit(s) \in Nat /\ ChunkLimit(s) \in Nat /\ limit[s] \in Nat
        /\ \A lim \in Nat : Prealloced(lim) \in Nat
        /\ Prealloc \in Nat
    BY <1>0, FrameTypes
  <2>2. \A lim \in Nat : Prealloced(lim) <= Prealloc
    BY <2>1 DEF Prealloced
  <2> QED
    BY <2>1, <2>2
<1>2. \A s \in Seqs : status[s] = "none" => held[s] = 0
  BY <1>0 DEF Fitting
<1>3. ASSUME NEW s \in Seqs, Candidate(s) PROVE s = turn.todo[1] /\ status[s] = "WAITING" /\ turn.todo # <<>> /\ pc = "admit"
  <2>1. turn.todo \in Seq(Seqs) /\ turn.todo # <<>> /\ pc = "admit" /\ s = Head(turn.todo)
    BY <1>0, <1>3, LaneFacts DEF Candidate
  <2>2. 1 \in DOMAIN turn.todo /\ s = turn.todo[1]
    BY <2>1, TailOf
  <2> QED
    BY <1>0, <2>1, <2>2 DEF TodoOnce
<1>4. ASSUME NEW s \in Seqs, Admit(s) \/ NoRoomPrefill(s)
      PROVE  /\ \A t \in Seqs : held'[t] <= Fit /\ (status[t] = "none" => held'[t] = 0)
             /\ Admits(s) \/ GivesUp
  <2>1. Candidate(s) /\ (Allocate(s, KvLimit(s), Prealloced(KvLimit(s))) \/ Refuse(s, KvLimit(s), Prealloced(KvLimit(s)), 0))
    BY <1>4 DEF Admit, NoRoomPrefill
  <2>2. s = turn.todo[1] /\ status[s] = "WAITING" /\ turn.todo # <<>> /\ pc = "admit"
    BY <1>3, <2>1
  <2> DEFINE l == KvLimit(s)
             e == Prealloced(KvLimit(s))
  <2>3. l \in Nat /\ e \in Nat /\ e <= Prealloc /\ 0 \in Nat
    BY <1>1
  <2>4. Allocate(s, l, e) \/ Refuse(s, l, e, 0)
    BY <2>1
  <2> HIDE DEF l, e
  <2>5. \A t \in Seqs : held'[t] <= Fit /\ (held[t] = 0 /\ t # s => held'[t] = 0)
    BY <1>0, <2>2, <2>3, <2>4, AskFits
  <2>6. Admits(s) \/ GivesUp
    BY <1>4, <2>2 DEF Admit, NoRoomPrefill, Admits, GivesUp
  <2> QED
    BY <1>2, <2>2, <2>5, <2>6
<1>5. ASSUME NoRoomChunk
      PROVE  /\ \A t \in Seqs : held'[t] <= Fit /\ (status[t] = "none" => held'[t] = 0)
             /\ ChunkWaits
  <2> DEFINE s == chunk.seq
             l == ChunkLimit(s)
             e == Prealloced(l)
  <2>1. s \in Seqs /\ status[s] = "RUNNING" /\ TryChunk
    BY <1>0, <1>5, LaneFacts, StatusSets DEF NoRoomChunk, TryChunk, PlanShape, InPass
  <2>2. l \in Nat /\ e \in Nat /\ e <= Prealloc /\ limit[s] \in Nat
    BY <1>1, <2>1
  <2>3. Refuse(s, l, e, limit[s])
    BY <1>5 DEF NoRoomChunk
  <2>4. turn' = [turn EXCEPT !.plan = Tail(@)] /\ status' = status
    BY <1>5 DEF NoRoomChunk
  <2> HIDE DEF l, e
  <2>5. \A t \in Seqs : held'[t] <= Fit /\ (held[t] = 0 /\ t # s => held'[t] = 0)
    BY <1>0, <2>1, <2>2, <2>3, AskFits
  <2>6. ~(setup.patient => \A t \in Active : t = s)
    BY <1>0, <2>1, <2>2, <2>3, NeverRefused
  <2> QED
    BY <1>2, <2>1, <2>4, <2>5, <2>6 DEF ChunkWaits
<1>6. ASSUME GrowRow
      PROVE  /\ \A t \in Seqs : held'[t] <= Fit /\ (status[t] = "none" => held'[t] = 0)
             /\ RowGrows \/ \E s \in Seqs : RowRefused(s)
  <2> DEFINE s == running[turn.left]
             l == limit[s]
  <2>1. pc = "grow" /\ turn.left > 0 /\ s \in Running /\ s \in Seqs /\ status[s] = "RUNNING"
    BY <1>6, StatusSets DEF GrowRow
  <2>2. l \in Nat /\ Prealloc \in Nat /\ Prealloc <= Prealloc
    BY <1>1, <2>1
  <2>3. \/ Allocate(s, l, Prealloc) /\ Keep(turn.left) /\ status' = status
        \/ Refuse(s, l, Prealloc, l) /\ Drop(turn.left) /\ status' = [status EXCEPT ![s] = "WAITING"]
    BY <1>6 DEF GrowRow
  <2> HIDE DEF l
  <2>4. \A t \in Seqs : held'[t] <= Fit /\ (held[t] = 0 /\ t # s => held'[t] = 0)
    <3>1. Allocate(s, l, Prealloc) \/ Refuse(s, l, Prealloc, l)
      BY <2>3
    <3> QED
      BY <1>0, <2>1, <2>2, <3>1, AskFits
  <2>5. Refuse(s, l, Prealloc, l) => ~(setup.patient => \A t \in Active : t = s)
    BY <1>0, <2>1, <2>2, NeverRefused
  <2>6. s # chunk.seq
    <3>1. turn.left \in DOMAIN running
      BY <1>0, <2>1 DEF Frame, LaneShape, Shapes, TurnShape, TurnSet, MakerShape
    <3> QED
      BY <1>0, <2>1, <3>1, StatusSets DEF ChunkApart, Listed
  <2>7. RowGrows \/ RowRefused(s)
    BY <2>1, <2>3, <2>5, <2>6 DEF RowGrows, RowRefused
  <2> QED
    BY <1>2, <2>1, <2>4, <2>7
<1> QED
  BY <1>4, <1>5, <1>6 DEF Pages

LEMMA CollectMore ==
    ASSUME DecodeBatchAssumption, Frame, pc = "wait", NEW stop \in SUBSET RowsOf(Head1), CollectOutput(stop)
    PROVE  \A t \in Seqs :
             /\ status'[t] \in {"WAITING", "READY", "RUNNING"} => status[t] \in {"WAITING", "READY", "RUNNING"}
             /\ status'[t] = "WAITING" => status[t] = "WAITING" \/ t \in toEvict \cap Active
             /\ ~Takes(t) /\ t \notin toEvict => status'[t] = status[t]
             /\ status'[t] \in {"WAITING", "READY", "RUNNING"} /\ Takes(t) =>
                  \E i \in RowsOf(Head1) : SeqAt(i) = t /\ i \notin MustStop(Head1)
<1> DEFINE stops(s) == ~Generates(s) \/ \E i \in stop : SeqAt(i) = s
           applied == [s \in Seqs |-> IF Takes(s) /\ stops(s) THEN "STOPPED" ELSE status[s]]
<1>1. /\ status' = [s \in Seqs |-> IF s \in toEvict /\ applied[s] \in {"RUNNING", "READY", "WAITING"}
                                     THEN "WAITING" ELSE applied[s]]
      /\ MustStop(Head1) \subseteq stop
  BY DEF CollectOutput
<1> SUFFICES ASSUME NEW t \in Seqs
             PROVE  /\ status'[t] \in {"WAITING", "READY", "RUNNING"} => status[t] \in {"WAITING", "READY", "RUNNING"}
                    /\ status'[t] = "WAITING" => status[t] = "WAITING" \/ t \in toEvict \cap Active
                    /\ ~Takes(t) /\ t \notin toEvict => status'[t] = status[t]
                    /\ status'[t] \in {"WAITING", "READY", "RUNNING"} /\ Takes(t) =>
                         \E i \in RowsOf(Head1) : SeqAt(i) = t /\ i \notin MustStop(Head1)
  OBVIOUS
<1>2. status'[t] = IF t \in toEvict /\ applied[t] \in {"RUNNING", "READY", "WAITING"} THEN "WAITING" ELSE applied[t]
  BY <1>1
<1>3. applied[t] = IF Takes(t) /\ stops(t) THEN "STOPPED" ELSE status[t]
  OBVIOUS
<1>4. Takes(t) => \E i \in RowsOf(Head1) : SeqAt(i) = t
  BY DEF Takes
<1>5. ~stops(t) => \A i \in RowsOf(Head1) : SeqAt(i) = t => i \notin MustStop(Head1)
  BY <1>1
<1>6. t \in Active <=> status[t] \in {"READY", "RUNNING"}
  BY StatusSets
<1> HIDE DEF applied, stops
<1> QED
  BY <1>2, <1>3, <1>4, <1>5, <1>6

\* The first chunk is sent while nobody else's prompt is being chunked.
LEMMA FirstChunkAlone ==
    ASSUME DecodeBatchAssumption, Poised, SendFirstChunk
    PROVE  /\ pc = "admit" /\ turn.lane = "long" /\ chunk.seq \notin Seqs /\ ~Attended
           /\ turn.batch \in Seq(Seqs) /\ Len(turn.batch) = 1 /\ DOMAIN turn.batch = {1}
           /\ chunk'.seq = turn.batch[1] /\ turn.batch[1] \in Seqs /\ status[turn.batch[1]] = "READY"
           /\ ~Listed(turn.batch[1]) /\ (\A t \in Seqs : ~Threat(t))
           /\ (queue # <<>> /\ Head1.lane # "chunk" => ~Has(Head1, turn.batch[1]))
<1>0. Frame /\ LongAlone /\ PlanShape /\ Strays /\ Bringing /\ Threats
  BY DEF Poised, Sound, Flow, Calm
<1>1. pc = "admit" /\ turn.batch # <<>> /\ IsLong(turn.batch[1]) /\ chunk'.seq = turn.batch[1]
  BY DEF SendFirstChunk, Admitted
<1>2. turn.batch \in Seq(Seqs) /\ turn.todo \in Seq(Seqs)
  BY <1>0, LaneFacts DEF SendFirstChunk
<1>3. turn.lane = "long" /\ chunk.seq \notin Seqs
  BY <1>0, <1>1 DEF LongAlone
<1>4. ~Attended
  BY <1>3, StatusSets DEF Attended
<1>5. Len(turn.batch) = 1
  <2>1. Len(turn.batch) + Len(turn.todo) <= 1
    BY <1>0, <1>1, <1>3 DEF PlanShape, InPass
  <2>2. Len(turn.batch) \in Nat /\ Len(turn.todo) \in Nat /\ Len(turn.batch) # 0
    BY <1>1, <1>2, EmptyOf
  <2>3. \A m, n \in Nat : m + n <= 1 /\ m # 0 => m = 1
    OBVIOUS
  <2> QED
    BY <2>1, <2>2, <2>3, Zenon
<1>6. DOMAIN turn.batch = {1} /\ turn.batch[1] \in Seqs
  BY <1>2, <1>5
<1>7. status[turn.batch[1]] = "READY"
  BY <1>0, <1>1, <1>6 DEF LongAlone
<1>8. Unstarted = {}
  BY <1>0, <1>1, PlaceFacts DEF InPass
<1>9. ~Listed(turn.batch[1])
  BY <1>0, <1>1, <1>4, <1>6, <1>7, <1>8, StatusSets DEF Strays, Listed
<1>10. \A t \in Seqs : ~Threat(t)
  BY <1>0, <1>1, <1>4 DEF Threats
<1>11. queue # <<>> /\ Head1.lane # "chunk" => ~Has(Head1, turn.batch[1])
  BY <1>0, <1>1, <1>3, <1>4, <1>6, <1>7, StatusSets DEF Bringing, Has, SeqAt
<1> QED
  BY <1>1, <1>2, <1>3, <1>4, <1>5, <1>6, <1>7, <1>9, <1>10, <1>11

\* A sequence that nobody takes away from the chunker stays its own until the
\* last chunk is sent.
LEMMA AttendedStays ==
    ASSUME DecodeBatchAssumption, CalmEngines, Poised, Frame', Next, ~SendLastChunk, Attended
    PROVE  /\ Attended' /\ chunk'.seq = chunk.seq /\ chunk.seq \in Seqs
           /\ len'[chunk.seq] = len[chunk.seq]
           /\ Activate \/ hist'[chunk.seq] = hist[chunk.seq]
<1> DEFINE c == chunk.seq
<1>0. Frame /\ Shapes /\ Single /\ ReadySent /\ PlanShape /\ Flow
  BY DEF Poised, Sound, Calm, Frame
<1>1. /\ c \in Seqs /\ c \in Active /\ setup.patient /\ status[c] \in {"READY", "RUNNING"}
      /\ NoChunk.seq = Gone /\ Gone \notin Seqs
  BY StatusSets DEF Attended, NoChunk, DecodeBatchAssumption
<1>2. ASSUME status'[c] \in {"READY", "RUNNING"}, setup' = setup, chunk'.seq = c PROVE Attended'
  <2>1. c \in Active'
    BY <1>1, <1>2, StatusSets
  <2> QED
    BY <1>1, <1>2, <2>1 DEF Attended
<1>3. ASSUME NEW s \in Seqs, Adds(s) \/ StopSession(s), MildStep
      PROVE  Attended' /\ chunk'.seq = c /\ len'[c] = len[c] /\ hist'[c] = hist[c]
  <2>1. status'[c] = status[c]
    BY <1>0, <1>1, <1>3, ClientStatus
  <2>2. c \in Active'
    BY <1>1, <2>1, StatusSets
  <2>3. chunk' = chunk /\ setup' = setup /\ hist' = hist
    BY <1>3, <2>2 DEF MildStep, workVars
  <2>4. len'[c] = len[c]
    BY <1>1, <1>3 DEF MildStep
  <2> QED
    BY <1>1, <1>2, <2>1, <2>3, <2>4
<1>4. ASSUME NEW e \in Seqs, EndSession(e), EndStep(e)
      PROVE  Attended' /\ chunk'.seq = c /\ len'[c] = len[c] /\ hist'[c] = hist[c]
  <2>1. e # c
    BY <1>0, <1>1, <1>4, EndMore
  <2>2. status'[c] = status[c] /\ len'[c] = len[c] /\ hist'[c] = hist[c] /\ setup' = setup
    BY <1>1, <1>4, <2>1 DEF EndStep
  <2>3. c \in Active'
    BY <1>1, <2>2, StatusSets
  <2>4. chunk' = [chunk EXCEPT !.seq = Ghost(e, c)]
    BY <1>4, <2>1, <2>3 DEF EndStep
  <2>5. chunk'.seq = c
    BY <1>0, <2>1, <2>4 DEF Ghost, Shapes, MakerShape
  <2> QED
    BY <1>1, <1>2, <2>2, <2>5
<1>5. ASSUME BeginPass, BeginStep PROVE Attended' /\ chunk'.seq = c /\ len' = len /\ hist' = hist
  <2>1. c \in Running
    BY <1>0, <1>1, <1>5, NobodyReady DEF BeginStep
  <2>2. chunk' = chunk /\ status' = status /\ setup' = setup /\ len' = len /\ hist' = hist
    BY <1>5, <2>1 DEF BeginStep, seqVars, workVars
  <2> QED
    BY <1>1, <1>2, <2>2
<1>6. ASSUME QuietStep PROVE Attended' /\ chunk'.seq = c /\ len' = len /\ hist' = hist
  <2>1. chunk' = chunk /\ status' = status /\ setup' = setup /\ len' = len /\ hist' = hist
    BY <1>6 DEF QuietStep, seqVars, workVars
  <2> QED
    BY <1>1, <1>2, <2>1
<1>7. ASSUME Pages, PageStep PROVE Attended' /\ chunk'.seq = c /\ len' = len /\ hist'[c] = hist[c]
  <2>1. chunk' = chunk /\ setup' = setup /\ len' = len /\ hist'[c] = hist[c]
    BY <1>1, <1>7 DEF PageStep, makerVars, workVars
  <2>2. status'[c] = status[c]
    <3>1. (\E s \in Seqs : Admits(s)) \/ GivesUp \/ ChunkWaits \/ RowGrows \/ \E s \in Seqs : RowRefused(s)
      BY <1>7, PageMore
    <3>2. ASSUME NEW s \in Seqs, Admits(s) PROVE status'[c] = status[c]
      BY <1>0, <1>1, <3>2 DEF Admits, Shapes, SeqShape
    <3>3. ASSUME NEW s \in Seqs, RowRefused(s) PROVE status'[c] = status[c]
      BY <1>0, <1>1, <3>3 DEF RowRefused, Shapes, SeqShape
    <3>4. GivesUp \/ ChunkWaits \/ RowGrows => status'[c] = status[c]
      BY DEF GivesUp, ChunkWaits, RowGrows
    <3> QED
      BY <3>1, <3>2, <3>3, <3>4, Zenon
  <2> QED
    BY <1>1, <1>2, <2>1, <2>2
<1>8. ASSUME Sends PROVE Attended' /\ chunk'.seq = c /\ len' = len /\ hist'[c] = hist[c]
  <2>1. status' = status /\ len' = len
    BY <1>0, <1>8, SendFacts
  <2>2. hist'[c] = hist[c]
    BY <1>0, <1>1, <1>8, SendKinds DEF HistoryKept
  <2>3. ~SendFirstChunk
    BY FirstChunkAlone
  <2>4. chunk' = chunk
    BY <1>8, <2>3 DEF Sends, SendPrefill, SendNextChunk, SendDecode
  <2>5. setup' = setup
    BY <1>8, <2>3 DEF Sends, SendPrefill, SendNextChunk, SendDecode, Dispatch, DispatchPrefill, DispatchChunk
  <2> QED
    BY <1>1, <1>2, <2>1, <2>2, <2>4, <2>5
<1>9. ASSUME ActivateStep PROVE Attended' /\ chunk'.seq = c /\ len' = len
  <2>1. chunk'.seq = c /\ setup' = setup /\ len' = len /\ status'[c] \in {"READY", "RUNNING"}
    BY <1>1, <1>9 DEF ActivateStep, workVars
  <2> QED
    BY <1>1, <1>2, <2>1
<1>10. ASSUME pc = "wait", NEW stop \in SUBSET RowsOf(Head1), CollectOutput(stop), CollectStep
       PROVE  Attended' /\ chunk'.seq = c /\ len'[c] = len[c] /\ hist'[c] = hist[c]
  <2>1. ~Takes(c) /\ c \notin toEvict
    <3>1. 1 \in DOMAIN queue
      BY <1>0, <1>10, PlaceFacts
    <3> QED
      BY <1>0, <1>1, <3>1 DEF Single, Takes, Has, SeqAt, Head1
  <2>2. status'[c] = status[c]
    BY <1>0, <1>1, <1>10, <2>1, CollectMore
  <2>3. len'[c] = len[c] /\ hist'[c] = hist[c] /\ setup' = setup
    BY <1>1, <1>10, <2>1 DEF CollectStep
  <2>4. chunk' = chunk
    <3>1. c \in Active'
      BY <1>1, <2>2, StatusSets
    <3> QED
      BY <1>10, <3>1 DEF CollectStep
  <2> QED
    BY <1>1, <1>2, <2>2, <2>3, <2>4
<1> HIDE DEF c
<1>11. Attended' /\ chunk'.seq = c /\ len'[c] = len[c] /\ (Activate \/ hist'[c] = hist[c])
  <2>1. \/ \E s \in Seqs : (Adds(s) \/ StopSession(s)) /\ MildStep
        \/ \E e \in Seqs : EndSession(e) /\ EndStep(e)
        \/ BeginPass /\ BeginStep
        \/ QuietStep
        \/ Pages /\ PageStep
        \/ Sends
        \/ Activate /\ ActivateStep
        \/ pc = "wait" /\ \E stop \in SUBSET RowsOf(Head1) : CollectOutput(stop) /\ CollectStep
    BY <1>0, NextActions
  <2> QED
    BY <2>1, <1>3, <1>4, <1>5, <1>6, <1>7, <1>8, <1>9, <1>10
<1> QED
  BY <1>1, <1>11 DEF c

---------------------------------------------------------------------------
(* Texts fit, and outputs go with them. *)

LEMMA FittingStep ==
    ASSUME DecodeBatchAssumption, CalmEngines, Poised, Next
    PROVE  Fitting'
<1>0. Frame /\ Shapes /\ Fitting /\ PlanShape /\ Aligned /\ Uncredited
  BY DEF Poised, Sound, Calm, Frame
<1>1. Fit \in Nat /\ \A s \in Seqs : len[s] \in Nat /\ held[s] \in Nat /\ status[s] \in Statuses
  BY <1>0, FitType DEF Shapes, SeqShape
<1>2. \A s \in Seqs : /\ status[s] \in {"WAITING", "READY", "RUNNING"} => len[s] < MaxLen
                      /\ status[s] = "none" => held[s] = 0
                      /\ held[s] <= Fit
  BY <1>0 DEF Fitting
<1>3. ASSUME len' = len, held' = held,
             \A s \in Seqs : /\ status'[s] \in {"WAITING", "READY", "RUNNING"} => status[s] \in {"WAITING", "READY", "RUNNING"}
                             /\ status'[s] = "none" => status[s] = "none"
      PROVE  Fitting'
  BY <1>2, <1>3 DEF Fitting, Fit
<1>4. ASSUME NEW s \in Seqs, Adds(s) \/ StopSession(s), MildStep PROVE Fitting'
  <2>1. held' = held /\ \A t \in Seqs : status[t] # "none" => status'[t] # "none" /\ len'[t] = len[t]
    BY <1>4 DEF MildStep
  <2>2. \A t \in Seqs : status'[t] \in {"WAITING", "READY", "RUNNING"} =>
          status'[t] = status[t] \/ (status[t] = "none" /\ status'[t] = "WAITING" /\ len'[t] < MaxLen)
    BY <1>0, <1>4, ClientStatus
  <2>3. \A t \in Seqs : status'[t] \in {"WAITING", "READY", "RUNNING"} => len'[t] < MaxLen
    BY <1>2, <2>1, <2>2
  <2> QED
    BY <1>2, <2>1, <2>3 DEF Fitting, Fit
<1>5. ASSUME NEW e \in Seqs, EndSession(e), EndStep(e) PROVE Fitting'
  <2>1. held' = [held EXCEPT ![e] = 0]
    BY <1>0, <1>5, EndMore
  <2>2. \A t \in Seqs : /\ t # e => status'[t] = status[t] /\ len'[t] = len[t] /\ held'[t] = held[t]
                        /\ t = e => status'[t] = "none" /\ held'[t] = 0
    BY <1>0, <1>5, <2>1 DEF EndStep, Shapes, SeqShape
  <2> QED
    BY <1>1, <1>2, <2>2 DEF Fitting, Fit
<1>6. ASSUME BeginStep \/ QuietStep PROVE Fitting'
  BY <1>3, <1>6 DEF BeginStep, QuietStep, seqVars
<1>7. ASSUME Pages, PageStep PROVE Fitting'
  <2>1. len' = len /\ \A s \in Seqs : held'[s] <= Fit /\ (status[s] = "none" => held'[s] = 0)
    BY <1>7, PageMore DEF PageStep
  <2>2. \A t \in Seqs : \/ status'[t] = status[t]
                        \/ status'[t] \in {"READY", "WAITING"} /\ status[t] \in {"WAITING", "RUNNING"}
    <3>1. (\E s \in Seqs : Admits(s)) \/ GivesUp \/ ChunkWaits \/ RowGrows \/ \E s \in Seqs : RowRefused(s)
      BY <1>7, PageMore
    <3>2. ASSUME NEW s \in Seqs, Admits(s), NEW t \in Seqs
          PROVE  status'[t] = status[t] \/ (status'[t] = "READY" /\ status[t] = "WAITING")
      BY <1>0, <3>2 DEF Admits, Shapes, SeqShape
    <3>3. ASSUME NEW s \in Seqs, RowRefused(s), NEW t \in Seqs
          PROVE  status'[t] = status[t] \/ (status'[t] = "WAITING" /\ status[t] = "RUNNING")
      <4>1. status[s] = "RUNNING"
        BY <3>3, StatusSets DEF RowRefused
      <4> QED
        BY <1>0, <3>3, <4>1 DEF RowRefused, Shapes, SeqShape
    <3>4. GivesUp \/ ChunkWaits \/ RowGrows => status' = status
      BY DEF GivesUp, ChunkWaits, RowGrows
    <3> QED
      BY <3>1, <3>2, <3>3, <3>4
  <2> QED
    BY <1>2, <2>1, <2>2 DEF Fitting, Fit
<1>8. ASSUME Sends PROVE Fitting'
  <2>1. status' = status /\ len' = len
    BY <1>0, <1>8, SendFacts
  <2>2. CASE SendPrefill \/ SendFirstChunk \/ SendDecode
    BY <1>3, <2>1, <2>2 DEF SendPrefill, SendFirstChunk, SendDecode, seqVars
  <2>3. CASE SendNextChunk \/ SendLastChunk
    <3> DEFINE c == chunk.seq
    <3>1. c \in Seqs /\ status[c] = "RUNNING"
      BY <1>0, <2>3, LaneFacts, StatusSets DEF SendNextChunk, SendLastChunk, TryChunk, PlanShape, InPass
    <3>2. ChunkLimit(c) \in Nat /\ 0 \in Nat /\ Prealloc \in Nat /\ 0 <= Prealloc /\ Prealloc <= Prealloc
      <4>1. ChunkLimit(c) \in Nat /\ Prealloc \in Nat
        BY <1>0, <3>1, FrameTypes
      <4> QED
        BY <4>1
    <3>3. Allocate(c, ChunkLimit(c), 0) \/ Allocate(c, 0, Prealloc)
      BY <2>3 DEF SendNextChunk, SendLastChunk
    <3> HIDE DEF c
    <3>4. \A s \in Seqs : held'[s] <= Fit /\ (held[s] = 0 /\ s # c => held'[s] = 0)
      BY <1>0, <3>1, <3>2, <3>3, AskFits
    <3> QED
      BY <1>2, <2>1, <3>1, <3>4 DEF Fitting, Fit
  <2> QED
    BY <1>8, <2>2, <2>3 DEF Sends
<1>9. ASSUME ActivateStep PROVE Fitting'
  BY <1>3, <1>9 DEF ActivateStep
<1>10. ASSUME pc = "wait", NEW stop \in SUBSET RowsOf(Head1), CollectOutput(stop), CollectStep
       PROVE  Fitting'
  <2>1. /\ held' = held /\ 1 \in DOMAIN queue /\ Started
        /\ \A t \in Seqs : /\ (status'[t] = "none") = (status[t] = "none")
                           /\ len'[t] = IF Takes(t) /\ Generates(t) THEN len[t] + 1 ELSE len[t]
    BY <1>0, <1>10, PlaceFacts DEF CollectStep
  <2>2. ASSUME NEW t \in Seqs, status'[t] \in {"WAITING", "READY", "RUNNING"}, Takes(t)
        PROVE  len[t] + 1 < MaxLen
    <3>1. PICK i \in RowsOf(Head1) : SeqAt(i) = t /\ i \notin MustStop(Head1)
      BY <1>0, <1>10, <2>2, CollectMore
    <3>2. ~(Stepped(Head1)[i].len + 1 >= MaxLen)
      BY <3>1 DEF MustStop
    <3>3. t \in Running /\ Head1.lane # "chunk" /\ Head1.lane \in {"prefill", "chunk", "decode"}
      <4>1. Head1.lane \in {"prefill", "chunk", "decode"}
        BY <1>0, <2>1, RowsTyped DEF Head1
      <4> QED
        BY <2>2, <4>1 DEF Takes
    <3>4. CASE Head1.lane = "decode"
      <4>1. Reindexed(Head1)[i] = [seq |-> t, len |-> len[t]]
        BY <1>0, <2>1, <3>1, <3>3, <3>4 DEF Aligned, HeadAligned
      <4>2. Stepped(Head1)[i].len = len[t]
        BY <3>4, <4>1 DEF Stepped
      <4> QED
        BY <1>1, <3>2, <4>2 DEF DecodeBatchAssumption
    <3>5. CASE Head1.lane = "prefill"
      <4>1. Stepped(Head1)[i].len = len[t]
        BY <1>0, <2>1, <3>1, <3>3, <3>5 DEF Uncredited, Stepped
      <4> QED
        BY <1>1, <3>2, <4>1 DEF DecodeBatchAssumption
    <3> QED
      BY <3>3, <3>4, <3>5
  <2>3. \A t \in Seqs : status'[t] \in {"WAITING", "READY", "RUNNING"} => status[t] \in {"WAITING", "READY", "RUNNING"}
    BY <1>0, <1>10, CollectMore
  <2>4. \A t \in Seqs : status'[t] \in {"WAITING", "READY", "RUNNING"} => len'[t] < MaxLen
    BY <1>2, <2>1, <2>2, <2>3
  <2> QED
    BY <1>2, <2>1, <2>4 DEF Fitting, Fit
<1> QED
  BY <1>0, <1>4, <1>5, <1>6, <1>7, <1>8, <1>9, <1>10, NextActions

LEMMA UncreditedStep ==
    ASSUME DecodeBatchAssumption, Poised, Frame', Steps
    PROVE  Uncredited'
<1>0. Frame /\ Uncredited /\ Aligned
  BY DEF Poised, Sound, Calm
<1>1. SUFFICES ASSUME Started', Head1'.lane = "prefill", NEW i \in DOMAIN Head1'.rows,
                      Head1'.rows[i].seq \in Running'
               PROVE  Head1'.rows[i].len = len'[Head1'.rows[i].seq]
  BY DEF Uncredited, RowsOf, SeqAt
<1> DEFINE t == Head1'.rows[i].seq
<1>2. t \in Seqs
  BY <1>1, StatusSets
<1>3. ASSUME Started, Head1' = Head1, t \in Running, len'[t] = len[t] PROVE Head1'.rows[i].len = len'[t]
  BY <1>0, <1>1, <1>3 DEF Uncredited, RowsOf, SeqAt
<1>4. ASSUME MildStep PROVE Head1'.rows[i].len = len'[t]
  <2>1. Started /\ Head1' = Head1 /\ t \in Running
    BY <1>0, <1>1, <1>4, StartedSteps, RunningSteps
  <2>2. len'[t] = len[t]
    BY <1>2, <1>4, <2>1, StatusSets DEF MildStep
  <2> QED
    BY <1>3, <2>1, <2>2
<1>5. ASSUME NEW e \in Seqs, EndStep(e) PROVE Head1'.rows[i].len = len'[t]
  <2>1. Started /\ Ghosted(e, Head1, Head1') /\ t \in Running /\ t # e /\ Gone \notin Seqs
    BY <1>0, <1>1, <1>5, StartedSteps, RunningSteps
  <2>2. i \in DOMAIN Head1.rows /\ Head1.rows[i].seq # e
    BY <1>1, <1>2, <2>1 DEF Ghosted, Ghost
  <2>3. Head1'.rows[i] = Head1.rows[i] /\ Head1.lane = "prefill"
    BY <1>1, <2>1, <2>2 DEF Ghosted
  <2>4. len'[t] = len[t]
    BY <1>2, <1>5, <2>1 DEF EndStep
  <2> QED
    BY <1>0, <1>1, <2>1, <2>2, <2>3, <2>4 DEF Uncredited, RowsOf, SeqAt
<1>6. ASSUME BeginStep \/ QuietStep \/ PageStep PROVE Head1'.rows[i].len = len'[t]
  <2>1. Started /\ Head1' = Head1 /\ t \in Running
    BY <1>0, <1>1, <1>6, StartedSteps, RunningSteps
  <2>2. len' = len
    BY <1>6 DEF BeginStep, QuietStep, PageStep, seqVars
  <2> QED
    BY <1>3, <2>1, <2>2
<1>7. ASSUME Sends PROVE Head1'.rows[i].len = len'[t]
  <2>1. PICK f : Sent(f)
    BY <1>0, <1>7, SendFacts
  <2>2. Started /\ Head1' = Head1 /\ t \in Running
    BY <1>0, <1>1, <1>7, <2>1, StartedSteps, RunningSteps
  <2>3. len' = len
    BY <1>0, <1>7, SendFacts
  <2> QED
    BY <1>3, <2>2, <2>3
<1>8. ASSUME ActivateStep PROVE Head1'.rows[i].len = len'[t]
  <2>1. Head1' = Head1 /\ Unstarted = {Head1} /\ len' = len
    BY <1>0, <1>8, StartedSteps DEF ActivateStep
  <2>2. t \in Active
    BY <1>0, <1>1, <1>8, ActivateRuns, RunningSteps
  <2> QED
    BY <1>0, <1>1, <2>1, <2>2 DEF Aligned, PendingAligned, RowsOf
<1>9. ASSUME CollectStep PROVE FALSE
  BY <1>0, <1>1, <1>9, StartedSteps
<1> QED
  BY <1>4, <1>5, <1>6, <1>7, <1>8, <1>9 DEF Steps

LEMMA ReadySentStep ==
    ASSUME DecodeBatchAssumption, CalmEngines, Poised, Frame', Next
    PROVE  ReadySent'
<1>0. Frame /\ Shapes /\ ReadySent /\ PlanShape /\ TodoOnce
  BY DEF Poised, Sound, Calm, Frame, Distinct
<1> DEFINE Due(s) == (pc = "admit" /\ InBatch(s)) \/ \E f \in Unstarted : Has(f, s)
<1>1. \A s \in Seqs : status[s] = "READY" => Due(s)
  BY <1>0, StatusSets DEF ReadySent
<1>2. SUFFICES ASSUME NEW s \in Seqs, status'[s] = "READY" PROVE Due(s)'
  BY <1>2, StatusSets DEF ReadySent
<1>3. ASSUME Unstarted' = Unstarted, pc # "admit", status[s] = "READY" PROVE Due(s)'
  BY <1>1, <1>3 DEF Has
<1>4. ASSUME MildStep PROVE Due(s)'
  <2>1. Unstarted' = Unstarted
    BY <1>0, <1>4, UnstartedSteps
  <2> QED
    BY <1>2, <1>3, <1>4, <2>1 DEF MildStep, Await
<1>5. ASSUME NEW e \in Seqs, EndStep(e) PROVE Due(s)'
  <2>1. s # e /\ status[s] = "READY" /\ pc # "admit"
    BY <1>2, <1>5 DEF EndStep, Await
  <2>2. PICK f \in Unstarted : Has(f, s)
    BY <1>1, <2>1
  <2>3. PICK g \in Unstarted' : Ghosted(e, f, g)
    BY <1>0, <1>5, UnstartedKept
  <2>4. PICK i \in RowsOf(f) : f.rows[i].seq = s
    BY <2>2 DEF Has
  <2>5. i \in RowsOf(g) /\ g.rows[i].seq = s
    BY <2>1, <2>3, <2>4 DEF Ghosted, RowsOf
  <2>6. Has(g, s)'
    BY <2>5 DEF Has
  <2> QED
    BY <2>3, <2>6
<1>6. ASSUME BeginStep PROVE FALSE
  BY <1>0, <1>2, <1>6, NobodyReady DEF BeginStep, seqVars
<1>7. ASSUME Quiet, QuietStep PROVE Due(s)'
  <2>1. status[s] = "READY" /\ pc \in {"try", "admit", "grow"}
    BY <1>2, <1>7 DEF QuietStep, seqVars, InPass
  <2>2. pc = "admit"
    BY <1>0, <2>1, NobodyReady
  <2>3. InBatch(s)
    <3>1. Unstarted = {}
      BY <1>0, <2>2, PlaceFacts DEF InPass
    <3> QED
      BY <1>1, <2>1, <3>1
  <2>4. turn.batch # <<>>
    BY <2>3 DEF InBatch
  <2>5. pc' = "admit" /\ turn'.batch = turn.batch
    <3>1. PICK u \in Seqs : PassOver(u)
      BY <1>7, <2>2, <2>4 DEF Quiet, EndPass, EnterPrefill, EnterLane, NothingAdmitted, EnterDecode, DropStopped, KeepRow, NoDecode
    <3>2. turn \in TurnSet
      BY <1>0 DEF Shapes, TurnShape
    <3> QED
      BY <2>2, <3>1, <3>2 DEF PassOver, TurnSet
  <2> QED
    BY <2>3, <2>5 DEF InBatch
<1>8. ASSUME Pages, PageStep PROVE Due(s)'
  <2>0. turn \in TurnSet /\ pc' = pc /\ pc \in {"try", "admit", "grow"}
    BY <1>0, <1>8 DEF Shapes, TurnShape, PageStep, InPass
  <2>1. CASE pc = "admit"
    <3>1. Unstarted = {}
      BY <1>0, <2>1, PlaceFacts DEF InPass
    <3>2. GivesUp \/ \E u \in Seqs : Admits(u)
      <4>1. (\E u \in Seqs : Admits(u)) \/ GivesUp \/ ChunkWaits \/ RowGrows \/ \E u \in Seqs : RowRefused(u)
        BY <1>8, PageMore
      <4>2. ~ChunkWaits /\ ~RowGrows /\ \A u \in Seqs : ~RowRefused(u)
        BY <2>1 DEF ChunkWaits, TryChunk, RowGrows, RowRefused
      <4> QED
        BY <4>1, <4>2, Zenon
    <3>3. CASE GivesUp
      <4>1. InBatch(s) /\ turn'.batch = turn.batch
        BY <1>1, <1>2, <2>0, <3>1, <3>3 DEF GivesUp, TurnSet
      <4> QED
        BY <2>0, <2>1, <4>1 DEF InBatch
    <3>4. ASSUME NEW u \in Seqs, Admits(u) PROVE InBatch(s)'
      <4>1. turn.batch \in Seq(Seqs) /\ turn'.batch = Append(turn.batch, u)
        BY <2>0, <3>4 DEF Admits, TurnSet
      <4>2. CASE s = u
        <5>1. Len(turn.batch) + 1 \in DOMAIN turn'.batch /\ turn'.batch[Len(turn.batch) + 1] = s
          BY <4>1, <4>2
        <5> QED
          BY <5>1 DEF InBatch
      <4>3. CASE s # u
        <5>1. status[s] = "READY"
          BY <1>0, <1>2, <3>4, <4>3 DEF Admits, Shapes, SeqShape
        <5>2. PICK i \in DOMAIN turn.batch : turn.batch[i] = s
          BY <1>1, <3>1, <5>1 DEF InBatch
        <5>3. i \in DOMAIN turn'.batch /\ turn'.batch[i] = s
          BY <4>1, <5>2
        <5> QED
          BY <5>3 DEF InBatch
      <4> QED
        BY <4>2, <4>3
    <3> QED
      BY <2>0, <2>1, <3>2, <3>3, <3>4
  <2>2. CASE pc # "admit"
    <3>1. pc \in {"try", "grow"} /\ status[s] # "READY"
      BY <1>0, <2>0, <2>2, NobodyReady
    <3>2. (\E u \in Seqs : Admits(u)) \/ GivesUp \/ ChunkWaits \/ RowGrows \/ \E u \in Seqs : RowRefused(u)
      BY <1>8, PageMore
    <3>3. \/ status' = status
          \/ \E u \in Seqs : status' = [status EXCEPT ![u] = "WAITING"]
      BY <2>2, <3>2 DEF Admits, GivesUp, ChunkWaits, RowGrows, RowRefused
    <3> QED
      BY <1>0, <1>2, <3>1, <3>3 DEF Shapes, SeqShape
  <2> QED
    BY <2>1, <2>2
<1>9. ASSUME Sends PROVE Due(s)'
  <2>0. status[s] = "READY" /\ pc \in {"try", "admit", "grow"}
    BY <1>0, <1>2, <1>9, SendFacts DEF InPass
  <2>1. pc = "admit" /\ InBatch(s)
    <3>1. pc = "admit"
      BY <1>0, <2>0, NobodyReady
    <3>2. Unstarted = {}
      BY <1>0, <3>1, PlaceFacts DEF InPass
    <3> QED
      BY <1>1, <2>0, <3>1, <3>2
  <2>2. PICK i \in DOMAIN turn.batch : turn.batch[i] = s
    BY <2>1 DEF InBatch
  <2>3. PICK f : SentPrefill(f) \/ SentChunk(f) \/ SentDecode(f)
    BY <1>0, <1>9, SendKinds
  <2>4. Unstarted' = {f}
    BY <1>0, <1>9, <2>3, UnstartedSteps DEF SentPrefill, SentChunk, SentDecode
  <2>5. CASE SendPrefill
    <3>1. SentPrefill(f) /\ DOMAIN f.rows = DOMAIN turn.batch /\ \A j \in DOMAIN f.rows : f.rows[j].seq = turn.batch[j]
      <4>1. SentPrefill(f)
        <5>1. \E g : Sent(g) /\ g.lane = "prefill"
          <6>1. turn.batch \in Seq(Seqs) /\ DispatchPrefill(turn.batch)
            BY <1>0, <2>5, LaneFacts DEF SendPrefill
          <6>2. PICK g \in ForwardSet : Dispatch(g) /\ g.lane = "prefill"
            BY <1>0, <6>1, PrefillForward
          <6> QED
            BY <6>2 DEF Sent
        <5>2. PICK g : Sent(g) /\ g.lane = "prefill"
          BY <5>1
        <5>3. g = f
          <6>1. Unstarted' = {g}
            BY <1>0, <1>9, <5>2, UnstartedSteps
          <6> QED
            BY <2>4, <6>1
        <5> QED
          BY <2>3, <5>2, <5>3 DEF SentChunk, SentDecode
      <4>2. chunk' = chunk
        BY <2>5 DEF SendPrefill
      <4>3. ~(chunk.seq \in Seqs /\ chunk' = NoChunk)
        BY <4>2 DEF NoChunk, DecodeBatchAssumption
      <4> QED
        BY <1>0, <4>1, <4>3, PrefillRows
    <3>2. i \in RowsOf(f) /\ f.rows[i].seq = s
      BY <2>2, <3>1 DEF RowsOf
    <3>3. Has(f, s)'
      BY <3>2 DEF Has
    <3> QED
      BY <2>4, <3>3
  <2>6. CASE SendFirstChunk
    <3>1. s = turn.batch[1] /\ chunk'.seq = s
      BY <2>2, <2>6, FirstChunkAlone
    <3>2. SentChunk(f)
      <4>1. ~SentDecode(f)
        BY <2>1 DEF SentDecode
      <4>2. ~SentPrefill(f)
        <5>1. chunk.seq \notin Seqs /\ chunk'.seq \in Seqs
          BY <2>6, FirstChunkAlone
        <5> QED
          BY <5>1 DEF SentPrefill
      <4> QED
        BY <2>3, <4>1, <4>2
    <3>3. DOMAIN f.rows = {1} /\ f.rows[1].seq = s
      BY <1>0, <3>1, <3>2, ChunkRows
    <3>4. Has(f, s)'
      BY <3>3 DEF Has, RowsOf
    <3> QED
      BY <2>4, <3>4
  <2>7. CASE SendNextChunk \/ SendLastChunk \/ SendDecode
    BY <2>1, <2>7 DEF SendNextChunk, SendLastChunk, SendDecode, TryChunk
  <2> QED
    BY <1>9, <2>5, <2>6, <2>7 DEF Sends
<1>10. ASSUME ActivateStep PROVE FALSE
  <2>1. status[s] = "READY" /\ ~Has(Head1, s) /\ pc # "admit"
    BY <1>2, <1>10 DEF ActivateStep
  <2>2. Unstarted = {Head1}
    BY <1>0, <1>10, StartedSteps
  <2> QED
    BY <1>1, <2>1, <2>2
<1>11. ASSUME CollectStep PROVE Due(s)'
  <2>1. Unstarted' = Unstarted
    BY <1>0, <1>11, UnstartedKept
  <2> QED
    BY <1>2, <1>3, <1>11, <2>1 DEF CollectStep
<1> HIDE DEF Due
<1> QED
  BY <1>0, <1>4, <1>5, <1>6, <1>7, <1>8, <1>9, <1>10, <1>11, NextActions

---------------------------------------------------------------------------
(* What is left of a plan, and the rest before a pass with nothing in flight. *)

LEMMA ShortTails ==
    \A a, b, c : /\ Tail(<<a>>) = <<>> /\ Tail(<<a, b>>) = <<b>> /\ Tail(<<a, b, c>>) = <<b, c>>
                 /\ Head(<<a>>) = a /\ Head(<<a, b>>) = a /\ Head(<<a, b, c>>) = a
  OBVIOUS

LEMMA PlanNames ==
    /\ \A p \in FreshPlans : ~On(p, "chunk")
    /\ \A p \in ChunkPlans : ~On(p, "long")
<1>1. \A p \in FreshPlans : ~On(p, "chunk")
  BY DEF FreshPlans, On
<1>2. \A p \in ChunkPlans : ~On(p, "long")
  BY DEF ChunkPlans, LastPlans, On
<1> QED
  BY <1>1, <1>2

LEMMA PlanTail ==
    ASSUME NEW p, p # <<>>
    PROVE  /\ p \in FreshPlans => Tail(p) \in FreshPlans /\ (Head(p) = "decode" => Tail(p) = <<>>)
           /\ p \in ChunkPlans => /\ Tail(p) \in ChunkPlans
                                  /\ Head(p) = "decode" => Tail(p) \in {<<>>, <<"chunk">>, <<"short", "chunk">>}
           /\ p \in LastPlans => /\ Tail(p) \in LastPlans /\ Head(p) \in {"chunk", "decode"}
                                 /\ Head(p) = "decode" => Tail(p) = <<>>
<1>7. /\ Tail(<<"decode">>) = <<>> /\ Head(<<"decode">>) = "decode"
      /\ Tail(<<"chunk">>) = <<>> /\ Head(<<"chunk">>) = "chunk"
  BY ShortTails, Zenon
<1>8. /\ Tail(<<"all", "decode">>) = <<"decode">> /\ Head(<<"all", "decode">>) = "all"
      /\ Tail(<<"short", "decode">>) = <<"decode">> /\ Head(<<"short", "decode">>) = "short"
      /\ Tail(<<"long", "decode">>) = <<"decode">> /\ Head(<<"long", "decode">>) = "long"
      /\ Tail(<<"chunk", "decode">>) = <<"decode">> /\ Head(<<"chunk", "decode">>) = "chunk"
      /\ Tail(<<"decode", "chunk">>) = <<"chunk">> /\ Head(<<"decode", "chunk">>) = "decode"
      /\ Tail(<<"short", "chunk">>) = <<"chunk">> /\ Head(<<"short", "chunk">>) = "short"
  BY ShortTails, Zenon
<1>9. /\ Tail(<<"long", "short", "decode">>) = <<"short", "decode">> /\ Head(<<"long", "short", "decode">>) = "long"
      /\ Tail(<<"short", "long", "decode">>) = <<"long", "decode">> /\ Head(<<"short", "long", "decode">>) = "short"
      /\ Tail(<<"short", "chunk", "decode">>) = <<"chunk", "decode">> /\ Head(<<"short", "chunk", "decode">>) = "short"
      /\ Tail(<<"decode", "short", "chunk">>) = <<"short", "chunk">> /\ Head(<<"decode", "short", "chunk">>) = "decode"
  <2>1. Tail(<<"long", "short", "decode">>) = <<"short", "decode">> /\ Head(<<"long", "short", "decode">>) = "long"
    BY ShortTails, ZenonT(30)
  <2>2. Tail(<<"short", "long", "decode">>) = <<"long", "decode">> /\ Head(<<"short", "long", "decode">>) = "short"
    BY ShortTails, ZenonT(30)
  <2>3. Tail(<<"short", "chunk", "decode">>) = <<"chunk", "decode">> /\ Head(<<"short", "chunk", "decode">>) = "short"
    BY ShortTails, ZenonT(30)
  <2>4. Tail(<<"decode", "short", "chunk">>) = <<"short", "chunk">> /\ Head(<<"decode", "short", "chunk">>) = "decode"
    BY ShortTails, ZenonT(30)
  <2> QED
    BY <2>1, <2>2, <2>3, <2>4, Zenon
<1>1. p \in FreshPlans => Tail(p) \in FreshPlans /\ (Head(p) = "decode" => Tail(p) = <<>>)
  BY <1>7, <1>8, <1>9, Zenon DEF FreshPlans
<1>2. p \in LastPlans => /\ Tail(p) \in LastPlans /\ Head(p) \in {"chunk", "decode"}
                         /\ Head(p) = "decode" => Tail(p) = <<>>
  BY <1>7, <1>8, Zenon DEF LastPlans
<1>3. p \in ChunkPlans => /\ Tail(p) \in ChunkPlans
                          /\ Head(p) = "decode" => Tail(p) \in {<<>>, <<"chunk">>, <<"short", "chunk">>}
  BY <1>7, <1>8, <1>9, Zenon DEF ChunkPlans, LastPlans
<1> QED
  BY <1>1, <1>2, <1>3

\* With nothing in flight only the chunker's sequence runs while a lane is tried.
LEMMA OnlyChunk ==
    ASSUME DecodeBatchAssumption, Poised, pc \in {"try", "grow"}, queue = <<>>
    PROVE  \A t \in Active : t = chunk.seq /\ t \notin toEvict
<1>0. Frame /\ Covered /\ ReadySent /\ Resting
  BY DEF Poised, Sound, Flow, Calm
<1>1. Active = Running
  BY <1>0, NobodyReady
<1>2. \A s \in Running : ~Listed(s) /\ s \notin toEvict
  BY <1>0 DEF Resting, InPass
<1>3. DOMAIN queue = {}
  OBVIOUS
<1> QED
  BY <1>0, <1>1, <1>2, <1>3 DEF Covered

\* So nothing is then sent for those who decode.
LEMMA DecodeBusy ==
    ASSUME DecodeBatchAssumption, Poised, SendDecode
    PROVE  queue # <<>>
<1>0. Frame /\ KeepOnce /\ Resting
  BY DEF Poised, Sound, Distinct, Calm
<1>1. pc = "grow" /\ turn.keep # <<>> /\ turn.keep \in Seq(Nat)
  BY <1>0 DEF SendDecode, Frame, Shapes, TurnShape, TurnSet
<1>2. 1 \in DOMAIN turn.keep
  BY <1>1, EmptyOf
<1>3. turn.keep[1] \in DOMAIN running /\ running[turn.keep[1]] \in Running
  <2>1. PICK f : Sent(f) /\ SentDecode(f)
    <3>1. PICK f \in ForwardSet : Dispatch(f) /\ f.lane = "decode" /\ f.reindex /\ f.keep = turn.keep /\ ~f.scoring
               /\ DOMAIN f.rows = DOMAIN turn.keep /\ Len(f.rows) = Len(f.keep)
               /\ \A i \in DOMAIN turn.keep : f.rows[i] = DecodeRow(running[turn.keep[i]])
      BY <1>0, DecodeForward
    <3> QED
      BY <3>1 DEF SentDecode, Sent, SendDecode
  <2> QED
    BY <1>0, <1>1, <1>2, <2>1, DecodeRows DEF KeepOnce
<1> QED
  BY <1>0, <1>1, <1>3 DEF Resting, Listed, InPass

LEMMA PlanShapeStep ==
    ASSUME DecodeBatchAssumption, CalmEngines, Poised, Frame', Next
    PROVE  PlanShape'
<1>0. Frame /\ Shapes /\ PlanShape
  BY DEF Poised, Sound, Calm, Frame
<1> SUFFICES ASSUME pc' \in InPass PROVE PlanShape'
  BY DEF PlanShape
<1>1. /\ turn \in TurnSet /\ status \in [Seqs -> Statuses]
      /\ NoChunk.seq = Gone /\ Gone \notin Seqs
  BY <1>0 DEF Shapes, TurnShape, SeqShape, NoChunk, DecodeBatchAssumption
<1> DEFINE last == chunk.seq \in Seqs /\ ~IsLong(chunk.seq)
           last2 == chunk'.seq \in Seqs /\ ~(len'[chunk'.seq] - hist'[chunk'.seq] > ChunkSize)
<1>2. last2 <=> (chunk.seq \in Seqs /\ ~IsLong(chunk.seq))'
  BY DEF IsLong, NumTokens
<1> DEFINE Aim ==
             /\ IF chunk'.seq \in Seqs THEN chunk'.seq \in Running' /\ turn'.plan \in ChunkPlans
                                        ELSE turn'.plan \in FreshPlans
             /\ last2 => pc' # "admit" /\ turn'.plan \in LastPlans
             /\ pc' = "grow" => turn'.plan \in {<<>>, <<"chunk">>, <<"short", "chunk">>}
             /\ pc' = "grow" /\ last2 => turn'.plan = <<>>
             /\ pc' = "admit" /\ turn'.lane = "long" => Len(turn'.batch) + Len(turn'.todo) <= 1
<1>00. FreshPlans' = FreshPlans /\ ChunkPlans' = ChunkPlans /\ LastPlans' = LastPlans
  BY DEF FreshPlans, ChunkPlans, LastPlans
<1>3. Aim => PlanShape'
  BY <1>00, <1>2 DEF PlanShape
<1> SUFFICES Aim
  BY <1>3
<1>4. ASSUME pc \in InPass
      PROVE  /\ IF chunk.seq \in Seqs THEN chunk.seq \in Running /\ turn.plan \in ChunkPlans
                                      ELSE turn.plan \in FreshPlans
             /\ last => pc # "admit" /\ turn.plan \in LastPlans
             /\ pc = "grow" => turn.plan \in {<<>>, <<"chunk">>, <<"short", "chunk">>}
             /\ pc = "grow" /\ last => turn.plan = <<>>
             /\ pc = "admit" /\ turn.lane = "long" => Len(turn.batch) + Len(turn.todo) <= 1
  BY <1>0, <1>4 DEF PlanShape
<1>5. ASSUME chunk' = chunk, len' = len, chunk.seq \in Seqs => hist'[chunk.seq] = hist[chunk.seq] PROVE last2 <=> last
  BY <1>5 DEF IsLong, NumTokens
<1> HIDE DEF last2
<1>6. CASE BeginPass /\ BeginStep
  <2>1. pc' = "try" /\ chunk' = CheckEnable(status) /\ status' = status /\ len' = len /\ hist' = hist
        /\ turn' = [NoTurn EXCEPT !.plan = IF chunk'.seq \in Seqs THEN ChunkPlan
                                       ELSE IF DoPrefill THEN PrefillPlan
                                       ELSE <<"decode">>]
    BY <1>6 DEF BeginPass, BeginStep, seqVars
  <2>2. turn'.plan = IF chunk'.seq \in Seqs THEN ChunkPlan
                     ELSE IF DoPrefill THEN PrefillPlan
                     ELSE <<"decode">>
    BY <2>1 DEF NoTurn
  <2>3. CASE chunk'.seq \in Seqs
    <3>1. chunk' = chunk /\ chunk.seq \in Running
      BY <1>1, <2>1, <2>3, StatusSets DEF CheckEnable
    <3>2. chunk.seq \in Running' /\ (last2 <=> last)
      BY <1>5, <2>1, <3>1, StatusSets
    <3>3. turn'.plan = ChunkPlan
      BY <2>2, <2>3
    <3>4. ChunkPlan \in ChunkPlans
      BY DEF ChunkPlan, ChunkPlans, LastPlans
    <3>5. ASSUME last PROVE ChunkPlan \in LastPlans
      <4>1. ~Deferred
        BY <3>5 DEF Deferred, DoPrefill, LastChunkPending
      <4> QED
        BY <3>5, <4>1 DEF ChunkPlan, LastPlans
    <3> HIDE DEF last
    <3> QED
      BY <2>1, <2>3, <3>1, <3>2, <3>3, <3>4, <3>5
  <2>4. CASE chunk'.seq \notin Seqs
    <3>1. turn'.plan \in FreshPlans
      BY <2>2, <2>4 DEF PrefillPlan, FreshPlans
    <3> QED
      BY <2>1, <2>4, <3>1 DEF last2
  <2> QED
    BY <2>3, <2>4
<1>7. CASE Quiet /\ QuietStep
  <2>1. /\ chunk' = chunk /\ status' = status /\ len' = len /\ hist' = hist /\ pc \in InPass
        /\ Running' = Running /\ turn.plan \in Seq(Lanes) /\ turn.todo \in Seq(Seqs)
    BY <1>0, <1>1, <1>7, RunningSteps DEF QuietStep, seqVars, TurnSet
  <2>2. last2 <=> last
    BY <1>5, <2>1
  <2>3. ASSUME pc = "try", turn.plan # <<>>
        PROVE  /\ IF chunk.seq \in Seqs THEN chunk.seq \in Running /\ Tail(turn.plan) \in ChunkPlans
                                        ELSE Tail(turn.plan) \in FreshPlans
               /\ last => Tail(turn.plan) \in LastPlans /\ Head(turn.plan) \in {"chunk", "decode"}
               /\ Head(turn.plan) = "decode" => /\ Tail(turn.plan) \in {<<>>, <<"chunk">>, <<"short", "chunk">>}
                                                /\ last => Tail(turn.plan) = <<>>
    <3>1. /\ turn.plan \in FreshPlans => /\ Tail(turn.plan) \in FreshPlans
                                         /\ Head(turn.plan) = "decode" => Tail(turn.plan) = <<>>
          /\ turn.plan \in ChunkPlans => /\ Tail(turn.plan) \in ChunkPlans
                                         /\ Head(turn.plan) = "decode" =>
                                              Tail(turn.plan) \in {<<>>, <<"chunk">>, <<"short", "chunk">>}
          /\ turn.plan \in LastPlans => /\ Tail(turn.plan) \in LastPlans /\ Head(turn.plan) \in {"chunk", "decode"}
                                        /\ Head(turn.plan) = "decode" => Tail(turn.plan) = <<>>
      BY <2>3, PlanTail
    <3> HIDE DEF last
    <3> QED
      BY <1>4, <2>1, <3>1
  <2>4. CASE EndPass
    BY <2>4 DEF EndPass, NothingSent, InPass
  <2>5. CASE EnterPrefill
    <3>1. /\ pc = "try" /\ turn.plan # <<>> /\ Head(turn.plan) \in {"all", "short", "long"} /\ pc' = "admit"
          /\ turn'.plan = Tail(turn.plan) /\ turn'.batch = <<>>
          /\ turn'.lane = "long" => Len(turn'.todo) = 1
      <4>1. CASE \E lane \in {"all", "short"} : EnterLane(lane, Waiting \ Longs)
        BY <4>1 DEF EnterLane, NoTurn
      <4>2. CASE \E s \in Longs : EnterLane("long", {s})
        <5>1. PICK s \in Longs : EnterLane("long", {s})
          BY <4>2
        <5>2. PICK todo \in Orders("long", {s}) : turn' = [NoTurn EXCEPT !.plan = Tail(turn.plan), !.lane = "long", !.todo = todo]
          BY <5>1 DEF EnterLane
        <5>3. Cardinality({s}) = 1
          BY FS_Singleton
        <5>4. todo \in [1..1 -> {s}]
          BY <5>2, <5>3 DEF Orders
        <5>5. Len(todo) = 1
          BY <5>4
        <5>6. turn'.todo = todo /\ turn'.plan = Tail(turn.plan) /\ turn'.batch = <<>>
          BY <5>2 DEF NoTurn
        <5> QED
          BY <5>1, <5>5, <5>6 DEF EnterLane
      <4> QED
        BY <2>5, <4>1, <4>2 DEF EnterPrefill
    <3>2. turn'.lane = "long" => Len(turn'.batch) + Len(turn'.todo) <= 1
      <4>1. Len(turn'.batch) = 0 /\ 0 + 1 <= 1
        BY <3>1
      <4> QED
        BY <3>1, <4>1
    <3>3. ~last
      BY <2>3, <3>1
    <3> HIDE DEF last
    <3> QED
      BY <2>1, <2>2, <2>3, <3>1, <3>2, <3>3
  <2>6. CASE NothingAdmitted
    <3>1. pc = "admit" /\ pc' = "try" /\ turn'.plan = turn.plan
      BY <2>6 DEF NothingAdmitted, Admitted, NoTurn
    <3> QED
      BY <1>4, <2>1, <2>2, <3>1
  <2>7. ASSUME NEW s \in Seqs, PassOver(s) PROVE Aim
    <3>1. /\ pc = "admit" /\ pc' = pc /\ turn.todo # <<>>
          /\ turn'.plan = turn.plan /\ turn'.lane = turn.lane /\ turn'.batch = turn.batch
          /\ turn'.todo = Tail(turn.todo) \/ turn'.todo = <<>>
      BY <1>1, <2>7 DEF PassOver, Candidate, TurnSet
    <3>2. Len(turn'.todo) <= Len(turn.todo) /\ Len(turn'.todo) \in Nat /\ Len(turn.todo) \in Nat /\ Len(turn.batch) \in Nat
      <4>1. Len(turn.batch) \in Nat
        BY <1>1 DEF TurnSet
      <4>2. Len(Tail(turn.todo)) = Len(turn.todo) - 1 /\ Len(turn.todo) \in Nat /\ Len(turn.todo) # 0 /\ Len(<<>>) = 0
        BY <2>1, <3>1, EmptyOf, TailOf
      <4>3. \A n \in Nat : n # 0 => n - 1 \in Nat /\ n - 1 <= n /\ 0 <= n /\ 0 \in Nat
        OBVIOUS
      <4>4. CASE turn'.todo = Tail(turn.todo)
        BY <4>1, <4>2, <4>3, <4>4, Zenon
      <4>5. CASE turn'.todo = <<>>
        BY <4>1, <4>2, <4>3, <4>5, Zenon
      <4> QED
        BY <3>1, <4>4, <4>5
    <3>3. Len(turn.batch) + Len(turn.todo) <= 1 => Len(turn'.batch) + Len(turn'.todo) <= 1
      <4>1. \A a, b, d \in Nat : a + b <= 1 /\ d <= b => a + d <= 1
        OBVIOUS
      <4> QED
        BY <3>1, <3>2, <4>1, Zenon
    <3> QED
      BY <1>4, <2>1, <2>2, <3>1, <3>3
  <2>8. CASE EnterDecode
    <3>1. /\ pc = "try" /\ turn.plan # <<>> /\ Head(turn.plan) = "decode"
          /\ turn'.plan = Tail(turn.plan) /\ pc' \in {"try", "grow"}
      BY <1>1, <2>8 DEF EnterDecode, NoTurn, TurnSet
    <3> QED
      BY <2>1, <2>2, <2>3, <3>1
  <2>9. CASE DropStopped \/ KeepRow
    <3>1. pc = "grow" /\ pc' = pc /\ turn'.plan = turn.plan
      BY <1>1, <2>9 DEF DropStopped, KeepRow, Keep, Drop, TurnSet
    <3> QED
      BY <1>4, <2>1, <2>2, <3>1
  <2>10. CASE NoDecode
    <3>1. pc = "grow" /\ pc' = "try" /\ turn'.plan = turn.plan
      BY <2>10 DEF NoDecode, NoTurn
    <3> QED
      BY <1>4, <2>1, <2>2, <3>1
  <2> QED
    BY <1>7, <2>4, <2>5, <2>6, <2>7, <2>8, <2>9, <2>10 DEF Quiet
<1>8. CASE Pages /\ PageStep
  <2>1. /\ chunk' = chunk /\ len' = len /\ pc \in InPass /\ pc' = pc
        /\ \A s \in Seqs : status[s] \in {"READY", "RUNNING"} => hist'[s] = hist[s]
    BY <1>8 DEF PageStep, makerVars
  <2>2. last2 <=> last
    <3>1. chunk.seq \in Seqs => hist'[chunk.seq] = hist[chunk.seq]
      BY <1>4, <2>1, StatusSets
    <3> QED
      BY <1>5, <2>1, <3>1
  <2>3. chunk.seq \in Seqs => status[chunk.seq] = "RUNNING"
    BY <1>4, <2>1, StatusSets
  <2>4. ASSUME NEW s \in Seqs, Admits(s) PROVE Aim
    <3>1. chunk.seq \in Seqs => status'[chunk.seq] = "RUNNING"
      BY <1>1, <2>3, <2>4 DEF Admits
    <3>2. /\ pc = "admit" /\ turn.todo # <<>> /\ turn.todo \in Seq(Seqs) /\ turn.batch \in Seq(Seqs)
          /\ turn'.plan = turn.plan /\ turn'.lane = turn.lane /\ turn'.batch = Append(turn.batch, s)
          /\ turn'.todo = Tail(turn.todo) \/ turn'.todo = <<>>
      BY <1>1, <2>4 DEF Admits, TurnSet
    <3>3. Len(turn'.todo) <= Len(turn.todo) - 1 /\ Len(turn'.todo) \in Nat /\ Len(turn.todo) \in Nat
      <4>1. Len(Tail(turn.todo)) = Len(turn.todo) - 1 /\ Len(turn.todo) \in Nat /\ Len(turn.todo) # 0 /\ Len(<<>>) = 0
        BY <3>2, EmptyOf, TailOf
      <4>2. \A n \in Nat : n # 0 => n - 1 \in Nat /\ n - 1 <= n - 1 /\ 0 <= n - 1 /\ 0 \in Nat
        OBVIOUS
      <4>3. CASE turn'.todo = Tail(turn.todo)
        BY <4>1, <4>2, <4>3, Zenon
      <4>4. CASE turn'.todo = <<>>
        BY <4>1, <4>2, <4>4, Zenon
      <4> QED
        BY <3>2, <4>3, <4>4
    <3>4. Len(turn'.batch) = Len(turn.batch) + 1 /\ Len(turn.batch) \in Nat
      BY <3>2
    <3>5. Len(turn.batch) + Len(turn.todo) <= 1 => Len(turn'.batch) + Len(turn'.todo) <= 1
      <4>1. \A a, b, c, d \in Nat : a + b <= 1 /\ c = a + 1 /\ d <= b - 1 => c + d <= 1
        OBVIOUS
      <4>2. Len(turn'.batch) \in Nat
        BY <3>2, <3>4
      <4> QED
        BY <3>3, <3>4, <4>1, <4>2, Zenon
    <3>6. chunk.seq \in Seqs => chunk.seq \in Running'
      BY <3>1, StatusSets
    <3> QED
      BY <1>4, <2>1, <2>2, <3>2, <3>5, <3>6
  <2>5. CASE GivesUp
    <3>1. /\ pc = "admit" /\ turn'.plan = turn.plan /\ turn'.lane = turn.lane /\ turn'.batch = turn.batch
          /\ turn'.todo = <<>> /\ turn.todo \in Seq(Seqs) /\ turn.batch \in Seq(Seqs)
      BY <1>1, <2>5 DEF GivesUp, TurnSet
    <3>2. Len(turn.batch) + Len(turn.todo) <= 1 => Len(turn'.batch) + Len(turn'.todo) <= 1
      <4>1. Len(turn'.todo) = 0 /\ Len(turn.todo) \in Nat /\ Len(turn.batch) \in Nat
        BY <3>1, EmptyOf
      <4>2. \A a, b \in Nat : a + b <= 1 => a + 0 <= 1
        OBVIOUS
      <4> QED
        BY <3>1, <4>1, <4>2, Zenon
    <3>3. chunk.seq \in Seqs => chunk.seq \in Running'
      BY <2>3, <2>5, StatusSets DEF GivesUp
    <3> QED
      BY <1>4, <2>1, <2>2, <3>1, <3>2, <3>3
  <2>6. CASE ChunkWaits
    <3>1. /\ pc = "try" /\ turn.plan # <<>> /\ turn.plan \in Seq(Lanes) /\ turn'.plan = Tail(turn.plan)
      BY <1>1, <2>6 DEF ChunkWaits, TryChunk, TurnSet
    <3>2. chunk.seq \in Seqs => chunk.seq \in Running'
      BY <2>3, <2>6, StatusSets DEF ChunkWaits
    <3>3. /\ chunk.seq \in Seqs => Tail(turn.plan) \in ChunkPlans
          /\ chunk.seq \notin Seqs => Tail(turn.plan) \in FreshPlans
          /\ last => Tail(turn.plan) \in LastPlans
      <4>1. /\ turn.plan \in FreshPlans => Tail(turn.plan) \in FreshPlans
            /\ turn.plan \in ChunkPlans => Tail(turn.plan) \in ChunkPlans
            /\ turn.plan \in LastPlans => Tail(turn.plan) \in LastPlans
        BY <3>1, PlanTail
      <4> HIDE DEF last
      <4> QED
        BY <1>4, <2>1, <4>1
    <3> QED
      BY <2>1, <2>2, <3>1, <3>2, <3>3
  <2>7. ASSUME RowGrows \/ \E s \in Seqs : RowRefused(s) PROVE Aim
    <3>1. pc = "grow" /\ turn'.plan = turn.plan
      BY <1>1, <2>7 DEF RowGrows, RowRefused, Keep, Drop, TurnSet
    <3>2. chunk.seq \in Seqs => status'[chunk.seq] = "RUNNING"
      BY <1>1, <2>3, <2>7 DEF RowGrows, RowRefused
    <3>3. chunk.seq \in Seqs => chunk.seq \in Running'
      BY <3>2, StatusSets
    <3> QED
      BY <1>4, <2>1, <2>2, <3>1, <3>3
  <2> QED
    BY <1>8, <2>4, <2>5, <2>6, <2>7, PageMore
<1>9. CASE MildStep \/ (\E e \in Seqs : EndStep(e)) \/ ActivateStep \/ CollectStep \/ Sends
  BY <1>0, <1>9, OutsidePass
<1> QED
  BY <1>0, <1>6, <1>7, <1>8, <1>9, NextActions

LEMMA RestingStep ==
    ASSUME DecodeBatchAssumption, CalmEngines, Poised, Frame', Next, AtRest', ChunkApart'
    PROVE  Resting'
<1>0. Frame /\ Shapes /\ Resting /\ PlanShape /\ ChunkApart
  BY DEF Poised, Sound, Calm, Frame
<1>1. /\ turn \in TurnSet /\ NoChunk.seq = Gone /\ Gone \notin Seqs
  BY <1>0 DEF Shapes, TurnShape, NoChunk, DecodeBatchAssumption
<1> DEFINE Idle == pc = "send" \/ (pc \in InPass /\ queue = <<>>)
           Calmly == Idle => \A s \in Running : ~Listed(s) /\ s \notin toEvict
           First == pc = "sent" => Head1.lane # "decode"
           Stays == pc \in InPass /\ queue = <<>> /\ chunk.seq \in Seqs => Plans("chunk")
<1>2. Calmly /\ First /\ Stays
  BY <1>0 DEF Resting
<1>3. SUFFICES Calmly' /\ First' /\ Stays'
  BY DEF Resting
<1>4. CASE MildStep
  <2>1. pc' = pc /\ queue' = queue /\ toEvict' = toEvict /\ running' = running /\ Running' \subseteq Running /\ pc \in Await
    BY <1>4 DEF MildStep, workVars
  <2> QED
    BY <1>2, <2>1 DEF Listed, Await, InPass, Head1
<1>5. ASSUME NEW e \in Seqs, EndSession(e), EndStep(e) PROVE Calmly' /\ First' /\ Stays'
  <2>1. /\ pc' = pc /\ pc \in Await /\ Running' = Running \ {e} /\ \A s \in Seqs : s # e => (Listed(s)' <=> Listed(s))
        /\ \A t \in Seqs : t \in toEvict' => t \in toEvict
    BY <1>0, <1>5, RunningSteps, ListSteps, EndMore DEF EndStep
  <2>2. Calmly'
    BY <1>2, <2>1, StatusSets DEF Await, InPass
  <2>3. First'
    <3>1. pc = "sent" => 1 \in DOMAIN queue
      BY <1>0, PlaceFacts
    <3> QED
      BY <1>0, <1>2, <1>5, <2>1, <3>1, GhostedQueue DEF Ghosted, Head1
  <2> QED
    BY <2>1, <2>2, <2>3 DEF Await, InPass
<1>6. CASE BeginPass /\ BeginStep
  <2>1. /\ pc' = "try" /\ status' = status /\ running' = running /\ toEvict' = toEvict /\ queue' = queue
        /\ pc \in {"send", "prefetch"} /\ Running' = Running
    BY <1>0, <1>6, RunningSteps DEF BeginStep, seqVars, workVars
  <2>2. queue = <<>> => pc = "send"
    BY <1>0, <2>1, PlaceFacts DEF Frame, QueueShape
  <2>3. Calmly'
    BY <1>2, <2>1, <2>2 DEF Listed, InPass
  <2>4. Stays'
    <3>1. turn'.plan = IF chunk'.seq \in Seqs THEN ChunkPlan
                       ELSE IF DoPrefill THEN PrefillPlan
                       ELSE <<"decode">>
      BY <1>6 DEF BeginPass, NoTurn
    <3>2. On(ChunkPlan, "chunk")
      <4>1. /\ On(<<"decode", "chunk">>, "chunk") /\ On(<<"decode", "short", "chunk">>, "chunk")
            /\ On(<<"short", "chunk", "decode">>, "chunk") /\ On(<<"chunk", "decode">>, "chunk")
        BY DEF On
      <4> QED
        BY <4>1 DEF ChunkPlan
    <3> QED
      BY <3>1, <3>2 DEF On, Plans
  <2> QED
    BY <2>1, <2>3, <2>4
<1>7. CASE Quiet /\ QuietStep
  <2>1. /\ chunk' = chunk /\ status' = status /\ running' = running /\ queue' = queue /\ pc \in InPass
        /\ Running' = Running /\ turn.plan \in Seq(Lanes)
    BY <1>0, <1>1, <1>7, RunningSteps DEF QuietStep, seqVars, workVars, TurnSet
  <2>2. \A s \in Seqs : s \in toEvict' => s \in toEvict \/ Listed(s)
    <3>1. NoDecode => \A s \in LeftOut : Listed(s)
      BY DEF LeftOut, Listed
    <3> QED
      BY <1>7, <3>1 DEF Quiet, EndPass, EnterPrefill, EnterLane, NothingAdmitted, PassOver, EnterDecode, DropStopped,
                        KeepRow, NoDecode, makerVars
  <2>3. Idle' => Idle
    BY <1>7, <2>1 DEF QuietStep, NothingSent, InPass
  <2>4. Calmly'
    BY <1>2, <2>1, <2>2, <2>3, StatusSets DEF Listed
  <2>5. First'
    BY <1>7 DEF QuietStep, NothingSent, InPass
  <2>6. ASSUME pc' \in InPass, Plans("chunk") PROVE Plans("chunk")'
    <3>1. turn'.plan = turn.plan \/ (turn.plan # <<>> /\ Head(turn.plan) # "chunk" /\ turn'.plan = Tail(turn.plan))
      BY <1>1, <1>7, <2>6 DEF Quiet, EndPass, EnterPrefill, EnterLane, NothingAdmitted, PassOver, EnterDecode, DropStopped,
                       KeepRow, NoDecode, NoTurn, TurnSet, NothingSent, InPass, Keep, Drop
    <3> QED
      BY <1>0, <2>6, <3>1, PlanFacts DEF Plans
  <2>7. Stays'
    BY <1>2, <2>1, <2>6
  <2> QED
    BY <2>4, <2>5, <2>7
<1>8. CASE Pages /\ PageStep
  <2>1. /\ chunk' = chunk /\ running' = running /\ queue' = queue /\ toEvict' = toEvict /\ pc' = pc /\ pc \in InPass
        /\ Running' \subseteq Running
    BY <1>8 DEF PageStep, makerVars, workVars
  <2>2. Calmly' /\ First'
    BY <1>2, <2>1 DEF Listed, InPass
  <2>3. ASSUME ChunkWaits PROVE queue # <<>>
    BY <2>3, OnlyChunk DEF ChunkWaits, TryChunk
  <2>4. ASSUME ~ChunkWaits PROVE turn'.plan = turn.plan
    <3>1. (\E s \in Seqs : Admits(s)) \/ GivesUp \/ RowGrows \/ \E s \in Seqs : RowRefused(s)
      BY <1>8, <2>4, PageMore
    <3> QED
      BY <1>1, <3>1 DEF Admits, GivesUp, RowGrows, RowRefused, Keep, Drop, TurnSet
  <2>5. Stays'
    BY <1>2, <2>1, <2>3, <2>4 DEF Plans
  <2> QED
    BY <2>2, <2>5
<1>9. CASE Sends
  <2>1. PICK f : SentPrefill(f) \/ SentChunk(f) \/ SentDecode(f)
    BY <1>0, <1>9, SendKinds
  <2>2. /\ pc' = IF queue = <<>> THEN "sent" ELSE "wait"
        /\ queue'[Len(queue) + 1] = f
    BY <1>0, <2>1, SentFacts DEF SentPrefill, SentChunk, SentDecode
  <2>3. ASSUME queue = <<>> PROVE f.lane # "decode"
    <3>1. ASSUME f.lane = "decode" PROVE FALSE
      <4>1. SentDecode(f)
        BY <2>1, <3>1 DEF SentPrefill, SentChunk
      <4>2. ~SendDecode
        BY <2>3, DecodeBusy
      <4>3. pc = "grow"
        BY <4>1 DEF SentDecode
      <4> QED
        BY <1>9, <4>2, <4>3 DEF Sends, SendPrefill, SendFirstChunk, SendNextChunk, SendLastChunk, TryChunk, Admitted
    <3> QED
      BY <3>1
  <2>4. First'
    <3>1. queue = <<>> => Head1' = f
      BY <2>2 DEF Head1
    <3> QED
      BY <2>2, <2>3, <3>1
  <2> QED
    BY <2>2, <2>4 DEF InPass
<1>10. CASE ActivateStep
  BY <1>10 DEF ActivateStep, InPass
<1>11. CASE CollectStep
  <2>1. pc' \in {"send", "next"} /\ toEvict' = {}
    BY <1>11 DEF CollectStep
  <2>2. Calmly'
    <3>1. pc' = "send" => Running' \subseteq {chunk'.seq}
      BY DEF AtRest
    <3> QED
      BY <2>1, <3>1, StatusSets DEF InPass, ChunkApart
  <2> QED
    BY <2>1, <2>2 DEF InPass
<1> QED
  BY <1>0, <1>4, <1>5, <1>6, <1>7, <1>8, <1>9, <1>10, <1>11, NextActions

---------------------------------------------------------------------------
(* A sequence that waits and is listed, or about to be. *)

\* Only its owner is decoded or else is refused for one that is.
LEMMA RefusedApart ==
    ASSUME DecodeBatchAssumption, CalmEngines, Poised, NEW s \in Seqs, RowRefused(s), ~Attended
    PROVE  turn.keep # <<>> \/ \E j \in 1..(turn.left - 1) : running[j] \in Running /\ running[j] # s
<1>0. /\ Frame /\ Shapes /\ Covered /\ Tried /\ Joined /\ ListedOnce /\ ReadySent /\ Generating
  BY DEF Poised, Sound, Flow, Distinct, Aligned, Calm, Frame
<1>1. /\ pc = "grow" /\ turn.left > 0 /\ s = running[turn.left] /\ s \in Running /\ s # chunk.seq /\ setup.patient
      /\ turn.left \in Nat
  BY <1>0 DEF RowRefused, Shapes, TurnShape, TurnSet
<1>2. PICK t \in Active : t # s
  BY DEF RowRefused
<1>3. t \in Running /\ t # chunk.seq
  BY <1>0, <1>1, <1>2, NobodyReady DEF Attended
<1>4. Listed(t)
  <2>1. ASSUME NEW q \in DOMAIN queue, queue[q].lane = "prefill", Has(queue[q], t) PROVE Listed(t)
    <3>1. q = 1 /\ Started /\ queue[q] = Head1
      <4>1. Len(queue) <= 1 /\ DOMAIN queue = 1..Len(queue) /\ Len(queue) \in Nat /\ (Started <=> queue # <<>>)
        BY <1>0, <1>1, PlaceFacts DEF InPass
      <4>2. q = 1
        <5>1. q \in 1..Len(queue) /\ Len(queue) \in Nat /\ Len(queue) <= 1
          BY <2>1, <4>1
        <5> QED
          BY <5>1
      <4> QED
        BY <2>1, <4>1, <4>2 DEF Head1
    <3>2. PICK i \in RowsOf(Head1) : SeqAt(i) = t
      BY <2>1, <3>1 DEF Has, SeqAt
    <3>3. Head1.rows[i].gen
      BY <1>0, <2>1, <3>1, <3>2 DEF Generating
    <3> QED
      BY <1>0, <1>3, <2>1, <3>1, <3>2, <3>3 DEF Joined
  <2> QED
    BY <1>0, <1>3, <2>1 DEF Covered
<1>5. PICK i \in DOMAIN running : running[i] = t
  BY <1>4 DEF Listed
<1>6. i <= turn.left \/ turn.keep # <<>>
  <2>1. i <= turn.left \/ \E j \in DOMAIN turn.keep : turn.keep[j] = i
    BY <1>0, <1>1, <1>3, <1>5 DEF Tried
  <2> QED
    BY <2>1
<1>7. i # turn.left
  BY <1>1, <1>2, <1>5
<1>8. i \in Nat /\ i >= 1
  BY <1>0, <1>5 DEF Shapes, MakerShape
<1>9. i <= turn.left => i \in 1..(turn.left - 1)
  BY <1>1, <1>7, <1>8
<1> QED
  BY <1>2, <1>3, <1>5, <1>6, <1>9

LEMMA StraysStep ==
    ASSUME DecodeBatchAssumption, CalmEngines, Poised, Frame', Next
    PROVE  Strays'
<1>0. /\ Frame /\ Shapes /\ AllLive /\ LongAlone /\ Strays /\ Bringing /\ Threats /\ PlanShape /\ KeepOnce
  BY DEF Poised, Sound, Flow, Distinct, Calm, Frame
<1> DEFINE Growing == pc = "grow" /\ (turn.keep # <<>> \/ \E j \in 1..turn.left : running[j] \in Running)
           Replaced == \E f \in Unstarted : f.lane = "decode"
           Stray == \E i \in DOMAIN running : Waits(running[i])
<1>1. Stray => Attended \/ Growing \/ Replaced
  BY <1>0 DEF Strays
<1>2. SUFFICES ASSUME Stray' PROVE Attended' \/ Growing' \/ Replaced'
  BY DEF Strays
<1>3. PICK k \in DOMAIN running' : running'[k] \in Seqs /\ status'[running'[k]] \in {"WAITING", "READY"}
  BY <1>2 DEF Waits
<1> DEFINE t == running'[k]
<1>4. t \in Seqs /\ status'[t] \in {"WAITING", "READY"}
  BY <1>3
<1>5. ASSUME Attended, ~SendLastChunk PROVE Attended'
  BY <1>5, AttendedStays
<1>6. ASSUME running' = running, status'[t] = status[t] PROVE Attended \/ Growing \/ Replaced
  BY <1>1, <1>3, <1>4, <1>6, StatusSets
<1>7. turn \in TurnSet /\ turn.left \in Nat /\ turn.keep \in Seq(Nat) /\ status \in [Seqs -> Statuses]
  BY <1>0 DEF Shapes, TurnShape, TurnSet, SeqShape
<1>8. ASSUME NEW s \in Seqs, Adds(s) \/ StopSession(s), MildStep PROVE Attended' \/ Growing' \/ Replaced'
  <2>1. running' = running /\ Unstarted' = Unstarted /\ pc # "grow"
    BY <1>0, <1>8, UnstartedSteps DEF MildStep, Await
  <2>2. status'[t] = status[t]
    <3>1. status[t] # "none"
      BY <1>0, <1>3, <1>4, <2>1 DEF AllLive, Live
    <3> QED
      BY <1>0, <1>4, <1>8, <3>1, ClientStatus
  <2>3. ~SendLastChunk
    BY <1>8 DEF MildStep, Await, SendLastChunk, TryChunk
  <2> QED
    BY <1>5, <1>6, <2>1, <2>2, <2>3
<1>9. ASSUME NEW e \in Seqs, EndStep(e) PROVE Attended' \/ Growing' \/ Replaced'
  <2>1. /\ k \in DOMAIN running /\ t = Ghost(e, running[k]) /\ pc # "grow" /\ Gone \notin Seqs
        /\ \A u \in Seqs : status'[u] = IF u = e THEN "none" ELSE status[u]
    <3>1. Len(running') = Len(running) /\ running' \in Seq(Slots) /\ running \in Seq(Slots)
      BY <1>0, <1>9 DEF EndStep, Shapes, MakerShape
    <3>2. DOMAIN running' = DOMAIN running
      BY <3>1
    <3> QED
      BY <1>3, <1>9, <3>2 DEF EndStep, Await, DecodeBatchAssumption
  <2>2. t = running[k] /\ status[t] = status'[t]
    BY <1>4, <2>1 DEF Ghost
  <2>3. Attended \/ Replaced
    BY <1>1, <1>4, <2>1, <2>2, StatusSets
  <2>4. Replaced => Replaced'
    BY <1>0, <1>9, UnstartedKept DEF Ghosted
  <2>5. ~SendLastChunk
    BY <1>9 DEF EndStep, Await, SendLastChunk, TryChunk
  <2> QED
    BY <1>5, <2>3, <2>4, <2>5
<1>10. ASSUME BeginStep PROVE Attended'
  <2>1. running' = running /\ status' = status /\ Unstarted = {} /\ pc # "grow" /\ ~SendLastChunk
    BY <1>0, <1>10, PlaceFacts DEF BeginStep, seqVars, SendLastChunk, TryChunk
  <2> QED
    BY <1>5, <1>6, <2>1
<1>11. ASSUME Quiet, QuietStep PROVE Attended' \/ Growing'
  <2>1. /\ running' = running /\ status' = status /\ Unstarted = {} /\ Running' = Running
    BY <1>0, <1>11, PlaceFacts, RunningSteps DEF QuietStep, seqVars
  <2>2. Attended \/ Growing
    BY <1>6, <2>1
  <2>3. Attended => Attended'
    <3>1. chunk' = chunk /\ setup' = setup /\ Active' = Active
      BY <1>0, <1>11, RunningSteps DEF QuietStep, workVars
    <3> QED
      BY <3>1 DEF Attended
  <2>4. ASSUME Growing, DropStopped PROVE Growing'
    <3>1. pc' = "grow" /\ turn'.left = turn.left - 1 /\ turn'.keep = turn.keep /\ running[turn.left] \notin Running /\ turn.left > 0
      BY <1>7, <2>4 DEF DropStopped, Drop, TurnSet
    <3>2. ASSUME NEW j \in 1..turn.left, running[j] \in Running PROVE j \in 1..turn'.left
      <4>1. j # turn.left
        BY <3>1, <3>2
      <4> QED
        BY <1>7, <3>1, <4>1
    <3> QED
      BY <2>1, <2>4, <3>1, <3>2
  <2>5. ASSUME KeepRow PROVE Growing'
    <3>1. pc' = "grow" /\ turn.left > 0 /\ turn' = [turn EXCEPT !.left = turn.left - 1, !.keep = <<turn.left>> \o @]
      BY <2>5 DEF KeepRow, Keep
    <3>2. DOMAIN turn'.keep = 1..(Len(turn.keep) + 1)
      BY <1>0, <2>5, <3>1, KeepFacts DEF KeepRow
    <3>3. 1 \in DOMAIN turn'.keep
      BY <1>7, <3>2
    <3> QED
      BY <3>1, <3>3
  <2>6. ASSUME NoDecode PROVE ~Growing
    <3>1. turn.left = 0 /\ turn.keep = <<>>
      BY <2>6 DEF NoDecode
    <3> QED
      BY <3>1
  <2>7. ASSUME EndPass \/ EnterPrefill \/ NothingAdmitted \/ (\E s \in Seqs : PassOver(s)) \/ EnterDecode PROVE ~Growing
    BY <2>7 DEF EndPass, EnterPrefill, EnterLane, NothingAdmitted, Admitted, PassOver, Candidate, EnterDecode
  <2> HIDE DEF Growing
  <2> QED
    BY <1>11, <2>2, <2>3, <2>4, <2>5, <2>6, <2>7 DEF Quiet
<1>12. ASSUME Pages, PageStep PROVE Attended' \/ Growing'
  <2>1. running' = running /\ Unstarted = {} /\ pc' = pc /\ ~SendLastChunk
    <3>1. running' = running /\ Unstarted = {} /\ pc' = pc
      BY <1>0, <1>12, PlaceFacts DEF PageStep, makerVars
    <3>2. ~SendLastChunk
      BY <1>12 DEF PageStep, SendLastChunk, DispatchPrefill, Dispatch, workVars, InPass
    <3> QED
      BY <3>1, <3>2
  <2>2. ASSUME ~(\E s \in Seqs : RowRefused(s)), ~RowGrows PROVE Attended'
    <3>1. pc # "grow"
      BY <1>12, <2>2, PageMore DEF Admits, GivesUp, ChunkWaits, TryChunk
    <3>2. Waits(t)
      <4>1. (\E s \in Seqs : Admits(s)) \/ status' = status
        BY <1>12, <2>2, PageMore DEF GivesUp, ChunkWaits
      <4>2. ASSUME NEW s \in Seqs, Admits(s) PROVE status[t] \in {"WAITING", "READY"}
        BY <1>4, <1>7, <4>2 DEF Admits
      <4> QED
        BY <1>4, <4>1, <4>2, StatusSets
    <3>3. Attended
      BY <1>1, <1>3, <2>1, <3>1, <3>2
    <3> QED
      BY <1>5, <2>1, <3>3
  <2>3. ASSUME RowGrows PROVE Growing'
    <3>1. pc = "grow" /\ turn.left > 0 /\ turn' = [turn EXCEPT !.left = turn.left - 1, !.keep = <<turn.left>> \o @]
      BY <2>3 DEF RowGrows, Keep
    <3>2. DOMAIN turn'.keep = 1..(Len(turn.keep) + 1)
      BY <1>0, <2>3, <3>1, KeepFacts
    <3>3. 1 \in DOMAIN turn'.keep
      BY <1>7, <3>2
    <3> QED
      BY <2>1, <3>1, <3>3
  <2>4. ASSUME NEW s \in Seqs, RowRefused(s), ~Attended PROVE Growing'
    <3>1. pc = "grow" /\ turn.left > 0 /\ turn'.left = turn.left - 1 /\ turn'.keep = turn.keep
      BY <1>7, <2>4 DEF RowRefused, Drop, TurnSet
    <3>2. ASSUME NEW u \in Running, u # s PROVE u \in Running'
      <4>1. u \in Seqs /\ status[u] = "RUNNING" /\ status' = [status EXCEPT ![s] = "WAITING"]
        BY <2>4, <3>2, StatusSets DEF RowRefused
      <4> QED
        BY <1>7, <3>2, <4>1, StatusSets
    <3>3. turn.keep # <<>> \/ \E j \in 1..(turn.left - 1) : running[j] \in Running /\ running[j] # s
      BY <2>4, RefusedApart
    <3> QED
      BY <2>1, <3>1, <3>2, <3>3
  <2> QED
    BY <1>5, <2>1, <2>2, <2>3, <2>4
<1>13. ASSUME Sends PROVE Attended' \/ Replaced'
  <2>1. status' = status /\ Unstarted = {} /\ pc \in InPass
    BY <1>0, <1>13, SendFacts, PlaceFacts
  <2>2. CASE SendPrefill \/ SendLastChunk
    <3>1. running' = [i \in DOMAIN ValidPositions |-> running[ValidPositions[i]]]
      BY <2>2 DEF SendPrefill, SendLastChunk, DispatchPrefill
    <3>2. t \in Running
      BY <1>0, <1>3, <3>1, ValidListed
    <3> QED
      BY <1>4, <2>1, <3>2, StatusSets
  <2>3. CASE SendFirstChunk
    <3>1. running' = running /\ ~Attended /\ pc = "admit"
      BY <2>3, FirstChunkAlone DEF SendFirstChunk, DispatchChunk
    <3> QED
      BY <1>6, <2>1, <3>1
  <2>4. CASE SendNextChunk
    <3>1. running' = running /\ pc = "try" /\ ~SendLastChunk
      BY <2>4 DEF SendNextChunk, SendLastChunk, DispatchChunk, TryChunk
    <3> QED
      BY <1>5, <1>6, <2>1, <3>1
  <2>5. CASE SendDecode
    <3>1. PICK f : Dispatch(f) /\ f.lane = "decode" /\ f \in ForwardSet /\ f.reindex /\ Len(f.rows) = Len(f.keep)
      BY <1>0, <2>5, DecodeForward
    <3>2. Unstarted' = {f}
      BY <1>0, <1>13, <3>1, UnstartedSteps DEF Sent
    <3> QED
      BY <3>1, <3>2
  <2> QED
    BY <1>13, <2>2, <2>3, <2>4, <2>5 DEF Sends
<1>14. ASSUME ActivateStep PROVE Attended'
  <2>1. /\ running' = ListAfter /\ pc # "grow" /\ Unstarted = {Head1} /\ queue # <<>> /\ 1 \in DOMAIN queue
        /\ ~SendLastChunk /\ Head1 \in ForwardSet
    <3>1. pc \in {"sent", "next"} /\ queue # <<>>
      BY <1>14 DEF ActivateStep
    <3> QED
      BY <1>0, <1>14, <3>1, StartedSteps DEF ActivateStep, SendLastChunk, TryChunk
  <2>2. status[t] = status'[t] /\ (Has(Head1, t) => status[t] = "WAITING")
    BY <1>4, <1>14 DEF ActivateStep
  <2>3. ASSUME NEW i \in RowsOf(Head1), SeqAt(i) = t PROVE Attended /\ Head1.lane = "prefill"
    <3>1. t \in Waiting
      BY <1>4, <2>2, <2>3, StatusSets DEF Has, SeqAt
    <3> QED
      BY <1>0, <2>1, <2>3, <3>1 DEF Bringing, SeqAt
  <2>4. ASSUME NEW i \in DOMAIN running, running[i] = t PROVE Attended \/ Head1.lane = "decode"
    BY <1>1, <1>4, <2>1, <2>2, <2>4, StatusSets
  <2>5. CASE Head1.lane = "decode"
    <3>1. k \in RowsOf(Head1) /\ SeqAt(k) = t
      BY <1>3, <2>1, <2>5 DEF ListAfter
    <3> QED
      BY <2>3, <2>5, <3>1
  <2>6. CASE Head1.lane = "chunk" /\ chunk # NoChunk
    <3>1. running' = running
      BY <2>1, <2>6 DEF ListAfter
    <3> QED
      BY <1>3, <1>5, <2>1, <2>4, <2>6, <3>1
  <2>7. CASE Head1.lane # "decode" /\ ~(Head1.lane = "chunk" /\ chunk # NoChunk)
    <3>1. running' = running \o Joining
      BY <2>1, <2>7 DEF ListAfter
    <3>2. Joining \in Seq(Slots) /\ running \in Seq(Slots)
      BY <1>0, <2>1, JoiningFacts DEF Shapes, MakerShape
    <3>3. (k \in DOMAIN running /\ running[k] = t) \/ \E j \in DOMAIN Joining : Joining[j] = t
      BY <1>3, <3>1, <3>2, ConcatOf
    <3>4. ASSUME NEW j \in DOMAIN Joining, Joining[j] = t PROVE Attended
      <4>1. \E i \in RowsOf(Head1) : SeqAt(i) = t
        BY <1>0, <2>1, <3>4, JoiningFacts
      <4> QED
        BY <2>3, <4>1
    <3> QED
      BY <1>5, <2>1, <2>4, <2>7, <3>3, <3>4
  <2> QED
    BY <2>5, <2>6, <2>7
<1>15. ASSUME pc = "wait", NEW stop \in SUBSET RowsOf(Head1), CollectOutput(stop), CollectStep
       PROVE  Attended' \/ Replaced'
  <2>1. running' = running /\ Unstarted' = Unstarted /\ ~SendLastChunk
    BY <1>0, <1>15, UnstartedKept DEF CollectStep, SendLastChunk, TryChunk
  <2>2. Waits(t) \/ t \in toEvict \cap Active
    <3>1. status'[t] = "READY" => status[t] = "READY"
      BY <1>4, <1>15 DEF CollectStep
    <3> QED
      BY <1>0, <1>4, <1>15, <3>1, CollectMore, StatusSets
  <2>3. Attended \/ Replaced
    BY <1>0, <1>1, <1>3, <1>15, <2>1, <2>2 DEF Threats
  <2> QED
    BY <1>5, <2>1, <2>3
<1> HIDE DEF Growing, Replaced
<1> QED
  BY <1>0, <1>8, <1>9, <1>10, <1>11, <1>12, <1>13, <1>14, <1>15, NextActions

---------------------------------------------------------------------------
(* A sequence that waits and is about to be listed. *)

LEMMA BringingStep ==
    ASSUME DecodeBatchAssumption, CalmEngines, Poised, Frame', Next
    PROVE  Bringing'
<1>0. /\ Frame /\ Shapes /\ AllLive /\ LongAlone /\ ChunkOwned /\ Bringing /\ Threats /\ PlanShape /\ KeepOnce /\ Single
  BY DEF Poised, Sound, Flow, Distinct, Calm, Frame
<1> DEFINE Held == \A f \in Unstarted : \A i \in DOMAIN f.rows :
                     f.rows[i].seq \in Waiting => f.lane = "prefill" /\ Attended
           Place == pc = "prefetch" \/ (pc \in {"try", "admit"} /\ (turn.lane = "long" \/ Plans("long")))
           Back == Place => (queue # <<>> /\ Head1.lane # "chunk" =>
                               \A i \in DOMAIN Head1.rows : Waits(SeqAt(i)) => Attended)
<1>1. Held /\ Back
  BY <1>0 DEF Bringing, RowsOf
<1>2. SUFFICES Held' /\ Back'
  BY DEF Bringing, RowsOf
<1>3. ASSUME Attended, ~SendLastChunk PROVE Attended'
  BY <1>3, AttendedStays
<1>4. turn \in TurnSet /\ status \in [Seqs -> Statuses]
  BY <1>0 DEF Shapes, TurnShape, SeqShape
<1>5. \A f \in Unstarted : \A i \in DOMAIN f.rows : f.rows[i].seq \in Seqs => status[f.rows[i].seq] # "none"
  BY <1>0, PlaceFacts DEF AllLive, Live, RowsOf
<1>6. ASSUME NEW s \in Seqs, Adds(s) \/ StopSession(s), MildStep PROVE Held' /\ Back'
  <2>1. Unstarted' = Unstarted /\ pc' = pc /\ pc \in Await /\ ~SendLastChunk
    BY <1>0, <1>6, UnstartedSteps DEF MildStep, Await, SendLastChunk, TryChunk
  <2>2. ASSUME NEW f \in Unstarted, NEW i \in DOMAIN f.rows, f.rows[i].seq \in Seqs, status'[f.rows[i].seq] = "WAITING"
        PROVE  f.lane = "prefill" /\ Attended'
    <3>1. f.rows[i].seq \in Waiting
      BY <1>0, <1>5, <1>6, <2>2, ClientStatus, StatusSets
    <3> QED
      BY <1>1, <1>3, <2>1, <3>1
  <2>3. Held'
    BY <2>1, <2>2, StatusSets
  <2> QED
    BY <2>1, <2>3 DEF Await
<1>7. ASSUME NEW e \in Seqs, EndStep(e) PROVE Held' /\ Back'
  <2>1. pc' = pc /\ pc \in Await /\ ~SendLastChunk /\ Gone \notin Seqs
        /\ \A u \in Seqs : status'[u] = IF u = e THEN "none" ELSE status[u]
    BY <1>7 DEF EndStep, Await, SendLastChunk, TryChunk, DecodeBatchAssumption
  <2>2. ASSUME NEW g \in Unstarted', NEW i \in DOMAIN g.rows, g.rows[i].seq \in Seqs, status'[g.rows[i].seq] = "WAITING"
        PROVE  g.lane = "prefill" /\ Attended'
    <3>1. PICK f \in Unstarted : Ghosted(e, f, g)
      BY <1>0, <1>7, UnstartedSteps
    <3>2. i \in DOMAIN f.rows /\ g.rows[i].seq = f.rows[i].seq /\ g.lane = f.lane
      BY <2>1, <2>2, <3>1 DEF Ghosted, Ghost
    <3>3. f.rows[i].seq \in Waiting
      BY <2>1, <2>2, <3>2, StatusSets
    <3> QED
      BY <1>1, <1>3, <2>1, <3>2, <3>3
  <2>3. Held'
    BY <2>2, StatusSets
  <2> QED
    BY <2>1, <2>3 DEF Await
<1>8. ASSUME BeginStep PROVE Held' /\ Back'
  <2>1. Unstarted' = {} /\ status' = status /\ queue' = queue /\ pc' = "try" /\ turn'.lane = "none"
        /\ pc \in {"send", "prefetch"} /\ ~SendLastChunk /\ (pc = "send" => queue = <<>>)
    BY <1>0, <1>8, UnstartedSteps DEF BeginStep, seqVars, workVars, SendLastChunk, TryChunk, Frame, QueueShape
  <2>2. ASSUME queue' # <<>>, Head1'.lane # "chunk", NEW i \in DOMAIN Head1'.rows, Waits(SeqAt(i))' PROVE Attended'
    <3>1. pc = "prefetch" /\ queue # <<>> /\ Head1' = Head1 /\ Waits(SeqAt(i))
      BY <2>1, <2>2 DEF Head1, Waits, SeqAt
    <3> QED
      BY <1>1, <1>3, <2>1, <2>2, <3>1
  <2> QED
    BY <2>1, <2>2
<1>9. ASSUME Quiet, QuietStep PROVE Held' /\ Back'
  <2>1. Unstarted' = {} /\ status' = status /\ queue' = queue /\ ~SendLastChunk
    <3>1. ~SendLastChunk \/ Len(queue') = Len(queue) + 1
      <4>1. SendLastChunk => \E f : Sent(f)
        BY <1>0, SendFacts DEF Sends
      <4> QED
        BY <1>0, <4>1, SentFacts
    <3>2. Unstarted' = {} /\ status' = status /\ queue' = queue
      BY <1>0, <1>9, UnstartedSteps DEF QuietStep, seqVars, workVars
    <3>3. Len(queue) \in Nat
      BY <1>0, PlaceFacts
    <3> QED
      BY <3>1, <3>2, <3>3
  <2>2. Place' => Place
    <3>1. pc \in InPass /\ (Plans("long")' => Plans("long")) /\ (pc = "grow" => ~Plans("long"))
      <4>1. pc = "grow" => turn.plan \in ChunkPlans
        BY <1>0 DEF PlanShape, ChunkPlans, LastPlans, InPass
      <4> QED
        BY <1>9, <4>1, PlanNames DEF QuietStep, Plans, On
    <3>2. ASSUME pc' = "prefetch" PROVE FALSE
      BY <1>9, <3>2 DEF QuietStep, NothingSent, InPass
    <3>3. ASSUME pc' \in {"try", "admit"}, turn'.lane = "long" PROVE Place
      <4>1. pc \in {"try", "admit"} /\ (turn.lane = "long" \/ Plans("long"))
        <5>1. CASE EnterPrefill
          <6>1. pc = "try" /\ turn.plan # <<>> /\ Head(turn.plan) = "long"
            BY <3>3, <5>1 DEF EnterPrefill, EnterLane, NoTurn
          <6> QED
            BY <1>0, <6>1, PlanFacts
        <5>2. CASE EndPass \/ NothingAdmitted \/ NoDecode
          BY <3>3, <5>2 DEF EndPass, NothingAdmitted, NoDecode, NoTurn
        <5>3. CASE EnterDecode \/ \E s \in Seqs : PassOver(s)
          BY <1>4, <3>3, <5>3 DEF EnterDecode, PassOver, Candidate, TurnSet
        <5>4. CASE DropStopped \/ KeepRow
          BY <3>3, <5>4 DEF DropStopped, KeepRow
        <5> QED
          BY <1>9, <5>1, <5>2, <5>3, <5>4 DEF Quiet
      <4> QED
        BY <4>1
    <3>4. ASSUME pc' \in {"try", "admit"}, Plans("long")' PROVE Place
      BY <3>1, <3>4 DEF InPass
    <3> QED
      BY <3>2, <3>3, <3>4
  <2>3. ASSUME Place, queue' # <<>>, Head1'.lane # "chunk", NEW i \in DOMAIN Head1'.rows, Waits(SeqAt(i))' PROVE Attended'
    <3>1. queue # <<>> /\ Head1' = Head1 /\ Waits(SeqAt(i))
      BY <2>1, <2>3 DEF Head1, Waits, SeqAt
    <3> QED
      BY <1>1, <1>3, <2>1, <2>3, <3>1
  <2> QED
    BY <2>1, <2>2, <2>3
<1>10. ASSUME Pages, PageStep PROVE Held' /\ Back'
  <2>1. Unstarted' = {} /\ queue' = queue /\ pc' = pc /\ pc \in InPass /\ ~SendLastChunk
    <3>1. ~SendLastChunk
      BY <1>10 DEF PageStep, SendLastChunk, DispatchPrefill, Dispatch, workVars, InPass
    <3> QED
      BY <1>0, <1>10, <3>1, UnstartedSteps DEF PageStep, workVars
  <2>2. ASSUME Place' PROVE Place /\ \A t : Waits(t)' => Waits(t)
    <3>1. pc \in {"try", "admit"} /\ (Plans("long")' => Plans("long"))
      BY <1>10, <2>1, <2>2 DEF PageStep, InPass
    <3>2. (\E s \in Seqs : Admits(s)) \/ GivesUp \/ ChunkWaits
      BY <1>10, <3>1, PageMore DEF RowGrows, RowRefused
    <3>3. turn'.lane = turn.lane
      BY <1>4, <3>2 DEF Admits, GivesUp, ChunkWaits, TurnSet
    <3>4. \A t \in Seqs : status'[t] \in {"WAITING", "READY"} => status[t] \in {"WAITING", "READY"}
      <4>1. ASSUME NEW s \in Seqs, Admits(s) PROVE \A t \in Seqs : t # s => status'[t] = status[t]
        BY <1>4, <4>1 DEF Admits
      <4>2. ASSUME NEW s \in Seqs, Admits(s) PROVE status[s] = "WAITING"
        BY <4>2 DEF Admits
      <4> QED
        BY <3>2, <4>1, <4>2 DEF GivesUp, ChunkWaits
    <3> QED
      BY <2>1, <2>2, <3>1, <3>3, <3>4, StatusSets
  <2>3. ASSUME Place, \A t : Waits(t)' => Waits(t),
               queue' # <<>>, Head1'.lane # "chunk", NEW i \in DOMAIN Head1'.rows, Waits(SeqAt(i))'
        PROVE  Attended'
    <3>1. queue # <<>> /\ Head1' = Head1
      BY <2>1, <2>3 DEF Head1
    <3>2. SeqAt(i)' = SeqAt(i)
      BY <3>1 DEF SeqAt
    <3>3. Waits(SeqAt(i))
      <4>1. SeqAt(i) \in Seqs /\ status'[SeqAt(i)] \in {"WAITING", "READY"}
        BY <2>3, <3>2 DEF Waits
      <4> QED
        BY <2>3, <4>1, StatusSets
    <3> QED
      BY <1>1, <1>3, <2>1, <2>3, <3>1, <3>3
  <2> QED
    BY <2>1, <2>2, <2>3
<1>11. ASSUME Sends PROVE Held' /\ Back'
  <2>1. PICK f : SentPrefill(f) \/ SentChunk(f) \/ SentDecode(f)
    BY <1>0, <1>11, SendKinds
  <2>2. Sent(f) /\ pc \in InPass /\ status' = status
    BY <1>0, <1>11, <2>1, SendFacts DEF SentPrefill, SentChunk, SentDecode
  <2>3. Unstarted' = {f} /\ pc' \in {"sent", "wait"}
    BY <1>0, <1>11, <2>2, UnstartedSteps, SentFacts
  <2>4. chunk.seq \in Seqs => status[chunk.seq] = "RUNNING"
    BY <1>0, <2>2, StatusSets DEF PlanShape
  <2>5. pc = "admit" => \A i \in DOMAIN turn.batch : status[turn.batch[i]] = "READY"
    BY <1>0 DEF LongAlone
  <2>6. ASSUME NEW i \in DOMAIN f.rows, f.rows[i].seq \in Seqs PROVE status[f.rows[i].seq] # "WAITING"
    <3>1. CASE SentPrefill(f)
      BY <1>0, <2>4, <2>5, <2>6, <3>1, PrefillRows
    <3>2. CASE SentChunk(f)
      <4>1. f.rows[i].seq = chunk'.seq /\ chunk'.seq \in Seqs
        BY <1>0, <2>6, <3>2, ChunkRows
      <4>2. CASE chunk' = chunk
        BY <2>4, <4>1, <4>2
      <4>3. CASE pc = "admit" /\ turn.batch # <<>> /\ chunk'.seq = turn.batch[1]
        <5>1. 1 \in DOMAIN turn.batch
          BY <1>4, <4>3, EmptyOf DEF TurnSet
        <5> QED
          BY <2>5, <4>1, <4>3, <5>1
      <4> QED
        BY <3>2, <4>2, <4>3 DEF SentChunk
    <3>3. CASE SentDecode(f)
      <4>1. pc = "grow" /\ i \in DOMAIN turn.keep /\ f.rows[i].seq = running[turn.keep[i]]
        BY <1>0, <2>6, <3>3, DecodeRows DEF SentDecode
      <4> QED
        BY <1>0, <4>1, StatusSets DEF KeepOnce
    <3> QED
      BY <2>1, <3>1, <3>2, <3>3
  <2>7. Held'
    BY <2>2, <2>3, <2>6, StatusSets
  <2> QED
    BY <2>3, <2>7
<1>12. ASSUME ActivateStep PROVE Held' /\ Back'
  <2>1. Unstarted' = {} /\ queue' = queue /\ Unstarted = {Head1} /\ Head1' = Head1 /\ ~SendLastChunk
    BY <1>0, <1>12, UnstartedSteps, StartedSteps DEF ActivateStep, SendLastChunk, TryChunk, workVars, Head1
  <2>2. ASSUME NEW i \in DOMAIN Head1.rows, SeqAt(i) \in Seqs, status'[SeqAt(i)] \in {"WAITING", "READY"} PROVE Attended'
    <3>1. Has(Head1, SeqAt(i))
      BY <2>2 DEF Has, SeqAt, RowsOf
    <3>2. SeqAt(i) \in Waiting
      BY <1>12, <2>2, <3>1, StatusSets DEF ActivateStep
    <3> QED
      BY <1>1, <1>3, <2>1, <3>2 DEF SeqAt
  <2>3. ASSUME NEW i \in DOMAIN Head1'.rows, Waits(SeqAt(i))' PROVE Attended'
    <3>1. SeqAt(i)' = SeqAt(i)
      BY <2>1 DEF SeqAt
    <3> QED
      BY <2>1, <2>2, <2>3, <3>1 DEF Waits
  <2> QED
    BY <2>1, <2>3
<1>13. ASSUME pc = "wait", NEW stop \in SUBSET RowsOf(Head1), CollectOutput(stop), CollectStep PROVE Held' /\ Back'
  <2>1. Unstarted' = Unstarted /\ pc' \in {"send", "next"} /\ ~SendLastChunk
    BY <1>0, <1>13, UnstartedKept DEF CollectStep, SendLastChunk, TryChunk
  <2>2. ASSUME NEW f \in Unstarted, NEW i \in DOMAIN f.rows, f.rows[i].seq \in Seqs, status'[f.rows[i].seq] = "WAITING"
        PROVE  f.lane = "prefill" /\ Attended'
    <3> DEFINE t == f.rows[i].seq
    <3>1. status[t] = "WAITING" \/ t \in toEvict \cap Active
      BY <1>0, <1>13, <2>2, CollectMore
    <3>2. CASE status[t] = "WAITING"
      BY <1>1, <1>3, <2>1, <2>2, <3>2, StatusSets
    <3>3. ASSUME t \in toEvict, t \in Active PROVE f.lane = "prefill" /\ Attended
      <4>1. f.lane # "decode"
        BY <1>0, <2>2, <3>3 DEF Threats, RowsOf
      <4>2. f.lane # "chunk"
        <5>1. f.lane = "chunk" => t = chunk.seq
          BY <1>0, <2>2, <3>3 DEF ChunkOwned, RowsOf
        <5> QED
          BY <1>0, <3>3, <5>1 DEF Single
      <4>3. f.lane \in {"prefill", "chunk", "decode"}
        <5>1. PICK q \in DOMAIN queue : f = queue[q]
          BY <1>0, <2>2, PlaceFacts
        <5> QED
          BY <1>0, <5>1, RowsTyped
      <4>4. \A g \in Unstarted : g = f
        BY <1>0, <1>13, <2>2, PlaceFacts DEF Unstarted
      <4>5. Attended
        BY <1>0, <1>13, <3>3, <4>1, <4>4 DEF Threats
      <4> QED
        BY <4>1, <4>2, <4>3, <4>5
    <3> QED
      BY <1>3, <2>1, <3>1, <3>2, <3>3
  <2>3. Held'
    BY <2>1, <2>2, StatusSets
  <2> QED
    BY <2>1, <2>3
<1> HIDE DEF Held, Back
<1> QED
  BY <1>0, <1>6, <1>7, <1>8, <1>9, <1>10, <1>11, <1>12, <1>13, NextActions

---------------------------------------------------------------------------
(* Whom the next output will preempt. *)

LEMMA ThreatsStep ==
    ASSUME DecodeBatchAssumption, CalmEngines, Poised, Frame', Next
    PROVE  Threats'
<1>0. /\ Frame /\ Shapes /\ AllLive /\ Tried /\ ListedOnce /\ KeepOnce /\ Strays /\ Threats /\ PlanShape /\ Resting /\ Unfinished
  BY DEF Poised, Sound, Flow, Distinct, Calm, Frame
<1>1. turn \in TurnSet /\ turn.left \in Nat /\ turn.keep \in Seq(Nat) /\ status \in [Seqs -> Statuses] /\ toEvict \subseteq Slots
  BY <1>0 DEF Shapes, TurnShape, SeqShape, MakerShape, TurnSet
<1> DEFINE Alive == \A t \in Seqs : t \in toEvict => status[t] # "none"
           Clear == /\ pc = "next" => toEvict = {}
                    /\ pc = "send" => \A t \in Seqs : ~Threat(t)
           Safe  == pc # "wait" => \A t \in Seqs : Threat(t) => Attended
           Due   == pc = "wait" => \A t \in toEvict \cap Active : Attended \/ \E f \in Unstarted : f.lane = "decode"
           Apart == \A f \in Unstarted : f.lane = "decode" =>
                      \A i \in DOMAIN f.rows : f.rows[i].seq \in Active => f.rows[i].seq \notin toEvict
<1>2. Alive /\ Clear /\ Safe /\ Due /\ Apart
  BY <1>0 DEF Threats, Live, RowsOf
<1>3. SUFFICES Alive' /\ Clear' /\ Safe' /\ Due' /\ Apart'
  BY DEF Threats, Live, RowsOf
<1>4. ASSUME Attended, ~SendLastChunk PROVE Attended'
  BY <1>4, AttendedStays
<1>5. \A t \in toEvict \cap Active : t \in Seqs /\ Threat(t)
  BY StatusSets
<1>6. \A t \in toEvict' \cap Active' : t \in Seqs /\ t \in toEvict' /\ status'[t] \in {"WAITING", "READY", "RUNNING"}
  BY StatusSets
<1>7. ASSUME NEW s \in Seqs, Adds(s) \/ StopSession(s), MildStep PROVE Alive' /\ Clear' /\ Safe' /\ Due' /\ Apart'
  <2>1. Unstarted' = Unstarted /\ pc' = pc /\ pc \in Await /\ ~SendLastChunk /\ toEvict' = toEvict
        /\ Active' \subseteq Active /\ \A t \in Seqs : status[t] # "none" => status'[t] # "none"
    BY <1>0, <1>7, UnstartedSteps DEF MildStep, Await, SendLastChunk, TryChunk
  <2>2. \A t \in Seqs : t \in toEvict' /\ status'[t] \in {"WAITING", "READY", "RUNNING"} => Threat(t)
    BY <1>0, <1>2, <1>7, <2>1, ClientStatus, StatusSets
  <2>3. Alive'
    BY <1>2, <2>1
  <2>4. Clear' /\ Safe'
    BY <1>2, <1>4, <2>1, <2>2, StatusSets DEF Await
  <2>5. Due' /\ Apart'
    BY <1>2, <1>4, <2>1
  <2> QED
    BY <2>3, <2>4, <2>5
<1>8. ASSUME NEW e \in Seqs, EndSession(e), EndStep(e) PROVE Alive' /\ Clear' /\ Safe' /\ Due' /\ Apart'
  <2>1. pc' = pc /\ pc \in Await /\ ~SendLastChunk /\ Gone \notin Seqs
        /\ \A u \in Seqs : status'[u] = IF u = e THEN "none" ELSE status[u]
    BY <1>8 DEF EndStep, Await, SendLastChunk, TryChunk, DecodeBatchAssumption
  <2>2. \A t \in Seqs : t \in toEvict' => t # e /\ t \in toEvict
    BY <1>0, <1>8, EndMore
  <2>3. Active' = Active \ {e} /\ Active \subseteq Seqs
    BY <1>0, <1>8, RunningSteps
  <2>4. \A t \in Seqs : t \in toEvict' /\ status'[t] \in {"WAITING", "READY", "RUNNING"} => Threat(t)
    BY <2>1, <2>2, StatusSets
  <2>5. Alive'
    BY <1>2, <2>1, <2>2
  <2>6. Clear' /\ Safe'
    BY <1>2, <1>4, <2>1, <2>4, StatusSets DEF Await
  <2>7. Due'
    <3>1. (\E f \in Unstarted : f.lane = "decode") => \E g \in Unstarted' : g.lane = "decode"
      BY <1>0, <1>8, UnstartedKept DEF Ghosted
    <3> QED
      BY <1>2, <1>4, <2>1, <2>2, <2>3, <3>1
  <2>8. Apart'
    <3> SUFFICES ASSUME NEW g \in Unstarted', g.lane = "decode", NEW i \in DOMAIN g.rows, g.rows[i].seq \in Active'
                 PROVE  g.rows[i].seq \notin toEvict'
      OBVIOUS
    <3>1. PICK f \in Unstarted : Ghosted(e, f, g)
      BY <1>0, <1>8, UnstartedSteps
    <3>2. i \in DOMAIN f.rows /\ g.rows[i].seq = f.rows[i].seq /\ g.lane = f.lane
      BY <2>1, <2>3, <3>1 DEF Ghosted, Ghost
    <3> QED
      BY <1>2, <2>2, <2>3, <3>2
  <2> QED
    BY <2>5, <2>6, <2>7, <2>8
<1>9. ASSUME BeginStep PROVE Alive' /\ Clear' /\ Safe' /\ Due' /\ Apart'
  <2>1. Unstarted' = {} /\ status' = status /\ toEvict' = toEvict /\ pc' = "try" /\ pc \in {"send", "prefetch"} /\ ~SendLastChunk
    BY <1>0, <1>9, UnstartedSteps DEF BeginStep, seqVars, SendLastChunk, TryChunk
  <2> QED
    BY <1>2, <1>4, <2>1, StatusSets
<1>10. ASSUME Quiet, QuietStep PROVE Alive' /\ Clear' /\ Safe' /\ Due' /\ Apart'
  <2>1. Unstarted' = {} /\ status' = status /\ Unstarted = {} /\ queue' = queue /\ pc \in InPass /\ Active' = Active
    BY <1>0, <1>10, UnstartedSteps, PlaceFacts, RunningSteps DEF QuietStep, seqVars, workVars
  <2>2. ~SendLastChunk
    <3>1. ~SendLastChunk \/ Len(queue') = Len(queue) + 1
      <4>1. SendLastChunk => \E f : Sent(f)
        BY <1>0, SendFacts DEF Sends
      <4> QED
        BY <1>0, <4>1, SentFacts
    <3>2. Len(queue) \in Nat
      BY <1>0, PlaceFacts
    <3> QED
      BY <2>1, <3>1, <3>2
  <2>3. Apart'
    BY <2>1
  <2>4. CASE EndPass
    <3>1. pc = "try" /\ turn.plan = <<>> /\ pc' = NothingSent /\ toEvict' = toEvict
      BY <2>4 DEF EndPass, makerVars
    <3>2. \A t \in Seqs : Threat(t) => Attended
      BY <1>2, <3>1
    <3>3. queue = <<>> => \A t \in Seqs : ~Threat(t)
      <4>1. Active \subseteq Seqs
        BY <1>0, RunningSteps
      <4>2. ~Plans("chunk")
        BY <3>1 DEF Plans
      <4> QED
        BY <1>0, <2>1, <3>2, <4>1, <4>2 DEF Resting, Attended
    <3> QED
      BY <1>2, <1>4, <1>5, <2>1, <2>2, <2>3, <3>1, <3>2, <3>3, StatusSets DEF NothingSent
  <2>5. CASE NoDecode
    <3>1. pc = "grow" /\ pc' = "try" /\ turn.left = 0 /\ turn.keep = <<>> /\ toEvict' = LeftOut
      BY <2>5 DEF NoDecode
    <3>2. ASSUME NEW t \in toEvict', t \in Seqs PROVE \E i \in DOMAIN running : running[i] = t
      BY <3>1, <3>2 DEF LeftOut
    <3>3. Alive'
      BY <1>0, <2>1, <3>2 DEF AllLive, Live
    <3>4. ASSUME NEW t \in Seqs, t \in toEvict', status[t] \in {"WAITING", "READY", "RUNNING"} PROVE Attended
      <4>1. PICK i \in DOMAIN running : running[i] = t
        BY <3>2, <3>4
      <4>2. t \notin Running
        <5>1. i \in Nat /\ i >= 1
          BY <1>0, <4>1 DEF Shapes, MakerShape
        <5>2. t \in Running => i <= 0
          BY <1>0, <3>1, <4>1 DEF Tried
        <5> QED
          BY <5>1, <5>2
      <4>3. Waits(t)
        BY <3>4, <4>2, StatusSets
      <4>4. ~(turn.keep # <<>> \/ \E j \in 1..turn.left : running[j] \in Running)
        BY <3>1
      <4> QED
        BY <1>0, <2>1, <3>1, <4>1, <4>3, <4>4 DEF Strays
    <3> QED
      BY <1>4, <2>1, <2>2, <2>3, <3>1, <3>3, <3>4, StatusSets
  <2>6. CASE EnterPrefill \/ NothingAdmitted \/ (\E s \in Seqs : PassOver(s)) \/ EnterDecode \/ DropStopped \/ KeepRow
    <3>1. toEvict' = toEvict /\ pc' \in InPass
      BY <2>1, <2>6 DEF EnterPrefill, EnterLane, NothingAdmitted, PassOver, Candidate, EnterDecode, DropStopped, KeepRow,
                        makerVars, InPass
    <3> QED
      BY <1>2, <1>4, <2>1, <2>2, <2>3, <3>1, StatusSets DEF InPass
  <2> QED
    BY <1>10, <2>4, <2>5, <2>6 DEF Quiet
<1>11. ASSUME Pages, PageStep PROVE Alive' /\ Clear' /\ Safe' /\ Due' /\ Apart'
  <2>1. Unstarted' = {} /\ toEvict' = toEvict /\ pc' = pc /\ pc \in InPass /\ ~SendLastChunk
        /\ \A s \in Seqs : status[s] # "none" => status'[s] # "none"
    <3>1. ~SendLastChunk
      BY <1>11 DEF PageStep, SendLastChunk, DispatchPrefill, Dispatch, workVars, InPass
    <3> QED
      BY <1>0, <1>11, <3>1, UnstartedSteps DEF PageStep, makerVars
  <2>2. \A t \in Seqs : status'[t] \in {"WAITING", "READY", "RUNNING"} => status[t] \in {"WAITING", "READY", "RUNNING"}
    <3>1. (\E s \in Seqs : Admits(s)) \/ status' = status \/ \E s \in Seqs : RowRefused(s)
      BY <1>11, PageMore DEF GivesUp, ChunkWaits, RowGrows
    <3>2. ASSUME NEW s \in Seqs, Admits(s) \/ RowRefused(s)
          PROVE  status[s] \in {"WAITING", "RUNNING"} /\ \A t \in Seqs : t # s => status'[t] = status[t]
      BY <1>1, <3>2, StatusSets DEF Admits, RowRefused
    <3> QED
      BY <3>1, <3>2
  <2> QED
    BY <1>2, <1>4, <2>1, <2>2, StatusSets DEF InPass
<1>12. ASSUME Sends PROVE Alive' /\ Clear' /\ Safe' /\ Due' /\ Apart'
  <2>1. status' = status /\ pc \in InPass /\ pc' \in {"sent", "wait"} /\ (pc' = "sent" <=> queue = <<>>) /\ Active' = Active
    <3>1. PICK f : Sent(f)
      BY <1>0, <1>12, SendFacts
    <3> QED
      BY <1>0, <1>12, <3>1, SendFacts, SentFacts, RunningSteps
  <2>2. CASE ~SendDecode
    <3>1. toEvict' = toEvict
      BY <1>12, <2>2 DEF Sends, SendPrefill, SendFirstChunk, SendNextChunk, SendLastChunk
    <3>2. Alive' /\ Clear'
      BY <1>2, <2>1, <3>1
    <3>3. Apart'
      <4>1. PICK f : SentPrefill(f) \/ SentChunk(f) \/ SentDecode(f)
        BY <1>0, <1>12, SendKinds
      <4>2. ~SentDecode(f)
        <5>1. SentDecode(f) => pc = "grow"
          BY DEF SentDecode
        <5> QED
          BY <1>12, <2>2, <5>1 DEF Sends, SendPrefill, SendFirstChunk, SendNextChunk, SendLastChunk, TryChunk, Admitted
      <4>3. f.lane # "decode" /\ Sent(f)
        BY <4>1, <4>2 DEF SentPrefill, SentChunk
      <4>4. Unstarted' = {f}
        BY <1>0, <1>12, <4>3, UnstartedSteps
      <4> QED
        BY <4>3, <4>4
    <3>4. CASE ~SendLastChunk
      BY <1>2, <1>4, <1>5, <2>1, <3>1, <3>2, <3>3, <3>4, StatusSets DEF InPass
    <3>5. CASE SendLastChunk
      <4>1. ~IsLong(chunk.seq)
        BY <3>5 DEF SendLastChunk
      <4>2. toEvict \cap Active = {} /\ (queue = <<>> => \A t \in Seqs : ~Threat(t))
        BY <1>0, <2>1, <4>1 DEF Unfinished
      <4> QED
        BY <2>1, <3>1, <3>2, <3>3, <4>2, StatusSets
    <3> QED
      BY <3>4, <3>5
  <2>3. CASE SendDecode
    <3>1. toEvict' = LeftOut /\ pc' = "wait" /\ pc = "grow"
      BY <2>1, <2>3, DecodeBusy DEF SendDecode
    <3>2. Alive'
      <4>1. \A t \in LeftOut : \E i \in DOMAIN running : running[i] = t
        BY DEF LeftOut
      <4> QED
        BY <1>0, <2>1, <3>1, <4>1 DEF AllLive, Live
    <3>3. PICK f : SentDecode(f) /\ f.lane = "decode"
      <4>1. PICK f \in ForwardSet :
              /\ Dispatch(f) /\ f.lane = "decode"
              /\ DOMAIN f.rows = DOMAIN turn.keep
              /\ \A i \in DOMAIN turn.keep : f.rows[i] = DecodeRow(running[turn.keep[i]])
              /\ f.reindex /\ f.keep = turn.keep /\ ~f.scoring /\ Len(f.rows) = Len(f.keep)
        BY <1>0, <2>3, DecodeForward
      <4>2. running' = running /\ chunk' = chunk /\ pc = "grow" /\ turn.left = 0
        BY <2>3 DEF SendDecode
      <4> QED
        BY <4>1, <4>2 DEF SentDecode, Sent
    <3>4. Unstarted' = {f}
      BY <1>0, <1>12, <3>3, UnstartedSteps DEF SentDecode
    <3>5. ASSUME NEW i \in DOMAIN f.rows PROVE f.rows[i].seq \notin LeftOut
      <4>1. f.rows[i].seq = running[turn.keep[i]] /\ i \in DOMAIN turn.keep /\ turn.keep[i] \in DOMAIN running
        BY <1>0, <3>3, <3>5, DecodeRows
      <4>2. running[turn.keep[i]] \in Running
        BY <1>0, <3>1, <4>1 DEF KeepOnce
      <4>3. ASSUME NEW k \in DOMAIN running \ {turn.keep[j] : j \in DOMAIN turn.keep}, running[k] = running[turn.keep[i]]
            PROVE  FALSE
        BY <1>0, <4>1, <4>2, <4>3 DEF ListedOnce
      <4> QED
        BY <4>1, <4>3 DEF LeftOut
    <3>6. Apart'
      BY <3>1, <3>4, <3>5
    <3> QED
      BY <3>1, <3>2, <3>3, <3>4, <3>6
  <2> QED
    BY <2>2, <2>3
<1>13. ASSUME ActivateStep PROVE Alive' /\ Clear' /\ Safe' /\ Due' /\ Apart'
  <2>1. Unstarted' = {} /\ toEvict' = toEvict /\ pc' = "prefetch" /\ pc \in {"sent", "next"} /\ ~SendLastChunk
        /\ \A t \in Seqs : status'[t] = status[t] \/ (status[t] = "READY" /\ status'[t] = "RUNNING")
    BY <1>0, <1>13, UnstartedSteps DEF ActivateStep, SendLastChunk, TryChunk
  <2> QED
    BY <1>2, <1>4, <2>1, StatusSets
<1>14. ASSUME pc = "wait", CollectStep PROVE Alive' /\ Clear' /\ Safe' /\ Due' /\ Apart'
  <2>1. toEvict' = {}
    BY <1>14 DEF CollectStep
  <2> QED
    BY <2>1, StatusSets
<1> HIDE DEF Alive, Clear, Safe, Due, Apart
<1> QED
  BY <1>0, <1>7, <1>8, <1>9, <1>10, <1>11, <1>12, <1>13, <1>14, NextActions

---------------------------------------------------------------------------
(* While somebody may be readmitted, the chunk is not the last one. *)

LEMMA UnfinishedStep ==
    ASSUME DecodeBatchAssumption, CalmEngines, Poised, Frame', Next
    PROVE  Unfinished'
<1>0. /\ Frame /\ Shapes /\ Tried /\ Strays /\ Threats /\ PlanShape /\ Resting /\ Unfinished /\ ReadySent
  BY DEF Poised, Sound, Flow, Calm, Frame
<1>1. turn \in TurnSet /\ turn.left \in Nat /\ turn.keep \in Seq(Nat) /\ status \in [Seqs -> Statuses] /\ Active \subseteq Seqs
  BY <1>0, RunningSteps DEF Shapes, TurnShape, SeqShape, TurnSet
<1> DEFINE Both == pc \in {"sent", "prefetch"} \cup InPass => \A t \in toEvict \cap Active : IsLong(chunk.seq)
           Idly == pc \in InPass /\ queue = <<>> => \A t \in Seqs : Threat(t) => IsLong(chunk.seq)
           None == pc = "sent" /\ Head1.lane = "chunk" => toEvict \cap Active = {}
<1>2. Both /\ Idly /\ None
  BY <1>0 DEF Unfinished
<1>3. SUFFICES Both' /\ Idly' /\ None'
  BY DEF Unfinished
<1>4. ASSUME Attended, ~SendLastChunk, ~Activate, IsLong(chunk.seq) PROVE IsLong(chunk.seq)'
  <2>1. chunk'.seq = chunk.seq /\ len'[chunk.seq] = len[chunk.seq] /\ hist'[chunk.seq] = hist[chunk.seq]
    BY <1>4, AttendedStays
  <2> QED
    BY <1>4, <2>1 DEF IsLong, NumTokens
<1>5. pc # "wait" => \A t \in Seqs : Threat(t) => Attended
  BY <1>0 DEF Threats
<1>6. \A t \in Active : t \in toEvict => t \in Seqs /\ Threat(t)
  BY StatusSets
<1>7. CASE MildStep
  <2>1. pc' = pc /\ pc \in Await /\ ~SendLastChunk /\ toEvict' = toEvict /\ Active' \subseteq Active /\ queue' = queue
    BY <1>7 DEF MildStep, Await, SendLastChunk, TryChunk, workVars
  <2>2. ASSUME pc = "sent", NEW t \in toEvict', t \in Active' PROVE IsLong(chunk.seq)'
    <3>1. ~Activate
      BY <1>7 DEF MildStep, Activate
    <3> QED
      BY <1>2, <1>4, <1>5, <1>6, <2>1, <2>2, <3>1
  <2>3. None'
    BY <1>2, <2>1 DEF Head1
  <2> QED
    BY <2>1, <2>2, <2>3 DEF Await, InPass
<1>8. ASSUME NEW e \in Seqs, EndSession(e), EndStep(e) PROVE Both' /\ Idly' /\ None'
  <2>1. pc' = pc /\ pc \in Await /\ ~SendLastChunk /\ ~Activate
    BY <1>8 DEF EndStep, Await, SendLastChunk, TryChunk, Activate
  <2>2. (\A t \in Seqs : t \in toEvict' => t # e /\ t \in toEvict) /\ Active' = Active \ {e}
    BY <1>0, <1>8, EndMore, RunningSteps
  <2>3. ASSUME pc = "sent", NEW t \in toEvict', t \in Active' PROVE IsLong(chunk.seq)'
    BY <1>1, <1>2, <1>4, <1>5, <1>6, <2>1, <2>2, <2>3
  <2>4. None'
    <3>1. pc = "sent" => Head1'.lane = Head1.lane
      <4>1. pc = "sent" => 1 \in DOMAIN queue
        BY <1>0, PlaceFacts
      <4> QED
        BY <1>0, <1>8, <4>1, GhostedQueue DEF Ghosted, Head1
    <3> QED
      BY <1>1, <1>2, <2>1, <2>2, <3>1
  <2> QED
    BY <2>1, <2>3, <2>4 DEF Await, InPass
<1>9. CASE BeginStep
  <2>1. /\ status' = status /\ toEvict' = toEvict /\ queue' = queue /\ pc' = "try" /\ pc \in {"send", "prefetch"}
        /\ ~SendLastChunk /\ ~Activate /\ Active' = Active
    BY <1>0, <1>9, RunningSteps DEF BeginStep, seqVars, workVars, SendLastChunk, TryChunk, Activate
  <2>2. CASE pc = "send"
    <3>1. \A t \in Seqs : ~Threat(t)
      BY <1>0, <2>2 DEF Threats
    <3> QED
      BY <1>1, <1>6, <2>1, <3>1, StatusSets
  <2>3. CASE pc = "prefetch"
    <3>1. queue # <<>>
      BY <1>0, <2>3, PlaceFacts DEF Frame, QueueShape
    <3> QED
      BY <1>2, <1>4, <1>5, <1>6, <2>1, <2>3, <3>1
  <2> QED
    BY <2>1, <2>2, <2>3
<1>10. CASE Quiet /\ QuietStep
  <2>1. /\ status' = status /\ queue' = queue /\ pc \in InPass /\ Active' = Active /\ Unstarted = {}
        /\ (IsLong(chunk.seq)' <=> IsLong(chunk.seq))
    <3>1. chunk' = chunk /\ len' = len /\ hist' = hist
      BY <1>10 DEF QuietStep, seqVars
    <3> QED
      BY <1>0, <1>10, <3>1, RunningSteps, PlaceFacts DEF QuietStep, seqVars, workVars, IsLong, NumTokens
  <2>2. pc' # "sent" /\ pc' # "prefetch"
    BY <1>10 DEF QuietStep, NothingSent, InPass
  <2>3. CASE ~NoDecode
    <3>1. toEvict' = toEvict
      BY <1>10, <2>3 DEF Quiet, EndPass, EnterPrefill, EnterLane, NothingAdmitted, PassOver, EnterDecode, DropStopped,
                         KeepRow, makerVars
    <3> QED
      BY <1>2, <2>1, <2>2, <3>1, StatusSets
  <2>4. CASE NoDecode
    <3>1. pc = "grow" /\ pc' = "try" /\ turn.left = 0 /\ turn.keep = <<>> /\ toEvict' = LeftOut
      BY <2>4 DEF NoDecode
    <3>2. ASSUME NEW t \in Seqs, t \in LeftOut, status[t] \in {"WAITING", "READY", "RUNNING"}
          PROVE  t \in Waiting /\ Attended
      <4>1. PICK i \in DOMAIN running : running[i] = t
        BY <3>2 DEF LeftOut
      <4>2. t \notin Running
        <5>1. i \in Nat /\ i >= 1
          BY <1>0, <4>1 DEF Shapes, MakerShape
        <5>2. t \in Running => i <= 0
          BY <1>0, <3>1, <4>1 DEF Tried
        <5> QED
          BY <5>1, <5>2
      <4>3. Waits(t) /\ t \in Waiting
        BY <1>0, <3>1, <3>2, <4>2, NobodyReady, StatusSets
      <4>4. ~(turn.keep # <<>> \/ \E j \in 1..turn.left : running[j] \in Running)
        BY <3>1
      <4> QED
        BY <1>0, <2>1, <3>1, <4>1, <4>3, <4>4 DEF Strays
    <3>3. Both'
      BY <2>1, <3>1, <3>2, StatusSets
    <3>4. Idly'
      <4>1. ASSUME queue = <<>>, Attended PROVE IsLong(chunk.seq)
        <5>1. chunk.seq \in Seqs /\ Plans("chunk")
          BY <1>0, <1>1, <2>1, <4>1 DEF Attended, Resting
        <5>2. turn.plan # <<>>
          BY <5>1 DEF Plans
        <5> QED
          BY <1>0, <2>1, <3>1, <5>1, <5>2 DEF PlanShape
      <4> QED
        BY <2>1, <3>1, <3>2, <4>1, StatusSets
    <3> QED
      BY <2>2, <3>3, <3>4
  <2> QED
    BY <2>3, <2>4
<1>11. CASE Pages /\ PageStep
  <2>1. toEvict' = toEvict /\ queue' = queue /\ pc' = pc /\ pc \in InPass /\ ~SendLastChunk /\ ~Activate
    <3>1. ~SendLastChunk /\ ~Activate
      BY <1>11 DEF PageStep, SendLastChunk, DispatchPrefill, Dispatch, Activate, workVars, InPass
    <3> QED
      BY <1>11, <3>1 DEF PageStep, makerVars, workVars
  <2>2. \A t \in Seqs : status'[t] \in {"WAITING", "READY", "RUNNING"} =>
          /\ status[t] \in {"WAITING", "READY", "RUNNING"}
          /\ status'[t] \in {"READY", "RUNNING"} => status[t] \in {"READY", "RUNNING"} \/ pc = "admit"
    <3>1. (\E s \in Seqs : Admits(s)) \/ status' = status \/ \E s \in Seqs : RowRefused(s)
      BY <1>11, PageMore DEF GivesUp, ChunkWaits, RowGrows
    <3>2. ASSUME NEW s \in Seqs, Admits(s)
          PROVE  status[s] = "WAITING" /\ pc = "admit" /\ \A t \in Seqs : t # s => status'[t] = status[t]
      BY <1>1, <3>2, StatusSets DEF Admits
    <3>3. ASSUME NEW s \in Seqs, RowRefused(s)
          PROVE  status[s] = "RUNNING" /\ \A t \in Seqs : t # s => status'[t] = status[t]
      BY <1>1, <3>3, StatusSets DEF RowRefused
    <3> QED
      BY <3>1, <3>2, <3>3
  <2>3. ASSUME NEW t \in Seqs, Threat(t), IsLong(chunk.seq) PROVE IsLong(chunk.seq)'
    BY <1>4, <1>5, <2>1, <2>3 DEF InPass
  <2>4. ASSUME NEW t \in Seqs, Threat(t), pc = "admit" PROVE IsLong(chunk.seq)
    BY <1>0, <1>1, <1>5, <2>4 DEF PlanShape, Attended, InPass
  <2>5. Idly'
    BY <1>2, <2>1, <2>2, <2>3, StatusSets
  <2>6. ASSUME NEW t \in toEvict', t \in Active' PROVE IsLong(chunk.seq)'
    <3>1. t \in Seqs /\ Threat(t) /\ (t \in Active \/ pc = "admit")
      BY <2>1, <2>2, <2>6, StatusSets
    <3> QED
      BY <1>2, <2>1, <2>3, <2>4, <2>6, <3>1
  <2> QED
    BY <2>1, <2>5, <2>6 DEF InPass
<1>12. CASE Sends
  <2>1. status' = status /\ pc \in InPass /\ pc' \in {"sent", "wait"} /\ (pc' = "sent" <=> queue = <<>>) /\ Active' = Active
        /\ ~Activate
    <3>1. PICK f : Sent(f)
      BY <1>0, <1>12, SendFacts
    <3> QED
      BY <1>0, <1>12, <3>1, SendFacts, SentFacts, RunningSteps DEF InPass, Activate
  <2>2. SUFFICES ASSUME queue = <<>> PROVE Both' /\ None'
    BY <2>1 DEF InPass
  <2>3. ~SendDecode
    BY <2>2, DecodeBusy
  <2>4. toEvict' = toEvict
    BY <1>12, <2>3 DEF Sends, SendPrefill, SendFirstChunk, SendNextChunk, SendLastChunk
  <2>5. Both'
    <3> SUFFICES ASSUME NEW t \in toEvict, t \in Active PROVE IsLong(chunk.seq)'
      BY <2>1, <2>4
    <3>1. IsLong(chunk.seq) /\ Attended
      BY <1>2, <1>5, <1>6, <2>1 DEF InPass
    <3>2. ~SendLastChunk
      BY <3>1 DEF SendLastChunk
    <3> QED
      BY <1>4, <2>1, <3>1, <3>2
  <2>6. None'
    <3>1. CASE SendFirstChunk
      <4>1. \A t \in Seqs : ~Threat(t)
        BY <3>1, FirstChunkAlone
      <4> QED
        BY <1>6, <2>1, <2>4, <4>1
    <3>2. CASE SendNextChunk
      <4>1. pc = "try"
        BY <3>2 DEF SendNextChunk, TryChunk
      <4> QED
        BY <2>1, <2>2, <2>4, <4>1, OnlyChunk
    <3>3. CASE SendPrefill \/ SendLastChunk
      <4>1. PICK f : Dispatch(f) /\ f.lane = "prefill"
        BY <3>3 DEF SendPrefill, SendLastChunk, DispatchPrefill
      <4>2. queue' = <<f>>
        BY <2>2, <4>1 DEF Dispatch
      <4> QED
        BY <4>1, <4>2 DEF Head1
    <3> QED
      BY <1>12, <2>3, <3>1, <3>2, <3>3 DEF Sends
  <2> QED
    BY <2>5, <2>6
<1>13. CASE ActivateStep
  <2>1. toEvict' = toEvict /\ pc' = "prefetch" /\ pc \in {"sent", "next"} /\ chunk'.seq = chunk.seq /\ len' = len
        /\ \A t \in Seqs : /\ status'[t] = status[t] \/ (status[t] = "READY" /\ status'[t] = "RUNNING")
                           /\ hist'[t] # hist[t] => Head1.lane = "chunk"
    BY <1>13 DEF ActivateStep
  <2>2. ASSUME NEW t \in toEvict, t \in Active' PROVE IsLong(chunk.seq)'
    <3>1. t \in Active
      BY <2>1, <2>2, StatusSets
    <3>2. pc = "sent"
      BY <1>0, <2>1, <2>2 DEF Threats
    <3>3. Head1.lane # "chunk" /\ IsLong(chunk.seq) /\ Attended
      BY <1>2, <1>5, <1>6, <2>2, <3>1, <3>2
    <3>4. hist'[chunk.seq] = hist[chunk.seq]
      BY <1>1, <2>1, <3>3 DEF Attended
    <3> QED
      BY <2>1, <3>3, <3>4 DEF IsLong, NumTokens
  <2> QED
    BY <2>1, <2>2 DEF InPass
<1>14. CASE CollectStep
  <2>1. toEvict' = {}
    BY <1>14 DEF CollectStep
  <2> QED
    BY <2>1, StatusSets
<1> HIDE DEF Both, Idly, None
<1> QED
  BY <1>0, <1>7, <1>8, <1>9, <1>10, <1>11, <1>12, <1>13, <1>14, NextActions

---------------------------------------------------------------------------
(* The chunker's sequence is in no other forward, and not on the list. *)

LEMMA SingleStep ==
    ASSUME DecodeBatchAssumption, CalmEngines, Poised, Frame', Next
    PROVE  Single'
<1>0. /\ Frame /\ Shapes /\ Threats /\ PlanShape /\ Single /\ ChunkApart /\ LongAlone /\ KeepOnce
  BY DEF Poised, Sound, Flow, Distinct, Calm, Frame
<1>1. /\ chunk.seq \in Active => chunk.seq \notin toEvict
      /\ \A q \in DOMAIN queue : (\E i \in DOMAIN queue[q].rows : queue[q].rows[i].seq = chunk.seq) /\ chunk.seq \in Active
           => queue[q].lane = "chunk"
  BY <1>0 DEF Single, Has, RowsOf
<1> DEFINE Out  == chunk'.seq \notin toEvict'
           Alone == \A q \in DOMAIN queue' : (\E i \in DOMAIN queue'[q].rows : queue'[q].rows[i].seq = chunk'.seq)
                      => queue'[q].lane = "chunk"
<1>2. SUFFICES ASSUME chunk'.seq \in Active' PROVE Out /\ Alone
  BY DEF Single, Has, RowsOf
<1>3. /\ NoChunk.seq \notin Active' /\ Active' \subseteq Seqs /\ Gone \notin Seqs
      /\ chunk' # NoChunk
  <2>1. NoChunk.seq = Gone /\ Gone \notin Seqs
    BY DEF NoChunk, DecodeBatchAssumption
  <2> QED
    BY <1>2, <2>1, StatusSets
<1>4. LeftOut \subseteq {running[i] : i \in DOMAIN running}
  BY DEF LeftOut
<1>5. CASE MildStep
  <2>1. chunk' = chunk /\ Active' \subseteq Active /\ toEvict' = toEvict /\ queue' = queue
    BY <1>3, <1>5 DEF MildStep, workVars
  <2> QED
    BY <1>1, <1>2, <2>1
<1>6. ASSUME NEW e \in Seqs, EndSession(e), EndStep(e) PROVE Out /\ Alone
  <2>1. chunk' = [chunk EXCEPT !.seq = Ghost(e, chunk.seq)]
    BY <1>3, <1>6 DEF EndStep
  <2>2. chunk'.seq = chunk.seq /\ chunk.seq # e
    <3>1. chunk'.seq = Ghost(e, chunk.seq)
      BY <1>0, <2>1 DEF Shapes, MakerShape
    <3> QED
      BY <1>2, <1>3, <3>1 DEF Ghost
  <2>3. Active' = Active \ {e} /\ \A t \in Seqs : t \in toEvict' => t \in toEvict
    BY <1>0, <1>6, RunningSteps, EndMore
  <2>4. Alone
    <3> SUFFICES ASSUME NEW q \in DOMAIN queue', NEW i \in DOMAIN queue'[q].rows, queue'[q].rows[i].seq = chunk'.seq
                 PROVE  queue'[q].lane = "chunk"
      OBVIOUS
    <3>1. q \in DOMAIN queue /\ Ghosted(e, queue[q], queue'[q])
      BY <1>0, <1>6, GhostedQueue
    <3>2. i \in DOMAIN queue[q].rows /\ queue[q].rows[i].seq = chunk.seq /\ queue'[q].lane = queue[q].lane
      BY <1>2, <1>3, <2>2, <3>1 DEF Ghosted, Ghost
    <3> QED
      BY <1>1, <1>2, <2>2, <2>3, <3>1, <3>2
  <2> QED
    BY <1>1, <1>2, <1>3, <2>2, <2>3, <2>4
<1>7. CASE BeginStep
  <2>1. chunk' = chunk /\ Active' = Active /\ toEvict' = toEvict /\ queue' = queue
    BY <1>0, <1>3, <1>7, RunningSteps DEF BeginStep, workVars
  <2> QED
    BY <1>1, <1>2, <2>1
<1>8. CASE Quiet /\ QuietStep
  <2>1. chunk' = chunk /\ Active' = Active /\ queue' = queue
    BY <1>0, <1>8, RunningSteps DEF QuietStep, workVars
  <2>2. toEvict' = toEvict \/ toEvict' = LeftOut
    BY <1>8 DEF Quiet, EndPass, EnterPrefill, EnterLane, NothingAdmitted, PassOver, EnterDecode, DropStopped,
                KeepRow, NoDecode, makerVars
  <2> QED
    BY <1>0, <1>1, <1>2, <1>4, <2>1, <2>2 DEF ChunkApart, Listed
<1>9. CASE Pages /\ PageStep
  <2>1. chunk' = chunk /\ queue' = queue /\ toEvict' = toEvict /\ pc \in InPass
    BY <1>9 DEF PageStep, makerVars, workVars
  <2>2. chunk.seq \in Active
    BY <1>0, <1>2, <1>3, <2>1, StatusSets DEF PlanShape
  <2> QED
    BY <1>1, <2>1, <2>2
<1>10. CASE Sends
  <2>1. PICK f : SentPrefill(f) \/ SentChunk(f) \/ SentDecode(f)
    BY <1>0, <1>10, SendKinds
  <2>2. /\ Active' = Active /\ pc \in InPass
        /\ DOMAIN queue' = DOMAIN queue \cup {Len(queue) + 1}
        /\ queue'[Len(queue) + 1] = f /\ \A q \in DOMAIN queue : queue'[q] = queue[q]
    BY <1>0, <1>10, <2>1, RunningSteps, SendFacts, SentFacts DEF SentPrefill, SentChunk, SentDecode
  <2>3. chunk.seq \in Seqs => status[chunk.seq] = "RUNNING"
    BY <1>0, <2>2, StatusSets DEF PlanShape
  <2>4. CASE SendFirstChunk
    <3>1. /\ chunk'.seq = turn.batch[1] /\ turn.batch[1] \in Seqs /\ status[turn.batch[1]] = "READY"
          /\ (\A t \in Seqs : ~Threat(t)) /\ pc = "admit"
          /\ (queue # <<>> /\ Head1.lane # "chunk" => ~Has(Head1, turn.batch[1]))
      BY <2>4, FirstChunkAlone
    <3>2. toEvict' = toEvict
      BY <2>4 DEF SendFirstChunk
    <3>3. Out
      BY <3>1, <3>2, StatusSets
    <3>4. f.lane = "chunk"
      <4>1. PICK g : Dispatch(g) /\ g.lane = "chunk"
        BY <2>4 DEF SendFirstChunk, DispatchChunk
      <4>2. f = g
        <5>1. queue' = Append(queue, g) /\ queue \in Seq(ForwardSet)
          BY <1>0, <4>1, PlaceFacts DEF Dispatch
        <5> QED
          BY <2>2, <5>1
      <4> QED
        BY <4>1, <4>2
    <3>5. \A q \in DOMAIN queue : q = 1 /\ queue # <<>>
      <4>1. DOMAIN queue = 1..Len(queue) /\ Len(queue) \in Nat /\ Len(queue) <= 1 /\ (queue = <<>> <=> Len(queue) = 0)
        BY <1>0, <2>2, PlaceFacts
      <4> QED
        BY <4>1
    <3>6. Alone
      BY <2>2, <3>1, <3>4, <3>5 DEF Has, RowsOf, Head1
    <3> QED
      BY <3>3, <3>6
  <2>5. CASE ~SendFirstChunk
    <3>1. chunk' = chunk /\ (toEvict' = toEvict \/ toEvict' = LeftOut)
      BY <1>3, <1>10, <2>5 DEF Sends, SendPrefill, SendNextChunk, SendLastChunk, SendDecode
    <3>2. Out
      BY <1>0, <1>1, <1>2, <1>4, <2>2, <3>1 DEF ChunkApart, Listed
    <3>3. ASSUME NEW i \in DOMAIN f.rows, f.rows[i].seq = chunk.seq PROVE f.lane = "chunk"
      <4>1. CASE SentPrefill(f)
        <5>1. pc = "admit" /\ DOMAIN f.rows = DOMAIN turn.batch /\ f.rows[i].seq = turn.batch[i]
          BY <1>0, <1>3, <3>1, <3>3, <4>1, PrefillRows
        <5>2. status[chunk.seq] = "READY" /\ chunk.seq \in Seqs
          BY <1>0, <1>2, <1>3, <3>1, <3>3, <5>1 DEF LongAlone
        <5> QED
          BY <2>3, <5>2
      <4>2. CASE SentChunk(f)
        BY <4>2 DEF SentChunk
      <4>3. CASE SentDecode(f)
        <5>1. turn.keep[i] \in DOMAIN running /\ f.rows[i].seq = running[turn.keep[i]]
          BY <1>0, <3>3, <4>3, DecodeRows
        <5> QED
          BY <1>0, <1>2, <2>2, <3>1, <3>3, <5>1 DEF ChunkApart, Listed
      <4> QED
        BY <2>1, <4>1, <4>2, <4>3
    <3>4. Alone
      BY <1>1, <1>2, <2>2, <3>1, <3>3
    <3> QED
      BY <3>2, <3>4
  <2> QED
    BY <2>4, <2>5
<1>11. CASE ActivateStep
  <2>1. chunk'.seq = chunk.seq /\ toEvict' = toEvict /\ queue' = queue
        /\ \A t \in Seqs : status'[t] = status[t] \/ status[t] = "READY"
    BY <1>11 DEF ActivateStep, workVars
  <2>2. chunk.seq \in Active
    BY <1>2, <2>1, StatusSets
  <2> QED
    BY <1>1, <2>1, <2>2
<1>12. CASE CollectStep
  <2>1. chunk' = chunk /\ Active' \subseteq Active /\ toEvict' = {} /\ queue' = Tail(queue) /\ queue # <<>>
    BY <1>3, <1>12 DEF CollectStep
  <2>2. \A q \in DOMAIN queue' : q + 1 \in DOMAIN queue /\ queue'[q] = queue[q + 1]
    <3>1. queue \in Seq(ForwardSet)
      BY <1>0, PlaceFacts
    <3> QED
      BY <2>1, <3>1, TailOf
  <2> QED
    BY <1>1, <1>2, <2>1, <2>2
<1> HIDE DEF Out, Alone
<1> QED
  BY <1>0, <1>5, <1>6, <1>7, <1>8, <1>9, <1>10, <1>11, <1>12, NextActions

LEMMA ChunkApartStep ==
    ASSUME DecodeBatchAssumption, CalmEngines, Poised, Frame', Next
    PROVE  ChunkApart'
<1>0. /\ Frame /\ Shapes /\ PlanShape /\ Single /\ ChunkApart
  BY DEF Poised, Sound, Calm, Frame
<1>1. SUFFICES ASSUME chunk'.seq \in Active', NEW k \in DOMAIN running', running'[k] = chunk'.seq PROVE FALSE
  BY DEF ChunkApart, Listed
<1>2. chunk.seq \in Active => \A i \in DOMAIN running : running[i] # chunk.seq
  BY <1>0 DEF ChunkApart, Listed
<1>3. chunk' # NoChunk /\ Active' \subseteq Seqs /\ Gone \notin Seqs /\ NoChunk.seq = Gone
  <2>1. NoChunk.seq = Gone /\ Gone \notin Seqs
    BY DEF NoChunk, DecodeBatchAssumption
  <2> QED
    BY <1>1, <2>1, StatusSets
<1>4. CASE MildStep
  <2>1. chunk' = chunk /\ Active' \subseteq Active /\ running' = running
    BY <1>3, <1>4 DEF MildStep
  <2> QED
    BY <1>1, <1>2, <2>1
<1>5. ASSUME NEW e \in Seqs, EndStep(e) PROVE FALSE
  <2>1. chunk' = [chunk EXCEPT !.seq = Ghost(e, chunk.seq)]
    BY <1>3, <1>5 DEF EndStep
  <2>2. chunk'.seq = chunk.seq /\ chunk.seq # e
    <3>1. chunk'.seq = Ghost(e, chunk.seq)
      BY <1>0, <2>1 DEF Shapes, MakerShape
    <3> QED
      BY <1>1, <1>3, <3>1 DEF Ghost
  <2>3. Active' = Active \ {e}
    BY <1>0, <1>5, <2>2, RunningSteps
  <2>4. k \in DOMAIN running /\ running'[k] = Ghost(e, running[k])
    <3>1. Len(running') = Len(running) /\ running' \in Seq(Slots) /\ running \in Seq(Slots)
      BY <1>0, <1>5 DEF EndStep, Shapes, MakerShape
    <3>2. DOMAIN running' = DOMAIN running
      BY <3>1
    <3> QED
      BY <1>5, <3>2 DEF EndStep
  <2> QED
    BY <1>1, <1>2, <1>3, <2>2, <2>3, <2>4 DEF Ghost
<1>6. CASE BeginStep \/ QuietStep
  <2>1. chunk' = chunk /\ Active' = Active /\ running' = running
    BY <1>0, <1>3, <1>6, RunningSteps, ListSteps DEF BeginStep, QuietStep
  <2> QED
    BY <1>1, <1>2, <2>1
<1>7. CASE PageStep
  <2>1. chunk' = chunk /\ running' = running /\ pc \in InPass
    BY <1>7 DEF PageStep, makerVars
  <2>2. chunk.seq \in Active
    BY <1>0, <1>1, <1>3, <2>1, StatusSets DEF PlanShape
  <2> QED
    BY <1>1, <1>2, <2>1, <2>2
<1>8. CASE Sends
  <2>1. Active' = Active
    BY <1>0, <1>8, RunningSteps
  <2>2. CASE SendFirstChunk
    <3>1. chunk'.seq = turn.batch[1] /\ ~Listed(turn.batch[1])
      BY <2>2, FirstChunkAlone
    <3>2. running' = running
      BY <2>2 DEF SendFirstChunk, DispatchChunk
    <3> QED
      BY <1>1, <3>1, <3>2 DEF Listed
  <2>3. CASE SendPrefill
    <3>1. chunk' = chunk /\ running' = [i \in DOMAIN ValidPositions |-> running[ValidPositions[i]]]
      BY <2>3 DEF SendPrefill, DispatchPrefill
    <3>2. Listed(running'[k])
      BY <1>0, <3>1, ValidListed
    <3> QED
      BY <1>1, <1>2, <2>1, <3>1, <3>2 DEF Listed
  <2>4. CASE SendNextChunk \/ SendDecode
    <3>1. chunk' = chunk /\ running' = running
      BY <2>4 DEF SendNextChunk, SendDecode, DispatchChunk
    <3> QED
      BY <1>1, <1>2, <2>1, <3>1
  <2>5. CASE SendLastChunk
    BY <1>3, <2>5 DEF SendLastChunk
  <2> QED
    BY <1>8, <2>2, <2>3, <2>4, <2>5 DEF Sends
<1>9. CASE ActivateStep
  <2>1. /\ chunk'.seq = chunk.seq /\ running' = ListAfter /\ queue # <<>> /\ 1 \in DOMAIN queue /\ queue[1] = Head1
        /\ \A t \in Seqs : status'[t] = status[t] \/ status[t] = "READY"
    BY <1>0, <1>9, PlaceFacts DEF ActivateStep
  <2>2. chunk.seq \in Active /\ chunk # NoChunk
    BY <1>1, <1>3, <2>1, StatusSets
  <2>3. ASSUME NEW i \in RowsOf(Head1), SeqAt(i) = chunk.seq PROVE Head1.lane = "chunk"
    BY <1>0, <2>1, <2>2, <2>3 DEF Single, Has, SeqAt
  <2>4. CASE Head1.lane = "decode"
    BY <1>1, <2>1, <2>3, <2>4 DEF ListAfter
  <2>5. CASE Head1.lane = "chunk"
    BY <1>1, <1>2, <2>1, <2>2, <2>5 DEF ListAfter
  <2>6. CASE Head1.lane \notin {"decode", "chunk"}
    <3>1. running' = running \o Joining
      BY <2>1, <2>6 DEF ListAfter
    <3>2. Joining \in Seq(Slots) /\ running \in Seq(Slots)
      BY <1>0, <2>1, JoiningFacts DEF Shapes, MakerShape
    <3>3. (k \in DOMAIN running /\ running[k] = chunk.seq) \/ \E j \in DOMAIN Joining : Joining[j] = chunk.seq
      BY <1>1, <2>1, <3>1, <3>2, ConcatOf, SMTT(30)
    <3>4. \A j \in DOMAIN Joining : \E i \in RowsOf(Head1) : SeqAt(i) = Joining[j]
      BY <1>0, <2>1, JoiningFacts
    <3> QED
      BY <1>2, <2>2, <2>3, <2>6, <3>3, <3>4
  <2> QED
    BY <2>4, <2>5, <2>6
<1>10. CASE CollectStep
  <2>1. chunk' = chunk /\ Active' \subseteq Active /\ running' = running
    BY <1>3, <1>10 DEF CollectStep
  <2> QED
    BY <1>1, <1>2, <2>1
<1> QED
  BY <1>0, <1>4, <1>5, <1>6, <1>7, <1>8, <1>9, <1>10, NextActions

---------------------------------------------------------------------------
(* Calm, and what follows. *)

LEMMA CalmInit ==
    ASSUME DecodeBatchAssumption, CalmEngines, Init
    PROVE  Calm
<1>1. /\ running = <<>> /\ toEvict = {} /\ chunk = NoChunk /\ queue = <<>> /\ pc = "send"
      /\ \A s \in Seqs : status[s] = "none" /\ held[s] = 0
  BY DEF Init
<1>2. chunk.seq \notin Active /\ ~Started /\ Unstarted = {} /\ \A i : i \notin DOMAIN running
  <2>1. NoChunk.seq = Gone /\ Gone \notin Seqs
    BY DEF NoChunk, DecodeBatchAssumption
  <2>2. Len(queue) # 2
    BY <1>1
  <2> QED
    BY <1>1, <2>1, <2>2, StatusSets DEF Started, Unstarted
<1>3. Fit \in Nat
  BY FitType
<1>4. Fitting /\ Uncredited /\ ReadySent
  BY <1>1, <1>2, <1>3, StatusSets DEF Fitting, Uncredited, ReadySent
<1>5. PlanShape /\ Resting
  BY <1>1, <1>2, StatusSets DEF PlanShape, Resting, InPass
<1>6. Strays /\ Bringing
  BY <1>1, <1>2 DEF Strays, Bringing
<1>7. Threats /\ Unfinished
  BY <1>1, <1>2, StatusSets DEF Threats, Unfinished, InPass
<1>8. Single /\ ChunkApart
  BY <1>2 DEF Single, ChunkApart
<1> QED
  BY <1>4, <1>5, <1>6, <1>7, <1>8 DEF Calm

LEMMA CalmStutters ==
    ASSUME Calm, UNCHANGED vars
    PROVE  Calm'
<1>1. /\ UNCHANGED <<len, hist, held, limit, kind, status, arrival>>
      /\ UNCHANGED <<running, toEvict, chunk, afterChunk, rounds, shorts>>
      /\ UNCHANGED <<queue, batch, built, setup, pc, turn>>
  BY DEF vars, seqVars, makerVars, workVars
<1>2. /\ Active' = Active /\ Running' = Running /\ Waiting' = Waiting /\ WithStatus("READY")' = WithStatus("READY")
      /\ Unstarted' = Unstarted /\ Started' = Started /\ Head1' = Head1 /\ Attended' = Attended
  BY <1>1 DEF Active, Running, Waiting, WithStatus, Unstarted, Started, Head1, Attended
<1>3. Fitting' /\ Uncredited' /\ ReadySent'
  BY <1>1, <1>2 DEF Calm, Fitting, Uncredited, ReadySent, Fit, RowsOf, SeqAt, InBatch, Has
<1>4. PlanShape' /\ Resting'
  BY <1>1, <1>2 DEF Calm, PlanShape, Resting, InPass, FreshPlans, ChunkPlans, LastPlans, IsLong, NumTokens, Listed, Plans
<1>5. Strays' /\ Bringing'
  BY <1>1, <1>2 DEF Calm, Strays, Bringing, Waits, RowsOf, Plans, SeqAt
<1>6. Threats' /\ Unfinished'
  BY <1>1, <1>2 DEF Calm, Threats, Unfinished, Live, Threat, RowsOf, IsLong, NumTokens, InPass
<1>7. Single' /\ ChunkApart'
  BY <1>1, <1>2 DEF Calm, Single, ChunkApart, Has, RowsOf, Listed
<1> QED
  BY <1>3, <1>4, <1>5, <1>6, <1>7 DEF Calm

LEMMA PoisedStep ==
    ASSUME DecodeBatchAssumption, CalmEngines, Poised, [Next]_vars
    PROVE  Poised'
<1>1. ChunkApart /\ Sound /\ Aligned /\ Kinds \subseteq {"generate"}
  BY DEF Poised, Calm, CalmEngines
<1>2. Sound' /\ Aligned'
  BY <1>1, SoundStep, AlignedStep
<1>3. ASSUME Next PROVE Calm'
  <2>1. Frame' /\ AtRest' /\ Steps
    BY <1>1, <1>2, <1>3, NextSteps DEF Sound, Flow
  <2>2. Fitting' /\ Uncredited' /\ ReadySent'
    BY <1>3, <2>1, FittingStep, UncreditedStep, ReadySentStep
  <2>3. PlanShape' /\ Strays' /\ Bringing' /\ Threats' /\ Unfinished' /\ Single' /\ ChunkApart'
    BY <1>3, <2>1, PlanShapeStep, StraysStep, BringingStep, ThreatsStep, UnfinishedStep, SingleStep, ChunkApartStep
  <2>4. Resting'
    BY <1>3, <2>1, <2>3, RestingStep
  <2> QED
    BY <2>2, <2>3, <2>4 DEF Calm
<1>4. ASSUME UNCHANGED vars PROVE Calm'
  BY <1>4, CalmStutters DEF Poised
<1> QED
  BY <1>2, <1>3, <1>4 DEF Poised

\* Where every request generates, and any one text fits the pool and clients
\* finish the prompts they have started, or all texts together fit, a sequence
\* that is preempted is never readmitted in chunks while the list still names
\* it: the sequence the chunker has is not listed for decoding as well
\* (LongContextChunker against InputsMakerAsync.update_running_seqs, through the
\* evictions of schedule_running and the prefetch of the next forward).
THEOREM ChunkStaysApart ==
    ASSUME CalmEngines
    PROVE  Spec => []ChunkApart
<1>1. Init => Poised
  BY SoundInit, AlignedInit, CalmInit, DecodeBatchAssumption DEF Poised
<1>2. Poised /\ [Next]_vars => Poised'
  BY PoisedStep, DecodeBatchAssumption
<1>3. Poised => ChunkApart
  BY DEF Poised, Calm
<1> QED
  BY <1>1, <1>2, <1>3, PTL DEF Spec

\* On such engines, then, with no hypothesis on the behaviour: every running
\* sequence is stepped and listed once, none is decoded before its prompt is in
\* the cache, and the row at each position a decode names is the row of the
\* sequence the host credits (ModelInputsDelta.indices against ARStepInputs).
THEOREM CalmEnginesDecodeRight ==
    ASSUME CalmEngines
    PROVE  Spec => [](SteppedOnce /\ WholePromptFirst /\ RowsAligned)
<1>1. Kinds \subseteq {"generate"}
  BY DEF CalmEngines
<1>2. Spec /\ []ChunkApart => []RowsAligned
  BY <1>1, RowsStayAligned
<1> QED
  BY <1>2, ChunkStaysApart, EverybodyIsSteppedOnce, PromptsComeWhole, PTL

=============================================================================
