------------------------- MODULE TurboEngine_proofs -------------------------
(***************************************************************************)
(* Proofs, for any requests and engines: no wake-up is lost and each       *)
(* answer is read once, no sequence is released while a batch names it,    *)
(* what a reader gets continues its own text, and a request is given up    *)
(* only if it could not run alone.  The layers of the invariant are in     *)
(* TurboEngineProps; each is inductive given those before it.              *)
(***************************************************************************)
EXTENDS TurboEngineProps, FiniteSetTheorems, FunctionTheorems, SequenceTheorems, TLAPS

---------------------------------------------------------------------------
(* Sets in the order of a key. *)

IsKey(P, key) == \A p \in P : key[p] \in Int /\ \A x \in P : key[x] = key[p] => x = p

\* The rank of an element: how many are not behind it.
Rank(P, key, p) == Cardinality({x \in P : key[x] <= key[p]})

LEMMA RankRises ==
    ASSUME NEW P, IsFiniteSet(P), NEW key, IsKey(P, key), NEW p \in P, NEW r \in P, key[p] < key[r]
    PROVE  Rank(P, key, p) \in 1..Cardinality(P) /\ Rank(P, key, p) < Rank(P, key, r)
<1> DEFINE A == {x \in P : key[x] <= key[p]}
           B == {x \in P : key[x] <= key[r]}
<1>0. \A x \in P : key[x] \in Int
  BY DEF IsKey
<1>1. A \subseteq B /\ B \subseteq P /\ p \in A /\ r \in B /\ r \notin A
  <2>1. key[p] \in Int /\ key[r] \in Int /\ ~(key[r] <= key[p]) /\ key[p] <= key[p] /\ key[r] <= key[r]
    BY <1>0
  <2>2. ASSUME NEW x \in P, key[x] <= key[p] PROVE key[x] <= key[r]
    BY <1>0, <2>1, <2>2
  <2> QED
    BY <2>1, <2>2
<1>2. Rank(P, key, p) = Cardinality(A) /\ Rank(P, key, r) = Cardinality(B)
  BY DEF Rank
<1> HIDE DEF A, B
<1>3. IsFiniteSet(B) /\ Cardinality(B) <= Cardinality(P)
  BY <1>1, FS_Subset
<1>4. IsFiniteSet(A) /\ Cardinality(A) <= Cardinality(B) /\ Cardinality(A) # Cardinality(B)
  BY <1>1, <1>3, FS_Subset
<1>5. Cardinality(A) \in Nat /\ Cardinality(B) \in Nat /\ Cardinality(P) \in Nat
  BY <1>3, <1>4, FS_CardinalityType
<1>6. Cardinality(A) # 0
  BY <1>1, <1>4, FS_EmptySet
<1> QED
  BY <1>2, <1>3, <1>4, <1>5, <1>6

LEMMA RankBounds ==
    ASSUME NEW P, IsFiniteSet(P), NEW key, IsKey(P, key), NEW p \in P
    PROVE  Rank(P, key, p) \in 1..Cardinality(P)
<1> DEFINE A == {x \in P : key[x] <= key[p]}
<1>1. A \subseteq P /\ p \in A
  BY DEF IsKey
<1>2. Rank(P, key, p) = Cardinality(A)
  BY DEF Rank
<1> HIDE DEF A
<1>3. IsFiniteSet(A) /\ Cardinality(A) <= Cardinality(P)
  BY <1>1, FS_Subset
<1>4. Cardinality(A) \in Nat /\ Cardinality(A) # 0 /\ Cardinality(P) \in Nat
  BY <1>1, <1>3, FS_CardinalityType, FS_EmptySet
<1> QED
  BY <1>2, <1>3, <1>4

\* Ranked names every element, each once, in ascending order.
LEMMA RankedOf ==
    ASSUME NEW P, IsFiniteSet(P), NEW key, IsKey(P, key)
    PROVE  /\ Cardinality(P) \in Nat /\ Ranked(P, key) \in [1..Cardinality(P) -> P]
           /\ \A i, j \in 1..Cardinality(P) : Ranked(P, key)[i] = Ranked(P, key)[j] => i = j
           /\ \A p \in P : Rank(P, key, p) \in 1..Cardinality(P) /\ Ranked(P, key)[Rank(P, key, p)] = p
           /\ \A i \in 1..Cardinality(P) : Rank(P, key, Ranked(P, key)[i]) = i
           /\ \A i, j \in 1..Cardinality(P) : i < j => key[Ranked(P, key)[i]] < key[Ranked(P, key)[j]]
<1> DEFINE n == Cardinality(P)
           f == [p \in P |-> Rank(P, key, p)]
           q == Ranked(P, key)
<1>1. n \in Nat
  BY FS_CardinalityType
<1>2. f \in [P -> 1..n]
  BY RankBounds
<1>3. \A p, r \in P : f[p] = f[r] => p = r
  <2> SUFFICES ASSUME NEW p \in P, NEW r \in P, f[p] = f[r], p # r PROVE FALSE
    OBVIOUS
  <2>1. key[p] \in Int /\ key[r] \in Int /\ key[p] # key[r]
    BY DEF IsKey
  <2>2. f[p] \in Int /\ f[r] \in Int
    BY <1>1, <1>2
  <2>3. CASE key[p] < key[r]
    <3>1. Rank(P, key, p) < Rank(P, key, r)
      BY <2>3, RankRises
    <3> QED
      BY <2>2, <3>1
  <2>4. CASE key[r] < key[p]
    <3>1. Rank(P, key, r) < Rank(P, key, p)
      BY <2>4, RankRises
    <3> QED
      BY <2>2, <3>1
  <2> QED
    BY <2>1, <2>3, <2>4
<1>4. \A p \in P : f[p] = Rank(P, key, p)
  OBVIOUS
<1>5. q = [i \in 1..n |-> CHOOSE p \in P : Rank(P, key, p) = i]
  BY DEF Ranked, Rank
<1> HIDE DEF f
<1>6. f \in Injection(P, 1..n)
  BY <1>2, <1>3, Fun_IsInj
<1>7. IsFiniteSet(1..n) /\ Cardinality(1..n) = n
  BY <1>1, FS_Interval
<1>8. f \in Surjection(P, 1..n)
  BY <1>6, <1>7, FS_Injection
<1>9. \A i \in 1..n : \E p \in P : f[p] = i
  BY <1>8, Fun_SurjectionProperties
<1>10. \A i \in 1..n : q[i] \in P /\ Rank(P, key, q[i]) = i
  BY <1>4, <1>5, <1>9
<1>11. q \in [1..n -> P]
  BY <1>5, <1>10
<1> HIDE DEF q
<1>12. \A p \in P : Rank(P, key, p) \in 1..n /\ q[Rank(P, key, p)] = p
  <2> TAKE p \in P
  <2>1. f[p] \in 1..n
    BY <1>2
  <2>2. f[q[f[p]]] = f[p] /\ q[f[p]] \in P
    BY <1>4, <1>10, <2>1
  <2> QED
    BY <1>3, <1>4, <2>1, <2>2
<1>13. \A i, j \in 1..n : q[i] = q[j] => i = j
  BY <1>10
<1>14. \A i, j \in 1..n : i < j => key[q[i]] < key[q[j]]
  <2> SUFFICES ASSUME NEW i \in 1..n, NEW j \in 1..n, i < j, ~(key[q[i]] < key[q[j]]) PROVE FALSE
    OBVIOUS
  <2>1. q[i] \in P /\ q[j] \in P /\ Rank(P, key, q[i]) = i /\ Rank(P, key, q[j]) = j
    BY <1>10
  <2>2. q[i] # q[j] /\ i \in Int /\ j \in Int
    BY <1>1, <2>1
  <2>3. key[q[i]] \in Int /\ key[q[j]] \in Int /\ key[q[i]] # key[q[j]]
    BY <2>1, <2>2 DEF IsKey
  <2>4. key[q[j]] < key[q[i]]
    BY <2>3
  <2>5. Rank(P, key, q[j]) < Rank(P, key, q[i])
    BY <2>1, <2>4, RankRises
  <2> QED
    BY <2>1, <2>2, <2>5
<1> QED
  BY <1>1, <1>10, <1>11, <1>12, <1>13, <1>14 DEF q

---------------------------------------------------------------------------
(* Sequences, and parts of them. *)

LEMMA ElementOf ==
    ASSUME NEW S, NEW q \in Seq(S)
    PROVE  DOMAIN q = 1..Len(q) /\ Len(q) \in Nat /\ \A i \in DOMAIN q : q[i] \in S
  OBVIOUS

LEMMA SeqFrom ==
    ASSUME NEW S, NEW n \in Nat, NEW f \in [1..n -> S]
    PROVE  f \in Seq(S) /\ Len(f) = n /\ DOMAIN f = 1..n
  OBVIOUS

LEMMA AppendOf ==
    ASSUME NEW S, NEW q \in Seq(S), NEW e \in S
    PROVE  /\ Append(q, e) \in Seq(S) /\ Len(Append(q, e)) = Len(q) + 1
           /\ DOMAIN Append(q, e) = DOMAIN q \cup {Len(q) + 1}
           /\ \A i \in DOMAIN q : Append(q, e)[i] = q[i]
           /\ Append(q, e)[Len(q) + 1] = e
  OBVIOUS

LEMMA TailOf ==
    ASSUME NEW S, NEW q \in Seq(S), q # <<>>
    PROVE  /\ Tail(q) \in Seq(S) /\ Len(Tail(q)) = Len(q) - 1 /\ Head(q) = q[1] /\ 1 \in DOMAIN q
           /\ \A i \in DOMAIN Tail(q) : i + 1 \in DOMAIN q /\ Tail(q)[i] = q[i + 1]
           /\ \A i \in DOMAIN q : i # 1 => i - 1 \in DOMAIN Tail(q) /\ Tail(q)[i - 1] = q[i]
  OBVIOUS

LEMMA ConcatOf ==
    ASSUME NEW S, NEW q \in Seq(S), NEW r \in Seq(S)
    PROVE  /\ q \o r \in Seq(S) /\ Len(q \o r) = Len(q) + Len(r)
           /\ \A i \in DOMAIN q : i \in DOMAIN (q \o r) /\ (q \o r)[i] = q[i]
           /\ \A i \in DOMAIN r : Len(q) + i \in DOMAIN (q \o r) /\ (q \o r)[Len(q) + i] = r[i]
           /\ \A i \in DOMAIN (q \o r) : \/ i \in DOMAIN q
                                         \/ i - Len(q) \in DOMAIN r /\ (q \o r)[i] = r[i - Len(q)]
  OBVIOUS

LEMMA PlaceOf ==
    ASSUME NEW s, NEW e \in Range(s)
    PROVE  Place(s, e) \in DOMAIN s /\ s[Place(s, e)] = e
<1>1. \E i \in DOMAIN s : s[i] = e
  BY DEF Range
<1> QED
  BY <1>1 DEF Place

\* The entries e are those of s at the places P, each taken once.
PickedAt(at, e, s, P) ==
    /\ at \in [DOMAIN e -> P]
    /\ \A i \in DOMAIN e : e[i] = s[at[i]]
    /\ \A i, j \in DOMAIN e : at[i] = at[j] => i = j
    /\ \A p \in P : \E i \in DOMAIN e : at[i] = p
Picked(e, s, P) == \E at : PickedAt(at, e, s, P)

LEMMA EntriesOf ==
    ASSUME NEW S, NEW s \in Seq(S), NEW P \in SUBSET DOMAIN s
    PROVE  Entries(s, P) \in Seq(S) /\ Picked(Entries(s, P), s, P)
<1> DEFINE key == [p \in P |-> p]
           at  == Ranked(P, key)
           n   == Cardinality(P)
           e   == Entries(s, P)
<1>1. DOMAIN s = 1..Len(s) /\ Len(s) \in Nat /\ \A i \in DOMAIN s : s[i] \in S
  BY ElementOf
<1>2. IsFiniteSet(P)
  <2>1. IsFiniteSet(1..Len(s))
    BY <1>1, FS_Interval
  <2> QED
    BY <1>1, <2>1, FS_Subset
<1>3. IsKey(P, key)
  BY <1>1 DEF IsKey
<1>4. /\ n \in Nat /\ at \in [1..n -> P]
      /\ \A i, j \in 1..n : at[i] = at[j] => i = j
      /\ \A p \in P : \E i \in 1..n : at[i] = p
  <2> HIDE DEF key
  <2> QED
    BY <1>2, <1>3, RankedOf
<1>5. e = [i \in DOMAIN at |-> s[at[i]]]
  BY DEF Entries
<1> HIDE DEF at, n, e, key
<1>6. e \in [1..n -> S] /\ \A i \in 1..n : e[i] = s[at[i]]
  BY <1>1, <1>4, <1>5
<1>7. e \in Seq(S) /\ DOMAIN e = 1..n
  BY <1>4, <1>6
<1>8. PickedAt(at, e, s, P)
  BY <1>4, <1>6, <1>7 DEF PickedAt
<1>9. Picked(e, s, P)
  BY <1>8 DEF Picked
<1> QED
  BY <1>7, <1>9 DEF e

LEMMA OnlyOf ==
    ASSUME NEW S, NEW s \in Seq(S), NEW T
    PROVE  /\ Only(s, T) \in Seq(S) /\ Range(Only(s, T)) = Range(s) \cap T
           /\ Once(s) => Once(Only(s, T))
<1> DEFINE P == {i \in DOMAIN s : s[i] \in T}
           e == Entries(s, P)
<1>1. Only(s, T) = e
  BY DEF Only
<1>2. P \in SUBSET DOMAIN s
  OBVIOUS
<1> HIDE DEF P
<1>3. e \in Seq(S)
  BY <1>2, EntriesOf
<1>4. PICK at : PickedAt(at, e, s, P)
  BY <1>2, EntriesOf DEF Picked
<1> HIDE DEF e
<1>5. Range(e) = Range(s) \cap T
  BY <1>4 DEF PickedAt, Range, P
<1>6. Once(s) => Once(e)
  BY <1>4 DEF PickedAt, Once, P
<1> QED
  BY <1>1, <1>3, <1>5, <1>6

\* What two parts of a sequence share.
LEMMA PartsOf ==
    ASSUME NEW S, NEW s \in Seq(S), Once(s), NoReq \notin S,
           NEW P \in SUBSET DOMAIN s, NEW Q \in SUBSET DOMAIN s
    PROVE  /\ Once(Entries(s, P)) /\ Range(Entries(s, P)) = {s[i] : i \in P}
           /\ P \cap Q = {} => Range(Entries(s, P)) \cap Range(Entries(s, Q)) = {}
<1> DEFINE e == Entries(s, P)
<1>0. \A i \in DOMAIN s : s[i] # NoReq
  BY ElementOf
<1>1. Once(e) /\ Range(e) = {s[i] : i \in P}
  <2>1. PICK at : PickedAt(at, e, s, P)
    BY EntriesOf DEF Picked
  <2> HIDE DEF e
  <2>2. Range(e) = {s[i] : i \in P}
    BY <2>1 DEF PickedAt, Range
  <2>3. \A i, j \in DOMAIN e : e[i] = e[j] => i = j
    BY <1>0, <2>1 DEF PickedAt, Once
  <2> QED
    BY <2>2, <2>3 DEF Once
<1>2. Range(Entries(s, Q)) = {s[i] : i \in Q}
  <2> DEFINE d == Entries(s, Q)
  <2>1. PICK at : PickedAt(at, d, s, Q)
    BY EntriesOf DEF Picked
  <2> HIDE DEF d
  <2>2. Range(d) = {s[i] : i \in Q}
    BY <2>1 DEF PickedAt, Range
  <2> QED
    BY <2>2 DEF d
<1>3. P \cap Q = {} => {s[i] : i \in P} \cap {s[i] : i \in Q} = {}
  BY <1>0 DEF Once
<1> QED
  BY <1>1, <1>2, <1>3

---------------------------------------------------------------------------
(* Numbers. *)

LEMMA LesserOf ==
    ASSUME NEW a \in Int, NEW b \in Int
    PROVE  Lesser(a, b) \in {a, b} /\ Lesser(a, b) <= a /\ Lesser(a, b) <= b /\ Lesser(a, b) \in Int
  BY DEF Lesser

LEMMA GreaterOf ==
    ASSUME NEW a \in Int, NEW b \in Int
    PROVE  Greater(a, b) \in {a, b} /\ Greater(a, b) >= a /\ Greater(a, b) >= b /\ Greater(a, b) \in Int
  BY DEF Greater

LEMMA DivOf ==
    ASSUME NEW n \in Int, NEW b \in Nat \ {0}
    PROVE  /\ n \div b \in Int /\ b * (n \div b) \in Int
           /\ b * (n \div b) <= n /\ n < b * (n \div b) + b
           /\ n >= 0 => n \div b >= 0
  BY Z3

LEMMA TimesOf ==
    ASSUME NEW x \in Int, NEW y \in Int, NEW b \in Nat, x <= y
    PROVE  x * b \in Int /\ y * b \in Int /\ x * b <= y * b
  BY Z3

LEMMA TimesCommute ==
    ASSUME NEW x \in Int, NEW b \in Int
    PROVE  x * b = b * x
  BY Z3

\* The least number of a set.
LEMMA LeastOf ==
    ASSUME NEW T \in SUBSET Nat, T # {}
    PROVE  \E x \in T : \A y \in T : x <= y
<1>0. \A y \in T : y \in Nat
  OBVIOUS
<1>1. PICK m \in T : TRUE
  OBVIOUS
<1> DEFINE B == {y \in T : y <= m}
<1>2. B \subseteq 0..m
  <2>1. m \in Nat
    BY <1>0
  <2>2. ASSUME NEW y \in B PROVE y \in 0..m
    <3>1. y \in Nat /\ y <= m
      BY <1>0
    <3> QED
      BY <2>1, <3>1
  <2> QED
    BY <2>2
<1>3. IsFiniteSet(0..m)
  BY FS_Interval
<1>4. IsFiniteSet(B)
  BY <1>2, <1>3, FS_Subset
<1> DEFINE D == {u \in SUBSET B : \E x \in B : u = {y \in B : y <= x}}
<1>5. \A u \in SUBSET B : IsFiniteSet(u)
  BY <1>4, FS_Subset
<1>6. IsWellFoundedOn(StrictSubsetOrdering(B), FiniteSubsetsOf(B))
  BY FS_StrictSubsetOrderingWellFounded
<1>7. D \subseteq FiniteSubsetsOf(B)
  BY <1>5 DEF FiniteSubsetsOf
<1>8. D # {}
  <2>1. m \in B
    BY <1>0
  <2>2. {y \in B : y <= m} \in D
    BY <2>1
  <2> QED
    BY <2>2
<1>9. \E u \in D : \A v \in D : ~(<<v, u>> \in StrictSubsetOrdering(B))
  <2> HIDE DEF D
  <2> QED
    BY <1>6, <1>7, <1>8, WFMin
<1>10. PICK u \in D : \A v \in D : ~(<<v, u>> \in StrictSubsetOrdering(B))
  BY <1>9
<1>11. PICK x \in B : u = {y \in B : y <= x}
  OBVIOUS
<1>12. \A y \in B : x <= y
  <2> SUFFICES ASSUME NEW y \in B, ~(x <= y) PROVE FALSE
    OBVIOUS
  <2>1. y < x /\ x \in Nat /\ y \in Nat
    OBVIOUS
  <2> DEFINE v == {z \in B : z <= y}
  <2>2. v \in D
    OBVIOUS
  <2>3. v \subseteq u
    <3>1. ASSUME NEW z \in B, z <= y PROVE z <= x
      <4>1. z \in Nat
        BY <1>0
      <4> QED
        BY <2>1, <3>1, <4>1
    <3> QED
      BY <1>11, <3>1
  <2>4. x \in u /\ x \notin v
    BY <1>11, <2>1
  <2>5. <<v, u>> \in StrictSubsetOrdering(B)
    BY <2>3, <2>4 DEF StrictSubsetOrdering
  <2> QED
    BY <1>10, <2>2, <2>5
<1>13. \A y \in T : x <= y
  <2> TAKE y \in T
  <2>1. CASE y <= m
    BY <1>12, <2>1
  <2>2. CASE ~(y <= m)
    BY <2>2
  <2> QED
    BY <2>1, <2>2
<1> QED
  BY <1>13

---------------------------------------------------------------------------
(* The pass of the scheduler, step by step. *)

Priority == Ranked(Eligible, [r \in Eligible |-> seq[r].uid])

\* The plans after each of the first n requests.
Considered(plans, i) == {Consider(plan, r) : plan \in plans, r \in {Priority[i]}}
IsPass(f, n) == f = [i \in 0..n |-> IF i = 0 THEN {NoPlan} ELSE Considered(f[i - 1], i)]

LEMMA PassExists ==
    ASSUME NEW n \in Nat
    PROVE  \E f : IsPass(f, n)
<1> DEFINE T == {m \in Nat : ~ \E f : IsPass(f, m)}
<1> SUFFICES ASSUME T # {} PROVE FALSE
  OBVIOUS
<1>1. PICK m \in T : \A k \in T : m <= k
  <2>1. T \in SUBSET Nat
    OBVIOUS
  <2> HIDE DEF T
  <2> QED
    BY <2>1, LeastOf
<1>2. m # 0
  <2>1. IsPass([i \in 0..0 |-> {NoPlan}], 0)
    BY DEF IsPass
  <2> QED
    BY <2>1
<1>3. m - 1 \in Nat /\ m - 1 \notin T
  BY <1>1, <1>2
<1>4. PICK f : IsPass(f, m - 1)
  BY <1>3
<1> DEFINE new == Considered(f[m - 1], m)
           g == [i \in 0..m |-> IF i = m THEN new ELSE f[i]]
<1>5. \A i \in 0..(m - 1) : g[i] = f[i]
  BY <1>3
<1>6. g[m] = new
  BY <1>3
<1>7. ASSUME NEW i \in 0..m
      PROVE  g[i] = IF i = 0 THEN {NoPlan} ELSE Considered(g[i - 1], i)
  <2>1. CASE i = m
    <3>1. g[i - 1] = f[m - 1]
      BY <1>3, <1>5, <2>1
    <3> HIDE DEF g
    <3> QED
      BY <1>2, <1>6, <2>1, <3>1
  <2>2. CASE i # m
    <3>1. i \in 0..(m - 1) /\ (i # 0 => i - 1 \in 0..(m - 1))
      BY <1>3, <2>2
    <3>2. f[i] = IF i = 0 THEN {NoPlan} ELSE Considered(f[i - 1], i)
      BY <1>4, <3>1 DEF IsPass
    <3>3. g[i] = f[i] /\ (i # 0 => g[i - 1] = f[i - 1])
      BY <1>5, <3>1
    <3> HIDE DEF g
    <3> QED
      BY <3>2, <3>3
  <2> QED
    BY <2>1, <2>2
<1>8. IsPass(g, m)
  <2>1. g = [i \in 0..m |-> g[i]]
    OBVIOUS
  <2> HIDE DEF g
  <2> QED
    BY <1>7, <2>1 DEF IsPass
<1> QED
  BY <1>1, <1>8

LEMMA PlansOf ==
    ASSUME Cardinality(Eligible) \in Nat
    PROVE  \E f : IsPass(f, Cardinality(Eligible)) /\ Plans = f[Cardinality(Eligible)]
<1> DEFINE n == Cardinality(Eligible)
           f == CHOOSE f : IsPass(f, n)
<1>1. IsPass(f, n)
  BY PassExists
<1>2. Plans = f[n]
  BY DEF Plans, IsPass, Considered, Priority
<1> QED
  BY <1>1, <1>2

---------------------------------------------------------------------------
(* Setups, and who is in the slots. *)

LEMMA SetupFacts ==
    ASSUME TurboEngineAssumption, Shapes
    PROVE  IsSetup(cfg) /\ IsFiniteSet(Reqs) /\ NoReq \notin Reqs
  BY DEF TurboEngineAssumption, Shapes

LEMMA PresentFacts ==
    ASSUME TurboEngineAssumption, Shapes, Places
    PROVE  /\ Present \subseteq Reqs /\ Eligible \subseteq Present
           /\ IsFiniteSet(Present) /\ IsFiniteSet(Eligible) /\ Cardinality(Eligible) \in Nat
           /\ IsKey(Eligible, [r \in Eligible |-> seq[r].uid])
<1>1. IsFiniteSet(Reqs)
  BY DEF TurboEngineAssumption
<1>2. Present \subseteq Reqs
  <2>1. \A i \in DOMAIN slots : slots[i] \in Reqs \cup {NoReq}
    BY ElementOf DEF Shapes
  <2> QED
    BY <2>1 DEF Present, Range
<1>3. Eligible \subseteq Present
  BY DEF Eligible
<1>4. IsFiniteSet(Present) /\ IsFiniteSet(Eligible)
  BY <1>1, <1>2, <1>3, FS_Subset
<1>5. \A r \in Eligible : seq[r].uid \in Int
  BY <1>2, <1>3 DEF Shapes, SeqRecords
<1>6. \A p, r \in Eligible : seq[p].uid = seq[r].uid => p = r
  BY <1>3 DEF Places
<1> QED
  BY <1>2, <1>3, <1>4, <1>5, <1>6, FS_CardinalityType DEF IsKey

\* Blocks are numbers.
LEMMA TotalOf ==
    ASSUME NEW W, IsFiniteSet(W), NEW holds, \A w \in W : holds[w] \in Int
    PROVE  Total(W, holds) \in Nat /\ IsFiniteSet(UNION {{w} \X (1 .. holds[w]) : w \in W})
<1> DEFINE part(w) == {w} \X (1 .. holds[w])
<1>1. \A w \in W : IsFiniteSet(part(w))
  <2> TAKE w \in W
  <2>1. IsFiniteSet({w})
    BY FS_Singleton
  <2>2. IsFiniteSet(1 .. holds[w])
    BY FS_Interval
  <2> QED
    BY <2>1, <2>2, FS_Product
<1> DEFINE F == {part(w) : w \in W}
<1>2. IsFiniteSet(F)
  <2> DEFINE f == [w \in W |-> part(w)]
  <2>1. F = {f[w] : w \in W}
    OBVIOUS
  <2>2. f \in Surjection(W, F)
    BY DEF Surjection
  <2> QED
    BY <2>2, FS_Surjection
<1>3. \A x \in F : IsFiniteSet(x)
  BY <1>1
<1>4. IsFiniteSet(UNION F)
  <2> HIDE DEF F
  <2> QED
    BY <1>2, <1>3, FS_UNION
<1> QED
  BY <1>4, FS_CardinalityType DEF Total

LEMMA BlocksOf ==
    ASSUME TurboEngineAssumption, Shapes, NEW n \in Int
    PROVE  /\ Blocks(n) \in Int /\ Blocks(n) * cfg.blockSize \in Int /\ n <= Blocks(n) * cfg.blockSize
           /\ n >= 0 => Blocks(n) >= 0
<1>1. cfg.blockSize \in Nat \ {0}
  BY SetupFacts DEF IsSetup
<1> DEFINE b == cfg.blockSize
           m == n + b - 1
<1>2. m \in Int /\ (n >= 0 => m >= 0) /\ m = n + b - 1
  BY <1>1
<1>3. Blocks(n) = m \div b
  BY DEF Blocks
<1> HIDE DEF m, b
<1>4. b \in Nat \ {0}
  BY <1>1 DEF b
<1>5. /\ m \div b \in Int /\ b * (m \div b) \in Int
      /\ b * (m \div b) <= m /\ m < b * (m \div b) + b
      /\ m >= 0 => m \div b >= 0
  BY <1>2, <1>4, DivOf
<1>6. (m \div b) * b = b * (m \div b)
  BY <1>4, <1>5, TimesCommute
<1> DEFINE d == m \div b
           e == b * (m \div b)
<1>7. d \in Int /\ e \in Int /\ e <= m /\ m < e + b /\ (m >= 0 => d >= 0) /\ d * b = e
  BY <1>5, <1>6
<1>8. Blocks(n) = d
  BY <1>3
<1> HIDE DEF d, e
<1>9. n <= e
  BY <1>2, <1>4, <1>7
<1> QED
  BY <1>2, <1>7, <1>8, <1>9 DEF b

---------------------------------------------------------------------------
(* One request of the pass. *)

PlanShape(plan) ==
    /\ plan = [full |-> plan.full, hit |-> plan.hit, holds |-> plan.holds, forward |-> plan.forward,
               context |-> plan.context, ends |-> plan.ends]
    /\ plan.full \in BOOLEAN /\ plan.holds \in [Reqs -> Nat] /\ plan.forward \in Int /\ plan.context \in Int
    /\ plan.ends = [r \in DOMAIN plan.ends |-> plan.ends[r]]
    /\ DOMAIN plan.ends \subseteq Eligible
    /\ \A r \in DOMAIN plan.ends : plan.ends[r] \in Int

\* Whose blocks r may take.
Below(r) == {v \in Present : seq[v].retiring \/ seq[v].uid > seq[r].uid}

LEMMA EvictOf ==
    ASSUME TurboEngineAssumption, Shapes, Places, NEW r \in Eligible, NEW holds \in [Reqs -> Nat], NEW n \in Int
    PROVE  /\ Evict(r, holds, n) \in [Reqs -> Nat]
           /\ \A v \in Reqs : /\ v \notin Below(r) => Evict(r, holds, n)[v] = holds[v]
                              /\ Evict(r, holds, n)[v] <= holds[v]
<1> DEFINE Sooner(a, b) == IF seq[a].retiring # seq[b].retiring THEN seq[a].retiring ELSE seq[a].uid > seq[b].uid
           front(v) == {w \in Below(r) : Sooner(w, v)}
           Ahead(v) == Total(front(v), holds)
           e == Evict(r, holds, n)
<1>1. e = [v \in Reqs |-> IF v \in Below(r) THEN holds[v] - Lesser(holds[v], Greater(0, n - Ahead(v))) ELSE holds[v]]
  BY DEF Evict, Below
<1> HIDE DEF e
<1>2. ASSUME NEW v \in Reqs
      PROVE  e[v] \in Nat /\ (v \notin Below(r) => e[v] = holds[v]) /\ e[v] <= holds[v]
  <2>1. front(v) \subseteq Present /\ Present \subseteq Reqs /\ IsFiniteSet(Present)
    BY PresentFacts DEF Below
  <2>2. IsFiniteSet(front(v))
    BY <2>1, FS_Subset
  <2>3. Ahead(v) \in Nat
    <3> DEFINE F == front(v)
    <3>1. IsFiniteSet(F) /\ \A w \in F : holds[w] \in Int
      BY <2>1, <2>2
    <3> HIDE DEF F
    <3>2. Total(F, holds) \in Nat
      BY <3>1, TotalOf
    <3> QED
      BY <3>2 DEF F
  <2> DEFINE x == n - Ahead(v)
             g == Greater(0, x)
             l == Lesser(holds[v], g)
  <2>4. holds[v] \in Nat /\ x \in Int
    BY <2>3
  <2>5. g \in Int /\ g >= 0
    <3> HIDE DEF x
    <3> QED
      BY <2>4 DEF Greater
  <2>6. l \in Int /\ l <= holds[v] /\ l \in {holds[v], g}
    BY <2>4, <2>5, LesserOf
  <2>7. e[v] = IF v \in Below(r) THEN holds[v] - l ELSE holds[v]
    BY <1>1
  <2> HIDE DEF g, l
  <2> QED
    BY <2>4, <2>5, <2>6, <2>7
<1>3. e \in [Reqs -> Nat]
  BY <1>1, <1>2
<1> QED
  BY <1>2, <1>3 DEF e

\* How far a forward of r would run under a plan.
Begin(r)      == Resume(r) + seq[r].iin
Wanted(r)     == Context(seq[r]) - Begin(r)
Cost(r)       == IF Wanted(r) > 1 \/ ~seq[r].active THEN Context(seq[r]) ELSE 0
Granted(p, r) == IF Cost(r) > p.context THEN 0 ELSE Lesser(Wanted(r), p.forward)
Desired(p, r) == Begin(r) + Granted(p, r)
End(p, r)     == IF Desired(p, r) < Context(seq[r]) THEN cfg.blockSize * (Desired(p, r) \div cfg.blockSize)
                 ELSE Desired(p, r)
Lacking(p, r) == Greater(0, Blocks(Context(seq[r])) - p.holds[r] - (cfg.blocks - Total(Reqs, p.holds)))
Shrunk(p, r)  == Evict(r, p.holds, Lacking(p, r))
Hit(p, r)     == {v \in Present : Shrunk(p, r)[v] < p.holds[v] /\ ~seq[v].retiring}
Refuses(p, r) == p.full \/ r \in p.hit \/ Granted(p, r) <= 0
Cannot(p, r)  == Lacking(p, r) > Total(Reqs, p.holds) - Total(Reqs, Shrunk(p, r))

Grown(p, r) == [p EXCEPT !.hit = @ \cup Hit(p, r),
                         !.holds = [Shrunk(p, r) EXCEPT ![r] = Greater(@, Blocks(Context(seq[r])))],
                         !.forward = @ - (End(p, r) - Begin(r)),
                         !.context = @ - Cost(r),
                         !.ends = [v \in DOMAIN @ \cup {r} |-> IF v = r THEN End(p, r) ELSE @[v]]]

LEMMA ConsiderDef ==
    ASSUME NEW p, NEW r
    PROVE  Consider(p, r) = IF Refuses(p, r) THEN [p EXCEPT !.full = TRUE]
                            ELSE IF End(p, r) <= Begin(r) THEN p
                            ELSE IF Cannot(p, r) THEN [p EXCEPT !.full = TRUE]
                            ELSE Grown(p, r)
  BY DEF Consider, Refuses, End, Begin, Cannot, Grown, Hit, Shrunk, Lacking, Desired, Granted, Cost, Wanted

LEMMA SeqOfReq ==
    ASSUME Shapes, NEW r \in Reqs
    PROVE  /\ seq[r] \in SeqRecords
           /\ seq[r].uid \in Nat /\ seq[r].len \in Int /\ seq[r].filled \in Int /\ seq[r].input \in Int
           /\ seq[r].iin \in Int /\ seq[r].inew \in Int /\ seq[r].inflight \in Int
           /\ seq[r].active \in BOOLEAN /\ seq[r].auto \in BOOLEAN /\ seq[r].gen \in BOOLEAN /\ seq[r].retiring \in BOOLEAN
           /\ held[r] \in Nat
  BY DEF Shapes, SeqRecords

LEMMA ResumeOf ==
    ASSUME TurboEngineAssumption, Shapes, NEW r \in Reqs
    PROVE  /\ Reusable(r) \in Int /\ Resume(r) \in Int /\ Context(seq[r]) \in Int
           /\ Begin(r) \in Int /\ Wanted(r) \in Int /\ Cost(r) \in Int /\ ReadOnly(r) * cfg.blockSize \in Int
<1>1. cfg.blockSize \in Nat \ {0}
  BY SetupFacts DEF IsSetup
<1> DEFINE h == held[r] * cfg.blockSize
<1>2. h \in Int
  <2>1. held[r] \in Int /\ cfg.blockSize \in Nat
    BY <1>1, SeqOfReq
  <2> QED
    BY <2>1, TimesOf
<1>3. Reusable(r) \in Int
  <2>1. seq[r].filled \in Int
    BY SeqOfReq
  <2>2. Reusable(r) = Lesser(h, seq[r].filled)
    BY DEF Reusable
  <2> HIDE DEF h
  <2> QED
    BY <1>2, <2>1, <2>2, LesserOf
<1>4. Context(seq[r]) \in Int
  BY SeqOfReq DEF Context
<1> DEFINE c == Context(seq[r]) - seq[r].iin - 1
<1>5. c \in Int /\ seq[r].len \in Int
  BY <1>4, SeqOfReq
<1>6. Resume(r) = IF seq[r].active THEN seq[r].filled ELSE Lesser(Reusable(r), Lesser(seq[r].len, c))
  BY DEF Resume
<1> HIDE DEF c
<1>7. Lesser(seq[r].len, c) \in Int
  BY <1>5, LesserOf
<1>8. Resume(r) \in Int
  <2>1. Lesser(Reusable(r), Lesser(seq[r].len, c)) \in Int
    BY <1>3, <1>7, LesserOf
  <2> QED
    BY <1>6, <2>1, SeqOfReq
<1>9. Begin(r) \in Int
  BY <1>8, SeqOfReq DEF Begin
<1>10. Wanted(r) \in Int
  BY <1>4, <1>9 DEF Wanted
<1>11. Cost(r) \in Int
  BY <1>4, <1>10 DEF Cost
<1>12. ReadOnly(r) \in Int
  BY <1>1, <1>3, DivOf DEF ReadOnly
<1>13. ReadOnly(r) * cfg.blockSize \in Int
  BY <1>1, <1>12, TimesOf
<1> QED
  BY <1>3, <1>4, <1>8, <1>9, <1>10, <1>11, <1>13

\* What r gets, if it gets something.
GrownOf(p, r) ==
    /\ ~p.full /\ r \notin p.hit
    /\ Begin(r) < End(p, r) /\ End(p, r) <= Context(seq[r]) /\ End(p, r) \in Int
    /\ PlanShape(Grown(p, r))
    /\ DOMAIN Grown(p, r).ends = DOMAIN p.ends \cup {r} /\ Grown(p, r).ends[r] = End(p, r)
    /\ \A v \in DOMAIN p.ends : v # r => Grown(p, r).ends[v] = p.ends[v]
    /\ Grown(p, r).holds[r] >= p.holds[r] /\ Grown(p, r).holds[r] >= Blocks(Context(seq[r]))
    /\ \A v \in Reqs \ {r} : /\ v \notin Below(r) => Grown(p, r).holds[v] = p.holds[v]
                             /\ Grown(p, r).holds[v] <= p.holds[v]
                             /\ v \in Eligible /\ Grown(p, r).holds[v] # p.holds[v] => v \in Grown(p, r).hit
    /\ p.hit \subseteq Grown(p, r).hit /\ ~Grown(p, r).full

LEMMA GrownFacts ==
    ASSUME TurboEngineAssumption, Shapes, Places, NEW r \in Eligible, NEW p, PlanShape(p),
           ~Refuses(p, r), ~(End(p, r) <= Begin(r))
    PROVE  GrownOf(p, r)
<1>0. r \in Present /\ r \in Reqs /\ Eligible \subseteq Present /\ Present \subseteq Reqs /\ ~seq[r].retiring
  BY PresentFacts DEF Eligible
<1>1. p.holds \in [Reqs -> Nat] /\ p.forward \in Int /\ p.context \in Int
  BY DEF PlanShape
<1>2. Begin(r) \in Int /\ Wanted(r) \in Int /\ Cost(r) \in Int /\ Context(seq[r]) \in Int
  BY <1>0, ResumeOf
<1>3. Granted(p, r) \in Int /\ Granted(p, r) <= Wanted(r)
  <2>1. ~(Granted(p, r) <= 0)
    BY DEF Refuses
  <2>2. Lesser(Wanted(r), p.forward) \in Int /\ Lesser(Wanted(r), p.forward) <= Wanted(r)
    BY <1>1, <1>2, LesserOf
  <2>3. Granted(p, r) = 0 \/ Granted(p, r) = Lesser(Wanted(r), p.forward)
    BY DEF Granted
  <2> QED
    BY <2>1, <2>2, <2>3
<1>4. Desired(p, r) \in Int /\ Desired(p, r) <= Context(seq[r])
  <2>1. Wanted(r) = Context(seq[r]) - Begin(r) /\ Desired(p, r) = Begin(r) + Granted(p, r)
    BY DEF Wanted, Desired
  <2> QED
    BY <1>2, <1>3, <2>1
<1>5. End(p, r) \in Int /\ End(p, r) <= Context(seq[r])
  <2> DEFINE e == cfg.blockSize * (Desired(p, r) \div cfg.blockSize)
  <2>1. e \in Int /\ e <= Desired(p, r)
    <3>1. cfg.blockSize \in Nat \ {0}
      BY SetupFacts DEF IsSetup
    <3> QED
      BY <1>4, <3>1, DivOf
  <2>2. End(p, r) = e \/ End(p, r) = Desired(p, r)
    BY DEF End
  <2> HIDE DEF e
  <2> QED
    BY <1>2, <1>4, <2>1, <2>2
<1> DEFINE b == Blocks(Context(seq[r]))
           s == Shrunk(p, r)
           g == Grown(p, r)
<1>6. b \in Int
  BY <1>2, BlocksOf
<1>7. Lacking(p, r) \in Int
  <2>1. Total(Reqs, p.holds) \in Nat
    <3>1. IsFiniteSet(Reqs) /\ \A v \in Reqs : p.holds[v] \in Int
      BY <1>1, SetupFacts
    <3> QED
      BY <3>1, TotalOf
  <2>2. cfg.blocks \in Nat
    BY SetupFacts DEF IsSetup
  <2> DEFINE x == b - p.holds[r] - (cfg.blocks - Total(Reqs, p.holds))
  <2>3. x \in Int
    BY <1>0, <1>1, <1>6, <2>1, <2>2
  <2>4. Lacking(p, r) = Greater(0, x)
    BY DEF Lacking
  <2> HIDE DEF x
  <2> QED
    BY <2>3, <2>4, GreaterOf
<1>8. /\ s \in [Reqs -> Nat]
      /\ \A v \in Reqs : /\ v \notin Below(r) => s[v] = p.holds[v]
                         /\ s[v] <= p.holds[v]
  BY <1>1, <1>7, EvictOf DEF Shrunk
<1>9. r \notin Below(r)
  BY <1>0, SeqOfReq DEF Below
<1> DEFINE m == Greater(s[r], b)
           hs == [s EXCEPT ![r] = m]
           es == [v \in DOMAIN p.ends \cup {r} |-> IF v = r THEN End(p, r) ELSE p.ends[v]]
<1>10. m \in Nat /\ m >= p.holds[r] /\ m >= b
  <2>1. s[r] \in Nat /\ s[r] = p.holds[r]
    BY <1>0, <1>8, <1>9
  <2> HIDE DEF b, s
  <2> QED
    BY <1>6, <2>1 DEF Greater
<1>11. g = [p EXCEPT !.hit = p.hit \cup Hit(p, r), !.holds = hs,
                     !.forward = p.forward - (End(p, r) - Begin(r)), !.context = p.context - Cost(r), !.ends = es]
  BY DEF Grown
<1> HIDE DEF m
<1>12. hs \in [Reqs -> Nat] /\ hs[r] = m /\ \A v \in Reqs \ {r} : hs[v] = s[v]
  BY <1>0, <1>8, <1>10
<1> HIDE DEF s, b, hs
<1>13. /\ es = [v \in DOMAIN es |-> es[v]] /\ DOMAIN es = DOMAIN p.ends \cup {r} /\ DOMAIN es \subseteq Eligible
       /\ \A v \in DOMAIN es : es[v] \in Int
       /\ es[r] = End(p, r) /\ \A v \in DOMAIN p.ends : v # r => es[v] = p.ends[v]
  BY <1>5 DEF PlanShape
<1> HIDE DEF es, g
<1>14. /\ g.hit = p.hit \cup Hit(p, r) /\ g.holds = hs /\ g.forward = p.forward - (End(p, r) - Begin(r))
       /\ g.context = p.context - Cost(r) /\ g.ends = es /\ g.full = p.full
       /\ g = [full |-> g.full, hit |-> g.hit, holds |-> g.holds, forward |-> g.forward,
               context |-> g.context, ends |-> g.ends]
  BY <1>11 DEF PlanShape
<1>15. PlanShape(g)
  <2>1. p.full \in BOOLEAN
    BY DEF PlanShape
  <2>2. g.forward \in Int /\ g.context \in Int
    BY <1>1, <1>2, <1>5, <1>14
  <2> QED
    BY <1>12, <1>13, <1>14, <2>1, <2>2 DEF PlanShape
<1>16. ASSUME NEW v \in Reqs \ {r}
       PROVE  /\ v \notin Below(r) => hs[v] = p.holds[v]
              /\ hs[v] <= p.holds[v]
              /\ v \in Eligible /\ hs[v] # p.holds[v] => v \in Hit(p, r)
  <2>1. hs[v] = s[v]
    BY <1>12
  <2>2. s[v] \in Int /\ p.holds[v] \in Int /\ s[v] <= p.holds[v]
    BY <1>1, <1>8
  <2>3. v \in Eligible => v \in Present /\ ~seq[v].retiring
    BY DEF Eligible
  <2>4. v \in Eligible /\ s[v] # p.holds[v] => v \in Hit(p, r)
    BY <2>2, <2>3 DEF Hit, s
  <2> QED
    BY <1>8, <2>1, <2>4
<1>17. Begin(r) < End(p, r)
  BY <1>2, <1>5
<1>18. ~p.full /\ r \notin p.hit
  BY DEF Refuses
<1>19. hs[r] >= p.holds[r] /\ hs[r] >= Blocks(Context(seq[r]))
  BY <1>10, <1>12 DEF b
<1> QED
  BY <1>5, <1>13, <1>14, <1>15, <1>16, <1>17, <1>18, <1>19 DEF GrownOf, g

\* What holds of a plan after the first n requests: who was admitted runs to
\* a length between what it has and what it wants, on blocks that no later one
\* took; who was not admitted and lost nothing holds what it held.
PlanInv(n, p) ==
    /\ PlanShape(p)
    /\ DOMAIN p.ends \subseteq {Priority[j] : j \in 1..n}
    /\ \A r \in DOMAIN p.ends :
         /\ Begin(r) < p.ends[r] /\ p.ends[r] <= Context(seq[r])
         /\ p.holds[r] >= Blocks(Context(seq[r])) /\ p.holds[r] >= held[r]
    /\ \A r \in Reqs \ DOMAIN p.ends : p.holds[r] <= held[r]
    /\ \A r \in Eligible \ DOMAIN p.ends : r \notin p.hit => p.holds[r] = held[r]

LEMMA PriorityOf ==
    ASSUME TurboEngineAssumption, Shapes, Places
    PROVE  /\ Cardinality(Eligible) \in Nat /\ Priority \in [1..Cardinality(Eligible) -> Eligible]
           /\ \A i, j \in 1..Cardinality(Eligible) : i < j => seq[Priority[i]].uid < seq[Priority[j]].uid
           /\ \A r \in Eligible : \E i \in 1..Cardinality(Eligible) : Priority[i] = r
<1> DEFINE key == [r \in Eligible |-> seq[r].uid]
           n == Cardinality(Eligible)
<1>1. IsFiniteSet(Eligible) /\ IsKey(Eligible, key)
  BY PresentFacts
<1>2. \A r \in Eligible : key[r] = seq[r].uid
  OBVIOUS
<1>3. Priority = Ranked(Eligible, key)
  BY DEF Priority
<1> HIDE DEF key
<1>4. /\ n \in Nat /\ Priority \in [1..n -> Eligible]
      /\ \A r \in Eligible : \E i \in 1..n : Priority[i] = r
      /\ \A i, j \in 1..n : i < j => key[Priority[i]] < key[Priority[j]]
  BY <1>1, <1>3, RankedOf
<1>5. ASSUME NEW i \in 1..n, NEW j \in 1..n, i < j PROVE seq[Priority[i]].uid < seq[Priority[j]].uid
  <2>1. Priority[i] \in Eligible /\ Priority[j] \in Eligible
    BY <1>4
  <2> QED
    BY <1>2, <1>4, <1>5, <2>1
<1> QED
  BY <1>4, <1>5

LEMMA PlanStart ==
    ASSUME TurboEngineAssumption, Shapes
    PROVE  PlanInv(0, NoPlan)
<1>1. cfg.maxForward \in Int /\ cfg.maxContext \in Int /\ held \in [Reqs -> Nat]
  BY SetupFacts, SMTT(30) DEF IsSetup, Shapes
<1>2. DOMAIN NoPlan.ends = {} /\ NoPlan.ends = <<>>
  BY DEF NoPlan
<1>3. NoPlan.ends = [r \in DOMAIN NoPlan.ends |-> NoPlan.ends[r]]
  BY <1>2
<1>4. PlanShape(NoPlan)
  BY <1>1, <1>2, <1>3 DEF PlanShape, NoPlan
<1>5. NoPlan.holds = held
  BY DEF NoPlan
<1> QED
  BY <1>1, <1>2, <1>4, <1>5 DEF PlanInv

LEMMA PlanStep ==
    ASSUME TurboEngineAssumption, Shapes, Places, NEW n \in 1..Cardinality(Eligible), NEW p, PlanInv(n - 1, p)
    PROVE  PlanInv(n, Consider(p, Priority[n]))
<1> DEFINE r == Priority[n]
           g == Grown(p, r)
           c == Consider(p, r)
<1>0. n \in Nat /\ n - 1 \in Nat /\ r \in Eligible /\ Eligible \subseteq Reqs
  BY PriorityOf, PresentFacts
<1>1. {Priority[j] : j \in 1..(n - 1)} \subseteq {Priority[j] : j \in 1..n}
  BY <1>0
<1>2. PlanShape(p)
  BY DEF PlanInv
<1>3. CASE c = p
  BY <1>1, <1>3 DEF PlanInv
<1>4. CASE c = [p EXCEPT !.full = TRUE]
  <2>1. /\ c.full = TRUE /\ c.hit = p.hit /\ c.holds = p.holds /\ c.ends = p.ends
        /\ c.forward = p.forward /\ c.context = p.context
        /\ c = [full |-> c.full, hit |-> c.hit, holds |-> c.holds, forward |-> c.forward,
                context |-> c.context, ends |-> c.ends]
    BY <1>2, <1>4 DEF PlanShape
  <2> HIDE DEF c
  <2>2. PlanShape(c)
    BY <1>2, <2>1 DEF PlanShape
  <2>3. PlanInv(n, c)
    BY <1>1, <2>1, <2>2 DEF PlanInv
  <2> QED
    BY <2>3 DEF c
<1>5. CASE c = g /\ ~Refuses(p, r) /\ ~(End(p, r) <= Begin(r))
  <2>1. GrownOf(p, r)
    BY <1>0, <1>2, <1>5, GrownFacts
  <2>2. r \notin DOMAIN p.ends
    <3> SUFFICES ASSUME r \in DOMAIN p.ends PROVE FALSE
      OBVIOUS
    <3>1. PICK j \in 1..(n - 1) : r = Priority[j]
      BY DEF PlanInv
    <3>2. seq[Priority[j]].uid < seq[Priority[n]].uid
      BY <1>0, PriorityOf
    <3>3. seq[r].uid \in Nat
      BY <1>0, SeqOfReq
    <3> QED
      BY <3>1, <3>2, <3>3
  <2>3. p.holds[r] = held[r]
    BY <1>0, <2>1, <2>2 DEF GrownOf, PlanInv
  <2> HIDE DEF g, r
  <2>4. PlanShape(g)
    BY <2>1 DEF GrownOf, g
  <2>5. DOMAIN g.ends = DOMAIN p.ends \cup {r} /\ g.ends[r] = End(p, r) /\ \A v \in DOMAIN p.ends : g.ends[v] = p.ends[v]
    BY <2>1, <2>2 DEF GrownOf, g
  <2>6. DOMAIN g.ends \subseteq {Priority[j] : j \in 1..n}
    <3>1. r \in {Priority[j] : j \in 1..n}
      BY <1>0 DEF r
    <3> QED
      BY <1>1, <2>5, <3>1 DEF PlanInv
  <2>7. \A v \in DOMAIN g.ends :
         /\ Begin(v) < g.ends[v] /\ g.ends[v] <= Context(seq[v])
         /\ g.holds[v] >= Blocks(Context(seq[v])) /\ g.holds[v] >= held[v]
    <3> TAKE v \in DOMAIN g.ends
    <3>1. CASE v = r
      BY <2>1, <2>3, <2>5, <3>1 DEF GrownOf, g
    <3>2. CASE v # r
      <4>1. v \in DOMAIN p.ends /\ v \in Eligible /\ v \in Reqs
        BY <1>0, <1>2, <2>5, <3>2 DEF PlanShape
      <4>2. PICK j \in 1..(n - 1) : v = Priority[j]
        BY <4>1 DEF PlanInv
      <4>3. seq[v].uid < seq[r].uid
        BY <1>0, <4>2, PriorityOf DEF r
      <4>4. v \notin Below(r)
        <5>1. seq[v].uid \in Nat /\ seq[r].uid \in Nat
          BY <1>0, <4>1, SeqOfReq
        <5> QED
          BY <4>1, <4>3, <5>1 DEF Below, Eligible
      <4>5. g.holds[v] = p.holds[v]
        BY <2>1, <3>2, <4>1, <4>4 DEF GrownOf, g
      <4> QED
        BY <2>5, <4>1, <4>5 DEF PlanInv
    <3> QED
      BY <3>1, <3>2
  <2>8. \A v \in Reqs \ DOMAIN g.ends : g.holds[v] <= held[v]
    <3> TAKE v \in Reqs \ DOMAIN g.ends
    <3>1. v # r /\ v \in Reqs \ DOMAIN p.ends
      BY <2>5
    <3>2. g.holds[v] <= p.holds[v]
      BY <2>1, <3>1 DEF GrownOf, g
    <3>3. p.holds[v] <= held[v]
      BY <3>1 DEF PlanInv
    <3>4. p.holds[v] \in Nat /\ g.holds[v] \in Nat /\ held[v] \in Nat
      BY <1>2, <2>4, SeqOfReq DEF PlanShape
    <3> QED
      BY <3>2, <3>3, <3>4
  <2>9. \A v \in Eligible \ DOMAIN g.ends : v \notin g.hit => g.holds[v] = held[v]
    <3> SUFFICES ASSUME NEW v \in Eligible \ DOMAIN g.ends, v \notin g.hit PROVE g.holds[v] = held[v]
      OBVIOUS
    <3>1. v # r /\ v \in Eligible \ DOMAIN p.ends /\ v \in Reqs \ {r}
      BY <1>0, <2>5
    <3>2. g.holds[v] = p.holds[v] /\ v \notin p.hit
      BY <2>1, <3>1 DEF GrownOf, g
    <3> QED
      BY <3>1, <3>2 DEF PlanInv
  <2>10. PlanInv(n, g)
    BY <2>4, <2>6, <2>7, <2>8, <2>9 DEF PlanInv
  <2> QED
    BY <1>5, <2>10 DEF r, g
<1>6. c = IF Refuses(p, r) THEN [p EXCEPT !.full = TRUE]
          ELSE IF End(p, r) <= Begin(r) THEN p
          ELSE IF Cannot(p, r) THEN [p EXCEPT !.full = TRUE]
          ELSE g
  BY ConsiderDef
<1> QED
  BY <1>3, <1>4, <1>5, <1>6

LEMMA PlanFacts ==
    ASSUME TurboEngineAssumption, Shapes, Places, NEW p \in Plans
    PROVE  PlanInv(Cardinality(Eligible), p)
<1> DEFINE n == Cardinality(Eligible)
<1>1. n \in Nat
  BY PresentFacts
<1>2. PICK f : IsPass(f, n) /\ Plans = f[n]
  BY <1>1, PlansOf
<1> DEFINE T == {i \in 0..n : ~ \A q \in f[i] : PlanInv(i, q)}
<1>3. T = {}
  <2> SUFFICES ASSUME T # {} PROVE FALSE
    OBVIOUS
  <2>1. T \in SUBSET Nat
    BY <1>1
  <2>2. PICK m \in T : \A k \in T : m <= k
    <3> HIDE DEF T
    <3> QED
      BY <2>1, LeastOf
  <2>3. m \in 0..n /\ m \in Nat
    BY <1>1
  <2>4. f[m] = IF m = 0 THEN {NoPlan} ELSE Considered(f[m - 1], m)
    BY <1>2, <2>3 DEF IsPass
  <2>5. CASE m = 0
    BY <2>4, <2>5, PlanStart
  <2>6. CASE m # 0
    <3>1. m - 1 \in 0..n /\ m - 1 \notin T /\ m \in 1..n
      BY <1>1, <2>2, <2>3, <2>6
    <3>2. \A q \in f[m - 1] : PlanInv(m - 1, q)
      BY <3>1
    <3>3. ASSUME NEW q \in f[m] PROVE PlanInv(m, q)
      <4>1. PICK p0 \in f[m - 1] : q = Consider(p0, Priority[m])
        BY <2>4, <2>6 DEF Considered
      <4> QED
        BY <3>1, <3>2, <4>1, PlanStep
    <3> QED
      BY <3>3
  <2> QED
    BY <2>5, <2>6
<1>4. n \in 0..n /\ n \notin T
  BY <1>1, <1>3
<1> QED
  BY <1>2, <1>4

---------------------------------------------------------------------------
(* The order of the slots. *)

LEMMA KeyOrder ==
    ASSUME NEW n \in Nat, NEW c \in Int, NEW d \in Int, NEW i \in 1..n, NEW j \in 1..n
    PROVE  /\ c * n + i \in Int /\ d * n + j \in Int
           /\ c < d => c * n + i < d * n + j
           /\ c * n + i = d * n + j => c = d /\ i = j
<1>1. c * n \in Int /\ d * n \in Int
  BY Z3
<1>2. c < d => c * n + n <= d * n
  <2>1. ASSUME c < d PROVE c * n + n <= d * n
    <3>1. (c + 1) * n <= d * n
      BY <2>1, TimesOf
    <3>2. (c + 1) * n = c * n + n
      BY Z3
    <3> QED
      BY <3>1, <3>2
  <2> QED
    BY <2>1
<1>3. d < c => d * n + n <= c * n
  <2>1. ASSUME d < c PROVE d * n + n <= c * n
    <3>1. (d + 1) * n <= c * n
      BY <2>1, TimesOf
    <3>2. (d + 1) * n = d * n + n
      BY Z3
    <3> QED
      BY <3>1, <3>2
  <2> QED
    BY <2>1
<1> DEFINE x == c * n
           y == d * n
<1>4. x \in Int /\ y \in Int /\ (c < d => x + n <= y) /\ (d < c => y + n <= x) /\ (c = d => x = y)
  BY <1>1, <1>2, <1>3
<1> HIDE DEF x, y
<1>5. x + i \in Int /\ y + j \in Int /\ (c < d => x + i < y + j) /\ (x + i = y + j => c = d /\ i = j)
  BY <1>4
<1> QED
  BY <1>5 DEF x, y

\* What has lower keys than the rest comes first.
LEMMA Prefix ==
    ASSUME NEW P, IsFiniteSet(P), NEW key, IsKey(P, key), NEW A \in SUBSET P,
           \A a \in A, x \in P \ A : key[a] < key[x]
    PROVE  /\ Cardinality(A) \in Nat /\ Cardinality(A) <= Cardinality(P)
           /\ \A i \in 1..Cardinality(P) : i <= Cardinality(A) <=> Ranked(P, key)[i] \in A
<1>1. IsFiniteSet(A) /\ Cardinality(A) <= Cardinality(P) /\ Cardinality(A) \in Nat /\ Cardinality(P) \in Nat
  BY FS_Subset, FS_CardinalityType
<1>2. ASSUME NEW p \in P, p \in A PROVE Rank(P, key, p) <= Cardinality(A)
  <2> DEFINE R == {x \in P : key[x] <= key[p]}
  <2>1. R \subseteq A
    <3>1. \A x \in P \ A : key[p] < key[x] /\ key[x] \in Int /\ key[p] \in Int
      BY <1>2 DEF IsKey
    <3>2. \A x \in P \ A : ~(key[x] <= key[p])
      BY <3>1
    <3> QED
      BY <3>2
  <2>2. Rank(P, key, p) = Cardinality(R)
    BY DEF Rank
  <2> HIDE DEF R
  <2> QED
    BY <1>1, <2>1, <2>2, FS_Subset
<1>3. ASSUME NEW p \in P, p \notin A PROVE Cardinality(A) < Rank(P, key, p)
  <2> DEFINE R == {x \in P : key[x] <= key[p]}
  <2>1. A \subseteq R /\ p \in R /\ R \subseteq P
    <3>1. \A a \in A : key[a] < key[p] /\ key[a] \in Int /\ key[p] \in Int
      BY <1>3 DEF IsKey
    <3>2. \A a \in A : key[a] <= key[p]
      BY <3>1
    <3>3. key[p] <= key[p]
      BY DEF IsKey
    <3> QED
      BY <3>2, <3>3
  <2>2. Rank(P, key, p) = Cardinality(R)
    BY DEF Rank
  <2> HIDE DEF R
  <2>3. IsFiniteSet(R) /\ Cardinality(R) \in Nat
    BY <2>1, FS_Subset, FS_CardinalityType
  <2>4. Cardinality(A) <= Cardinality(R) /\ Cardinality(A) # Cardinality(R)
    BY <1>3, <2>1, <2>3, FS_Subset
  <2> QED
    BY <1>1, <2>2, <2>3, <2>4
<1>4. ASSUME NEW i \in 1..Cardinality(P) PROVE i <= Cardinality(A) <=> Ranked(P, key)[i] \in A
  <2>1. Ranked(P, key)[i] \in P /\ Rank(P, key, Ranked(P, key)[i]) = i
    BY RankedOf
  <2>2. Ranked(P, key)[i] \in A => i <= Cardinality(A)
    BY <1>2, <2>1
  <2>3. Ranked(P, key)[i] \notin A => Cardinality(A) < i
    BY <1>3, <2>1
  <2>4. i \in Nat
    BY <1>1
  <2> QED
    BY <1>1, <2>2, <2>3, <2>4
<1> QED
  BY <1>1, <1>4

Swapped(ends) == {r \in Eligible \ DOMAIN ends : seq[r].active}
Samplers(qs, ends) == {r \in DOMAIN ends : qs[r].gen}

\* The slots in a new order: all that are present, the batch first, and in it
\* those that sample; behind it those that were swapped out.
Ordered(order, qs, ends) ==
    LET n == Cardinality(Present)
        d == Cardinality(DOMAIN ends)
        w == Cardinality(Swapped(ends))
        g == Cardinality(Samplers(qs, ends))
    IN /\ n \in Nat /\ d \in Nat /\ d <= n /\ w \in Nat /\ g \in Nat
       /\ order \in [1..n -> Present] /\ order \in Seq(Reqs) /\ Len(order) = n /\ DOMAIN order = 1..n
       /\ \A i, j \in 1..n : order[i] = order[j] => i = j
       /\ \A r \in Present : \E i \in 1..n : order[i] = r
       /\ \A i \in 1..n : i <= d <=> order[i] \in DOMAIN ends
       /\ \A i \in 1..n : i <= g <=> order[i] \in Samplers(qs, ends)
       /\ \A i \in 1..n : i \in d + 1 .. d + w <=> order[i] \in Swapped(ends)

LEMMA OrderOf ==
    ASSUME TurboEngineAssumption, Shapes, Places, NEW qs, NEW ends, DOMAIN ends \subseteq Eligible
    PROVE  Ordered(Order(qs, ends), qs, ends)
<1> DEFINE L == Len(slots)
           key == [r \in Present |-> Class(r, qs, ends) * L + Place(slots, r)]
           order == Order(qs, ends)
           n == Cardinality(Present)
           D == DOMAIN ends
           W == Swapped(ends)
           G == Samplers(qs, ends)
<1>1. IsFiniteSet(Present) /\ Present \subseteq Reqs /\ Eligible \subseteq Present
  BY PresentFacts
<1>2. L \in Nat /\ DOMAIN slots = 1..L
  BY ElementOf DEF Shapes
<1>3. \A r \in Present : Place(slots, r) \in 1..L /\ slots[Place(slots, r)] = r
  BY <1>2, PlaceOf DEF Present
<1>4. \A r \in Present :
        /\ Class(r, qs, ends) \in Int
        /\ r \in G => Class(r, qs, ends) \in {0, 1}
        /\ r \in D \ G => Class(r, qs, ends) \in {2, 3}
        /\ r \in W => Class(r, qs, ends) = 4
        /\ r \notin D /\ r \notin W => Class(r, qs, ends) \in {5, 6}
  BY <1>1 DEF Class, Samplers, Swapped
<1>5. order = Ranked(Present, key)
  BY DEF Order
<1>6. \A r \in Present : key[r] = Class(r, qs, ends) * L + Place(slots, r)
  OBVIOUS
<1> HIDE DEF key, order, L
<1>7. \A p, r \in Present :
        /\ key[p] \in Int
        /\ Class(p, qs, ends) < Class(r, qs, ends) => key[p] < key[r]
        /\ key[p] = key[r] => Place(slots, p) = Place(slots, r)
  <2> TAKE p, r \in Present
  <2> DEFINE c == Class(p, qs, ends)
             e == Class(r, qs, ends)
             i == Place(slots, p)
             j == Place(slots, r)
  <2>1. c \in Int /\ e \in Int /\ i \in 1..L /\ j \in 1..L /\ key[p] = c * L + i /\ key[r] = e * L + j
    BY <1>3, <1>4, <1>6
  <2> HIDE DEF c, e, i, j
  <2>2. key[p] \in Int /\ (c < e => key[p] < key[r]) /\ (key[p] = key[r] => i = j)
    BY <1>2, <2>1, KeyOrder, SMTT(30)
  <2> QED
    BY <2>2 DEF c, e, i, j
<1>8. IsKey(Present, key)
  <2>1. \A p, r \in Present : key[p] = key[r] => p = r
    BY <1>3, <1>7
  <2> QED
    BY <1>7, <2>1 DEF IsKey
<1>9. /\ n \in Nat /\ order \in [1..n -> Present]
      /\ \A i, j \in 1..n : order[i] = order[j] => i = j
      /\ \A r \in Present : \E i \in 1..n : order[i] = r
  BY <1>1, <1>5, <1>8, RankedOf
<1>10. order \in Seq(Reqs) /\ Len(order) = n /\ DOMAIN order = 1..n
  <2> HIDE DEF n
  <2>1. n \in Nat /\ order \in [1..n -> Reqs]
    BY <1>1, <1>9
  <2> QED
    BY <2>1, SeqFrom
<1>11. /\ Cardinality(D) \in Nat /\ Cardinality(D) <= n
       /\ \A i \in 1..n : i <= Cardinality(D) <=> order[i] \in D
  <2>1. D \in SUBSET Present
    BY <1>1
  <2>2. \A a \in D, x \in Present \ D : key[a] < key[x]
    <3> TAKE a \in D, x \in Present \ D
    <3>1. Class(a, qs, ends) \in 0..3 /\ Class(x, qs, ends) \in 4..6
      BY <1>4, <2>1
    <3>2. Class(a, qs, ends) < Class(x, qs, ends)
      BY <3>1
    <3> QED
      BY <1>7, <2>1, <3>2
  <2> HIDE DEF D
  <2> QED
    BY <1>1, <1>5, <1>8, <2>1, <2>2, Prefix
<1>12. /\ Cardinality(G) \in Nat
       /\ \A i \in 1..n : i <= Cardinality(G) <=> order[i] \in G
  <2>1. G \in SUBSET Present
    BY <1>1 DEF Samplers
  <2>2. \A a \in G, x \in Present \ G : key[a] < key[x]
    <3> TAKE a \in G, x \in Present \ G
    <3>1. Class(a, qs, ends) \in 0..1 /\ Class(x, qs, ends) \in 2..6
      BY <1>4, <2>1
    <3>2. Class(a, qs, ends) < Class(x, qs, ends)
      BY <3>1
    <3> QED
      BY <1>7, <2>1, <3>2
  <2> HIDE DEF G
  <2> QED
    BY <1>1, <1>5, <1>8, <2>1, <2>2, Prefix
<1>13. /\ Cardinality(W) \in Nat
       /\ \A i \in 1..n : i <= Cardinality(D) + Cardinality(W) <=> order[i] \in D \cup W
  <2> DEFINE B == D \cup W
  <2>1. B \in SUBSET Present /\ D \cap W = {} /\ W \subseteq Present /\ D \subseteq Present
    BY <1>1 DEF Swapped
  <2>2. \A a \in B, x \in Present \ B : key[a] < key[x]
    <3> TAKE a \in B, x \in Present \ B
    <3>1. Class(a, qs, ends) \in 0..4 /\ Class(x, qs, ends) \in 5..6
      BY <1>4, <2>1
    <3>2. Class(a, qs, ends) < Class(x, qs, ends)
      BY <3>1
    <3> QED
      BY <1>7, <2>1, <3>2
  <2>3. IsFiniteSet(D) /\ IsFiniteSet(W)
    BY <1>1, <2>1, FS_Subset
  <2>4. Cardinality(B) = Cardinality(D) + Cardinality(W) /\ Cardinality(W) \in Nat
    <3> HIDE DEF D, W
    <3>1. Cardinality(D \cup W) = Cardinality(D) + Cardinality(W) - Cardinality(D \cap W)
      BY <2>3, FS_Union
    <3>2. Cardinality(D \cap W) = 0
      BY <2>1, FS_EmptySet
    <3>3. Cardinality(D) \in Nat /\ Cardinality(W) \in Nat
      BY <2>3, FS_CardinalityType
    <3> QED
      BY <3>1, <3>2, <3>3
  <2> HIDE DEF B
  <2>5. \A i \in 1..n : i <= Cardinality(B) <=> order[i] \in B
    BY <1>1, <1>5, <1>8, <2>1, <2>2, Prefix
  <2> QED
    BY <2>4, <2>5 DEF B
<1> DEFINE d == Cardinality(D)
           w == Cardinality(W)
<1>14. \A i \in 1..n : i \in d + 1 .. d + w <=> order[i] \in W
  <2> TAKE i \in 1..n
  <2>1. D \cap W = {}
    BY DEF Swapped
  <2>2. (i <= d <=> order[i] \in D) /\ (i <= d + w <=> order[i] \in D \cup W) /\ d \in Nat /\ w \in Nat /\ i \in Nat
    BY <1>9, <1>11, <1>13
  <2> HIDE DEF d, w, D, W
  <2>3. i \in d + 1 .. d + w <=> ~(i <= d) /\ i <= d + w
    BY <2>2
  <2> QED
    BY <2>1, <2>2, <2>3
<1>15. Ordered(order, qs, ends)
  <2> HIDE DEF n, d, w
  <2>1. d \in Nat /\ d <= n /\ w \in Nat /\ \A i \in 1..n : i <= d <=> order[i] \in D
    BY <1>11, <1>13 DEF d, w
  <2> HIDE DEF D, W, G
  <2> USE DEF n, d, w, D, W, G
  <2> QED
    BY <1>9, <1>10, <1>12, <1>14, <2>1 DEF Ordered
<1> QED
  BY <1>15 DEF order

---------------------------------------------------------------------------
(* The reader and the signal thread change none of the engine's state. *)

StillChained == (pc' = "collect" <=> pc = "collect") /\ UNCHANGED <<cfg, inbound, outbound, dev, nactive>>
StillPlaced  == UNCHANGED <<client, queue, popped, slots, seq, held, pc, uids>>
StillAlive   == (pc' = "collect" <=> pc = "collect") /\ UNCHANGED <<cfg, inbound, outbound, nactive, perm, slots, seq>>
StillInside  == UNCHANGED <<cfg, queue, popped, pc, uids, slots, perm, nactive, nswapout, seq, held, inbound, outbound,
                            dev, kv, out, sigs>>

LEMMA StillChainedOf ==
    ASSUME Chained, StillChained
    PROVE  Chained'
  BY DEF Chained, StillChained

LEMMA StillPlacedOf ==
    ASSUME Places, StillPlaced
    PROVE  Places'
  BY DEF Places, StillPlaced, Once, Present, Range

LEMMA StillAliveOf ==
    ASSUME Alive, StillAlive
    PROVE  Alive'
<1>1. Pipeline' = Pipeline
  BY DEF Pipeline, StillAlive
<1>2. \A i : RowOf(i)' = RowOf(i)
  BY DEF RowOf, StillAlive
<1>3. InSlots'
  BY <1>1, <1>2 DEF InSlots, Alive, Newest, StillAlive
<1>4. Counted'
  <2>1. \A r \in Reqs : In1(1, r)' = In1(1, r) /\ In1(2, r)' = In1(2, r)
    BY <1>1 DEF In1, Names
  <2>2. seq' = seq
    BY DEF StillAlive
  <2> QED
    BY <2>1, <2>2 DEF Counted, Alive
<1> QED
  BY <1>3, <1>4 DEF Alive

\* What a step of the reader keeps.
Outside == StillInside /\ (client' = client \/ \E r \in Reqs : /\ client[r] # "idle"
                                                               /\ client' = [client EXCEPT ![r] = client'[r]]
                                                               /\ client'[r] \in {"reading", "draining", "done", "gone"})

LEMMA OutsideFrame ==
    ASSUME Frame, Outside,
           prev' \in [Reqs -> Int], told' \in [Reqs -> Statuses], state' \in [Reqs -> SUBSET States],
           flag' \in [Reqs -> {-1, 0, 1}], signals' \in Seq(Signals)
    PROVE  Frame'
<1>1. client' \in [Reqs -> {"idle", "reading", "draining", "done", "gone"}]
      /\ \A r \in Reqs : client'[r] = "idle" => client[r] = "idle"
  BY DEF Outside, Frame, Shapes
<1>2. Shapes'
  BY <1>1 DEF Outside, StillInside, Frame, Shapes
<1>3. Places'
  <2>1. Places
    BY DEF Frame
  <2>2. Present' = Present /\ UNCHANGED <<queue, popped, slots, seq, held, pc, uids>>
    BY DEF Present, Outside, StillInside
  <2> QED
    BY <1>1, <2>1, <2>2 DEF Places
<1>4. Chained'
  BY StillChainedOf DEF Frame, StillChained, Outside, StillInside
<1> QED
  BY <1>2, <1>3, <1>4 DEF Frame

LEMMA OutsideAlive ==
    ASSUME Alive, Outside
    PROVE  Alive'
  BY StillAliveOf DEF Outside, StillInside, StillAlive

LEMMA ReleaseOutside ==
    ASSUME Frame, NEW r \in Reqs, Release(r)
    PROVE  Outside /\ Frame'
<1>1. Outside
  BY DEF Release, Outside, StillInside, loopVars, stateVars, pipeVars, deviceVars
<1> QED
  BY <1>1, OutsideFrame DEF Release, Frame, Shapes

LEMMA ConsumeOutside ==
    ASSUME Frame, NEW r \in Reqs, Consume(r)
    PROVE  Outside /\ Frame'
<1>0. client \in [Reqs -> {"idle", "reading", "draining", "done", "gone"}] /\ client[r] \in {"reading", "draining"}
      /\ prev \in [Reqs -> Int] /\ told \in [Reqs -> Statuses] /\ state \in [Reqs -> SUBSET States]
  BY DEF Consume, Frame, Shapes
<1>1. PICK s \in state[r] :
         /\ prev' = IF client[r] = "reading" /\ s.st \in {Ok, Finish, Canceled}
                    THEN [prev EXCEPT ![r] = s.len] ELSE prev
         /\ told' = [told EXCEPT ![r] = s.st]
         /\ client' = IF s.st = Ok THEN client
                      ELSE [client EXCEPT ![r] = IF @ = "reading" THEN "done" ELSE "gone"]
  BY DEF Consume
<1>2. s \in States
  BY <1>0
<1>3. s.st \in Statuses /\ s.len \in Int
  BY <1>2 DEF States
<1>4. prev' \in [Reqs -> Int] /\ told' \in [Reqs -> Statuses]
  BY <1>0, <1>1, <1>3
<1>5. client' = client \/ /\ client[r] # "idle"
                          /\ client' = [client EXCEPT ![r] = client'[r]]
                          /\ client'[r] \in {"reading", "draining", "done", "gone"}
  BY <1>0, <1>1
<1>6. state' \in [Reqs -> SUBSET States]
  BY <1>0 DEF Consume
<1>7. Outside
  BY <1>5 DEF Consume, Outside, StillInside, loopVars, stateVars, pipeVars, deviceVars
<1>8. UNCHANGED <<flag, signals>>
  BY DEF Consume
<1> QED
  BY <1>4, <1>6, <1>7, <1>8, OutsideFrame DEF Frame, Shapes

LEMMA CancelTyped ==
    ASSUME Shapes, NEW r \in Reqs, Cancel(r)
    PROVE  flag' \in [Reqs -> {-1, 0, 1}] /\ signals' \in Seq(Signals)
<1>1. [req |-> r, st |-> Canceled, len |-> 0] \in Signals
  BY DEF Signals, Statuses, Answered
<1>2. signals \in Seq(Signals) /\ flag \in [Reqs -> {-1, 0, 1}]
  BY DEF Shapes
<1> QED
  BY <1>1, <1>2, AppendOf DEF Cancel

LEMMA LeaveOutside ==
    ASSUME Frame, NEW r \in Reqs, Leave(r)
    PROVE  Outside /\ Frame'
<1>1. client' = [client EXCEPT ![r] = "draining"] /\ client[r] = "reading" /\ Cancel(r) /\ Shapes
  BY DEF Leave, Frame
<1>2. client'[r] = "draining"
  BY <1>1 DEF Shapes
<1>3. Outside
  BY <1>1, <1>2 DEF Leave, Outside, StillInside, loopVars, stateVars, pipeVars, deviceVars
<1>4. UNCHANGED <<prev, told, state>>
  BY DEF Leave
<1> QED
  BY <1>1, <1>3, <1>4, CancelTyped, OutsideFrame DEF Shapes

LEMMA AsyncCancelOutside ==
    ASSUME Frame, NEW r \in Reqs, AsyncCancel(r)
    PROVE  Outside /\ Frame'
<1>1. Outside /\ Cancel(r) /\ Shapes /\ UNCHANGED <<prev, told, state>>
  BY DEF AsyncCancel, Outside, StillInside, loopVars, stateVars, pipeVars, deviceVars, clientVars, Frame
<1> QED
  BY <1>1, CancelTyped, OutsideFrame DEF Shapes

LEMMA SignalOutside ==
    ASSUME Frame, Signal
    PROVE  Outside /\ Frame'
<1>1. Outside /\ Shapes /\ UNCHANGED <<prev, told, flag>> /\ signals # <<>> /\ signals' = Tail(signals)
  BY DEF Signal, Outside, StillInside, loopVars, stateVars, pipeVars, deviceVars, clientVars, Frame
<1>2. signals \in Seq(Signals) /\ state \in [Reqs -> SUBSET States]
  BY <1>1 DEF Shapes
<1>3. Head(signals) \in Signals /\ signals' \in Seq(Signals)
  BY <1>1, <1>2
<1> DEFINE s == Head(signals)
           e == [st |-> s.st, len |-> s.len]
<1>4. e \in States /\ state' = [state EXCEPT ![s.req] = {e}]
  BY <1>3 DEF Signals, States, Signal
<1>5. state' \in [Reqs -> SUBSET States]
  BY <1>2, <1>4
<1> QED
  BY <1>1, <1>3, <1>5, OutsideFrame DEF Shapes

---------------------------------------------------------------------------
(* Requests are sent and taken. *)

LEMMA SubmitFrame ==
    ASSUME TurboEngineAssumption, Frame, NEW r \in Reqs, Submit(r)
    PROVE  Frame' /\ StillAlive
<1>0. Shapes /\ Places /\ Chained
  BY DEF Frame
<1>1. client[r] = "idle" /\ client' = [client EXCEPT ![r] = "reading"]
      /\ prev' = [prev EXCEPT ![r] = cfg.prompt[r]] /\ queue' = Append(queue, r)
      /\ UNCHANGED <<cfg, told, state, flag, popped, signals, sigs, pc, uids, stateVars, inbound, outbound, dev, kv, out>>
  BY DEF Submit, loopVars, pipeVars, deviceVars
<1>2. cfg.prompt[r] \in Int
  BY <1>0, SetupFacts DEF IsSetup
<1>3. queue \in Seq(Reqs) /\ queue' \in Seq(Reqs)
  BY <1>0, <1>1, AppendOf DEF Shapes
<1>4. client' \in [Reqs -> {"idle", "reading", "draining", "done", "gone"}] /\ prev' \in [Reqs -> Int]
  BY <1>0, <1>1, <1>2 DEF Shapes
<1>5. UNCHANGED <<slots, perm, nactive, nswapout, seq, held>>
  BY <1>1 DEF stateVars
<1>6. Shapes'
  BY <1>0, <1>1, <1>3, <1>4, <1>5 DEF Shapes
<1>7. Range(queue') = Range(queue) \cup {r} /\ r \notin Range(queue) /\ r \notin Range(popped) /\ r \notin Present
  <2>1. r \notin Range(queue) /\ r \notin Range(popped) /\ r \notin Present
    BY <1>0, <1>1 DEF Places
  <2>2. /\ DOMAIN queue' = DOMAIN queue \cup {Len(queue) + 1}
        /\ \A i \in DOMAIN queue : queue'[i] = queue[i]
        /\ queue'[Len(queue) + 1] = r
    BY <1>1, <1>3, AppendOf
  <2>3. Range(queue') = Range(queue) \cup {r}
    BY <2>2 DEF Range
  <2> QED
    BY <2>1, <2>3
<1>8. Once(queue')
  <2>1. /\ DOMAIN queue' = DOMAIN queue \cup {Len(queue) + 1}
        /\ \A i \in DOMAIN queue : queue'[i] = queue[i] /\ queue[i] # r
        /\ queue'[Len(queue) + 1] = r
    BY <1>1, <1>3, <1>7, AppendOf DEF Range
  <2>2. Once(queue)
    BY <1>0 DEF Places
  <2> QED
    BY <2>1, <2>2 DEF Once
<1>9. Present' = Present
  BY <1>5 DEF Present
<1>10. \A p \in Reqs : p # r => client'[p] = client[p]
  BY <1>0, <1>1 DEF Shapes
<1>11. client'[r] = "reading"
  BY <1>0, <1>1 DEF Shapes
<1>12. Places'
  BY <1>0, <1>1, <1>5, <1>7, <1>8, <1>9, <1>10, <1>11 DEF Places
<1>13. Chained'
  BY <1>0, <1>1, <1>5, StillChainedOf DEF StillChained
<1>14. StillAlive
  BY <1>1, <1>5 DEF StillAlive
<1> QED
  BY <1>6, <1>12, <1>13, <1>14 DEF Frame

LEMMA PopFrame ==
    ASSUME TurboEngineAssumption, Frame, Pop
    PROVE  Frame' /\ StillAlive
<1>0. Shapes /\ Places /\ Chained /\ NoReq \notin Reqs
  BY SetupFacts DEF Frame
<1> DEFINE A == {i \in Seen : flag[queue[i]] = 0}
           B == DOMAIN queue \ Seen
<1>1. /\ pc = "pop" /\ popped' = Entries(queue, A) /\ queue' = Entries(queue, B)
      /\ flag' = [r \in Reqs |-> IF \E i \in Seen : queue[i] = r THEN 1 ELSE flag[r]] /\ pc' = "admit"
      /\ UNCHANGED <<cfg, client, prev, told, state, signals, sigs, uids, stateVars, inbound, outbound, dev, kv, out>>
  BY DEF Pop, clientVars, pipeVars, deviceVars
<1>2. queue \in Seq(Reqs) /\ A \in SUBSET DOMAIN queue /\ B \in SUBSET DOMAIN queue /\ A \cap B = {} /\ Once(queue)
  BY <1>0 DEF Shapes, Places, Seen
<1> HIDE DEF A, B
<1>3. popped' \in Seq(Reqs) /\ queue' \in Seq(Reqs)
  BY <1>1, <1>2, EntriesOf
<1>4. /\ Once(popped') /\ Once(queue') /\ Range(popped') \cap Range(queue') = {}
      /\ Range(popped') = {queue[i] : i \in A} /\ Range(queue') = {queue[i] : i \in B}
  BY <1>0, <1>1, <1>2, PartsOf
<1>5. Range(popped') \subseteq Range(queue) /\ Range(queue') \subseteq Range(queue)
  BY <1>2, <1>4 DEF Range
<1>6. flag' \in [Reqs -> {-1, 0, 1}]
  BY <1>0, <1>1 DEF Shapes
<1>7. UNCHANGED <<slots, perm, nactive, nswapout, seq, held>>
  BY <1>1 DEF stateVars
<1>8. Shapes'
  BY <1>0, <1>1, <1>3, <1>6, <1>7 DEF Shapes
<1>9. Present' = Present
  BY <1>7 DEF Present
<1>10. Places'
  BY <1>0, <1>1, <1>4, <1>5, <1>7, <1>9 DEF Places
<1>11. Chained'
  BY <1>0, <1>1, <1>7, StillChainedOf DEF StillChained
<1>12. StillAlive
  BY <1>1, <1>7 DEF StillAlive
<1> QED
  BY <1>8, <1>10, <1>11, <1>12 DEF Frame

---------------------------------------------------------------------------
(* Retire, and the answers. *)

\* Who goes, and what is left of the slots.
Gone(rs, qs) == {r \in Reqs : r \in Range(rs) /\ Over(qs[r])}
Retired(rs, qs, hs) ==
    /\ slots' \in Seq(Reqs \cup {NoReq}) /\ DOMAIN slots' = DOMAIN rs /\ Once(slots')
    /\ \A i \in DOMAIN rs : slots'[i] = IF rs[i] \in Gone(rs, qs) THEN NoReq ELSE rs[i]
    /\ Present' = (Range(rs) \ {NoReq}) \ Gone(rs, qs)
    /\ seq' \in [Reqs -> SeqRecords] /\ held' \in [Reqs -> Nat]
    /\ \A r \in Reqs : /\ seq'[r] = IF r \in Gone(rs, qs) THEN NoSeq ELSE qs[r]
                       /\ held'[r] = IF r \in Gone(rs, qs) THEN 0 ELSE hs[r]

LEMMA RetireOf ==
    ASSUME NEW rs \in Seq(Reqs \cup {NoReq}), Once(rs), NEW qs \in [Reqs -> SeqRecords], NEW hs \in [Reqs -> Nat],
           NoReq \notin Reqs, Retire(rs, qs, hs)
    PROVE  Retired(rs, qs, hs)
<1> DEFINE gone == Gone(rs, qs)
<1>1. /\ slots' = [i \in DOMAIN rs |-> IF rs[i] \in gone THEN NoReq ELSE rs[i]]
      /\ seq' = [r \in Reqs |-> IF r \in gone THEN NoSeq ELSE qs[r]]
      /\ held' = [r \in Reqs |-> IF r \in gone THEN 0 ELSE hs[r]]
  BY DEF Retire, Gone
<1>2. gone \subseteq Reqs
  BY DEF Gone
<1> HIDE DEF gone
<1>3. DOMAIN rs = 1..Len(rs) /\ Len(rs) \in Nat /\ \A i \in DOMAIN rs : rs[i] \in Reqs \cup {NoReq}
  BY ElementOf
<1>4. slots' \in [1..Len(rs) -> Reqs \cup {NoReq}]
  BY <1>1, <1>3
<1>5. slots' \in Seq(Reqs \cup {NoReq}) /\ DOMAIN slots' = DOMAIN rs
  BY <1>3, <1>4, SeqFrom
<1>6. \A i \in DOMAIN rs : slots'[i] = IF rs[i] \in gone THEN NoReq ELSE rs[i]
  BY <1>1
<1>7. Once(slots')
  BY <1>5, <1>6 DEF Once
<1>8. Present' = (Range(rs) \ {NoReq}) \ gone
  <2>1. Present' = Range(slots') \ {NoReq}
    BY DEF Present
  <2>2. ASSUME NEW x \in Range(slots'), x # NoReq PROVE x \in (Range(rs) \ {NoReq}) \ gone
    BY <1>5, <1>6, <2>2 DEF Range
  <2>3. ASSUME NEW x \in Range(rs), x # NoReq, x \notin gone PROVE x \in Range(slots')
    BY <1>5, <1>6, <2>3 DEF Range
  <2> QED
    BY <2>1, <2>2, <2>3
<1>9. NoSeq \in SeqRecords
  BY DEF NoSeq, SeqRecords
<1>10. seq' \in [Reqs -> SeqRecords] /\ held' \in [Reqs -> Nat]
  BY <1>1, <1>9
<1>11. \A r \in Reqs : /\ seq'[r] = IF r \in gone THEN NoSeq ELSE qs[r]
                       /\ held'[r] = IF r \in gone THEN 0 ELSE hs[r]
  BY <1>1
<1> QED
  BY <1>5, <1>6, <1>7, <1>8, <1>10, <1>11 DEF Retired, gone

LEMMA SeqIn ==
    ASSUME NEW S, NEW q \in Seq(S), NEW T, Range(q) \subseteq T
    PROVE  q \in Seq(T)
<1>1. DOMAIN q = 1..Len(q) /\ Len(q) \in Nat /\ q = [i \in 1..Len(q) |-> q[i]]
  OBVIOUS
<1>2. \A i \in 1..Len(q) : q[i] \in T
  BY <1>1 DEF Range
<1>3. q \in [1..Len(q) -> T]
  BY <1>1, <1>2
<1> QED
  BY <1>1, <1>3, SeqFrom

LEMMA SignalsOf ==
    ASSUME NEW rs \in Seq(Reqs), NEW a, a = [i \in DOMAIN rs |-> a[i]], \A i \in DOMAIN rs : a[i] \in Signals
    PROVE  a \in Seq(Signals) /\ DOMAIN a = DOMAIN rs
<1>1. DOMAIN rs = 1..Len(rs) /\ Len(rs) \in Nat
  BY ElementOf
<1>2. a \in [1..Len(rs) -> Signals]
  BY <1>1
<1> QED
  BY <1>1, <1>2, SeqFrom

\* What Admit tells those who do not enter and those who were cancelled.
Refusals     == Answers(Refused, Verdict, LAMBDA r : 0)
Cancellations == Answers(Doomed, LAMBDA r : Canceled, LAMBDA r : seq[r].len)

LEMMA VerdictOf ==
    ASSUME NEW r
    PROVE  Verdict(r) \in Statuses /\ (Verdict(r) # Ok => Verdict(r) \in Answered) /\ Ok \notin Answered
  BY DEF Verdict, Statuses, Answered, Ok, Conflict, TooLong, Finish, Canceled, OutOfMemory

LEMMA EntrantsOf ==
    ASSUME TurboEngineAssumption, Shapes, Places
    PROVE  /\ Entering \in Seq(Reqs) /\ Once(Entering) /\ Refused \in Seq(Reqs) /\ Once(Refused)
           /\ Doomed \in Seq(Reqs) /\ Once(Doomed)
           /\ Range(Entering) = {r \in Range(popped) : Verdict(r) = Ok}
           /\ Range(Refused) = {r \in Range(popped) : Verdict(r) # Ok}
           /\ Range(Doomed) = {r \in Present : flag[r] = -1 /\ ~seq[r].retiring}
<1>1. popped \in Seq(Reqs) /\ slots \in Seq(Reqs \cup {NoReq}) /\ Once(popped) /\ Once(slots)
  BY DEF Shapes, Places
<1>2. /\ Entering \in Seq(Reqs) /\ Once(Entering) /\ Range(Entering) = {r \in Range(popped) : Verdict(r) = Ok}
      /\ Refused \in Seq(Reqs) /\ Once(Refused) /\ Range(Refused) = {r \in Range(popped) : Verdict(r) # Ok}
  BY <1>1, OnlyOf DEF Entering, Refused
<1> DEFINE T == {r \in Present : flag[r] = -1 /\ ~seq[r].retiring}
<1>3. T \subseteq Reqs /\ T \subseteq Range(slots)
  BY PresentFacts DEF Present
<1>4. Doomed \in Seq(Reqs \cup {NoReq}) /\ Once(Doomed) /\ Range(Doomed) = T
  <2>1. Doomed = Only(slots, T)
    BY DEF Doomed
  <2> HIDE DEF T
  <2>2. Doomed \in Seq(Reqs \cup {NoReq}) /\ Range(Doomed) = Range(slots) \cap T /\ Once(Doomed)
    BY <1>1, <2>1, OnlyOf
  <2> QED
    BY <1>3, <2>2
<1>5. Doomed \in Seq(Reqs)
  BY <1>3, <1>4, SeqIn
<1> QED
  BY <1>2, <1>4, <1>5

LEMMA AdmitAnswers ==
    ASSUME TurboEngineAssumption, Shapes, Places
    PROVE  /\ Refusals \in Seq(Signals) /\ DOMAIN Refusals = DOMAIN Refused
           /\ \A i \in DOMAIN Refused : Refusals[i] = [req |-> Refused[i], st |-> Verdict(Refused[i]), len |-> 0]
           /\ Cancellations \in Seq(Signals) /\ DOMAIN Cancellations = DOMAIN Doomed
           /\ \A i \in DOMAIN Doomed : Cancellations[i] = [req |-> Doomed[i], st |-> Canceled, len |-> seq[Doomed[i]].len]
<1>1. Refused \in Seq(Reqs) /\ Doomed \in Seq(Reqs)
  BY EntrantsOf
<1>2. /\ Refusals = [i \in DOMAIN Refused |-> Refusals[i]]
      /\ \A i \in DOMAIN Refused : Refusals[i] = [req |-> Refused[i], st |-> Verdict(Refused[i]), len |-> 0]
  BY DEF Refusals, Answers
<1>3. /\ Cancellations = [i \in DOMAIN Doomed |-> Cancellations[i]]
      /\ \A i \in DOMAIN Doomed : Cancellations[i] = [req |-> Doomed[i], st |-> Canceled, len |-> seq[Doomed[i]].len]
  BY DEF Cancellations, Answers
<1>4. \A i \in DOMAIN Refused : Refusals[i] \in Signals
  <2> TAKE i \in DOMAIN Refused
  <2>1. Refused[i] \in Reqs /\ Verdict(Refused[i]) \in Statuses
    BY <1>1, VerdictOf
  <2> QED
    BY <1>2, <2>1 DEF Signals
<1>5. \A i \in DOMAIN Doomed : Cancellations[i] \in Signals
  <2> TAKE i \in DOMAIN Doomed
  <2>1. Doomed[i] \in Reqs
    BY <1>1
  <2>2. seq[Doomed[i]].len \in Int /\ Canceled \in Statuses
    BY <2>1, SeqOfReq DEF Statuses, Answered
  <2> QED
    BY <1>3, <2>1, <2>2 DEF Signals
<1> QED
  BY <1>1, <1>2, <1>3, <1>4, <1>5, SignalsOf

---------------------------------------------------------------------------
(* Admit. *)

AdmittedSeq == [r \in Reqs |-> Admitted(r)]

LEMMA AdmittedOf ==
    ASSUME TurboEngineAssumption, Shapes, Places, NEW r \in Reqs
    PROVE  /\ Admitted(r) \in SeqRecords
           /\ r \in Range(Entering) => /\ Admitted(r) = [NoSeq EXCEPT !.uid = uids + Place(popped, r), !.len = cfg.prompt[r]]
                                       /\ seq[r] = NoSeq /\ held[r] = 0 /\ r \notin Present
                                       /\ Place(popped, r) \in 1..Len(popped) /\ popped[Place(popped, r)] = r
           /\ r \notin Range(Entering) => /\ r \in Range(Doomed) => Admitted(r) = [seq[r] EXCEPT !.retiring = TRUE]
                                          /\ r \notin Range(Doomed) => Admitted(r) = seq[r]
           /\ Admitted(r).inflight = seq[r].inflight
<1>1. CASE r \in Range(Entering)
  <2>1. r \in Range(popped) /\ r \notin Present
    BY <1>1, EntrantsOf DEF Places
  <2>2. seq[r] = NoSeq /\ held[r] = 0
    BY <2>1 DEF Places
  <2>3. Place(popped, r) \in DOMAIN popped /\ popped[Place(popped, r)] = r
    BY <2>1, PlaceOf
  <2>4. Place(popped, r) \in 1..Len(popped) /\ Len(popped) \in Nat
    BY <2>3, ElementOf DEF Shapes
  <2> DEFINE u == uids + Place(popped, r)
  <2> DEFINE n == cfg.prompt[r]
  <2>5. u \in Nat /\ n \in Int
    <3>1. uids \in Nat
      BY DEF Shapes
    <3>2. cfg.prompt \in [Reqs -> Nat \ {0}]
      BY SetupFacts DEF IsSetup
    <3> QED
      BY <2>4, <3>1, <3>2
  <2>6. Admitted(r) = [NoSeq EXCEPT !.uid = u, !.len = n]
    BY <1>1 DEF Admitted
  <2> HIDE DEF u, n
  <2>7. Admitted(r) \in SeqRecords /\ Admitted(r).inflight = NoSeq.inflight
    <3>1. Admitted(r) = [uid |-> u, len |-> n, filled |-> 0, input |-> 0, active |-> FALSE, auto |-> FALSE,
                         gen |-> FALSE, retiring |-> FALSE, inflight |-> 0, iin |-> 0, inew |-> 0]
      BY <2>6 DEF NoSeq
    <3>2. NoSeq.inflight = 0
      BY DEF NoSeq
    <3> HIDE DEF Admitted
    <3> QED
      BY <2>5, <3>1, <3>2 DEF SeqRecords
  <2> QED
    BY <1>1, <2>1, <2>2, <2>3, <2>4, <2>6, <2>7 DEF u, n
<1>2. CASE r \notin Range(Entering)
  <2>1. seq[r] \in SeqRecords
    BY SeqOfReq
  <2>2. [seq[r] EXCEPT !.retiring = TRUE] \in SeqRecords /\ [seq[r] EXCEPT !.retiring = TRUE].inflight = seq[r].inflight
    BY <2>1 DEF SeqRecords
  <2> QED
    BY <1>2, <2>1, <2>2 DEF Admitted
<1> QED
  BY <1>1, <1>2

\* The slots with those who enter, before some of them are emptied.
Joined == slots \o Entering

LEMMA JoinedOf ==
    ASSUME TurboEngineAssumption, Shapes, Places
    PROVE  /\ Joined \in Seq(Reqs \cup {NoReq}) /\ Once(Joined)
           /\ Range(Joined) \ {NoReq} = Present \cup Range(Entering)
           /\ \A i \in DOMAIN slots : i \in DOMAIN Joined /\ Joined[i] = slots[i]
<1>1. slots \in Seq(Reqs \cup {NoReq}) /\ Entering \in Seq(Reqs) /\ Once(slots) /\ Once(Entering) /\ NoReq \notin Reqs
  BY EntrantsOf, SetupFacts DEF Shapes, Places
<1>2. \A r \in Range(Entering) : r \notin Present /\ r \in Reqs
  <2> TAKE r \in Range(Entering)
  <2>1. r \in Reqs /\ r \in Range(popped)
    <3>1. r \in Reqs
      BY <1>1 DEF Range
    <3> QED
      BY <3>1, EntrantsOf
  <2> QED
    BY <2>1 DEF Places
<1>3. Range(Entering) \subseteq Reqs \cup {NoReq}
  BY <1>2
<1>4. Entering \in Seq(Reqs \cup {NoReq})
  BY <1>1, <1>3, SeqIn
<1>5. /\ Joined \in Seq(Reqs \cup {NoReq})
      /\ \A i \in DOMAIN slots : i \in DOMAIN Joined /\ Joined[i] = slots[i]
      /\ \A i \in DOMAIN Entering : Len(slots) + i \in DOMAIN Joined /\ Joined[Len(slots) + i] = Entering[i]
      /\ \A i \in DOMAIN Joined : \/ i \in DOMAIN slots
                                  \/ i - Len(slots) \in DOMAIN Entering /\ Joined[i] = Entering[i - Len(slots)]
  BY <1>1, <1>4, ConcatOf DEF Joined
<1>9. \A i \in DOMAIN slots : slots[i] # NoReq => slots[i] \in Present
  BY DEF Present, Range
<1>10. \A i \in DOMAIN Entering : Entering[i] \in Range(Entering)
  BY DEF Range
<1> DEFINE new(i) == i - Len(slots) \in DOMAIN Entering /\ Joined[i] = Entering[i - Len(slots)]
<1>6. Range(Joined) \ {NoReq} = Present \cup Range(Entering)
  <2>1. ASSUME NEW x \in Range(Joined), x # NoReq PROVE x \in Present \cup Range(Entering)
    <3>1. PICK i \in DOMAIN Joined : Joined[i] = x
      BY DEF Range
    <3>2. CASE i \in DOMAIN slots
      BY <1>5, <2>1, <3>1, <3>2 DEF Present, Range
    <3>3. CASE new(i)
      BY <3>1, <3>3 DEF Range
    <3> QED
      BY <1>5, <3>2, <3>3
  <2>2. ASSUME NEW x \in Present PROVE x \in Range(Joined) \ {NoReq}
    BY <1>5 DEF Present, Range
  <2>3. ASSUME NEW x \in Range(Entering) PROVE x \in Range(Joined) \ {NoReq}
    BY <1>1, <1>2, <1>5 DEF Range
  <2> QED
    BY <2>1, <2>2, <2>3
<1>7. Once(Joined)
  <2> SUFFICES ASSUME NEW i \in DOMAIN Joined, NEW j \in DOMAIN Joined, Joined[i] = Joined[j], Joined[i] # NoReq PROVE i = j
    BY DEF Once
  <2>1. CASE i \in DOMAIN slots /\ j \in DOMAIN slots
    BY <1>1, <1>5, <2>1 DEF Once
  <2>2. CASE i \in DOMAIN slots /\ new(j)
    BY <1>2, <1>5, <1>9, <1>10, <2>2
  <2>3. CASE new(i) /\ j \in DOMAIN slots
    BY <1>2, <1>5, <1>9, <1>10, <2>3
  <2>4. CASE new(i) /\ new(j)
    <3>1. i - Len(slots) = j - Len(slots)
      BY <1>1, <2>4 DEF Once
    <3>2. i \in Int /\ j \in Int /\ Len(slots) \in Int
      BY <1>1, <1>5, ElementOf
    <3> QED
      BY <3>1, <3>2
  <2> QED
    BY <1>5, <2>1, <2>2, <2>3, <2>4
<1> QED
  BY <1>5, <1>6, <1>7

LEMMA AdmitRetires ==
    ASSUME TurboEngineAssumption, Shapes, Places, Admit
    PROVE  Retired(Joined, AdmittedSeq, held)
<1>1. AdmittedSeq \in [Reqs -> SeqRecords] /\ held \in [Reqs -> Nat]
  BY AdmittedOf DEF AdmittedSeq, Shapes
<1>2. Retire(Joined, AdmittedSeq, held)
  BY DEF Admit, Joined, AdmittedSeq
<1> QED
  BY <1>1, <1>2, JoinedOf, RetireOf, SetupFacts

LEMMA AdmitFrame ==
    ASSUME TurboEngineAssumption, Frame, Admit
    PROVE  Frame'
<1>0. Shapes /\ Places /\ Chained
  BY DEF Frame
<1>1. Retired(Joined, AdmittedSeq, held)
  BY <1>0, AdmitRetires
<1>2. /\ pc = "admit" /\ signals' = signals \o Refusals \o Cancellations /\ popped' = <<>> /\ uids' = uids + Len(popped)
      /\ pc' \in {"submit", "pop"}
      /\ UNCHANGED <<cfg, client, prev, told, state, flag, queue, sigs, perm, nactive, nswapout, outbound, inbound, dev, kv, out>>
  BY DEF Admit, Refusals, Cancellations, clientVars, pipeVars, deviceVars
<1>3. signals' \in Seq(Signals)
  <2>1. signals \in Seq(Signals) /\ Refusals \in Seq(Signals) /\ Cancellations \in Seq(Signals)
    BY <1>0, AdmitAnswers DEF Shapes
  <2> QED
    BY <1>2, <2>1, ConcatOf
<1>4. uids' \in Nat /\ Len(popped) \in Nat /\ uids \in Nat
  BY <1>0, <1>2, ElementOf DEF Shapes
<1>5. Shapes'
  <2>1. popped' \in Seq(Reqs)
    BY <1>2
  <2> QED
    BY <1>0, <1>1, <1>2, <1>3, <1>4, <2>1 DEF Shapes, Retired
<1>6. Present' \subseteq Present \cup Range(Entering)
  BY <1>0, <1>1, JoinedOf DEF Retired
<1>7. Range(Entering) \subseteq Range(popped) /\ Range(popped) \subseteq Reqs /\ Present \subseteq Reqs
  <2>1. popped \in Seq(Reqs)
    BY <1>0 DEF Shapes
  <2>2. Range(popped) \subseteq Reqs
    BY <2>1 DEF Range
  <2> QED
    BY <1>0, <2>2, EntrantsOf, PresentFacts
<1>8. ASSUME NEW r \in Reqs
      PROVE  /\ r \in Present => seq[r].uid \in 1..uids /\ Admitted(r).uid = seq[r].uid
             /\ r \in Range(Entering) => Admitted(r).uid = uids + Place(popped, r) /\ Place(popped, r) \in 1..Len(popped)
                                          /\ popped[Place(popped, r)] = r /\ r \notin Present
             /\ r \notin Present /\ r \notin Range(Entering) => Admitted(r) = NoSeq /\ held[r] = 0
             /\ r \in Range(Entering) => held[r] = 0
  <2>1. r \in Present => r \notin Range(Entering) /\ seq[r].uid \in 1..uids
    BY <1>0, AdmittedOf DEF Places
  <2>2. seq[r] \in SeqRecords
    BY <1>0, SeqOfReq
  <2>3. [seq[r] EXCEPT !.retiring = TRUE].uid = seq[r].uid
    BY <2>2 DEF SeqRecords
  <2>4. r \in Range(Entering) => Admitted(r).uid = uids + Place(popped, r)
    <3>1. r \in Range(Entering) => Admitted(r) = [NoSeq EXCEPT !.uid = uids + Place(popped, r), !.len = cfg.prompt[r]]
      BY <1>0, AdmittedOf
    <3> QED
      BY <3>1 DEF NoSeq
  <2>5. r \notin Present => seq[r] = NoSeq /\ held[r] = 0 /\ r \notin Range(Doomed)
    BY <1>0, EntrantsOf DEF Places
  <2> QED
    BY <1>0, <2>1, <2>3, <2>4, <2>5, AdmittedOf
<1>9. \A r \in Present' : r \in Reqs /\ seq'[r] = Admitted(r)
  <2> TAKE r \in Present'
  <2>1. r \in Reqs /\ r \notin Gone(Joined, AdmittedSeq)
    BY <1>1, <1>6, <1>7 DEF Retired
  <2>2. AdmittedSeq[r] = Admitted(r)
    BY <2>1 DEF AdmittedSeq
  <2> QED
    BY <1>1, <2>1, <2>2 DEF Retired
<1>10. \A r \in Reqs : r \notin Present' => seq'[r] = NoSeq /\ held'[r] = 0
  <2> SUFFICES ASSUME NEW r \in Reqs, r \notin Present' PROVE seq'[r] = NoSeq /\ held'[r] = 0
    OBVIOUS
  <2>1. CASE r \in Gone(Joined, AdmittedSeq)
    BY <1>1, <2>1 DEF Retired
  <2>2. CASE r \notin Gone(Joined, AdmittedSeq)
    <3>1. r \notin Present /\ r \notin Range(Entering)
      <4>1. r # NoReq
        BY <1>0, SetupFacts
      <4>2. r \notin Range(Joined)
        BY <1>1, <2>2, <4>1 DEF Retired
      <4> QED
        BY <1>0, <4>1, <4>2, JoinedOf
    <3>2. AdmittedSeq[r] = NoSeq /\ held[r] = 0
      BY <1>8, <3>1 DEF AdmittedSeq
    <3> QED
      BY <1>1, <2>2, <3>2 DEF Retired
  <2> QED
    BY <2>1, <2>2
<1>11. \A r \in Present' : seq'[r].uid \in 1..uids'
  <2> TAKE r \in Present'
  <2>1. r \in Reqs /\ seq'[r].uid = Admitted(r).uid /\ (r \in Present \/ r \in Range(Entering))
    BY <1>6, <1>9
  <2>2. CASE r \in Present
    BY <1>2, <1>4, <1>8, <2>1, <2>2
  <2>3. CASE r \in Range(Entering)
    BY <1>2, <1>4, <1>8, <2>1, <2>3
  <2> QED
    BY <2>1, <2>2, <2>3
<1>12. \A p, r \in Present' : seq'[p].uid = seq'[r].uid => p = r
  <2> SUFFICES ASSUME NEW p \in Present', NEW r \in Present', seq'[p].uid = seq'[r].uid PROVE p = r
    OBVIOUS
  <2>1. /\ p \in Reqs /\ seq'[p].uid = Admitted(p).uid /\ (p \in Present \/ p \in Range(Entering))
        /\ r \in Reqs /\ seq'[r].uid = Admitted(r).uid /\ (r \in Present \/ r \in Range(Entering))
    BY <1>6, <1>9
  <2>2. Admitted(p).uid = Admitted(r).uid
    BY <2>1
  <2>3. /\ p \in Present => Admitted(p).uid = seq[p].uid /\ seq[p].uid \in 1..uids
        /\ r \in Present => Admitted(r).uid = seq[r].uid /\ seq[r].uid \in 1..uids
        /\ p \in Range(Entering) => /\ Admitted(p).uid = uids + Place(popped, p) /\ Place(popped, p) \in 1..Len(popped)
                                    /\ popped[Place(popped, p)] = p
        /\ r \in Range(Entering) => /\ Admitted(r).uid = uids + Place(popped, r) /\ Place(popped, r) \in 1..Len(popped)
                                    /\ popped[Place(popped, r)] = r
    BY <1>8, <2>1
  <2>4. CASE p \in Present /\ r \in Present
    <3>1. seq[p].uid = seq[r].uid
      BY <2>2, <2>3, <2>4
    <3> QED
      BY <1>0, <2>4, <3>1 DEF Places
  <2>5. CASE p \in Range(Entering) /\ r \in Range(Entering)
    <3>1. Place(popped, p) = Place(popped, r)
      BY <1>4, <2>2, <2>3, <2>5
    <3> QED
      BY <2>3, <2>5, <3>1
  <2>6. CASE p \in Present /\ r \in Range(Entering)
    BY <1>4, <2>2, <2>3, <2>6
  <2>7. CASE p \in Range(Entering) /\ r \in Present
    BY <1>4, <2>2, <2>3, <2>7
  <2> QED
    BY <2>1, <2>4, <2>5, <2>6, <2>7
<1>13. Places'
  <2>1. Once(queue') /\ Once(popped') /\ Once(slots')
    <3>1. Once(<<>>)
      BY DEF Once
    <3> QED
      BY <1>0, <1>1, <1>2, <3>1 DEF Places, Retired
  <2>2. Range(popped') = {}
    BY <1>2 DEF Range
  <2>3. \A r \in Reqs :
          /\ r \in Range(queue') => r \notin Present'
          /\ client'[r] = "idle" => r \notin Range(queue') /\ r \notin Present'
    <3> TAKE r \in Reqs
    <3>1. r \in Present' => r \in Present \/ r \in Range(popped)
      BY <1>6, <1>7
    <3> QED
      BY <1>0, <1>2, <3>1 DEF Places
  <2> QED
    BY <1>2, <1>10, <1>11, <1>12, <2>1, <2>2, <2>3 DEF Places
<1>14. Chained'
  BY <1>0, <1>2, StillChainedOf DEF StillChained
<1> QED
  BY <1>5, <1>13, <1>14 DEF Frame

LEMMA AdmitAlive ==
    ASSUME TurboEngineAssumption, Frame, Alive, Admit
    PROVE  Alive'
<1>0. Shapes /\ Places /\ Chained
  BY DEF Frame
<1>1. Retired(Joined, AdmittedSeq, held)
  BY <1>0, AdmitRetires
<1>2. pc' # "collect" /\ UNCHANGED <<cfg, nactive, outbound, inbound>>
  BY DEF Admit, pipeVars
<1>3. Pipeline' = Pipeline /\ Newest' = Newest
  BY <1>2 DEF Pipeline, Newest
<1>4. \A r \in Reqs : seq'[r].inflight = seq[r].inflight
  <2> TAKE r \in Reqs
  <2>1. AdmittedSeq[r].inflight = seq[r].inflight
    BY <1>0, AdmittedOf DEF AdmittedSeq
  <2>2. CASE r \in Gone(Joined, AdmittedSeq)
    <3>1. AdmittedSeq[r].inflight = 0 /\ NoSeq.inflight = 0
      BY <2>2 DEF Gone, Over, NoSeq
    <3> QED
      BY <1>1, <2>1, <2>2, <3>1 DEF Retired
  <2>3. CASE r \notin Gone(Joined, AdmittedSeq)
    BY <1>1, <2>1, <2>3 DEF Retired
  <2> QED
    BY <2>2, <2>3
<1>5. Counted'
  BY <1>3, <1>4 DEF Counted, Alive, In1, Names
<1>6. ASSUME Pipeline # <<>>, NEW i \in DOMAIN Newest.rows
      PROVE  i \in DOMAIN slots' /\ slots'[i] = Newest.rows[i].req
  <2>1. i \in DOMAIN slots /\ slots[i] = Newest.rows[i].req
    BY <1>6 DEF Alive, InSlots
  <2>2. i \in DOMAIN Joined /\ Joined[i] = slots[i]
    BY <1>0, <2>1, JoinedOf
  <2>3. slots[i] \notin Gone(Joined, AdmittedSeq)
    <3> SUFFICES ASSUME slots[i] \in Gone(Joined, AdmittedSeq) PROVE FALSE
      OBVIOUS
    <3> DEFINE r == slots[i]
    <3>1. r \in Reqs /\ seq[r].inflight = 0
      <4>1. r \in Reqs /\ AdmittedSeq[r].inflight = 0
        BY DEF Gone, Over
      <4> QED
        BY <1>0, <4>1, AdmittedOf DEF AdmittedSeq
    <3>2. Names(Newest, r)
      BY <1>6, <2>1 DEF Names
    <3>3. Len(Pipeline) \in 1..2 /\ Len(Pipeline) \in DOMAIN Pipeline
      <4>1. inbound \in Seq(Batches) /\ outbound \in Seq(Batches) /\ cfg.phases \in {1, 2}
        BY <1>0, SetupFacts DEF Shapes, IsSetup
      <4>2. Pipeline \in Seq(Batches) /\ Len(Pipeline) = Len(inbound) + Len(outbound)
        BY <4>1, ConcatOf DEF Pipeline
      <4>3. Len(Pipeline) <= 2
        BY <1>0, <4>1, <4>2 DEF Chained
      <4> HIDE DEF Pipeline
      <4> QED
        BY <1>6, <4>2, <4>3
    <3>4. In1(1, r) = 1 \/ In1(2, r) = 1
      BY <3>2, <3>3 DEF In1, Newest
    <3>5. In1(1, r) \in {0, 1} /\ In1(2, r) \in {0, 1} /\ seq[r].inflight = In1(1, r) + In1(2, r)
      BY <3>1 DEF In1, Alive, Counted
    <3> QED
      BY <3>1, <3>4, <3>5
  <2> QED
    BY <1>1, <2>1, <2>2, <2>3 DEF Retired
<1>7. InSlots'
  BY <1>2, <1>3, <1>6 DEF InSlots, Alive
<1> QED
  BY <1>5, <1>7 DEF Alive

---------------------------------------------------------------------------
(* SubmitBatch. *)

LEMMA SetToSeqOf ==
    ASSUME NEW S, IsFiniteSet(S)
    PROVE  /\ SetToSeq(S) \in Seq(S) /\ Len(SetToSeq(S)) = Cardinality(S)
           /\ \A i, j \in DOMAIN SetToSeq(S) : SetToSeq(S)[i] = SetToSeq(S)[j] => i = j
<1> DEFINE n == Cardinality(S)
           q == SetToSeq(S)
<1>1. n \in Nat /\ ExistsBijection(1..n, S)
  BY FS_CardinalityType
<1>2. PICK f : f \in Bijection(1..n, S)
  BY <1>1 DEF ExistsBijection
<1>3. f \in [1..n -> S] /\ IsInjective(f)
  BY <1>2 DEF Bijection, Injection
<1>4. q \in [1..n -> S] /\ IsInjective(q)
  BY <1>3 DEF SetToSeq
<1> HIDE DEF q, n
<1>5. q \in Seq(S) /\ Len(q) = n
  BY <1>1, <1>4, SeqFrom
<1> QED
  BY <1>4, <1>5 DEF q, n, IsInjective

LEMMA HeadOf ==
    ASSUME NEW S, NEW q \in Seq(S), NEW d \in Nat, d <= Len(q)
    PROVE  /\ DOMAIN SubSeq(q, 1, d) = 1..d /\ Len(SubSeq(q, 1, d)) = d
           /\ \A i \in 1..d : i \in DOMAIN q /\ SubSeq(q, 1, d)[i] = q[i]
  OBVIOUS

\* The sequences after the pass, the new order of the slots, the batch.
Rescheduled(p) == [r \in Reqs |-> IF r \in Eligible THEN Scheduled(r, p) ELSE seq[r]]
Turn(p)        == Order(Rescheduled(p), p.ends)
Foremost(p)    == SubSeq(Turn(p), 1, Cardinality(DOMAIN p.ends))
BatchOf(p)     == [bs0 |-> nactive, perm |-> [i \in DOMAIN Foremost(p) |-> Place(slots, Foremost(p)[i])],
                   rows |-> [i \in DOMAIN Foremost(p) |-> Row(Foremost(p)[i], Rescheduled(p)[Foremost(p)[i]], p)],
                   kept |-> p.holds, res |-> <<>>]
Despaired(p)   == Answers(SetToSeq(Stalled(p.ends)), LAMBDA r : OutOfMemory, LAMBDA r : 0)
Launched(r, p) == IF r \in DOMAIN p.ends THEN [Rescheduled(p)[r] EXCEPT !.inflight = @ + 1]
                  ELSE IF r \in Stalled(p.ends) THEN [Rescheduled(p)[r] EXCEPT !.retiring = TRUE]
                  ELSE Rescheduled(p)[r]

IsBatchOf(b, p) ==
    /\ b \in Batches /\ b.bs0 = nactive /\ b.kept = p.holds /\ b.res = <<>>
    /\ DOMAIN b.rows = 1..Cardinality(DOMAIN p.ends) /\ DOMAIN b.perm = 1..Cardinality(DOMAIN p.ends)
    /\ \A i \in DOMAIN b.rows : /\ i \in DOMAIN Turn(p) /\ Turn(p)[i] \in DOMAIN p.ends
                                /\ b.rows[i] = Row(Turn(p)[i], Rescheduled(p)[Turn(p)[i]], p)
                                /\ b.perm[i] = Place(slots, Turn(p)[i])
IsDespair(a, p) ==
    /\ a \in Seq(Signals) /\ Len(a) <= 1
    /\ \A i \in DOMAIN a : a[i].st = OutOfMemory /\ a[i].len = 0 /\ a[i].req \in Stalled(p.ends)

Sent(p, b) ==
    /\ PlanInv(Cardinality(Eligible), p)
    /\ Ordered(Turn(p), Rescheduled(p), p.ends)
    /\ slots' = Turn(p)
    /\ perm' \in Seq(Nat) /\ DOMAIN perm' = DOMAIN Turn(p)
    /\ \A i \in DOMAIN Turn(p) : perm'[i] = Place(slots, Turn(p)[i]) /\ perm'[i] \in DOMAIN slots /\ slots[perm'[i]] = Turn(p)[i]
    /\ nactive' = Cardinality(DOMAIN p.ends) /\ nswapout' = Cardinality(Swapped(p.ends))
    /\ held' = p.holds
    /\ seq' = [r \in Reqs |-> Launched(r, p)]
    /\ IsDespair(sigs', p)
    /\ IsBatchOf(b, p) /\ outbound' = Append(outbound, b)

LEMMA ScheduledOf ==
    ASSUME TurboEngineAssumption, Shapes, Places, NEW p, PlanShape(p), NEW r \in Reqs
    PROVE  /\ Rescheduled(p)[r] \in SeqRecords /\ Launched(r, p) \in SeqRecords
           /\ Rescheduled(p)[r].inflight = seq[r].inflight
           /\ Rescheduled(p)[r].uid = seq[r].uid /\ Launched(r, p).uid = seq[r].uid
           /\ Rescheduled(p)[r].len = seq[r].len /\ Launched(r, p).len = seq[r].len
           /\ Rescheduled(p)[r].retiring = seq[r].retiring
           /\ Launched(r, p).inflight = seq[r].inflight + (IF r \in DOMAIN p.ends THEN 1 ELSE 0)
           /\ Launched(r, p).retiring = (seq[r].retiring \/ (r \notin DOMAIN p.ends /\ r \in Stalled(p.ends)))
<1> DEFINE s == Rescheduled(p)[r]
           l == Launched(r, p)
<1>1. seq[r] \in SeqRecords
  BY SeqOfReq
<1>2. s = IF r \in Eligible THEN Scheduled(r, p) ELSE seq[r]
  BY DEF Rescheduled
<1>3. s \in SeqRecords /\ s.inflight = seq[r].inflight /\ s.uid = seq[r].uid /\ s.len = seq[r].len /\ s.retiring = seq[r].retiring
  <2>1. CASE r \notin Eligible
    BY <1>1, <1>2, <2>1
  <2>2. CASE r \in Eligible /\ r \notin DOMAIN p.ends
    <3>1. s = [seq[r] EXCEPT !.active = FALSE, !.input = 0]
      BY <1>2, <2>2 DEF Scheduled
    <3> DEFINE q == seq[r]
    <3> DEFINE off == FALSE
               none == 0
    <3>2. q \in SeqRecords /\ s = [q EXCEPT !.active = off, !.input = none] /\ off \in BOOLEAN /\ none \in Int
      BY <1>1, <3>1
    <3> HIDE DEF s, q, off, none
    <3>3. s \in SeqRecords /\ s.inflight = q.inflight /\ s.uid = q.uid /\ s.len = q.len /\ s.retiring = q.retiring
      BY <3>2 DEF SeqRecords
    <3> QED
      BY <3>3 DEF s, q
  <2>3. CASE r \in Eligible /\ r \in DOMAIN p.ends
    <3> DEFINE input == p.ends[r] - (Resume(r) + seq[r].iin)
               fil == Resume(r)
               auto == seq[r].active /\ seq[r].gen /\ input = 1
               gen == p.ends[r] = Context(seq[r])
    <3>1. input \in Int /\ fil \in Int
      BY <2>3, ResumeOf, SeqOfReq DEF PlanShape
    <3>2. s = [seq[r] EXCEPT !.active = TRUE, !.input = input, !.filled = fil, !.auto = auto, !.gen = gen]
      BY <1>2, <2>3 DEF Scheduled
    <3>3. auto \in BOOLEAN /\ gen \in BOOLEAN
      BY SeqOfReq
    <3> HIDE DEF input, fil, auto, gen
    <3> QED
      BY <1>1, <3>1, <3>2, <3>3 DEF SeqRecords
  <2> QED
    BY <2>1, <2>2, <2>3
<1>4. l = IF r \in DOMAIN p.ends THEN [s EXCEPT !.inflight = @ + 1]
          ELSE IF r \in Stalled(p.ends) THEN [s EXCEPT !.retiring = TRUE] ELSE s
  BY DEF Launched
<1> HIDE DEF s, l
<1>5. s.inflight \in Int /\ s.retiring \in BOOLEAN
  BY <1>3 DEF SeqRecords
<1>6. CASE r \in DOMAIN p.ends
  <2>1. l \in SeqRecords /\ l.uid = s.uid /\ l.len = s.len /\ l.inflight = s.inflight + 1 /\ l.retiring = s.retiring
    BY <1>3, <1>4, <1>5, <1>6 DEF SeqRecords
  <2>2. l.retiring = (seq[r].retiring \/ (r \notin DOMAIN p.ends /\ r \in Stalled(p.ends)))
    BY <1>3, <1>5, <1>6, <2>1
  <2> QED
    BY <1>3, <1>6, <2>1, <2>2 DEF s, l
<1>7. CASE r \notin DOMAIN p.ends /\ r \in Stalled(p.ends)
  <2>0. l = [s EXCEPT !.retiring = TRUE] /\ s \in SeqRecords
    BY <1>3, <1>4, <1>7
  <2>1. l \in SeqRecords /\ l.uid = s.uid /\ l.len = s.len /\ l.inflight = s.inflight /\ l.inflight \in Int /\ l.retiring = TRUE
    BY <2>0 DEF SeqRecords
  <2>2. l.retiring = (seq[r].retiring \/ (r \notin DOMAIN p.ends /\ r \in Stalled(p.ends)))
    BY <1>7, <2>1
  <2>3. l.inflight = seq[r].inflight + 0
    BY <1>3, <1>5, <2>1
  <2> QED
    BY <1>3, <1>7, <2>1, <2>2, <2>3 DEF s, l
<1>8. CASE r \notin DOMAIN p.ends /\ r \notin Stalled(p.ends)
  <2>1. l = s /\ l.inflight = s.inflight + 0
    BY <1>4, <1>5, <1>8
  <2> QED
    BY <1>3, <1>5, <1>8, <2>1 DEF s, l
<1> QED
  BY <1>6, <1>7, <1>8

LEMMA BatchFacts ==
    ASSUME TurboEngineAssumption, Shapes, Places, NEW p, PlanShape(p), Ordered(Turn(p), Rescheduled(p), p.ends)
    PROVE  IsBatchOf(BatchOf(p), p)
<1> DEFINE d == Cardinality(DOMAIN p.ends)
           b == BatchOf(p)
           t == Turn(p)
<1>1. /\ d \in Nat /\ t \in Seq(Reqs) /\ d <= Len(t) /\ DOMAIN t = 1..Len(t) /\ Len(t) \in Nat
      /\ \A i \in DOMAIN t : i <= d <=> t[i] \in DOMAIN p.ends
      /\ \A i \in DOMAIN t : t[i] \in Present
  BY DEF Ordered
<1>2. DOMAIN Foremost(p) = 1..d /\ \A i \in 1..d : i \in DOMAIN t /\ Foremost(p)[i] = t[i]
  <2> HIDE DEF t, d
  <2>1. DOMAIN SubSeq(t, 1, d) = 1..d /\ \A i \in 1..d : i \in DOMAIN t /\ SubSeq(t, 1, d)[i] = t[i]
    BY <1>1, HeadOf
  <2> QED
    BY <2>1 DEF Foremost, t, d
<1> DEFINE perm0 == [i \in 1..d |-> Place(slots, t[i])]
           rows0 == [i \in 1..d |-> Row(t[i], Rescheduled(p)[t[i]], p)]
<1>3. b = [bs0 |-> nactive, perm |-> perm0, rows |-> rows0, kept |-> p.holds, res |-> <<>>]
  BY <1>2 DEF BatchOf
<1> HIDE DEF t, d
<1>4. \A i \in 1..d : i \in DOMAIN t /\ t[i] \in DOMAIN p.ends /\ t[i] \in Reqs /\ t[i] \in Present
  BY <1>1, PresentFacts
<1>5. perm0 \in [1..d -> Nat]
  <2>1. ASSUME NEW i \in 1..d PROVE Place(slots, t[i]) \in Nat
    <3>1. Place(slots, t[i]) \in DOMAIN slots
      BY <1>4, PlaceOf DEF Present
    <3> QED
      BY <3>1, ElementOf DEF Shapes
  <2> QED
    BY <2>1
<1>6. rows0 \in [1..d -> Rows]
  <2>1. ASSUME NEW i \in 1..d PROVE Row(t[i], Rescheduled(p)[t[i]], p) \in Rows
    <3> DEFINE r == t[i]
               q == Rescheduled(p)[r]
               ro == ReadOnly(r) * cfg.blockSize
    <3>1. r \in Reqs /\ q \in SeqRecords /\ ro \in Int /\ p.ends[r] \in Int
      BY <1>4, ScheduledOf, ResumeOf DEF PlanShape
    <3>2. Row(r, q, p) = [req |-> r, auto |-> q.auto, gen |-> q.gen, end |-> p.ends[r], input |-> q.input,
                          known |-> p.ends[r] <= q.len, readonly |-> ro]
      BY DEF Row
    <3> HIDE DEF r, q, ro
    <3>3. q.auto \in BOOLEAN /\ q.gen \in BOOLEAN /\ q.input \in Int /\ q.len \in Int
      BY <3>1 DEF SeqRecords
    <3>4. Row(r, q, p) \in Rows
      BY <3>1, <3>2, <3>3 DEF Rows
    <3> QED
      BY <3>4 DEF r, q
  <2> QED
    BY <2>1
<1> DEFINE p0 == perm0
           r0 == rows0
<1>7. p0 \in Seq(Nat) /\ r0 \in Seq(Rows) /\ DOMAIN p0 = 1..d /\ DOMAIN r0 = 1..d
  <2> HIDE DEF perm0, rows0
  <2> QED
    BY <1>1, <1>5, <1>6, SeqFrom DEF d
<1>8. \A i \in 1..d : p0[i] = Place(slots, t[i]) /\ r0[i] = Row(t[i], Rescheduled(p)[t[i]], p)
  OBVIOUS
<1> HIDE DEF p0, r0, perm0, rows0, b
<1>9. b = [bs0 |-> nactive, perm |-> p0, rows |-> r0, kept |-> p.holds, res |-> <<>>]
  BY <1>3 DEF p0, r0
<1>10. <<>> \in Seq(Results) /\ nactive \in Nat /\ p.holds \in [Reqs -> Nat]
  BY DEF Shapes, PlanShape
<1>11. b \in Batches
  BY <1>7, <1>9, <1>10 DEF Batches
<1>12. b.bs0 = nactive /\ b.kept = p.holds /\ b.res = <<>> /\ b.rows = r0 /\ b.perm = p0
  BY <1>9
<1> QED
  BY <1>4, <1>7, <1>8, <1>11, <1>12 DEF IsBatchOf, b, d, t

LEMMA DespairOf ==
    ASSUME TurboEngineAssumption, Shapes, Places, NEW p
    PROVE  IsDespair(Despaired(p), p)
<1> DEFINE S == Stalled(p.ends)
           q == SetToSeq(S)
           a == Despaired(p)
<1>1. S \subseteq Eligible /\ \A x, y \in S : x = y
  <2>1. S \subseteq {r \in Eligible : \A v \in Eligible : seq[r].uid <= seq[v].uid}
    BY DEF Stalled
  <2>2. ASSUME NEW x \in Eligible, NEW y \in Eligible, seq[x].uid <= seq[y].uid, seq[y].uid <= seq[x].uid PROVE x = y
    <3>1. x \in Present /\ y \in Present /\ x \in Reqs /\ y \in Reqs
      BY PresentFacts
    <3>2. seq[x].uid = seq[y].uid
      BY <2>2, <3>1, SeqOfReq
    <3> QED
      BY <3>1, <3>2 DEF Places
  <2> QED
    BY <2>1, <2>2
<1>2. IsFiniteSet(S) /\ S \subseteq Reqs
  BY <1>1, PresentFacts, FS_Subset
<1> HIDE DEF S
<1>3. q \in Seq(S) /\ \A i, j \in DOMAIN q : q[i] = q[j] => i = j
  BY <1>2, SetToSeqOf
<1>4. a = [i \in DOMAIN q |-> [req |-> q[i], st |-> OutOfMemory, len |-> 0]]
  BY DEF Despaired, Answers, S
<1> HIDE DEF q, a
<1>5. DOMAIN q = 1..Len(q) /\ Len(q) \in Nat /\ \A i \in DOMAIN q : q[i] \in S /\ q[i] \in Reqs
  BY <1>2, <1>3, ElementOf
<1>6. Len(q) <= 1
  BY <1>1, <1>3, <1>5
<1>7. q \in Seq(Reqs)
  BY <1>2, <1>3
<1>8. OutOfMemory \in Statuses
  BY DEF Statuses, Answered
<1>9. \A i \in DOMAIN q : a[i] = [req |-> q[i], st |-> OutOfMemory, len |-> 0] /\ a[i] \in Signals
  BY <1>4, <1>5, <1>8 DEF Signals
<1>10. a = [i \in DOMAIN q |-> a[i]]
  BY <1>4
<1>11. a \in Seq(Signals) /\ DOMAIN a = DOMAIN q
  BY <1>7, <1>9, <1>10, SignalsOf
<1>12. Len(a) <= 1
  BY <1>5, <1>6, <1>11, ElementOf
<1> QED
  BY <1>5, <1>9, <1>11, <1>12 DEF IsDespair, a, S

SubmitsBy(plan, order) ==
    LET ends == plan.ends
        qs == [r \in Reqs |-> IF r \in Eligible THEN Scheduled(r, plan) ELSE seq[r]]
        batch == SubSeq(order, 1, Cardinality(DOMAIN ends)) IN
    /\ slots' = order
    /\ perm' = [i \in DOMAIN order |-> Place(slots, order[i])]
    /\ nactive' = Len(batch)
    /\ nswapout' = Cardinality({r \in Eligible \ DOMAIN ends : seq[r].active})
    /\ held' = plan.holds
    /\ seq' = [r \in Reqs |->
                  IF r \in DOMAIN ends THEN [qs[r] EXCEPT !.inflight = @ + 1]
                  ELSE IF r \in Stalled(ends) THEN [qs[r] EXCEPT !.retiring = TRUE] ELSE qs[r]]
    /\ sigs' = Answers(SetToSeq(Stalled(ends)), LAMBDA r : OutOfMemory, LAMBDA r : 0)
    /\ outbound' = Append(outbound,
          [bs0 |-> nactive, perm |-> [i \in DOMAIN batch |-> Place(slots, batch[i])],
           rows |-> [i \in DOMAIN batch |-> Row(batch[i], qs[batch[i]], plan)],
           kept |-> plan.holds, res |-> <<>>])

LEMMA SubmitFacts ==
    ASSUME TurboEngineAssumption, Frame, SubmitBatch
    PROVE  \E p \in Plans : Sent(p, BatchOf(p))
<1>0. Shapes /\ Places
  BY DEF Frame
<1>1. PICK p \in Plans :
         /\ slots' = Turn(p)
         /\ perm' = [i \in DOMAIN Turn(p) |-> Place(slots, Turn(p)[i])]
         /\ nactive' = Len(Foremost(p))
         /\ nswapout' = Cardinality(Swapped(p.ends))
         /\ held' = p.holds
         /\ seq' = [r \in Reqs |-> Launched(r, p)]
         /\ sigs' = Despaired(p)
         /\ outbound' = Append(outbound, BatchOf(p))
  <2>1. PICK p \in Plans : SubmitsBy(p, Turn(p))
    <3>1. \E p \in Plans : \E order \in {Turn(p)} : SubmitsBy(p, order)
      BY DEF SubmitBatch, SubmitsBy, Turn, Rescheduled
    <3> QED
      BY <3>1
  <2> QED
    BY <2>1 DEF SubmitsBy, Foremost, Swapped, Launched, Rescheduled, Despaired, BatchOf
<1>2. PlanInv(Cardinality(Eligible), p)
  BY <1>0, PlanFacts
<1>3. PlanShape(p) /\ DOMAIN p.ends \subseteq Eligible
  BY <1>2 DEF PlanInv, PlanShape
<1>4. Ordered(Turn(p), Rescheduled(p), p.ends)
  BY <1>0, <1>3, OrderOf DEF Turn
<1>5. IsBatchOf(BatchOf(p), p) /\ IsDespair(Despaired(p), p)
  BY <1>0, <1>3, <1>4, BatchFacts, DespairOf
<1> DEFINE t == Turn(p)
           q == perm'
<1>6. t \in Seq(Reqs) /\ DOMAIN t = 1..Len(t) /\ Len(t) \in Nat /\ \A i \in DOMAIN t : t[i] \in Present
  BY <1>4 DEF Ordered
<1> HIDE DEF t
<1>7. \A i \in DOMAIN t : perm'[i] = Place(slots, t[i]) /\ perm'[i] \in DOMAIN slots /\ slots[perm'[i]] = t[i]
  <2> TAKE i \in DOMAIN t
  <2>1. perm'[i] = Place(slots, t[i])
    BY <1>1 DEF t
  <2>2. Place(slots, t[i]) \in DOMAIN slots /\ slots[Place(slots, t[i])] = t[i]
    BY <1>6, PlaceOf DEF Present
  <2> QED
    BY <2>1, <2>2
<1>8. perm' \in Seq(Nat) /\ DOMAIN perm' = DOMAIN t
  <2>1. perm' \in [1..Len(t) -> Nat]
    <3>1. perm' = [i \in 1..Len(t) |-> perm'[i]]
      BY <1>1, <1>6 DEF t
    <3>2. \A i \in 1..Len(t) : perm'[i] \in Nat
      <4>1. \A i \in DOMAIN slots : i \in Nat
        BY <1>0, ElementOf DEF Shapes
      <4> QED
        BY <1>6, <1>7, <4>1
    <3> QED
      BY <3>1, <3>2
  <2> DEFINE f == perm'
             n == Len(t)
  <2>2. n \in Nat /\ f \in [1..n -> Nat]
    BY <1>6, <2>1
  <2> HIDE DEF f, n
  <2>3. f \in Seq(Nat) /\ DOMAIN f = 1..n
    BY <2>2, SeqFrom
  <2> QED
    BY <1>6, <2>3 DEF f, n
<1>9. nactive' = Cardinality(DOMAIN p.ends)
  <2> DEFINE d == Cardinality(DOMAIN p.ends)
  <2>1. d \in Nat /\ d <= Len(t)
    BY <1>4 DEF Ordered, t
  <2>2. Len(SubSeq(t, 1, d)) = d
    <3> HIDE DEF d
    <3> QED
      BY <1>6, <2>1, HeadOf
  <2> QED
    BY <1>1, <2>2 DEF Foremost, t
<1>10. Sent(p, BatchOf(p))
  BY <1>1, <1>2, <1>4, <1>5, <1>7, <1>8, <1>9 DEF Sent, t
<1> QED
  BY <1>10

---------------------------------------------------------------------------
(* SubmitBatch keeps the frame, and every row alive. *)

LEMMA PipelineOf ==
    ASSUME TurboEngineAssumption, Shapes, Chained
    PROVE  /\ inbound \in Seq(Batches) /\ outbound \in Seq(Batches) /\ Pipeline \in Seq(Batches)
           /\ cfg.phases \in {1, 2} /\ Len(Pipeline) = cfg.phases - (IF pc = "collect" THEN 0 ELSE 1)
           /\ Len(Pipeline) = Len(inbound) + Len(outbound)
           /\ Len(inbound) \in Nat /\ Len(outbound) \in Nat /\ DOMAIN Pipeline = 1..Len(Pipeline)
           /\ \A i \in DOMAIN Pipeline : Pipeline[i] \in Batches
<1>1. inbound \in Seq(Batches) /\ outbound \in Seq(Batches) /\ cfg.phases \in {1, 2}
  BY SetupFacts DEF Shapes, IsSetup
<1>2. Pipeline \in Seq(Batches) /\ Len(Pipeline) = Len(inbound) + Len(outbound)
  BY <1>1, ConcatOf DEF Pipeline
<1>3. Len(inbound) + Len(outbound) = cfg.phases - (IF pc = "collect" THEN 0 ELSE 1)
  BY DEF Chained
<1> QED
  BY <1>1, <1>2, <1>3, ElementOf

\* The batch joins the pipeline.
LEMMA PipelineGrows ==
    ASSUME TurboEngineAssumption, Shapes, Chained, NEW b \in Batches, outbound' = Append(outbound, b), inbound' = inbound
    PROVE  /\ Pipeline' = Append(Pipeline, b) /\ Len(Pipeline') = Len(Pipeline) + 1
           /\ \A i \in DOMAIN Pipeline : Pipeline'[i] = Pipeline[i]
           /\ Pipeline'[Len(Pipeline) + 1] = b /\ Newest' = b
           /\ outbound' \in Seq(Batches)
<1>1. inbound \in Seq(Batches) /\ outbound \in Seq(Batches) /\ Pipeline \in Seq(Batches)
  BY PipelineOf
<1>2. Pipeline' = inbound \o Append(outbound, b)
  BY DEF Pipeline
<1>3. inbound \o Append(outbound, b) = Append(inbound \o outbound, b)
  BY <1>1
<1>4. Pipeline' = Append(Pipeline, b)
  BY <1>2, <1>3 DEF Pipeline
<1>5. /\ Len(Append(Pipeline, b)) = Len(Pipeline) + 1
      /\ \A i \in DOMAIN Pipeline : Append(Pipeline, b)[i] = Pipeline[i]
      /\ Append(Pipeline, b)[Len(Pipeline) + 1] = b
  BY <1>1, AppendOf
<1>6. Newest' = Pipeline'[Len(Pipeline')]
  BY DEF Newest
<1>7. outbound' \in Seq(Batches)
  BY <1>1, AppendOf
<1> QED
  BY <1>4, <1>5, <1>6, <1>7

LEMMA SubmitBatchFrame ==
    ASSUME TurboEngineAssumption, Frame, SubmitBatch
    PROVE  Frame'
<1>0. Shapes /\ Places /\ Chained
  BY DEF Frame
<1>1. PICK p \in Plans : Sent(p, BatchOf(p))
  BY SubmitFacts
<1> DEFINE b == BatchOf(p)
           t == Turn(p)
<1>2. /\ pc = "submit" /\ pc' = "collect"
      /\ UNCHANGED <<cfg, client, prev, told, state, flag, queue, signals, popped, uids, inbound, dev, kv, out>>
  BY DEF SubmitBatch, clientVars, gateVars, deviceVars
<1>3. PlanShape(p) /\ DOMAIN p.ends \subseteq Eligible /\ p.holds \in [Reqs -> Nat]
  BY <1>1 DEF Sent, PlanInv, PlanShape
<1>4. IsBatchOf(b, p) /\ b \in Batches /\ outbound' = Append(outbound, b)
  BY <1>1 DEF Sent, IsBatchOf
<1>5. /\ t \in Seq(Reqs) /\ slots' = t
      /\ \A i, j \in DOMAIN t : t[i] = t[j] => i = j
      /\ \A i \in DOMAIN t : t[i] \in Present
      /\ \A r \in Present : \E i \in DOMAIN t : t[i] = r
  BY <1>1 DEF Sent, Ordered
<1> HIDE DEF t, b
<1>6. slots' \in Seq(Reqs \cup {NoReq}) /\ Once(slots') /\ Present' = Present
  <2>1. Range(t) = Present
    BY <1>5 DEF Range
  <2>2. Present \subseteq Reqs /\ NoReq \notin Reqs
    BY <1>0, PresentFacts, SetupFacts
  <2>3. Range(t) \subseteq Reqs \cup {NoReq}
    BY <2>1, <2>2
  <2>4. slots' \in Seq(Reqs \cup {NoReq})
    BY <1>5, <2>3, SeqIn
  <2>5. Present' = Range(slots') \ {NoReq}
    BY DEF Present
  <2> QED
    BY <1>5, <2>1, <2>2, <2>4, <2>5 DEF Once
<1>7. /\ seq' \in [Reqs -> SeqRecords] /\ held' \in [Reqs -> Nat]
      /\ \A r \in Reqs : seq'[r] = Launched(r, p)
  <2>1. seq' = [r \in Reqs |-> Launched(r, p)] /\ held' = p.holds
    BY <1>1 DEF Sent
  <2>2. \A r \in Reqs : Launched(r, p) \in SeqRecords
    BY <1>0, <1>3, ScheduledOf
  <2> QED
    BY <1>3, <2>1, <2>2
<1>8. nactive' \in Nat /\ nswapout' \in Nat /\ perm' \in Seq(Nat) /\ sigs' \in Seq(Signals)
  BY <1>1 DEF Sent, Ordered, IsDespair
<1>9. outbound' \in Seq(Batches)
  BY <1>0, <1>2, <1>4, PipelineGrows
<1>10. Shapes'
  BY <1>0, <1>2, <1>6, <1>7, <1>8, <1>9 DEF Shapes
<1>11. Places'
  <2>1. \A r \in Reqs : r \notin Present => seq'[r] = NoSeq /\ held'[r] = 0
    <3> SUFFICES ASSUME NEW r \in Reqs, r \notin Present PROVE seq'[r] = NoSeq /\ held'[r] = 0
      OBVIOUS
    <3>1. r \notin Eligible /\ r \notin DOMAIN p.ends /\ r \notin Stalled(p.ends)
      BY <1>3 DEF Eligible, Stalled
    <3>2. seq[r] = NoSeq /\ held[r] = 0
      BY <1>0 DEF Places
    <3>3. seq'[r] = NoSeq
      BY <1>7, <3>1, <3>2 DEF Launched, Rescheduled
    <3>4. p.holds[r] <= held[r] /\ p.holds[r] \in Nat /\ held'[r] = p.holds[r]
      BY <1>1, <1>3, <3>1 DEF Sent, PlanInv
    <3> QED
      BY <3>2, <3>3, <3>4
  <2>2. \A r \in Present : r \in Reqs /\ seq'[r].uid = seq[r].uid
    BY <1>0, <1>3, <1>7, ScheduledOf, PresentFacts
  <2>3. \A r \in Present : seq'[r].uid \in 1..uids
    BY <1>0, <2>2 DEF Places
  <2>4. \A v, r \in Present : seq'[v].uid = seq'[r].uid => v = r
    BY <1>0, <2>2 DEF Places
  <2> QED
    BY <1>0, <1>2, <1>6, <2>1, <2>3, <2>4 DEF Places
<1>12. Chained'
  <2>1. /\ inbound \in Seq(Batches) /\ outbound \in Seq(Batches) /\ cfg.phases \in {1, 2}
        /\ Len(inbound) \in Nat /\ Len(outbound) \in Nat
        /\ Len(inbound) + Len(outbound) = cfg.phases - 1
    BY <1>0, <1>2, PipelineOf
  <2>2. /\ Len(outbound') = Len(outbound) + 1 /\ DOMAIN outbound' = DOMAIN outbound \cup {Len(outbound) + 1}
        /\ \A i \in DOMAIN outbound : outbound'[i] = outbound[i]
        /\ outbound'[Len(outbound) + 1] = b
    BY <1>4, <2>1, AppendOf
  <2>3. nactive' = Len(b.rows) /\ b.bs0 = nactive
    <3>1. b.rows \in Seq(Rows) /\ Cardinality(DOMAIN p.ends) \in Nat /\ DOMAIN b.rows = 1..Cardinality(DOMAIN p.ends)
      BY <1>1, <1>4 DEF Batches, IsBatchOf, Sent, Ordered
    <3>2. Len(b.rows) = Cardinality(DOMAIN p.ends)
      BY <3>1
    <3> QED
      BY <1>1, <1>4, <3>2 DEF Sent, IsBatchOf
  <2>4. DOMAIN b.perm = DOMAIN b.rows /\ \A i \in DOMAIN b.perm : b.perm[i] >= 1
    <3>1. ASSUME NEW i \in DOMAIN b.rows PROVE b.perm[i] >= 1
      <4>1. i \in DOMAIN Turn(p) /\ b.perm[i] = Place(slots, Turn(p)[i])
        BY <1>4 DEF IsBatchOf
      <4>2. b.perm[i] \in DOMAIN slots
        BY <1>1, <4>1 DEF Sent
      <4> QED
        BY <1>0, <4>2, ElementOf DEF Shapes
    <3> QED
      BY <1>4, <3>1 DEF IsBatchOf
  <2>5. \A k \in DOMAIN outbound' : DOMAIN outbound'[k].perm = DOMAIN outbound'[k].rows
                                     /\ \A i \in DOMAIN outbound'[k].perm : outbound'[k].perm[i] >= 1
    BY <1>0, <2>2, <2>4 DEF Chained
  <2>6. nactive' = Len(outbound'[Len(outbound')].rows) /\ outbound' # <<>>
    BY <2>1, <2>2, <2>3
  <2>7. outbound'[1].bs0 = Len(dev)
    <3>1. CASE outbound = <<>>
      <4>1. nactive = Len(dev)
        BY <1>0, <3>1 DEF Chained
      <4> QED
        BY <2>2, <2>3, <3>1, <4>1
    <3>2. CASE outbound # <<>>
      <4>1. outbound[1].bs0 = Len(dev)
        BY <1>0, <3>2 DEF Chained
      <4>2. 1 \in DOMAIN outbound
        BY <2>1, <3>2
      <4> QED
        BY <2>2, <4>1, <4>2
    <3> QED
      BY <3>1, <3>2
  <2>8. Len(outbound') = 2 => outbound'[2].bs0 = Len(outbound'[1].rows)
    <3> SUFFICES ASSUME Len(outbound') = 2 PROVE outbound'[2].bs0 = Len(outbound'[1].rows)
      OBVIOUS
    <3>0. Len(outbound) = 1
      <4> DEFINE n == Len(outbound)
      <4>1. n \in Nat /\ n + 1 = 2
        BY <2>1, <2>2
      <4> HIDE DEF n
      <4>2. n = 1
        BY <4>1
      <4> QED
        BY <4>2 DEF n
    <3>1. Len(outbound) = 1 /\ outbound # <<>> /\ 1 \in DOMAIN outbound
      BY <2>1, <3>0
    <3>2. nactive = Len(outbound[1].rows)
      BY <1>0, <3>1 DEF Chained
    <3> QED
      BY <2>2, <2>3, <3>1, <3>2
  <2>9. \A k \in DOMAIN inbound : DOMAIN inbound[k].res = DOMAIN inbound[k].rows
    BY <1>0 DEF Chained
  <2>10. Len(inbound') + Len(outbound') = cfg'.phases - 0
    BY <1>2, <2>1, <2>2
  <2> QED
    BY <1>2, <2>5, <2>6, <2>7, <2>8, <2>9, <2>10 DEF Chained
<1> QED
  BY <1>10, <1>11, <1>12 DEF Frame

LEMMA SubmitBatchAlive ==
    ASSUME TurboEngineAssumption, Frame, Alive, SubmitBatch
    PROVE  Alive'
<1>0. Shapes /\ Places /\ Chained
  BY DEF Frame
<1>1. PICK p \in Plans : Sent(p, BatchOf(p))
  BY SubmitFacts
<1> DEFINE b == BatchOf(p)
           t == Turn(p)
<1>2. pc = "submit" /\ pc' = "collect" /\ UNCHANGED <<cfg, inbound>>
  BY DEF SubmitBatch
<1>3. PlanShape(p) /\ DOMAIN p.ends \subseteq Eligible
  BY <1>1 DEF Sent, PlanInv, PlanShape
<1>4. IsBatchOf(b, p) /\ b \in Batches /\ outbound' = Append(outbound, b)
  BY <1>1 DEF Sent, IsBatchOf
<1>5. /\ t \in Seq(Reqs) /\ slots' = t
      /\ \A i, j \in DOMAIN t : t[i] = t[j] => i = j
      /\ \A i \in DOMAIN t : t[i] \in Present /\ perm'[i] \in DOMAIN slots /\ slots[perm'[i]] = t[i]
      /\ \A r \in Present : \E i \in DOMAIN t : t[i] = r
      /\ \A r \in DOMAIN p.ends : \E i \in DOMAIN b.rows : t[i] = r
      /\ \A i \in DOMAIN b.rows : i \in DOMAIN t /\ b.rows[i].req = t[i] /\ t[i] \in DOMAIN p.ends
      /\ nactive' = Len(b.rows)
  <2>1. Ordered(t, Rescheduled(p), p.ends)
    BY <1>1 DEF Sent
  <2>2. /\ Cardinality(DOMAIN p.ends) \in Nat /\ b.rows \in Seq(Rows) /\ DOMAIN b.rows = 1..Cardinality(DOMAIN p.ends)
        /\ \A i \in DOMAIN b.rows : /\ i \in DOMAIN t /\ t[i] \in DOMAIN p.ends
                                    /\ b.rows[i] = Row(t[i], Rescheduled(p)[t[i]], p)
    BY <1>4, <2>1 DEF IsBatchOf, Batches, Ordered
  <2>3. Len(b.rows) = Cardinality(DOMAIN p.ends)
    <3> HIDE DEF b
    <3> QED
      BY <2>2
  <2>4. \A r \in DOMAIN p.ends : \E i \in DOMAIN b.rows : t[i] = r
    <3> TAKE r \in DOMAIN p.ends
    <3>1. r \in Present
      BY <1>0, <1>3, PresentFacts
    <3>2. PICK i \in DOMAIN t : t[i] = r
      BY <2>1, <3>1 DEF Ordered
    <3>3. i \in 1..Cardinality(Present) /\ i <= Cardinality(DOMAIN p.ends) /\ Cardinality(Present) \in Nat
      BY <2>1, <3>2 DEF Ordered
    <3> QED
      BY <2>2, <3>2, <3>3
  <2>5. \A i \in DOMAIN b.rows : b.rows[i].req = t[i]
    <3> TAKE i \in DOMAIN b.rows
    <3>1. b.rows[i] = Row(t[i], Rescheduled(p)[t[i]], p)
      BY <2>2
    <3> HIDE DEF b, t
    <3> QED
      BY <3>1 DEF Row
  <2>6. \A i \in DOMAIN t : perm'[i] \in DOMAIN slots /\ slots[perm'[i]] = t[i]
    BY <1>1 DEF Sent
  <2>7. slots' = t /\ nactive' = Len(b.rows)
    BY <1>1, <2>3 DEF Sent
  <2> HIDE DEF b
  <2> QED
    BY <2>1, <2>2, <2>4, <2>5, <2>6, <2>7 DEF Ordered
<1> HIDE DEF t, b
<1>6. /\ Len(Pipeline') = Len(Pipeline) + 1 /\ Newest' = b /\ Pipeline'[Len(Pipeline) + 1] = b
      /\ \A i \in DOMAIN Pipeline : Pipeline'[i] = Pipeline[i]
      /\ Pipeline' = Append(Pipeline, b)
  BY <1>0, <1>2, <1>4, PipelineGrows
<1>7. /\ cfg.phases \in {1, 2} /\ Len(Pipeline) = cfg.phases - 1 /\ DOMAIN Pipeline = 1..Len(Pipeline)
      /\ Pipeline \in Seq(Batches)
  BY <1>0, <1>2, PipelineOf
<1>8. DOMAIN Pipeline' = 1..cfg.phases
  BY <1>4, <1>6, <1>7, AppendOf
<1>9. \A r \in Reqs : Names(b, r) <=> r \in DOMAIN p.ends
  BY <1>5 DEF Names
<1>10. Counted'
  <2> SUFFICES ASSUME NEW r \in Reqs PROVE seq'[r].inflight = In1(1, r)' + In1(2, r)'
    BY DEF Counted
  <2>1. seq'[r].inflight = seq[r].inflight + (IF r \in DOMAIN p.ends THEN 1 ELSE 0)
    BY <1>0, <1>1, <1>3, ScheduledOf DEF Sent
  <2>2. seq[r].inflight = In1(1, r) + In1(2, r)
    BY DEF Alive, Counted
  <2> DEFINE new == IF r \in DOMAIN p.ends THEN 1 ELSE 0
  <2>3. \A k : In1(k, r)' = IF k \in DOMAIN Pipeline' /\ Names(Pipeline'[k], r) THEN 1 ELSE 0
    BY DEF In1, Names
  <2>4. CASE cfg.phases = 1
    <3>1. In1(1, r) = 0 /\ In1(2, r) = 0
      BY <1>7, <2>4 DEF In1
    <3>2. In1(1, r)' = new /\ In1(2, r)' = 0
      BY <1>6, <1>7, <1>8, <1>9, <2>3, <2>4
    <3> QED
      BY <2>1, <2>2, <3>1, <3>2
  <2>5. CASE cfg.phases = 2
    <3>1. In1(2, r) = 0 /\ In1(1, r) \in {0, 1}
      BY <1>7, <2>5 DEF In1
    <3>2. In1(1, r)' = In1(1, r)
      <4>1. 1 \in DOMAIN Pipeline /\ 1 \in DOMAIN Pipeline' /\ Pipeline'[1] = Pipeline[1]
        BY <1>6, <1>7, <1>8, <2>5
      <4> QED
        BY <2>3, <4>1 DEF In1
    <3>3. In1(2, r)' = new
      BY <1>6, <1>7, <1>8, <1>9, <2>3, <2>5
    <3> QED
      BY <2>1, <2>2, <3>1, <3>2, <3>3
  <2> QED
    BY <1>7, <2>4, <2>5
<1>11. \A i : RowOf(i)' = IF cfg.phases > 1 THEN perm'[i] ELSE i
  BY <1>2 DEF RowOf
<1>12. /\ \A i \in DOMAIN slots' : RowOf(i)' \in Nat
       /\ \A i, j \in DOMAIN slots' : RowOf(i)' = RowOf(j)' => i = j
  <2>1. \A i \in DOMAIN t : i \in Nat
    BY <1>5, ElementOf
  <2>2. \A i \in DOMAIN slots : i \in Nat
    BY <1>0, ElementOf DEF Shapes
  <2> QED
    BY <1>5, <1>11, <2>1, <2>2, SMTT(30)
<1>13. ASSUME NEW k \in DOMAIN Pipeline'[1].rows
       PROVE  \E i \in DOMAIN slots' : RowOf(i)' = k /\ slots'[i] = Pipeline'[1].rows[k].req
  <2>1. CASE cfg.phases = 1
    <3>1. Pipeline'[1] = b
      BY <1>6, <1>7, <2>1
    <3>2. k \in DOMAIN t /\ b.rows[k].req = t[k]
      BY <1>5, <1>13, <3>1
    <3> QED
      BY <1>5, <1>11, <2>1, <3>1, <3>2
  <2>2. CASE cfg.phases = 2
    <3>1. Pipeline'[1] = Pipeline[1] /\ Newest = Pipeline[1] /\ Pipeline # <<>>
      BY <1>6, <1>7, <2>2 DEF Newest
    <3>2. k \in DOMAIN slots /\ slots[k] = Pipeline[1].rows[k].req
      BY <1>13, <3>1 DEF Alive, InSlots
    <3>3. Pipeline[1].rows \in Seq(Rows)
      <4>1. Pipeline[1] \in Batches
        BY <1>7, <2>2
      <4> QED
        BY <4>1 DEF Batches
    <3>4. slots[k] \in Reqs
      <4>1. k \in DOMAIN Pipeline[1].rows
        BY <1>13, <3>1
      <4>2. Pipeline[1].rows[k] \in Rows
        BY <3>3, <4>1, ElementOf
      <4> QED
        BY <3>2, <4>2 DEF Rows
    <3>5. slots[k] \in Present
      BY <1>0, <3>2, <3>4, SetupFacts DEF Present, Range
    <3>6. PICK i \in DOMAIN t : t[i] = slots[k]
      BY <1>5, <3>5
    <3>7. perm'[i] = k
      <4>1. perm'[i] \in DOMAIN slots /\ slots[perm'[i]] = slots[k] /\ slots[k] # NoReq
        BY <1>0, <1>5, <3>4, <3>6, SetupFacts
      <4> QED
        BY <1>0, <3>2, <4>1 DEF Places, Once
    <3> QED
      BY <1>5, <1>11, <2>2, <3>1, <3>2, <3>6, <3>7
  <2> QED
    BY <1>7, <2>1, <2>2
<1>14. InSlots'
  BY <1>2, <1>5, <1>6, <1>12, <1>13 DEF InSlots
<1> QED
  BY <1>10, <1>14 DEF Alive

---------------------------------------------------------------------------
(* RunBatch. *)

\* The row a batch has after it ran, the rows, what is left of the memory.
Left(b)           == [r \in Reqs |-> Lesser(kv[r], b.kept[r] * cfg.blockSize)]
RowAt(b, r)       == {i \in DOMAIN b.rows : b.rows[i].req = r}
RunRows(b, stop)  == [i \in DOMAIN b.rows |-> Forwarded(b, i, stop, Left(b))]
Ran(b, stop)      == [b EXCEPT !.res = RunRows(b, stop)]

LEMMA RunBatchDef ==
    ASSUME NEW stop, RunBatch(stop)
    PROVE  LET b == Head(outbound) IN
           /\ outbound # <<>>
           /\ stop \subseteq {b.rows[i].req : i \in {k \in DOMAIN b.rows : b.rows[k].gen}}
           /\ dev' = RunRows(b, stop)
           /\ kv' = [r \in Reqs |-> IF RowAt(b, r) = {} THEN Left(b)[r] ELSE RunRows(b, stop)[CHOOSE i \in RowAt(b, r) : TRUE].kv]
           /\ inbound' = Append(inbound, Ran(b, stop))
           /\ outbound' = Tail(outbound)
           /\ UNCHANGED <<cfg, clientVars, gateVars, loopVars, stateVars, out>>
<1> DEFINE b == Head(outbound)
<1>1. \E rows \in {RunRows(b, stop)} :
            /\ dev' = rows
            /\ kv' = [r \in Reqs |-> IF RowAt(b, r) = {} THEN Left(b)[r] ELSE rows[CHOOSE i \in RowAt(b, r) : TRUE].kv]
            /\ inbound' = Append(inbound, [b EXCEPT !.res = rows])
  BY DEF RunBatch, RunRows, Left, RowAt
<1> QED
  BY <1>1 DEF RunBatch, Ran

LEMMA BatchFields ==
    ASSUME NEW b \in Batches
    PROVE  /\ b.bs0 \in Nat /\ b.perm \in Seq(Nat) /\ b.rows \in Seq(Rows) /\ b.kept \in [Reqs -> Nat] /\ b.res \in Seq(Results)
           /\ \A i \in DOMAIN b.rows :
                /\ b.rows[i] \in Rows /\ b.rows[i].req \in Reqs /\ b.rows[i].auto \in BOOLEAN /\ b.rows[i].gen \in BOOLEAN
                /\ b.rows[i].end \in Int /\ b.rows[i].input \in Int /\ b.rows[i].known \in BOOLEAN /\ b.rows[i].readonly \in Int
           /\ \A i \in DOMAIN b.res : b.res[i].len \in Int /\ b.res[i].tok \in Tokens /\ b.res[i].fin \in BOOLEAN /\ b.res[i].kv \in Int
<1>1. b.bs0 \in Nat /\ b.perm \in Seq(Nat) /\ b.rows \in Seq(Rows) /\ b.kept \in [Reqs -> Nat] /\ b.res \in Seq(Results)
  BY DEF Batches
<1>2. \A i \in DOMAIN b.rows : b.rows[i] \in Rows
  BY <1>1, ElementOf
<1>3. \A i \in DOMAIN b.res : b.res[i] \in Results
  BY <1>1, ElementOf
<1> QED
  BY <1>1, <1>2, <1>3 DEF Rows, Results

LEMMA LeftOf ==
    ASSUME TurboEngineAssumption, Shapes, NEW b \in Batches, NEW r \in Reqs
    PROVE  Left(b)[r] \in Int /\ Left(b)[r] <= kv[r] /\ Left(b)[r] <= b.kept[r] * cfg.blockSize
           /\ Left(b)[r] \in {kv[r], b.kept[r] * cfg.blockSize} /\ b.kept[r] * cfg.blockSize \in Int
<1> DEFINE h == b.kept[r] * cfg.blockSize
<1>1. h \in Int /\ kv[r] \in Int
  <2>1. b.kept[r] \in Int /\ cfg.blockSize \in Nat
    BY BatchFields, SetupFacts DEF IsSetup
  <2> QED
    BY <2>1, TimesOf, SMTT(30) DEF Shapes
<1>2. Left(b)[r] = Lesser(kv[r], h)
  BY DEF Left
<1> HIDE DEF h
<1>3. Left(b)[r] \in Int /\ Left(b)[r] <= kv[r] /\ Left(b)[r] <= h /\ Left(b)[r] \in {kv[r], h}
  BY <1>1, <1>2, LesserOf
<1> QED
  BY <1>1, <1>3 DEF h

\* The parts of a row that ran.
Old(b, i)      == dev[b.perm[i]]
LenOf(b, i)    == IF b.rows[i].auto /\ Carried(b, i) THEN Old(b, i).len ELSE b.rows[i].end
InputOf(b, i)  == IF b.rows[i].auto THEN 1 ELSE b.rows[i].input
RightOf(b, i)  == IF b.rows[i].auto THEN Old(b, i).tok = [req |-> b.rows[i].req, pos |-> LenOf(b, i) - 1, good |-> TRUE]
                  ELSE b.rows[i].known
GoodOf(b, i)   == RightOf(b, i) /\ Left(b)[b.rows[i].req] >= Greater(LenOf(b, i) - InputOf(b, i), Lesser(b.rows[i].readonly, LenOf(b, i)))
SampledOf(b, i) == i <= Cardinality({k \in DOMAIN b.rows : b.rows[k].gen})
GrownTo(b, i)  == IF SampledOf(b, i) THEN LenOf(b, i) + 1 ELSE LenOf(b, i)
FinOf(b, i, stop) == \/ Carried(b, i) /\ Old(b, i).fin
                     \/ SampledOf(b, i) /\ (b.rows[i].req \in stop \/ GrownTo(b, i) >= MaxLen(b.rows[i].req))

LEMMA ForwardedDef ==
    ASSUME NEW b, NEW i, NEW stop
    PROVE  Forwarded(b, i, stop, Left(b)) =
             [len |-> GrownTo(b, i),
              tok |-> IF SampledOf(b, i) THEN [req |-> b.rows[i].req, pos |-> LenOf(b, i), good |-> GoodOf(b, i)] ELSE Unsampled,
              fin |-> FinOf(b, i, stop),
              kv  |-> IF GoodOf(b, i) THEN LenOf(b, i) ELSE Lesser(Left(b)[b.rows[i].req], LenOf(b, i) - InputOf(b, i))]
  BY DEF Forwarded, GrownTo, SampledOf, GoodOf, RightOf, LenOf, InputOf, Old, FinOf

LEMMA ForwardedOf ==
    ASSUME TurboEngineAssumption, Shapes, NEW b \in Batches, NEW i \in DOMAIN b.rows, NEW stop,
           DOMAIN b.perm = DOMAIN b.rows, b.perm[i] >= 1, b.bs0 = Len(dev)
    PROVE  /\ Forwarded(b, i, stop, Left(b)) \in Results
           /\ LenOf(b, i) \in Int /\ InputOf(b, i) \in Int /\ GrownTo(b, i) \in Int
           /\ Carried(b, i) => b.perm[i] \in DOMAIN dev /\ Old(b, i) \in Results
<1>1. b.rows[i].req \in Reqs /\ b.rows[i].auto \in BOOLEAN /\ b.rows[i].end \in Int /\ b.rows[i].input \in Int
      /\ b.rows[i].known \in BOOLEAN
  BY BatchFields
<1>2. Carried(b, i) => b.perm[i] \in DOMAIN dev /\ Old(b, i) \in Results
  <2>1. b.perm[i] \in Nat /\ dev \in Seq(Results)
    BY BatchFields, ElementOf DEF Shapes
  <2> QED
    BY <2>1 DEF Carried, Old
<1>3. LenOf(b, i) \in Int
  BY <1>1, <1>2 DEF LenOf, Results
<1>4. InputOf(b, i) \in Int
  BY <1>1 DEF InputOf
<1>5. GrownTo(b, i) \in Int
  BY <1>3 DEF GrownTo
<1>6. RightOf(b, i) \in BOOLEAN
  BY <1>1 DEF RightOf
<1>7. GoodOf(b, i) \in BOOLEAN
  BY <1>6 DEF GoodOf
<1>8. FinOf(b, i, stop) \in BOOLEAN
  BY DEF FinOf
<1> DEFINE tok == IF SampledOf(b, i) THEN [req |-> b.rows[i].req, pos |-> LenOf(b, i), good |-> GoodOf(b, i)] ELSE Unsampled
           k == IF GoodOf(b, i) THEN LenOf(b, i) ELSE Lesser(Left(b)[b.rows[i].req], LenOf(b, i) - InputOf(b, i))
<1>9. tok \in Tokens
  BY <1>1, <1>3, <1>7 DEF Tokens, Unsampled
<1>10. k \in Int
  <2>1. Left(b)[b.rows[i].req] \in Int /\ LenOf(b, i) - InputOf(b, i) \in Int
    BY <1>1, <1>3, <1>4, LeftOf
  <2>2. Lesser(Left(b)[b.rows[i].req], LenOf(b, i) - InputOf(b, i)) \in Int
    BY <2>1, LesserOf
  <2> QED
    BY <1>3, <2>2
<1>11. Forwarded(b, i, stop, Left(b)) = [len |-> GrownTo(b, i), tok |-> tok, fin |-> FinOf(b, i, stop), kv |-> k]
  BY ForwardedDef
<1> HIDE DEF tok, k
<1>12. Forwarded(b, i, stop, Left(b)) \in Results
  BY <1>5, <1>8, <1>9, <1>10, <1>11 DEF Results
<1> QED
  BY <1>2, <1>3, <1>4, <1>5, <1>12

\* What a run leaves of the pipeline, the device and its memory.
RanOn(b, stop) ==
    /\ b \in Batches /\ b = outbound[1] /\ 1 \in DOMAIN outbound /\ b.bs0 = Len(dev)
    /\ DOMAIN b.perm = DOMAIN b.rows /\ \A i \in DOMAIN b.perm : b.perm[i] >= 1
    /\ Ran(b, stop) \in Batches /\ Ran(b, stop).rows = b.rows /\ Ran(b, stop).res = dev' /\ Ran(b, stop).kept = b.kept
    /\ dev' \in Seq(Results) /\ DOMAIN dev' = DOMAIN b.rows /\ Len(dev') = Len(b.rows)
    /\ \A i \in DOMAIN b.rows : dev'[i] = Forwarded(b, i, stop, Left(b)) /\ dev'[i] \in Results
    /\ kv' \in [Reqs -> Int]
    /\ \A r \in Reqs : \/ RowAt(b, r) = {} /\ kv'[r] = Left(b)[r]
                       \/ \E i \in RowAt(b, r) : kv'[r] = dev'[i].kv
    /\ inbound' = Append(inbound, Ran(b, stop))
    /\ outbound' = Tail(outbound)

LEMMA RunFacts ==
    ASSUME TurboEngineAssumption, Frame, NEW stop, RunBatch(stop)
    PROVE  RanOn(Head(outbound), stop)
<1> DEFINE b == Head(outbound)
           rows == RunRows(b, stop)
<1>0. Shapes /\ Chained
  BY DEF Frame
<1>1. /\ outbound # <<>> /\ dev' = rows
      /\ kv' = [r \in Reqs |-> IF RowAt(b, r) = {} THEN Left(b)[r] ELSE rows[CHOOSE i \in RowAt(b, r) : TRUE].kv]
      /\ inbound' = Append(inbound, Ran(b, stop)) /\ outbound' = Tail(outbound)
  BY RunBatchDef
<1>2. outbound \in Seq(Batches)
  BY <1>0 DEF Shapes
<1>3. b = outbound[1] /\ 1 \in DOMAIN outbound /\ b \in Batches
  BY <1>1, <1>2
<1>4. b.bs0 = Len(dev) /\ DOMAIN b.perm = DOMAIN b.rows /\ \A i \in DOMAIN b.perm : b.perm[i] >= 1
  <2>1. outbound[1].bs0 = Len(dev)
    BY <1>0, <1>1 DEF Chained
  <2> QED
    BY <1>0, <1>3, <2>1 DEF Chained
<1> HIDE DEF b
<1>5. \A i \in DOMAIN b.rows : rows[i] = Forwarded(b, i, stop, Left(b)) /\ rows[i] \in Results
  <2> TAKE i \in DOMAIN b.rows
  <2>1. rows[i] = Forwarded(b, i, stop, Left(b))
    BY DEF RunRows
  <2>2. Forwarded(b, i, stop, Left(b)) \in Results
    BY <1>0, <1>3, <1>4, ForwardedOf
  <2> QED
    BY <2>1, <2>2
<1>6. b.rows \in Seq(Rows) /\ b.kept \in [Reqs -> Nat] /\ DOMAIN b.rows = 1..Len(b.rows) /\ Len(b.rows) \in Nat
  BY <1>3, BatchFields, ElementOf
<1>7. rows = [i \in DOMAIN b.rows |-> rows[i]]
  BY DEF RunRows
<1> HIDE DEF rows
<1>8. rows \in Seq(Results) /\ DOMAIN rows = DOMAIN b.rows /\ Len(rows) = Len(b.rows)
  <2>1. rows \in [1..Len(b.rows) -> Results]
    BY <1>5, <1>6, <1>7
  <2> QED
    BY <1>6, <2>1, SeqFrom
<1>9. Ran(b, stop) = [b EXCEPT !.res = rows]
  BY DEF Ran, rows
<1>10. Ran(b, stop) \in Batches /\ Ran(b, stop).rows = b.rows /\ Ran(b, stop).res = rows /\ Ran(b, stop).kept = b.kept
  BY <1>3, <1>8, <1>9 DEF Batches
<1>11. ASSUME NEW r \in Reqs
       PROVE  /\ kv'[r] \in Int
              /\ \/ RowAt(b, r) = {} /\ kv'[r] = Left(b)[r]
                 \/ \E i \in RowAt(b, r) : kv'[r] = rows[i].kv
  <2>1. kv'[r] = IF RowAt(b, r) = {} THEN Left(b)[r] ELSE rows[CHOOSE i \in RowAt(b, r) : TRUE].kv
    BY <1>1 DEF b
  <2>2. CASE RowAt(b, r) = {}
    <3>1. Left(b)[r] \in Int
      BY <1>0, <1>3, LeftOf
    <3> QED
      BY <2>1, <2>2, <3>1
  <2>3. CASE RowAt(b, r) # {}
    <3>1. PICK i \in RowAt(b, r) : kv'[r] = rows[i].kv
      BY <2>1, <2>3
    <3>2. rows[i] \in Results
      BY <1>5 DEF RowAt
    <3> QED
      BY <3>1, <3>2 DEF Results
  <2> QED
    BY <2>2, <2>3
<1>12. kv' \in [Reqs -> Int]
  <2>1. kv' = [r \in Reqs |-> kv'[r]]
    BY <1>1
  <2> QED
    BY <1>11, <2>1
<1>13. dev' = rows /\ inbound' = Append(inbound, Ran(b, stop)) /\ outbound' = Tail(outbound)
  BY <1>1 DEF b
<1>14. RanOn(b, stop)
  BY <1>3, <1>4, <1>5, <1>8, <1>10, <1>11, <1>12, <1>13 DEF RanOn
<1> QED
  BY <1>14 DEF b

LEMMA RunBatchFrame ==
    ASSUME TurboEngineAssumption, Frame, NEW stop, RunBatch(stop)
    PROVE  Frame'
<1>0. Shapes /\ Places /\ Chained
  BY DEF Frame
<1> DEFINE b == Head(outbound)
           n == Ran(b, stop)
<1>1. RanOn(b, stop)
  BY RunFacts
<1>2. UNCHANGED <<cfg, client, prev, told, state, flag, queue, signals, pc, popped, sigs, uids, slots, perm, nactive, nswapout,
                  seq, held, out>> /\ outbound # <<>>
  BY RunBatchDef DEF clientVars, gateVars, loopVars, stateVars
<1> HIDE DEF b, n
<1>3. inbound \in Seq(Batches) /\ outbound \in Seq(Batches)
  BY <1>0 DEF Shapes
<1>4. /\ Len(inbound') = Len(inbound) + 1 /\ DOMAIN inbound' = DOMAIN inbound \cup {Len(inbound) + 1}
      /\ inbound' \in Seq(Batches)
      /\ \A i \in DOMAIN inbound : inbound'[i] = inbound[i]
      /\ inbound'[Len(inbound) + 1] = n
  BY <1>1, <1>3, AppendOf DEF RanOn, n
<1>5. /\ outbound' \in Seq(Batches) /\ Len(outbound') = Len(outbound) - 1
      /\ \A i \in DOMAIN outbound' : i + 1 \in DOMAIN outbound /\ outbound'[i] = outbound[i + 1]
  BY <1>1, <1>2, <1>3, TailOf DEF RanOn
<1>6. Shapes'
  BY <1>0, <1>1, <1>2, <1>4, <1>5 DEF Shapes, RanOn
<1>7. Places'
  BY <1>0, <1>2, StillPlacedOf DEF StillPlaced
<1>8. Chained'
  <2>1. /\ cfg.phases \in {1, 2} /\ Len(inbound) \in Nat /\ Len(outbound) \in Nat
        /\ Len(inbound) + Len(outbound) = cfg.phases - (IF pc = "collect" THEN 0 ELSE 1)
    <3>1. cfg.phases \in {1, 2} /\ Len(inbound) \in Nat /\ Len(outbound) \in Nat
      BY <1>0, PipelineOf
    <3> QED
      BY <1>0, <3>1 DEF Chained
  <2>2. Len(inbound') + Len(outbound') = cfg'.phases - (IF pc' = "collect" THEN 0 ELSE 1)
    <3> DEFINE x == Len(inbound)
               y == Len(outbound)
    <3>1. x \in Nat /\ y \in Nat /\ (x + 1) + (y - 1) = x + y
      BY <2>1
    <3>2. Len(inbound') = x + 1 /\ Len(outbound') = y - 1
      BY <1>4, <1>5
    <3> HIDE DEF x, y
    <3>3. Len(inbound') + Len(outbound') = x + y
      BY <3>1, <3>2
    <3> QED
      BY <1>2, <2>1, <3>3 DEF x, y
  <2>3. outbound' # <<>> => /\ Len(outbound) = 2 /\ outbound'[1] = outbound[2] /\ outbound'[1].bs0 = Len(dev')
                            /\ Len(outbound') = 1
    <3> SUFFICES ASSUME outbound' # <<>>
                 PROVE  /\ Len(outbound) = 2 /\ outbound'[1] = outbound[2] /\ outbound'[1].bs0 = Len(dev') /\ Len(outbound') = 1
      OBVIOUS
    <3>1. 1 \in DOMAIN outbound'
      BY <1>5
    <3>2. 2 \in DOMAIN outbound /\ outbound'[1] = outbound[2]
      BY <1>5, <3>1
    <3>3. Len(outbound) = 2
      <4> DEFINE y == Len(outbound)
      <4>1. y \in Nat /\ y <= 2 /\ 2 \in 1..y
        BY <1>3, <2>1, <3>2
      <4> HIDE DEF y
      <4>2. y = 2
        BY <4>1
      <4> QED
        BY <4>2 DEF y
    <3>4. outbound[2].bs0 = Len(outbound[1].rows)
      BY <1>0, <3>3 DEF Chained
    <3>5. Len(outbound') = 1
      BY <1>5, <3>3
    <3> QED
      BY <1>1, <3>2, <3>3, <3>4, <3>5 DEF RanOn
  <2>4. Len(outbound') # 2
    <3> DEFINE y == Len(outbound)
    <3>1. Len(outbound') = y - 1 /\ y \in Nat /\ y <= 2
      BY <1>5, <2>1
    <3> HIDE DEF y
    <3> QED
      BY <3>1
  <2>5. nactive' = IF outbound' = <<>> THEN Len(dev') ELSE Len(outbound'[Len(outbound')].rows)
    <3>1. nactive' = Len(outbound[Len(outbound)].rows)
      BY <1>0, <1>2 DEF Chained
    <3>2. CASE outbound' = <<>>
      <4>1. Len(outbound) = 1
        <5> DEFINE y == Len(outbound)
        <5>1. y - 1 = 0 /\ y \in Nat
          BY <1>5, <2>1, <3>2
        <5> HIDE DEF y
        <5>2. y = 1
          BY <5>1
        <5> QED
          BY <5>2 DEF y
      <4> QED
        BY <1>1, <3>1, <3>2, <4>1 DEF RanOn
    <3>3. CASE outbound' # <<>>
      BY <2>3, <3>1, <3>3
    <3> QED
      BY <3>2, <3>3
  <2>6. \A k \in DOMAIN outbound' : DOMAIN outbound'[k].perm = DOMAIN outbound'[k].rows
                                     /\ \A i \in DOMAIN outbound'[k].perm : outbound'[k].perm[i] >= 1
    BY <1>0, <1>5 DEF Chained
  <2>7. \A k \in DOMAIN inbound' : DOMAIN inbound'[k].res = DOMAIN inbound'[k].rows
    <3>1. DOMAIN n.res = DOMAIN n.rows
      BY <1>1 DEF RanOn, n
    <3> QED
      BY <1>0, <1>4, <3>1 DEF Chained
  <2> QED
    BY <2>2, <2>3, <2>4, <2>5, <2>6, <2>7 DEF Chained
<1> QED
  BY <1>6, <1>7, <1>8 DEF Frame

\* The same rows are on their way.
LEMMA RowsStay ==
    ASSUME TurboEngineAssumption, Frame, NEW stop, RunBatch(stop)
    PROVE  /\ Len(Pipeline') = Len(Pipeline) /\ DOMAIN Pipeline' = DOMAIN Pipeline
           /\ \A k \in DOMAIN Pipeline : Pipeline'[k].rows = Pipeline[k].rows
<1> DEFINE b == Head(outbound)
           n == Ran(b, stop)
           x == Len(inbound)
<1>0. Shapes /\ Chained /\ Frame'
  BY RunBatchFrame DEF Frame
<1>1. RanOn(b, stop)
  BY RunFacts
<1>2. inbound \in Seq(Batches) /\ outbound \in Seq(Batches) /\ x \in Nat
  BY <1>0, ElementOf DEF Shapes
<1>3. n \in Batches /\ n.rows = outbound[1].rows /\ 1 \in DOMAIN outbound
      /\ inbound' = Append(inbound, n) /\ outbound' = Tail(outbound) /\ outbound # <<>>
  <2>1. outbound # <<>>
    BY RunBatchDef
  <2> QED
    BY <1>1, <2>1 DEF RanOn
<1> HIDE DEF b, n, x
<1>4. /\ inbound' \in Seq(Batches) /\ Len(inbound') = x + 1 /\ inbound'[x + 1] = n
      /\ \A i \in DOMAIN inbound : inbound'[i] = inbound[i]
      /\ DOMAIN inbound' = DOMAIN inbound \cup {x + 1}
  BY <1>2, <1>3, AppendOf DEF x
<1>5. /\ outbound' \in Seq(Batches) /\ Len(outbound') = Len(outbound) - 1
      /\ \A i \in DOMAIN outbound' : outbound'[i] = outbound[i + 1]
      /\ \A i \in DOMAIN outbound : i # 1 => i - 1 \in DOMAIN outbound' /\ outbound'[i - 1] = outbound[i]
  BY <1>2, <1>3, TailOf
<1>6. Pipeline \in Seq(Batches) /\ Pipeline' \in Seq(Batches)
      /\ Len(Pipeline) = x + Len(outbound) /\ Len(Pipeline') = x + 1 + Len(outbound') /\ Len(outbound) \in Nat
  <2>1. Pipeline' = inbound' \o outbound'
    BY DEF Pipeline
  <2>2. Pipeline' \in Seq(Batches) /\ Len(Pipeline') = Len(inbound') + Len(outbound')
    <3> DEFINE q == inbound'
               d == outbound'
    <3>1. q \in Seq(Batches) /\ d \in Seq(Batches)
      BY <1>4, <1>5
    <3> HIDE DEF q, d
    <3>2. q \o d \in Seq(Batches) /\ Len(q \o d) = Len(q) + Len(d)
      BY <3>1, ConcatOf
    <3>3. Pipeline' = q \o d
      BY <2>1 DEF q, d
    <3> QED
      BY <3>2, <3>3 DEF q, d
  <2> QED
    BY <1>0, <1>4, <2>2, PipelineOf DEF x
<1>7. Len(Pipeline') = Len(Pipeline) /\ DOMAIN Pipeline' = DOMAIN Pipeline
  <2> DEFINE y == Len(outbound)
             z == Len(outbound')
             p == Len(Pipeline)
             q == Len(Pipeline')
  <2>1. z = y - 1 /\ p = x + y /\ q = x + 1 + z /\ x \in Nat /\ y \in Nat
    BY <1>2, <1>5, <1>6
  <2> HIDE DEF y, z, p, q
  <2>2. p = q
    BY <2>1
  <2>3. Len(Pipeline') = Len(Pipeline)
    BY <2>2 DEF p, q
  <2> QED
    BY <1>6, <2>3, ElementOf
<1>8. ASSUME NEW k \in DOMAIN Pipeline PROVE Pipeline'[k].rows = Pipeline[k].rows
  <2>1. Pipeline = inbound \o outbound /\ Pipeline' = inbound' \o outbound'
    BY DEF Pipeline
  <2>2. /\ \A i \in DOMAIN inbound : Pipeline[i] = inbound[i]
        /\ \A i \in DOMAIN outbound : Pipeline[x + i] = outbound[i]
        /\ \A i \in DOMAIN Pipeline : i \in DOMAIN inbound \/ i - x \in DOMAIN outbound
    BY <1>2, <2>1, ConcatOf DEF x
  <2>3. /\ \A i \in DOMAIN inbound' : Pipeline'[i] = inbound'[i]
        /\ \A i \in DOMAIN outbound' : Pipeline'[x + 1 + i] = outbound'[i]
    <3>1. /\ \A i \in DOMAIN inbound' : Pipeline'[i] = inbound'[i]
          /\ \A i \in DOMAIN outbound' : Pipeline'[Len(inbound') + i] = outbound'[i]
      BY <1>4, <1>5, <2>1, ConcatOf, SMTT(30)
    <3> QED
      BY <1>4, <3>1
  <2>4. CASE k \in DOMAIN inbound
    BY <1>4, <2>2, <2>3, <2>4
  <2>5. CASE k - x \in DOMAIN outbound /\ k - x = 1
    <3>1. k = x + 1 /\ k \in DOMAIN inbound'
      BY <1>2, <1>4, <1>6, <2>5, ElementOf
    <3>2. Pipeline'[k] = n /\ Pipeline[k] = outbound[1]
      BY <1>3, <1>4, <2>2, <2>3, <3>1
    <3> QED
      BY <1>3, <3>2
  <2>6. CASE k - x \in DOMAIN outbound /\ k - x # 1
    <3> DEFINE i == k - x
    <3>1. i - 1 \in DOMAIN outbound' /\ outbound'[i - 1] = outbound[i] /\ i \in Int
      BY <1>2, <1>5, <2>6, ElementOf
    <3>2. k \in Int /\ x \in Int /\ k = x + i /\ k = x + 1 + (i - 1)
      BY <1>2, <1>6, ElementOf
    <3> HIDE DEF i
    <3>3. Pipeline'[x + 1 + (i - 1)] = outbound'[i - 1]
      BY <2>3, <3>1
    <3>4. Pipeline[x + i] = outbound[i]
      BY <2>2, <2>6 DEF i
    <3> QED
      BY <3>1, <3>2, <3>3, <3>4
  <2> QED
    BY <2>2, <2>4, <2>5, <2>6
<1> QED
  BY <1>7, <1>8

LEMMA RunBatchAlive ==
    ASSUME TurboEngineAssumption, Frame, Alive, NEW stop, RunBatch(stop)
    PROVE  Alive'
<1>1. /\ Len(Pipeline') = Len(Pipeline) /\ DOMAIN Pipeline' = DOMAIN Pipeline
      /\ \A k \in DOMAIN Pipeline : Pipeline'[k].rows = Pipeline[k].rows
  BY RowsStay
<1>2. UNCHANGED <<cfg, pc, slots, perm, nactive, seq>>
  BY RunBatchDef DEF loopVars, stateVars
<1>3. DOMAIN Pipeline = 1..Len(Pipeline) /\ Len(Pipeline) \in Nat /\ Pipeline \in Seq(Batches)
      /\ (pc = "collect" => 1 \in DOMAIN Pipeline)
  BY PipelineOf, ElementOf DEF Frame
<1>4. Pipeline' # <<>> => Pipeline # <<>> /\ Newest'.rows = Newest.rows
  <2> SUFFICES ASSUME Pipeline' # <<>> PROVE Pipeline # <<>> /\ Newest'.rows = Newest.rows
    OBVIOUS
  <2>1. Pipeline # <<>>
    <3> SUFFICES ASSUME Pipeline = <<>> PROVE FALSE
      OBVIOUS
    <3>1. DOMAIN Pipeline' = {} /\ Len(Pipeline') = 0
      BY <1>1
    <3>2. Pipeline' \in Seq(Batches)
      <4>1. Frame'
        BY RunBatchFrame
      <4>2. inbound' \in Seq(Batches) /\ outbound' \in Seq(Batches)
        BY <4>1 DEF Frame, Shapes
      <4>3. Pipeline' = inbound' \o outbound'
        BY DEF Pipeline
      <4> QED
        BY <4>2, <4>3, ConcatOf
    <3>3. Pipeline' = <<>>
      BY <3>1, <3>2
    <3> QED
      BY <3>3
  <2>2. Len(Pipeline) \in DOMAIN Pipeline
    BY <1>3, <2>1
  <2>3. Newest' = Pipeline'[Len(Pipeline')]
    BY DEF Newest
  <2> QED
    BY <1>1, <2>1, <2>2, <2>3 DEF Newest
<1>5. \A i : RowOf(i)' = RowOf(i)
  BY <1>2 DEF RowOf
<1>6. InSlots'
  <2>1. pc = "collect" => Pipeline'[1].rows = Pipeline[1].rows
    BY <1>1, <1>3
  <2> QED
    BY <1>2, <1>4, <1>5, <2>1 DEF InSlots, Alive
<1>7. Counted'
  <2>1. \A r \in Reqs : \A k : In1(k, r)' = In1(k, r)
    BY <1>1 DEF In1, Names
  <2> QED
    BY <1>2, <2>1 DEF Counted, Alive
<1> QED
  BY <1>6, <1>7 DEF Alive

---------------------------------------------------------------------------
(* Collect. *)

\* The sequences once a batch has come back, who gets a token of it, who is told.
Collected(b)  == [r \in Reqs |-> IF r \in Present THEN After(b, r) ELSE seq[r]]
Sampling(b)   == {r \in Present : Samples(b, r)}
Informed(b)   == Only(slots, {r \in Sampling(b) : Collected(b)[r].retiring \/ cfg.stream})
Reports(b)    == Answers(Informed(b), LAMBDA r : IF Collected(b)[r].retiring THEN Finish ELSE Ok, LAMBDA r : Collected(b)[r].len)

CollectsBy(b, qs) ==
    /\ Retire(slots, qs, held)
    /\ signals' = signals \o sigs
         \o Answers(Only(slots, {r \in Sampling(b) : qs[r].retiring \/ cfg.stream}),
                    LAMBDA r : IF qs[r].retiring THEN Finish ELSE Ok, LAMBDA r : qs[r].len)

LEMMA CollectDef ==
    ASSUME Collect
    PROVE  LET b == Head(inbound) IN
           /\ pc = "collect" /\ inbound # <<>> /\ sigs' = <<>> /\ inbound' = Tail(inbound) /\ pc' = "pop"
           /\ out' = [r \in Reqs |-> IF r \in Sampling(b) THEN Append(out[r], b.res[RowOf(Place(slots, r))].tok) ELSE out[r]]
           /\ Retire(slots, Collected(b), held)
           /\ signals' = signals \o sigs \o Reports(b)
           /\ UNCHANGED <<cfg, clientVars, calls, state, flag, queue, popped, uids, perm, nactive, nswapout, outbound, deviceVars>>
<1> DEFINE b == Head(inbound)
<1>1. \E qs \in {Collected(b)} : CollectsBy(b, qs)
  BY DEF Collect, Collected, Sampling, CollectsBy
<1>2. Retire(slots, Collected(b), held) /\ signals' = signals \o sigs \o Reports(b)
  <2>1. CollectsBy(b, Collected(b))
    BY <1>1
  <2> QED
    BY <2>1 DEF CollectsBy, Reports, Informed
<1> QED
  BY <1>2 DEF Collect, Sampling

LEMMA AdvancedOf ==
    ASSUME NEW q \in SeqRecords, NEW row \in Rows, NEW res \in Results
    PROVE  LET a == Advanced(q, row, res) IN
           /\ a \in SeqRecords /\ a.inflight = q.inflight /\ a.uid = q.uid
           /\ a.active = q.active /\ a.input = q.input /\ a.gen = q.gen /\ a.auto = q.auto /\ a.iin = q.iin /\ a.inew = q.inew
           /\ a.filled = (IF row.gen THEN res.len - 1 ELSE res.len)
           /\ IF row.gen /\ ~q.retiring THEN a.len = res.len /\ a.retiring = res.fin
                                        ELSE a.len = q.len /\ a.retiring = q.retiring
<1> DEFINE f == IF row.gen THEN res.len - 1 ELSE res.len
           m == [q EXCEPT !.filled = f]
<1>1. f \in Int /\ res.len \in Int /\ res.fin \in BOOLEAN
  BY DEF Rows, Results
<1>2. Advanced(q, row, res) = IF row.gen /\ ~q.retiring THEN [m EXCEPT !.len = res.len, !.retiring = res.fin] ELSE m
  BY DEF Advanced
<1> HIDE DEF f
<1>3. /\ m \in SeqRecords /\ m.inflight = q.inflight /\ m.uid = q.uid /\ m.filled = f /\ m.len = q.len
      /\ m.active = q.active /\ m.input = q.input /\ m.gen = q.gen /\ m.auto = q.auto /\ m.iin = q.iin /\ m.inew = q.inew
  BY <1>1 DEF SeqRecords
<1>4. m.retiring = q.retiring
  BY DEF SeqRecords
<1> HIDE DEF m
<1> DEFINE l == res.len
           e == res.fin
           x == [m EXCEPT !.len = l, !.retiring = e]
<1>5. l \in Int /\ e \in BOOLEAN
  BY <1>1
<1> HIDE DEF l, e
<1>6. /\ x \in SeqRecords /\ x.inflight = m.inflight /\ x.uid = m.uid /\ x.filled = m.filled /\ x.len = l
      /\ x.active = m.active /\ x.input = m.input /\ x.gen = m.gen /\ x.auto = m.auto /\ x.iin = m.iin /\ x.inew = m.inew
      /\ x.retiring = e
  BY <1>3, <1>5 DEF SeqRecords
<1>7. Advanced(q, row, res) = IF row.gen /\ ~q.retiring THEN x ELSE m
  BY <1>2 DEF l, e
<1> HIDE DEF x
<1>8. CASE row.gen /\ ~q.retiring
  BY <1>3, <1>6, <1>7, <1>8 DEF f, l, e
<1>9. CASE ~(row.gen /\ ~q.retiring)
  BY <1>3, <1>4, <1>7, <1>9 DEF f
<1> QED
  BY <1>8, <1>9

LEMMA InFlightOf ==
    ASSUME TurboEngineAssumption, Shapes, NEW i \in Nat, NEW q \in SeqRecords
    PROVE  LET a == InFlight(i, q) IN
           /\ a \in SeqRecords /\ a.inflight = q.inflight /\ a.uid = q.uid /\ a.len = q.len /\ a.filled = q.filled
           /\ a.active = q.active /\ a.input = q.input /\ a.gen = q.gen /\ a.auto = q.auto /\ a.retiring = q.retiring
           /\ cfg.phases = 1 => a.iin = q.iin /\ a.inew = q.inew
           /\ cfg.phases = 2 =>
                IF i <= nactive THEN a.iin = q.input /\ a.inew = (IF q.gen THEN 1 ELSE 0)
                ELSE IF i \in nactive + 1 .. nactive + nswapout THEN a.iin = 0 /\ a.inew = 0
                ELSE a.iin = q.iin /\ a.inew = q.inew
<1>1. cfg.phases \in {1, 2} /\ nactive \in Nat /\ nswapout \in Nat
  BY SetupFacts DEF IsSetup, Shapes
<1> DEFINE y == IF q.gen THEN 1 ELSE 0
           none == 0
           a == InFlight(i, q)
<1>2. y \in Int /\ q.input \in Int /\ none \in Int
  BY DEF SeqRecords
<1>3. CASE cfg.phases = 2 /\ i <= nactive
  <2> DEFINE x == q.input
  <2>0. a = [q EXCEPT !.iin = q.input, !.inew = IF q.gen THEN 1 ELSE 0]
    <3>1. cfg.phases > 1 /\ cfg.phases # 1 /\ i <= nactive /\ i \notin nactive + 1 .. nactive + nswapout
      BY <1>1, <1>3
    <3> QED
      BY <3>1, Zenon DEF InFlight
  <2>1. a = [q EXCEPT !.iin = x, !.inew = y] /\ x \in Int
    BY <1>2, <2>0
  <2> HIDE DEF y, a, x
  <2>2. /\ a \in SeqRecords /\ a.inflight = q.inflight /\ a.uid = q.uid /\ a.len = q.len /\ a.filled = q.filled
        /\ a.active = q.active /\ a.input = q.input /\ a.gen = q.gen /\ a.auto = q.auto /\ a.retiring = q.retiring
        /\ a.iin = x /\ a.inew = y
    BY <1>2, <2>1 DEF SeqRecords
  <2> QED
    BY <1>3, <2>2 DEF x, y, a
<1>4. CASE cfg.phases = 2 /\ ~(i <= nactive) /\ i \in nactive + 1 .. nactive + nswapout
  <2>1. a = [q EXCEPT !.iin = none, !.inew = none]
    BY <1>4 DEF InFlight
  <2> HIDE DEF a, none
  <2>2. /\ a \in SeqRecords /\ a.inflight = q.inflight /\ a.uid = q.uid /\ a.len = q.len /\ a.filled = q.filled
        /\ a.active = q.active /\ a.input = q.input /\ a.gen = q.gen /\ a.auto = q.auto /\ a.retiring = q.retiring
        /\ a.iin = none /\ a.inew = none
    BY <1>2, <2>1 DEF SeqRecords
  <2> QED
    BY <1>4, <2>2 DEF a, none
<1>5. CASE cfg.phases = 2 /\ ~(i <= nactive) /\ i \notin nactive + 1 .. nactive + nswapout
  <2>1. a = q
    BY <1>5 DEF InFlight
  <2> QED
    BY <1>5, <2>1
<1>6. CASE cfg.phases = 1
  <2>1. a = q
    BY <1>6 DEF InFlight
  <2> QED
    BY <1>6, <2>1
<1> QED
  BY <1>1, <1>3, <1>4, <1>5, <1>6

\* A sequence after a batch came back, whether it was in it or not.
AfterFacts(b, r, a) ==
    LET i == Place(slots, r)
        row == b.rows[RowOf(i)]
        res == b.res[RowOf(i)]
        q == seq[r]
    IN /\ a \in SeqRecords /\ a.uid = q.uid
       /\ a.active = q.active /\ a.input = q.input /\ a.gen = q.gen /\ a.auto = q.auto
       /\ a.inflight = q.inflight - (IF In(b, r) THEN 1 ELSE 0)
       /\ In(b, r) => row \in Rows /\ res \in Results /\ a.filled = (IF row.gen THEN res.len - 1 ELSE res.len)
       /\ ~In(b, r) => a.filled = q.filled
       /\ Samples(b, r) => a.len = res.len /\ a.retiring = res.fin
       /\ ~Samples(b, r) => a.len = q.len /\ a.retiring = q.retiring
       /\ cfg.phases = 1 => a.iin = q.iin /\ a.inew = q.inew
       /\ cfg.phases = 2 =>
            IF i <= nactive THEN a.iin = q.input /\ a.inew = (IF q.gen THEN 1 ELSE 0)
            ELSE IF i \in nactive + 1 .. nactive + nswapout THEN a.iin = 0 /\ a.inew = 0
            ELSE a.iin = q.iin /\ a.inew = q.inew

LEMMA AfterOf ==
    ASSUME TurboEngineAssumption, Shapes, NEW b \in Batches, DOMAIN b.res = DOMAIN b.rows, NEW r \in Present, r \in Reqs
    PROVE  AfterFacts(b, r, After(b, r))
<1> DEFINE i == Place(slots, r)
           k == RowOf(i)
           q == seq[r]
           row == b.rows[k]
           res == b.res[k]
           m == Advanced(q, row, res)
           a == After(b, r)
           in == In(b, r)
           sam == Samples(b, r)
<1>1. i \in Nat
  <2>1. i \in DOMAIN slots
    BY PlaceOf DEF Present
  <2> QED
    BY <2>1, ElementOf DEF Shapes
<1>2. q \in SeqRecords
  BY SeqOfReq
<1>3. a = IF ~in THEN InFlight(i, q) ELSE [InFlight(i, m) EXCEPT !.inflight = @ - 1]
  BY DEF After
<1>4. in = (k \in DOMAIN b.rows) /\ sam = (in /\ row.gen /\ ~q.retiring)
  BY DEF In, Samples
<1>5. CASE ~in
  <2>1. ~sam /\ q.inflight \in Int
    BY <1>2, <1>4, <1>5 DEF SeqRecords
  <2>2. a = InFlight(i, q)
    BY <1>3, <1>5
  <2> HIDE DEF a, i, q, row, res
  <2>3. AfterFacts(b, r, a)
    <3>1. /\ a \in SeqRecords /\ a.inflight = q.inflight /\ a.uid = q.uid /\ a.len = q.len /\ a.filled = q.filled
          /\ a.active = q.active /\ a.input = q.input /\ a.gen = q.gen /\ a.auto = q.auto /\ a.retiring = q.retiring
          /\ cfg.phases = 1 => a.iin = q.iin /\ a.inew = q.inew
          /\ cfg.phases = 2 =>
               IF i <= nactive THEN a.iin = q.input /\ a.inew = (IF q.gen THEN 1 ELSE 0)
               ELSE IF i \in nactive + 1 .. nactive + nswapout THEN a.iin = 0 /\ a.inew = 0
               ELSE a.iin = q.iin /\ a.inew = q.inew
      BY <1>1, <1>2, <2>2, InFlightOf
    <3>2. a.inflight = q.inflight - 0
      BY <2>1, <3>1
    <3> QED
      BY <1>5, <2>1, <3>1, <3>2 DEF AfterFacts, q, i
  <2> QED
    BY <2>3 DEF a
<1>6. CASE in
  <2>1. row \in Rows /\ res \in Results
    <3>1. b.rows \in Seq(Rows) /\ b.res \in Seq(Results)
      BY BatchFields
    <3> QED
      BY <1>4, <1>6, <3>1, ElementOf
  <2> DEFINE f == InFlight(i, m)
             c == f.inflight - 1
  <2>2. a = [f EXCEPT !.inflight = c]
    BY <1>3, <1>6
  <2> HIDE DEF i, k, q, row, res, a
  <2>3. /\ m \in SeqRecords /\ m.inflight = q.inflight /\ m.uid = q.uid
        /\ m.active = q.active /\ m.input = q.input /\ m.gen = q.gen /\ m.auto = q.auto /\ m.iin = q.iin /\ m.inew = q.inew
        /\ m.filled = (IF row.gen THEN res.len - 1 ELSE res.len)
        /\ IF row.gen /\ ~q.retiring THEN m.len = res.len /\ m.retiring = res.fin
                                     ELSE m.len = q.len /\ m.retiring = q.retiring
    BY <1>2, <2>1, AdvancedOf
  <2> HIDE DEF m
  <2>4. /\ f \in SeqRecords /\ f.inflight = m.inflight /\ f.uid = m.uid /\ f.len = m.len /\ f.filled = m.filled
        /\ f.active = m.active /\ f.input = m.input /\ f.gen = m.gen /\ f.auto = m.auto /\ f.retiring = m.retiring
        /\ cfg.phases = 1 => f.iin = m.iin /\ f.inew = m.inew
        /\ cfg.phases = 2 =>
             IF i <= nactive THEN f.iin = m.input /\ f.inew = (IF m.gen THEN 1 ELSE 0)
             ELSE IF i \in nactive + 1 .. nactive + nswapout THEN f.iin = 0 /\ f.inew = 0
             ELSE f.iin = m.iin /\ f.inew = m.inew
    BY <1>1, <2>3, InFlightOf
  <2> HIDE DEF f
  <2>5. c \in Int
    BY <2>4 DEF SeqRecords
  <2> HIDE DEF c
  <2>6. /\ a \in SeqRecords /\ a.inflight = c /\ a.uid = f.uid /\ a.len = f.len /\ a.filled = f.filled
        /\ a.active = f.active /\ a.input = f.input /\ a.gen = f.gen /\ a.auto = f.auto /\ a.retiring = f.retiring
        /\ a.iin = f.iin /\ a.inew = f.inew
    BY <2>2, <2>4, <2>5 DEF SeqRecords
  <2>7. c = q.inflight - 1
    BY <2>3, <2>4 DEF c
  <2>8. /\ Samples(b, r) => a.len = res.len /\ a.retiring = res.fin
        /\ ~Samples(b, r) => a.len = q.len /\ a.retiring = q.retiring
    BY <1>4, <1>6, <2>3, <2>4, <2>6
  <2>9. /\ cfg.phases = 1 => a.iin = q.iin /\ a.inew = q.inew
        /\ cfg.phases = 2 =>
             IF i <= nactive THEN a.iin = q.input /\ a.inew = (IF q.gen THEN 1 ELSE 0)
             ELSE IF i \in nactive + 1 .. nactive + nswapout THEN a.iin = 0 /\ a.inew = 0
             ELSE a.iin = q.iin /\ a.inew = q.inew
    BY <2>3, <2>4, <2>6
  <2>10. a.filled = (IF row.gen THEN res.len - 1 ELSE res.len)
    BY <2>3, <2>4, <2>6
  <2>11. a.active = q.active /\ a.input = q.input /\ a.gen = q.gen /\ a.auto = q.auto /\ a.uid = q.uid
    BY <2>3, <2>4, <2>6
  <2>12. AfterFacts(b, r, a)
    BY <1>6, <2>1, <2>6, <2>7, <2>8, <2>9, <2>10, <2>11 DEF AfterFacts, q, i, row, res, k
  <2> QED
    BY <2>12 DEF a
<1> QED
  BY <1>5, <1>6

---------------------------------------------------------------------------
(* Collect keeps the frame, and every row alive. *)

\* The batch that comes back, what it does to the sequences, what is told.
Back(b) ==
    /\ b \in Batches /\ DOMAIN b.res = DOMAIN b.rows /\ b = inbound[1] /\ b = Pipeline[1] /\ 1 \in DOMAIN inbound
    /\ Retired(slots, Collected(b), held)
    /\ Collected(b) \in [Reqs -> SeqRecords]
    /\ \A r \in Present : r \in Reqs /\ AfterFacts(b, r, Collected(b)[r])
    /\ \A r \in Reqs \ Present : Collected(b)[r] = seq[r]
    /\ Informed(b) \in Seq(Reqs) /\ Once(Informed(b))
    /\ Range(Informed(b)) = {r \in Sampling(b) : Collected(b)[r].retiring \/ cfg.stream}
    /\ Reports(b) \in Seq(Signals) /\ DOMAIN Reports(b) = DOMAIN Informed(b)
    /\ \A i \in DOMAIN Informed(b) : LET r == Informed(b)[i] IN
         Reports(b)[i] = [req |-> r, st |-> IF Collected(b)[r].retiring THEN Finish ELSE Ok, len |-> Collected(b)[r].len]
    /\ inbound' \in Seq(Batches) /\ Len(inbound') = Len(inbound) - 1 /\ inbound' = Tail(inbound)
    /\ \A i \in DOMAIN inbound' : i + 1 \in DOMAIN inbound /\ inbound'[i] = inbound[i + 1]

LEMMA CollectFacts ==
    ASSUME TurboEngineAssumption, Frame, Collect
    PROVE  Back(Head(inbound))
<1> DEFINE b == Head(inbound)
           qs == Collected(b)
<1>0. Shapes /\ Places /\ Chained
  BY DEF Frame
<1>1. inbound # <<>> /\ inbound' = Tail(inbound) /\ Retire(slots, qs, held)
  BY CollectDef
<1>2. inbound \in Seq(Batches) /\ outbound \in Seq(Batches)
  BY <1>0 DEF Shapes
<1>3. b = inbound[1] /\ 1 \in DOMAIN inbound /\ b \in Batches /\ DOMAIN b.res = DOMAIN b.rows
  <2>1. b = inbound[1] /\ 1 \in DOMAIN inbound /\ b \in Batches
    BY <1>1, <1>2
  <2> QED
    BY <1>0, <2>1 DEF Chained
<1>4. b = Pipeline[1]
  BY <1>2, <1>3, ConcatOf DEF Pipeline
<1> HIDE DEF b
<1>5. Present \subseteq Reqs /\ slots \in Seq(Reqs \cup {NoReq}) /\ Once(slots) /\ held \in [Reqs -> Nat] /\ NoReq \notin Reqs
  BY <1>0, PresentFacts, SetupFacts DEF Shapes, Places
<1>6. \A r \in Present : r \in Reqs /\ qs[r] = After(b, r) /\ AfterFacts(b, r, qs[r])
  <2> TAKE r \in Present
  <2>1. r \in Reqs /\ qs[r] = After(b, r)
    BY <1>5 DEF Collected
  <2> QED
    BY <1>0, <1>3, <2>1, AfterOf
<1>7. \A r \in Reqs \ Present : qs[r] = seq[r]
  BY DEF Collected
<1>8. qs \in [Reqs -> SeqRecords]
  <2>1. qs = [r \in Reqs |-> qs[r]]
    BY DEF Collected
  <2>2. \A r \in Reqs : qs[r] \in SeqRecords
    BY <1>0, <1>6, <1>7, SeqOfReq DEF AfterFacts
  <2> QED
    BY <2>1, <2>2
<1> HIDE DEF qs
<1>9. Retired(slots, qs, held)
  BY <1>1, <1>5, <1>8, RetireOf
<1> DEFINE T == {r \in Sampling(b) : qs[r].retiring \/ cfg.stream}
<1>10. Informed(b) = Only(slots, T)
  BY DEF Informed, qs
<1>11. T \subseteq Range(slots) /\ T \subseteq Reqs
  <2>1. T \subseteq Present
    BY DEF Sampling
  <2> QED
    BY <1>5, <2>1 DEF Present
<1>12. Informed(b) \in Seq(Reqs) /\ Once(Informed(b)) /\ Range(Informed(b)) = T
  <2> HIDE DEF T
  <2>1. /\ Informed(b) \in Seq(Reqs \cup {NoReq}) /\ Range(Informed(b)) = Range(slots) \cap T
        /\ Once(Informed(b))
    BY <1>5, <1>10, OnlyOf
  <2>2. Range(Informed(b)) = T
    BY <1>11, <2>1
  <2> QED
    BY <1>11, <2>1, <2>2, SeqIn
<1>13. /\ Reports(b) = [i \in DOMAIN Informed(b) |-> Reports(b)[i]]
       /\ \A i \in DOMAIN Informed(b) :
            Reports(b)[i] = [req |-> Informed(b)[i], st |-> IF qs[Informed(b)[i]].retiring THEN Finish ELSE Ok,
                             len |-> qs[Informed(b)[i]].len]
  BY DEF Reports, Answers, qs
<1>14. \A i \in DOMAIN Informed(b) : Reports(b)[i] \in Signals
  <2> TAKE i \in DOMAIN Informed(b)
  <2>1. Informed(b)[i] \in Reqs
    BY <1>12
  <2>2. qs[Informed(b)[i]] \in SeqRecords
    BY <1>8, <2>1
  <2>3. qs[Informed(b)[i]].len \in Int
    BY <2>2 DEF SeqRecords
  <2>4. Finish \in Statuses /\ Ok \in Statuses
    BY DEF Statuses, Answered
  <2> QED
    BY <1>13, <2>1, <2>3, <2>4 DEF Signals
<1>15. Reports(b) \in Seq(Signals) /\ DOMAIN Reports(b) = DOMAIN Informed(b)
  BY <1>12, <1>13, <1>14, SignalsOf
<1>16. /\ inbound' \in Seq(Batches) /\ Len(inbound') = Len(inbound) - 1
       /\ \A i \in DOMAIN inbound' : i + 1 \in DOMAIN inbound /\ inbound'[i] = inbound[i + 1]
  BY <1>1, <1>2, TailOf
<1>17. Back(b)
  BY <1>1, <1>3, <1>4, <1>6, <1>7, <1>8, <1>9, <1>12, <1>13, <1>15, <1>16 DEF Back, qs
<1> QED
  BY <1>17 DEF b

LEMMA CollectFrame ==
    ASSUME TurboEngineAssumption, Frame, Collect
    PROVE  Frame'
<1> DEFINE b == Head(inbound)
<1>0. Shapes /\ Places /\ Chained
  BY DEF Frame
<1>1. Back(b)
  BY CollectFacts
<1>2. /\ pc = "collect" /\ sigs' = <<>> /\ pc' = "pop" /\ signals' = signals \o sigs \o Reports(b)
      /\ out' = [r \in Reqs |-> IF r \in Sampling(b) THEN Append(out[r], b.res[RowOf(Place(slots, r))].tok) ELSE out[r]]
      /\ UNCHANGED <<cfg, client, prev, told, state, flag, queue, popped, uids, perm, nactive, nswapout, outbound, dev, kv>>
  BY CollectDef DEF clientVars, deviceVars
<1> HIDE DEF b
<1>3. b \in Batches
  BY <1>1 DEF Back
<1>4. signals' \in Seq(Signals)
  <2>1. signals \in Seq(Signals) /\ sigs \in Seq(Signals) /\ Reports(b) \in Seq(Signals)
    BY <1>0, <1>1 DEF Shapes, Back
  <2> QED
    BY <1>2, <2>1, ConcatOf
<1>5. out' \in [Reqs -> Seq(Tokens)]
  <2>1. ASSUME NEW r \in Sampling(b) PROVE b.res[RowOf(Place(slots, r))].tok \in Tokens
    <3>1. RowOf(Place(slots, r)) \in DOMAIN b.res
      BY <1>1, <2>1 DEF Sampling, Samples, In, Back
    <3> QED
      BY <1>3, <3>1, BatchFields
  <2>2. \A r \in Reqs : out[r] \in Seq(Tokens)
    BY <1>0 DEF Shapes
  <2>3. \A r \in Sampling(b) : r \in Reqs => Append(out[r], b.res[RowOf(Place(slots, r))].tok) \in Seq(Tokens)
    BY <2>1, <2>2, AppendOf
  <2> QED
    BY <1>2, <2>2, <2>3
<1>6. Shapes'
  <2>1. sigs' \in Seq(Signals)
    BY <1>2
  <2> QED
    BY <1>0, <1>1, <1>2, <1>4, <1>5, <2>1 DEF Shapes, Back, Retired
<1> DEFINE gone == Gone(slots, Collected(b))
<1>7. /\ Present' = Present \ gone /\ Once(slots')
      /\ \A r \in Reqs : /\ seq'[r] = IF r \in gone THEN NoSeq ELSE Collected(b)[r]
                         /\ held'[r] = IF r \in gone THEN 0 ELSE held[r]
  BY <1>1 DEF Back, Retired, Present
<1> HIDE DEF gone
<1>8. Present \subseteq Reqs
  BY <1>0, PresentFacts
<1>9. \A r \in Present' : r \in Present /\ r \in Reqs /\ seq'[r].uid = seq[r].uid
  <2> TAKE r \in Present'
  <2>1. r \in Present /\ r \in Reqs /\ seq'[r] = Collected(b)[r]
    BY <1>7, <1>8
  <2> QED
    BY <1>1, <2>1 DEF Back, AfterFacts
<1>10. \A r \in Reqs : r \notin Present' => seq'[r] = NoSeq /\ held'[r] = 0
  <2> SUFFICES ASSUME NEW r \in Reqs, r \notin Present' PROVE seq'[r] = NoSeq /\ held'[r] = 0
    OBVIOUS
  <2>1. CASE r \in gone
    BY <1>7, <2>1
  <2>2. CASE r \notin gone
    <3>1. r \notin Present
      BY <1>7, <2>2
    <3>2. Collected(b)[r] = seq[r] /\ seq[r] = NoSeq /\ held[r] = 0
      BY <1>0, <1>1, <3>1 DEF Back, Places
    <3> QED
      BY <1>7, <2>2, <3>2
  <2> QED
    BY <2>1, <2>2
<1>11. Places'
  <2>1. popped = <<>>
    BY <1>0, <1>2 DEF Places
  <2>2. \A r \in Present' : seq'[r].uid \in 1..uids
    BY <1>0, <1>9 DEF Places
  <2>3. \A v, r \in Present' : seq'[v].uid = seq'[r].uid => v = r
    BY <1>0, <1>9 DEF Places
  <2> QED
    BY <1>0, <1>2, <1>7, <1>10, <2>1, <2>2, <2>3 DEF Places
<1>12. Chained'
  <2>1. /\ cfg.phases \in {1, 2} /\ Len(inbound) \in Nat /\ Len(outbound) \in Nat
    BY <1>0, PipelineOf
  <2>2. Len(inbound) + Len(outbound) = cfg.phases
    BY <1>0, <1>2, <2>1 DEF Chained
  <2>3. Len(inbound') + Len(outbound') = cfg'.phases - 1
    <3> DEFINE x == Len(inbound)
               y == Len(outbound)
               z == Len(inbound')
    <3>1. z = x - 1 /\ x \in Nat /\ y \in Nat /\ x + y = cfg.phases
      BY <1>1, <2>1, <2>2 DEF Back
    <3> HIDE DEF x, y, z
    <3>2. z + y = cfg.phases - 1
      BY <3>1
    <3> QED
      BY <1>2, <3>2 DEF y, z
  <2>4. \A k \in DOMAIN inbound' : DOMAIN inbound'[k].res = DOMAIN inbound'[k].rows
    BY <1>0, <1>1 DEF Chained, Back
  <2> QED
    BY <1>0, <1>2, <2>3, <2>4 DEF Chained
<1> QED
  BY <1>6, <1>11, <1>12 DEF Frame

\* RowOf finds the rows of the batch that comes back.
LEMMA InOf ==
    ASSUME TurboEngineAssumption, Frame, Alive, pc = "collect", NEW r \in Reqs
    PROVE  /\ Names(Pipeline[1], r) <=> r \in Present /\ In(Pipeline[1], r)
           /\ r \in Present /\ In(Pipeline[1], r) => Pipeline[1].rows[RowOf(Place(slots, r))].req = r
<1> DEFINE b == Pipeline[1]
           i == Place(slots, r)
<1>0. Places /\ r # NoReq
  BY SetupFacts DEF Frame
<1>1. /\ \A j, k \in DOMAIN slots : RowOf(j) = RowOf(k) => j = k
      /\ \A k \in DOMAIN b.rows : \E j \in DOMAIN slots : RowOf(j) = k /\ slots[j] = b.rows[k].req
  BY DEF Alive, InSlots
<1>2. r \in Present => i \in DOMAIN slots /\ slots[i] = r
  BY PlaceOf DEF Present
<1> HIDE DEF i, b
<1>3. ASSUME r \in Present, RowOf(i) \in DOMAIN b.rows PROVE b.rows[RowOf(i)].req = r
  BY <1>1, <1>2, <1>3
<1>4. ASSUME Names(b, r) PROVE r \in Present /\ RowOf(i) \in DOMAIN b.rows
  <2>1. PICK k \in DOMAIN b.rows : b.rows[k].req = r
    BY <1>4 DEF Names
  <2>2. PICK j \in DOMAIN slots : RowOf(j) = k /\ slots[j] = r
    BY <1>1, <2>1
  <2>3. r \in Present
    BY <1>0, <2>2 DEF Present, Range
  <2>4. i = j
    BY <1>0, <1>2, <2>2, <2>3 DEF Places, Once
  <2> QED
    BY <2>1, <2>2, <2>3, <2>4
<1> QED
  BY <1>3, <1>4 DEF In, Names, b, i

LEMMA CollectAlive ==
    ASSUME TurboEngineAssumption, Frame, Alive, Collect
    PROVE  Alive'
<1> DEFINE b == Head(inbound)
<1>0. Shapes /\ Places /\ Chained
  BY DEF Frame
<1>1. Back(b) /\ b = Pipeline[1]
  BY CollectFacts DEF Back
<1>2. pc = "collect" /\ pc' = "pop" /\ UNCHANGED <<cfg, nactive, outbound>> /\ inbound' = Tail(inbound) /\ inbound # <<>>
  BY CollectDef
<1>3. /\ cfg.phases \in {1, 2} /\ Len(Pipeline) = cfg.phases /\ Pipeline \in Seq(Batches)
      /\ inbound \in Seq(Batches) /\ outbound \in Seq(Batches)
  BY <1>0, <1>2, PipelineOf
<1>4. Pipeline' = Tail(Pipeline) /\ Pipeline # <<>>
  <2>1. Tail(inbound \o outbound) = Tail(inbound) \o outbound
    BY <1>2, <1>3
  <2>2. Pipeline' = Tail(inbound) \o outbound
    BY <1>2 DEF Pipeline
  <2> QED
    BY <1>2, <1>3, <2>1, <2>2 DEF Pipeline
<1>5. /\ Len(Tail(Pipeline)) = cfg.phases - 1 /\ Tail(Pipeline) \in Seq(Batches)
      /\ \A k \in DOMAIN Tail(Pipeline) : k + 1 \in DOMAIN Pipeline /\ Tail(Pipeline)[k] = Pipeline[k + 1]
      /\ \A k \in DOMAIN Pipeline : k # 1 => k - 1 \in DOMAIN Tail(Pipeline)
  BY <1>3, <1>4, TailOf
<1>6. \A k, r : In1(k, r)' = IF k \in DOMAIN Tail(Pipeline) /\ Names(Tail(Pipeline)[k], r) THEN 1 ELSE 0
  BY <1>4 DEF In1, Names
<1>7. \A r \in Reqs : In1(1, r)' = In1(2, r) /\ In1(2, r)' = 0
  <2> TAKE r \in Reqs
  <2>1. 2 \notin DOMAIN Tail(Pipeline)
    BY <1>3, <1>5
  <2>2. 1 \in DOMAIN Tail(Pipeline) <=> 2 \in DOMAIN Pipeline
    BY <1>3, <1>5
  <2>3. 1 \in DOMAIN Tail(Pipeline) => Tail(Pipeline)[1] = Pipeline[2]
    BY <1>5
  <2> QED
    BY <1>6, <2>1, <2>2, <2>3 DEF In1
<1> HIDE DEF b
<1>8. 1 \in DOMAIN Pipeline
  BY <1>3
<1>9. ASSUME NEW r \in Reqs PROVE Collected(b)[r].inflight = In1(2, r)
  <2>1. seq[r].inflight = In1(1, r) + In1(2, r) /\ In1(1, r) \in {0, 1} /\ In1(2, r) \in {0, 1}
    BY DEF Alive, Counted, In1
  <2>2. Names(b, r) <=> r \in Present /\ In(b, r)
    BY <1>1, <1>2, InOf
  <2>3. In1(1, r) = IF Names(b, r) THEN 1 ELSE 0
    BY <1>1, <1>8 DEF In1
  <2>4. CASE r \in Present
    <3>1. Collected(b)[r].inflight = seq[r].inflight - (IF In(b, r) THEN 1 ELSE 0)
      BY <1>1, <2>4 DEF Back, AfterFacts
    <3> QED
      BY <2>1, <2>2, <2>3, <2>4, <3>1
  <2>5. CASE r \notin Present
    <3>1. Collected(b)[r] = seq[r]
      BY <1>1, <2>5 DEF Back
    <3> QED
      BY <2>1, <2>2, <2>3, <2>5, <3>1
  <2> QED
    BY <2>4, <2>5
<1> DEFINE gone == Gone(slots, Collected(b))
<1>10. /\ DOMAIN slots' = DOMAIN slots
       /\ \A i \in DOMAIN slots : slots'[i] = IF slots[i] \in gone THEN NoReq ELSE slots[i]
       /\ \A r \in Reqs : seq'[r] = IF r \in gone THEN NoSeq ELSE Collected(b)[r]
  BY <1>1 DEF Back, Retired
<1>11. \A r \in gone : r \in Reqs /\ Collected(b)[r].inflight = 0
  BY DEF Gone, Over
<1> HIDE DEF gone
<1>12. Counted'
  <2> SUFFICES ASSUME NEW r \in Reqs PROVE seq'[r].inflight = In1(1, r)' + In1(2, r)'
    BY DEF Counted
  <2>1. NoSeq.inflight = 0
    BY DEF NoSeq
  <2>2. seq'[r].inflight = In1(2, r)
    BY <1>9, <1>10, <1>11, <2>1
  <2>3. In1(2, r) \in {0, 1}
    BY DEF In1
  <2> QED
    BY <1>7, <2>2, <2>3
<1>13. ASSUME Pipeline' # <<>>
       PROVE  Newest' = Newest /\ cfg.phases = 2 /\ Newest = Pipeline[2] /\ 2 \in DOMAIN Pipeline
  <2>1. cfg.phases = 2
    BY <1>3, <1>4, <1>5, <1>13
  <2>2. Newest' = Pipeline'[Len(Pipeline')]
    BY DEF Newest
  <2>3. Newest' = Tail(Pipeline)[1]
    BY <1>4, <1>5, <2>1, <2>2
  <2>4. Tail(Pipeline)[1] = Pipeline[2] /\ 2 \in DOMAIN Pipeline
    BY <1>5, <1>3, <2>1
  <2> QED
    BY <1>3, <2>1, <2>3, <2>4 DEF Newest
<1>14. ASSUME Pipeline' # <<>>, NEW i \in DOMAIN Newest.rows
       PROVE  i \in DOMAIN slots' /\ slots'[i] = Newest.rows[i].req
  <2>1. i \in DOMAIN slots /\ slots[i] = Newest.rows[i].req
    BY <1>4, <1>14 DEF Alive, InSlots
  <2>2. slots[i] \notin gone
    <3> SUFFICES ASSUME slots[i] \in gone PROVE FALSE
      OBVIOUS
    <3>1. In1(2, slots[i]) = 0
      BY <1>9, <1>11
    <3>2. Names(Newest, slots[i])
      BY <1>14, <2>1 DEF Names
    <3> QED
      BY <1>13, <1>14, <3>1, <3>2 DEF In1
  <2> QED
    BY <1>10, <2>1, <2>2
<1>15. Pipeline' # <<>> => Len(Newest'.rows) = nactive'
  <2>1. Len(Newest.rows) = nactive
    BY <1>4 DEF Alive, InSlots
  <2> QED
    BY <1>2, <1>13, <2>1
<1>16. InSlots'
  BY <1>2, <1>13, <1>14, <1>15 DEF InSlots
<1> QED
  BY <1>12, <1>16 DEF Alive

LEMMA InitAlive ==
    ASSUME TurboEngineAssumption, Init
    PROVE  Frame /\ Alive
<1>1. cfg \in Setups /\ IsSetup(cfg) /\ NoReq \notin Reqs
  BY DEF Init, TurboEngineAssumption
<1>2. cfg.phases \in {1, 2}
  BY <1>1 DEF IsSetup
<1>3. NoBatch \in Batches /\ NoBatch.rows = <<>> /\ NoBatch.res = <<>>
  BY DEF NoBatch, Batches
<1>4. inbound \in Seq(Batches) /\ Len(inbound) = cfg.phases - 1 /\ \A k \in DOMAIN inbound : inbound[k] = NoBatch
  <2> DEFINE n == cfg.phases - 1
  <2>1. n \in Nat /\ inbound = [i \in 1..n |-> NoBatch]
    BY <1>2 DEF Init
  <2> HIDE DEF n
  <2>2. inbound \in [1..n -> Batches]
    BY <1>3, <2>1
  <2>3. inbound \in Seq(Batches) /\ Len(inbound) = n /\ DOMAIN inbound = 1..n
    BY <2>1, <2>2, SeqFrom
  <2> QED
    BY <2>1, <2>3 DEF n
<1>5. NoSeq \in SeqRecords /\ Ok \in Statuses
  BY DEF NoSeq, SeqRecords, Statuses
<1>6. Shapes
  BY <1>1, <1>4, <1>5 DEF Init, Shapes
<1>7. Present = {} /\ Range(queue) = {} /\ Range(popped) = {}
  BY DEF Init, Present, Range
<1>8. Places
  BY <1>7 DEF Init, Places, Once
<1>9. Chained
  <2>1. outbound = <<>> /\ dev = <<>> /\ nactive = 0 /\ pc = "pop"
    BY DEF Init
  <2> QED
    BY <1>2, <1>3, <1>4, <2>1 DEF Chained
<1>10. Pipeline = inbound
  <2>1. outbound = <<>>
    BY DEF Init
  <2> QED
    BY <1>4, <2>1 DEF Pipeline
<1>11. \A k \in DOMAIN Pipeline : Pipeline[k].rows = <<>>
  BY <1>3, <1>4, <1>10
<1>12. InSlots
  <2>1. Pipeline # <<>> => Newest.rows = <<>>
    <3>1. Pipeline # <<>> => Len(Pipeline) \in DOMAIN Pipeline
      BY <1>4, <1>10
    <3> QED
      BY <1>11, <3>1 DEF Newest
  <2>2. nactive = 0 /\ pc # "collect"
    BY DEF Init
  <2> QED
    BY <2>1, <2>2 DEF InSlots
<1>13. Counted
  <2>1. \A r \in Reqs : In1(1, r) = 0 /\ In1(2, r) = 0
    BY <1>11 DEF In1, Names
  <2>2. \A r \in Reqs : seq[r].inflight = 0
    BY DEF Init, NoSeq
  <2> QED
    BY <2>1, <2>2 DEF Counted
<1> QED
  BY <1>6, <1>8, <1>9, <1>12, <1>13 DEF Frame, Alive

---------------------------------------------------------------------------
(* The frame and the rows, in every behaviour. *)

LEMMA FrameStep ==
    ASSUME TurboEngineAssumption, Frame, Alive, [Next]_vars
    PROVE  Frame' /\ Alive'
<1>1. CASE UNCHANGED vars
  <2>1. UNCHANGED <<cfg, client, prev, told, state, flag, queue, signals, pc, popped, sigs, uids, slots, perm, nactive, nswapout,
                    seq, held, inbound, outbound, dev, kv, out>>
    BY <1>1 DEF vars, clientVars, gateVars, loopVars, stateVars, pipeVars, deviceVars
  <2>2. Outside
    BY <2>1 DEF Outside, StillInside
  <2>3. Frame'
    BY <2>1, <2>2, OutsideFrame DEF Frame, Shapes
  <2> QED
    BY <2>2, <2>3, OutsideAlive
<1>2. CASE \E r \in Reqs : Release(r) \/ Consume(r) \/ Leave(r) \/ AsyncCancel(r)
  BY <1>2, ReleaseOutside, ConsumeOutside, LeaveOutside, AsyncCancelOutside, OutsideAlive
<1>3. CASE Signal
  BY <1>3, SignalOutside, OutsideAlive
<1>4. CASE \E r \in Reqs : Submit(r)
  BY <1>4, SubmitFrame, StillAliveOf
<1>5. CASE Pop
  BY <1>5, PopFrame, StillAliveOf
<1>6. CASE Admit
  BY <1>6, AdmitFrame, AdmitAlive
<1>7. CASE SubmitBatch
  BY <1>7, SubmitBatchFrame, SubmitBatchAlive
<1>8. CASE \E stop \in SUBSET Reqs : RunBatch(stop)
  BY <1>8, RunBatchFrame, RunBatchAlive
<1>9. CASE Collect
  BY <1>9, CollectFrame, CollectAlive
<1> QED
  BY <1>1, <1>2, <1>3, <1>4, <1>5, <1>6, <1>7, <1>8, <1>9 DEF Next, System, Users, Engine, Executor

\* Every reachable state has its shape, has each request at one place at a
\* time, and keeps as many batches on their way as the engine has phases.
THEOREM FrameHolds == Spec => [](Frame /\ Alive)
<1> USE TurboEngineAssumption
<1>1. Init => Frame /\ Alive
  BY InitAlive
<1>2. (Frame /\ Alive) /\ [Next]_vars => (Frame /\ Alive)'
  BY FrameStep
<1> QED
  BY <1>1, <1>2, PTL DEF Spec

LEMMA NamingCounted ==
    ASSUME TurboEngineAssumption, Frame, Alive
    PROVE  RowsAreLive
<1> SUFFICES ASSUME NEW r \in Reqs
             PROVE  LET naming == {i \in DOMAIN Pipeline : \E row \in Range(Pipeline[i].rows) : row.req = r}
                    IN /\ seq[r].inflight = Cardinality(naming)
                       /\ naming # {} => r \in Present
  BY DEF RowsAreLive
<1> DEFINE naming == {i \in DOMAIN Pipeline : \E row \in Range(Pipeline[i].rows) : row.req = r}
<1>1. naming = {i \in DOMAIN Pipeline : Names(Pipeline[i], r)}
  BY DEF Names, Range
<1>2. DOMAIN Pipeline \subseteq 1..2
  BY PipelineOf DEF Frame
<1>3. seq[r].inflight = In1(1, r) + In1(2, r)
  BY DEF Alive, Counted
<1>4. In1(1, r) = (IF 1 \in naming THEN 1 ELSE 0) /\ In1(2, r) = (IF 2 \in naming THEN 1 ELSE 0) /\ naming \subseteq {1, 2}
  BY <1>1, <1>2 DEF In1
<1> HIDE DEF naming
<1>5. Cardinality({}) = 0 /\ Cardinality({1}) = 1 /\ Cardinality({2}) = 1 /\ Cardinality({1, 2}) = 2
  <2>1. Cardinality({}) = 0 /\ Cardinality({1}) = 1 /\ Cardinality({2}) = 1 /\ IsFiniteSet({1})
    BY FS_EmptySet, FS_Singleton
  <2>2. Cardinality({1} \cup {2}) = 2
    BY <2>1, FS_AddElement
  <2>3. {1} \cup {2} = {1, 2}
    OBVIOUS
  <2> QED
    BY <2>1, <2>2, <2>3
<1>6. seq[r].inflight = Cardinality(naming)
  <2>1. naming = {} \/ naming = {1} \/ naming = {2} \/ naming = {1, 2}
    BY <1>4
  <2>2. seq[r].inflight = (IF 1 \in naming THEN 1 ELSE 0) + (IF 2 \in naming THEN 1 ELSE 0)
    BY <1>3, <1>4
  <2>3. CASE naming = {}
    BY <1>5, <2>2, <2>3
  <2>4. CASE naming = {1}
    BY <1>5, <2>2, <2>4
  <2>5. CASE naming = {2}
    BY <1>5, <2>2, <2>5
  <2>6. CASE naming = {1, 2}
    BY <1>5, <2>2, <2>6
  <2> QED
    BY <2>1, <2>3, <2>4, <2>5, <2>6
<1>7. naming # {} => r \in Present
  <2> SUFFICES ASSUME naming # {}, r \notin Present PROVE FALSE
    OBVIOUS
  <2>1. seq[r].inflight = 0
    BY DEF Frame, Places, NoSeq
  <2>2. 1 \in naming \/ 2 \in naming
    BY <1>4
  <2> QED
    BY <1>3, <1>4, <2>1, <2>2
<1> QED
  BY <1>6, <1>7 DEF naming

\* No sequence is released while a batch that names it is on its way: what
\* Retire waits for, seq.inflight = 0, is that no such batch is left.
THEOREM RowsLive == Spec => []RowsAreLive
<1> USE TurboEngineAssumption
<1>1. Frame /\ Alive => RowsAreLive
  BY NamingCounted
<1> QED
  BY <1>1, FrameHolds, PTL

---------------------------------------------------------------------------
(* What the readers are told.  A request that may still be told something *)
(* was told no answer; every action that tells it one closes it.          *)

LEMMA JoinOf ==
    ASSUME NEW S, NEW p \in Seq(S), NEW a \in Seq(S)
    PROVE  /\ p \o a \in Seq(S) /\ Len(p \o a) = Len(p) + Len(a)
           /\ \A i \in DOMAIN (p \o a) : \/ i \in DOMAIN p /\ (p \o a)[i] = p[i]
                                         \/ \E j \in DOMAIN a : i = Len(p) + j /\ (p \o a)[i] = a[j]
  OBVIOUS

LEMMA CalmAppend ==
    ASSUME NEW p \in Seq(Signals), NEW a \in Seq(Signals), NEW r, Calm(p, r),
           \A i \in DOMAIN a : a[i].req = r => a[i].st \notin Answered
    PROVE  Calm(p \o a, r)
<1> DEFINE c == p \o a
<1>1. \A i \in DOMAIN c : (i \in DOMAIN p /\ c[i] = p[i]) \/ \E j \in DOMAIN a : i = Len(p) + j /\ c[i] = a[j]
  BY JoinOf
<1> HIDE DEF c
<1>2. Calm(c, r)
  BY <1>1 DEF Calm
<1> QED
  BY <1>2 DEF c

\* Signals to different requests that were told no answer yet.
LEMMA SpokenAppend ==
    ASSUME NEW p \in Seq(Signals), NEW q \in Seq(Signals), NEW a \in Seq(Signals), Spoken(p, q),
           \A i \in DOMAIN a : Calm(p, a[i].req) /\ Mute(q, a[i].req),
           \A i, j \in DOMAIN a : a[i].req = a[j].req => i = j
    PROVE  Spoken(p \o a, q)
<1> DEFINE c == p \o a
           n == Len(p)
<1>1. /\ \A i \in DOMAIN c : (i \in DOMAIN p /\ c[i] = p[i]) \/ \E j \in DOMAIN a : i = n + j /\ c[i] = a[j]
      /\ DOMAIN c = 1..Len(c) /\ Len(c) \in Nat /\ n \in Nat /\ DOMAIN p = 1..n /\ DOMAIN a = 1..Len(a) /\ Len(a) \in Nat
  <2>1. /\ c \in Seq(Signals)
        /\ \A i \in DOMAIN c : (i \in DOMAIN p /\ c[i] = p[i]) \/ \E j \in DOMAIN a : i = n + j /\ c[i] = a[j]
    BY JoinOf
  <2> HIDE DEF c
  <2> QED
    BY <2>1, ElementOf
<1> HIDE DEF c, n
<1>2. ASSUME NEW r \in Reqs
      PROVE  /\ told[r] \in Answered => state[r] = {} /\ Mute(c, r) /\ Mute(q, r)
             /\ \A s \in state[r] : s.st \in Answered => Mute(c, r) /\ Mute(q, r)
             /\ \A s, t \in state[r] : s = t
  <2>1. (told[r] \in Answered \/ \E s \in state[r] : s.st \in Answered) => Mute(a, r)
    BY DEF Calm, Mute
  <2>2. Mute(p, r) /\ Mute(a, r) => Mute(c, r)
    BY <1>1 DEF Mute
  <2> QED
    BY <2>1, <2>2 DEF Spoken
<1>3. \A i, j \in DOMAIN c : i < j /\ c[i].req = c[j].req => c[i].st \notin Answered
  <2> TAKE i, j \in DOMAIN c
  <2> SUFFICES ASSUME i < j, c[i].req = c[j].req PROVE c[i].st \notin Answered
    OBVIOUS
  <2>0. i \in Int /\ j \in Int
    BY <1>1
  <2>1. CASE i \in DOMAIN p /\ c[i] = p[i] /\ j \in DOMAIN p /\ c[j] = p[j]
    BY <2>1 DEF Spoken
  <2>2. CASE i \in DOMAIN p /\ c[i] = p[i] /\ \E e \in DOMAIN a : j = n + e /\ c[j] = a[e]
    BY <2>2 DEF Calm
  <2>3. CASE (\E d \in DOMAIN a : i = n + d /\ c[i] = a[d]) /\ \E e \in DOMAIN a : j = n + e /\ c[j] = a[e]
    <3>1. PICK d \in DOMAIN a, e \in DOMAIN a : i = n + d /\ c[i] = a[d] /\ j = n + e /\ c[j] = a[e]
      BY <2>3
    <3>2. d = e
      BY <3>1
    <3> QED
      BY <1>1, <2>0, <3>1, <3>2
  <2>4. CASE (\E d \in DOMAIN a : i = n + d /\ c[i] = a[d]) /\ j \in DOMAIN p
    BY <1>1, <2>0, <2>4
  <2> QED
    BY <1>1, <2>1, <2>2, <2>3, <2>4
<1>4. \A i \in DOMAIN c, j \in DOMAIN q : c[i].req = q[j].req => c[i].st \notin Answered
  BY <1>1 DEF Spoken, Mute
<1>5. Len(q) <= 1
  BY DEF Spoken
<1>6. Spoken(c, q)
  BY <1>2, <1>3, <1>4, <1>5 DEF Spoken
<1> QED
  BY <1>6 DEF c

\* The engine's own signal goes to the gateway.
LEMMA SpokenMove ==
    ASSUME NEW p \in Seq(Signals), NEW q \in Seq(Signals), Spoken(p, q)
    PROVE  Spoken(p \o q, <<>>)
<1> DEFINE c == p \o q
           n == Len(p)
<1>1. /\ \A i \in DOMAIN c : (i \in DOMAIN p /\ c[i] = p[i]) \/ \E j \in DOMAIN q : i = n + j /\ c[i] = q[j]
      /\ DOMAIN c = 1..Len(c) /\ Len(c) \in Nat /\ n \in Nat /\ DOMAIN p = 1..n /\ DOMAIN q = 1..Len(q) /\ Len(q) \in Nat
      /\ Len(q) <= 1
  <2>1. /\ c \in Seq(Signals)
        /\ \A i \in DOMAIN c : (i \in DOMAIN p /\ c[i] = p[i]) \/ \E j \in DOMAIN q : i = n + j /\ c[i] = q[j]
    BY JoinOf
  <2>3. Len(q) <= 1
    BY DEF Spoken
  <2> HIDE DEF c
  <2> QED
    BY <2>1, <2>3, ElementOf
<1> HIDE DEF c, n
<1>2. \A r \in Reqs : Mute(p, r) /\ Mute(q, r) => Mute(c, r)
  BY <1>1 DEF Mute
<1>3. \A i, j \in DOMAIN c : i < j /\ c[i].req = c[j].req => c[i].st \notin Answered
  <2> TAKE i, j \in DOMAIN c
  <2> SUFFICES ASSUME i < j, c[i].req = c[j].req PROVE c[i].st \notin Answered
    OBVIOUS
  <2>0. i \in Int /\ j \in Int
    BY <1>1
  <2>1. CASE i \in DOMAIN p /\ c[i] = p[i] /\ j \in DOMAIN p /\ c[j] = p[j]
    BY <2>1 DEF Spoken
  <2>2. CASE i \in DOMAIN p /\ c[i] = p[i] /\ \E e \in DOMAIN q : j = n + e /\ c[j] = q[e]
    BY <2>2 DEF Spoken
  <2>3. CASE (\E d \in DOMAIN q : i = n + d /\ c[i] = q[d]) /\ \E e \in DOMAIN q : j = n + e /\ c[j] = q[e]
    BY <1>1, <2>0, <2>3
  <2>4. CASE (\E d \in DOMAIN q : i = n + d /\ c[i] = q[d]) /\ j \in DOMAIN p
    BY <1>1, <2>0, <2>4
  <2> QED
    BY <1>1, <2>1, <2>2, <2>3, <2>4
<1>4. \A r \in Reqs : Mute(<<>>, r)
  BY DEF Mute
<1>5. Spoken(c, <<>>)
  BY <1>2, <1>3, <1>4 DEF Spoken
<1> QED
  BY <1>5 DEF c

\* A step that tells nobody anything and opens nothing.
LEMMA Silent ==
    ASSUME Speaking, UNCHANGED <<told, state, signals, sigs>>, Pending', \A r \in Reqs : Open(r)' => Open(r)
    PROVE  Speaking'
<1>1. Spoken(signals, sigs)'
  BY DEF Speaking, Spoken, Mute
<1>2. \A r \in Reqs : Open(r)' => Calm(signals, r)' /\ Mute(sigs, r)'
  BY DEF Speaking, Calm, Mute
<1> QED
  BY <1>1, <1>2 DEF Speaking

---------------------------------------------------------------------------
(* Speaking, step by step: outside the engine thread. *)

LEMMA SubmitSpeaks ==
    ASSUME TurboEngineAssumption, Frame, Speaking, NEW r \in Reqs, Submit(r)
    PROVE  Speaking'
<1>1. /\ client[r] = "idle" /\ client' = [client EXCEPT ![r] = "reading"] /\ queue' = Append(queue, r)
      /\ UNCHANGED <<told, state, signals, sigs, flag, popped, slots, seq, pc>>
  BY DEF Submit, clientVars, gateVars, loopVars, stateVars
<1>2. queue \in Seq(Reqs) /\ client \in [Reqs -> {"idle", "reading", "draining", "done", "gone"}]
  BY DEF Frame, Shapes
<1>3. Range(queue') = Range(queue) \cup {r}
  <2> DEFINE q == queue'
  <2>1. /\ DOMAIN q = DOMAIN queue \cup {Len(queue) + 1} /\ (\A i \in DOMAIN queue : q[i] = queue[i]) /\ q[Len(queue) + 1] = r
    BY <1>1, <1>2, AppendOf
  <2> HIDE DEF q
  <2>2. Range(q) = Range(queue) \cup {r}
    BY <2>1 DEF Range
  <2> QED
    BY <2>2 DEF q
<1>4. Present' = Present
  BY <1>1 DEF Present, Range
<1>5. Range(popped)' = Range(popped) /\ Range(queue)' = Range(queue')
  BY <1>1 DEF Range
<1>6. \A p \in Reqs : Open(p)' => Open(p)
  BY <1>1, <1>2, <1>3, <1>4, <1>5 DEF Open
<1>7. Pending'
  <2>1. \A i \in DOMAIN sigs : sigs[i].req \in Present /\ seq[sigs[i].req].retiring
    BY DEF Speaking, Pending
  <2>2. \A p \in Reqs : flag[p] = 0 /\ client'[p] # "idle" => p \in Range(queue')
    <3> TAKE p \in Reqs
    <3>1. p # r => client'[p] = client[p]
      BY <1>1, <1>2
    <3> QED
      BY <1>3, <3>1 DEF Speaking, Pending
  <2>3. pc' # "collect" => sigs' = <<>>
    BY <1>1 DEF Speaking, Pending
  <2> QED
    BY <1>1, <1>4, <1>5, <2>1, <2>2, <2>3 DEF Pending
<1> QED
  BY <1>1, <1>6, <1>7, Silent

LEMMA ReleaseSpeaks ==
    ASSUME TurboEngineAssumption, Frame, Speaking, NEW r \in Reqs, Release(r)
    PROVE  Speaking'
<1>1. UNCHANGED <<told, state, signals, sigs, flag, queue, popped, slots, seq, pc, client>>
  BY DEF Release, clientVars, gateVars, loopVars, stateVars
<1>2. Present' = Present /\ Range(queue)' = Range(queue) /\ Range(popped)' = Range(popped)
  BY <1>1 DEF Present, Range
<1>3. \A p \in Reqs : Open(p)' => Open(p)
  BY <1>1, <1>2 DEF Open
<1>4. Pending'
  BY <1>1, <1>2 DEF Speaking, Pending
<1> QED
  BY <1>1, <1>3, <1>4, Silent

\* What the reader takes was its last word, or not an answer.
LEMMA ConsumeSpeaks ==
    ASSUME TurboEngineAssumption, Frame, Speaking, NEW r \in Reqs, Consume(r)
    PROVE  Speaking'
<1>1. /\ client[r] \in {"reading", "draining"} /\ state' = [state EXCEPT ![r] = {}]
      /\ \E s \in state[r] : /\ told' = [told EXCEPT ![r] = s.st]
                             /\ client' = client \/ client' = [client EXCEPT ![r] = IF @ = "reading" THEN "done" ELSE "gone"]
      /\ UNCHANGED <<signals, sigs, flag, queue, popped, slots, seq, pc>>
  BY DEF Consume, clientVars, gateVars, loopVars, stateVars
<1>2. PICK s \in state[r] : /\ told' = [told EXCEPT ![r] = s.st]
                            /\ client' = client \/ client' = [client EXCEPT ![r] = IF @ = "reading" THEN "done" ELSE "gone"]
  BY <1>1
<1>3. /\ client \in [Reqs -> {"idle", "reading", "draining", "done", "gone"}]
      /\ told \in [Reqs -> Statuses] /\ state \in [Reqs -> SUBSET States]
  BY DEF Frame, Shapes
<1>4. Present' = Present /\ Range(queue)' = Range(queue) /\ Range(popped)' = Range(popped)
  BY <1>1 DEF Present, Range
<1>5. \A p \in Reqs : client'[p] = "idle" <=> client[p] = "idle"
  BY <1>1, <1>2, <1>3
<1>6. \A p \in Reqs : Open(p)' => Open(p)
  BY <1>1, <1>4, <1>5 DEF Open
<1>7. Pending'
  BY <1>1, <1>4, <1>5 DEF Speaking, Pending
<1>8. \A p \in Reqs : /\ p # r => told'[p] = told[p] /\ state'[p] = state[p]
                      /\ p = r => told'[p] = s.st /\ state'[p] = {}
  BY <1>1, <1>2, <1>3
<1>9. Spoken(signals, sigs)'
  <2>1. \A p \in Reqs : /\ told'[p] \in Answered => state'[p] = {} /\ Mute(signals, p) /\ Mute(sigs, p)
                        /\ \A e \in state'[p] : e.st \in Answered => Mute(signals, p) /\ Mute(sigs, p)
                        /\ \A e, f \in state'[p] : e = f
    <3> TAKE p \in Reqs
    <3>1. CASE p = r
      BY <1>2, <1>8, <3>1 DEF Speaking, Spoken
    <3>2. CASE p # r
      BY <1>8, <3>2 DEF Speaking, Spoken
    <3> QED
      BY <3>1, <3>2
  <2>2. /\ \A i, j \in DOMAIN signals : i < j /\ signals[i].req = signals[j].req => signals[i].st \notin Answered
        /\ \A i \in DOMAIN signals, j \in DOMAIN sigs : signals[i].req = sigs[j].req => signals[i].st \notin Answered
        /\ Len(sigs) <= 1
    BY DEF Speaking, Spoken
  <2>3. \A p \in Reqs : Mute(signals, p)' = Mute(signals, p) /\ Mute(sigs, p)' = Mute(sigs, p)
    BY <1>1 DEF Mute
  <2> QED
    BY <1>1, <2>1, <2>2, <2>3 DEF Spoken
<1>10. \A p \in Reqs : Open(p)' => Calm(signals, p)' /\ Mute(sigs, p)'
  <2> SUFFICES ASSUME NEW p \in Reqs, Open(p)' PROVE Calm(signals, p)' /\ Mute(sigs, p)'
    OBVIOUS
  <2>1. Calm(signals, p) /\ Mute(sigs, p)
    BY <1>6 DEF Speaking
  <2>2. told'[p] \notin Answered /\ \A e \in state'[p] : e.st \notin Answered
    BY <1>2, <1>8, <2>1 DEF Calm
  <2> QED
    BY <1>1, <2>1, <2>2 DEF Calm, Mute
<1> QED
  BY <1>7, <1>9, <1>10 DEF Speaking

\* A cancelled request that nobody took is answered by the gateway, which
\* keeps the engine from taking it.
LEMMA CancelSpeaks ==
    ASSUME TurboEngineAssumption, Frame, Speaking, NEW r \in Reqs, Cancel(r), client[r] = "reading",
           \A p \in Reqs : client'[p] = "idle" <=> client[p] = "idle",
           UNCHANGED <<told, state, sigs, queue, popped, slots, seq, pc>>
    PROVE  Speaking'
<1>1. /\ flag' = [flag EXCEPT ![r] = -1] /\ flag \in [Reqs -> {-1, 0, 1}]
      /\ signals' = IF flag[r] = 0 THEN Append(signals, [req |-> r, st |-> Canceled, len |-> 0]) ELSE signals
  BY DEF Cancel, Frame, Shapes
<1>2. signals \in Seq(Signals) /\ sigs \in Seq(Signals) /\ signals' \in Seq(Signals)
  BY CancelTyped DEF Frame, Shapes
<1>3. Present' = Present /\ Range(queue)' = Range(queue) /\ Range(popped)' = Range(popped)
  BY DEF Present, Range
<1>4. \A p \in Reqs : /\ p # r => flag'[p] = flag[p]
                      /\ p = r => flag'[p] = -1
  BY <1>1
<1>5. \A p \in Reqs : Open(p)' => Open(p)
  BY <1>3, <1>4 DEF Open
<1>6. Pending'
  <2>1. \A p \in Reqs : flag'[p] = 0 => flag[p] = 0
    BY <1>4
  <2> QED
    BY <1>3, <2>1 DEF Speaking, Pending
<1>7. CASE flag[r] # 0
  <2>1. signals' = signals
    BY <1>1, <1>7
  <2> QED
    BY <1>5, <1>6, <2>1, Silent
<1>8. CASE flag[r] = 0
  <2>1. r \in Range(queue)
    BY <1>8 DEF Speaking, Pending
  <2>2. Calm(signals, r) /\ Mute(sigs, r)
    BY <1>8, <2>1 DEF Speaking, Open
  <2>3. ~Open(r)'
    <3>1. r \notin Range(popped) /\ r \notin Present /\ client[r] # "idle"
      BY <2>1 DEF Frame, Places
    <3> QED
      BY <1>3, <1>4, <3>1 DEF Open
  <2> DEFINE e == [req |-> r, st |-> Canceled, len |-> 0]
             p == signals'
  <2>4. e \in Signals /\ e.req = r
    BY DEF Signals, Statuses, Answered
  <2>5. p = Append(signals, e) /\ p \in Seq(Signals)
    BY <1>1, <1>2, <1>8
  <2> HIDE DEF e, p
  <2>6. p = signals \o <<e>> /\ <<e>> \in Seq(Signals) /\ \A i \in DOMAIN <<e>> : i = 1 /\ <<e>>[i] = e
    BY <1>2, <2>4, <2>5
  <2>7. Spoken(p, sigs)
    <3> DEFINE a == <<e>>
    <3>1. a \in Seq(Signals) /\ p = signals \o a /\ (\A i \in DOMAIN a : a[i].req = r) /\ \A i, j \in DOMAIN a : i = j
      BY <2>4, <2>6
    <3> HIDE DEF a
    <3>2. Spoken(signals, sigs)
      BY DEF Speaking
    <3>3. /\ \A i \in DOMAIN a : Calm(signals, a[i].req) /\ Mute(sigs, a[i].req)
          /\ \A i, j \in DOMAIN a : a[i].req = a[j].req => i = j
      BY <2>2, <3>1
    <3> QED
      BY <1>2, <3>1, <3>2, <3>3, SpokenAppend
  <2>8. \A q \in Reqs : q # r /\ Calm(signals, q) => Calm(p, q)
    <3> DEFINE a == <<e>>
    <3>1. a \in Seq(Signals) /\ p = signals \o a /\ (\A i \in DOMAIN a : a[i].req = r)
      BY <2>4, <2>6
    <3> HIDE DEF a
    <3> QED
      BY <1>2, <3>1, CalmAppend
  <2>9. Spoken(signals, sigs)'
    BY <2>7 DEF p, Spoken, Mute
  <2>10. \A q \in Reqs : Open(q)' => Calm(signals, q)' /\ Mute(sigs, q)'
    <3> SUFFICES ASSUME NEW q \in Reqs, Open(q)' PROVE Calm(signals, q)' /\ Mute(sigs, q)'
      OBVIOUS
    <3>1. q # r /\ Calm(signals, q) /\ Mute(sigs, q)
      BY <1>5, <2>3 DEF Speaking
    <3>2. Calm(p, q)
      BY <2>8, <3>1
    <3> QED
      BY <3>1, <3>2 DEF p, Calm, Mute
  <2> QED
    BY <1>6, <2>9, <2>10 DEF Speaking
<1> QED
  BY <1>7, <1>8

LEMMA LeaveSpeaks ==
    ASSUME TurboEngineAssumption, Frame, Speaking, NEW r \in Reqs, Leave(r) \/ AsyncCancel(r)
    PROVE  Speaking'
<1>1. /\ client[r] = "reading" /\ Cancel(r)
      /\ client' = client \/ client' = [client EXCEPT ![r] = "draining"]
      /\ UNCHANGED <<told, state, sigs, queue, popped, slots, seq, pc>>
  BY DEF Leave, AsyncCancel, clientVars, loopVars, stateVars
<1>2. \A p \in Reqs : client'[p] = "idle" <=> client[p] = "idle"
  <2>1. client \in [Reqs -> {"idle", "reading", "draining", "done", "gone"}]
    BY DEF Frame, Shapes
  <2> QED
    BY <1>1, <2>1
<1> QED
  BY <1>1, <1>2, CancelSpeaks

\* The oldest signal moves to where its reader finds it.
LEMMA SignalSpeaks ==
    ASSUME TurboEngineAssumption, Frame, Speaking, Signal
    PROVE  Speaking'
<1> DEFINE s == Head(signals)
           p == signals'
<1>1. /\ signals # <<>> /\ state' = [state EXCEPT ![s.req] = {[st |-> s.st, len |-> s.len]}] /\ p = Tail(signals)
      /\ UNCHANGED <<told, client, flag, queue, popped, slots, seq, pc, sigs>>
  BY DEF Signal, clientVars, loopVars, stateVars
<1>2. signals \in Seq(Signals) /\ sigs \in Seq(Signals) /\ state \in [Reqs -> SUBSET States] /\ told \in [Reqs -> Statuses]
  BY DEF Frame, Shapes
<1>3. /\ p \in Seq(Signals) /\ s = signals[1] /\ 1 \in DOMAIN signals
      /\ \A i \in DOMAIN p : i + 1 \in DOMAIN signals /\ p[i] = signals[i + 1]
      /\ DOMAIN p = 1..Len(p) /\ Len(p) \in Nat
  <2>1. /\ p \in Seq(Signals) /\ s = signals[1] /\ 1 \in DOMAIN signals
        /\ \A i \in DOMAIN p : i + 1 \in DOMAIN signals /\ p[i] = signals[i + 1]
    BY <1>1, <1>2, TailOf
  <2> HIDE DEF p
  <2> QED
    BY <2>1, ElementOf
<1> HIDE DEF s, p
<1>4. s \in Signals /\ s.req \in Reqs
  <2>1. signals[1] \in Signals
    BY <1>2, <1>3, ElementOf
  <2> QED
    BY <1>3, <2>1 DEF Signals
<1>5. \A q \in Reqs : /\ q # s.req => state'[q] = state[q]
                      /\ q = s.req => state'[q] = {[st |-> s.st, len |-> s.len]}
  BY <1>1, <1>2
<1>6. Present' = Present /\ Range(queue)' = Range(queue) /\ Range(popped)' = Range(popped)
  BY <1>1 DEF Present, Range
<1>7. \A q \in Reqs : Open(q)' => Open(q)
  BY <1>1, <1>6 DEF Open
<1>8. Pending'
  BY <1>1, <1>6 DEF Speaking, Pending
<1>9. \A i \in DOMAIN p : i + 1 \in DOMAIN signals /\ p[i] = signals[i + 1] /\ i \in Nat /\ 1 < i + 1
  BY <1>3
<1>10. Spoken(signals, sigs)'
  <2>1. \A q \in Reqs : /\ told[q] \in Answered => state'[q] = {} /\ Mute(p, q) /\ Mute(sigs, q)
                        /\ \A e \in state'[q] : e.st \in Answered => Mute(p, q) /\ Mute(sigs, q)
                        /\ \A e, f \in state'[q] : e = f
    <3> TAKE q \in Reqs
    <3>1. Mute(signals, q) => Mute(p, q) /\ q # s.req
      BY <1>3, <1>9 DEF Mute
    <3>2. CASE q # s.req
      BY <1>5, <3>1, <3>2 DEF Speaking, Spoken
    <3>3. CASE q = s.req
      <4>1. told[q] \notin Answered
        BY <3>1, <3>3 DEF Speaking, Spoken
      <4>2. s.st \in Answered => Mute(p, q)
        BY <1>3, <1>9, <3>3 DEF Speaking, Spoken, Mute
      <4>3. s.st \in Answered => Mute(sigs, q)
        BY <1>3, <3>3 DEF Speaking, Spoken, Mute
      <4>4. \A e \in state'[q] : e = [st |-> s.st, len |-> s.len] /\ e.st = s.st
        BY <1>5, <3>3
      <4> QED
        BY <4>1, <4>2, <4>3, <4>4
    <3> QED
      BY <3>2, <3>3
  <2>2. \A i, j \in DOMAIN p : i < j /\ p[i].req = p[j].req => p[i].st \notin Answered
    <3> TAKE i, j \in DOMAIN p
    <3>1. i < j => i + 1 < j + 1
      BY <1>9
    <3> QED
      BY <1>9, <3>1 DEF Speaking, Spoken
  <2>3. /\ \A i \in DOMAIN p, j \in DOMAIN sigs : p[i].req = sigs[j].req => p[i].st \notin Answered
        /\ Len(sigs) <= 1
    BY <1>9 DEF Speaking, Spoken
  <2>4. /\ \A q \in Reqs : /\ told'[q] \in Answered => state'[q] = {} /\ Mute(p, q) /\ Mute(sigs', q)
                           /\ \A e \in state'[q] : e.st \in Answered => Mute(p, q) /\ Mute(sigs', q)
                           /\ \A e, f \in state'[q] : e = f
        /\ \A i \in DOMAIN p, j \in DOMAIN sigs' : p[i].req = sigs'[j].req => p[i].st \notin Answered
        /\ Len(sigs') <= 1
    BY <1>1, <2>1, <2>3
  <2> QED
    BY <2>2, <2>4 DEF p, Spoken, Mute
<1>11. \A q \in Reqs : Open(q)' => Calm(signals, q)' /\ Mute(sigs, q)'
  <2> SUFFICES ASSUME NEW q \in Reqs, Open(q)' PROVE Calm(signals, q)' /\ Mute(sigs, q)'
    OBVIOUS
  <2>1. Calm(signals, q) /\ Mute(sigs, q)
    BY <1>7 DEF Speaking
  <2>2. \A e \in state'[q] : e.st \notin Answered
    BY <1>3, <1>5, <2>1 DEF Calm
  <2>3. \A i \in DOMAIN p : p[i].req = q => p[i].st \notin Answered
    BY <1>9, <2>1 DEF Calm
  <2> QED
    BY <1>1, <2>1, <2>2, <2>3 DEF p, Calm, Mute
<1> QED
  BY <1>8, <1>10, <1>11 DEF Speaking

---------------------------------------------------------------------------
(* Speaking, step by step: the engine thread and the executor. *)

\* What is taken from the queue was not cancelled, and what is cancelled and
\* passed over was answered by the gateway.
LEMMA PopSpeaks ==
    ASSUME TurboEngineAssumption, Frame, Speaking, Pop
    PROVE  Speaking'
<1> DEFINE K == {i \in Seen : flag[queue[i]] = 0}
           D == DOMAIN queue \ Seen
           a == Entries(queue, K)
           d == Entries(queue, D)
<1>1. /\ popped' = a /\ queue' = d /\ pc = "pop" /\ pc' = "admit"
      /\ flag' = [r \in Reqs |-> IF \E i \in Seen : queue[i] = r THEN 1 ELSE flag[r]]
      /\ UNCHANGED <<client, told, state, signals, sigs, slots, seq>>
  BY DEF Pop, clientVars, stateVars
<1>2. queue \in Seq(Reqs) /\ Once(queue) /\ NoReq \notin Reqs /\ K \in SUBSET DOMAIN queue /\ D \in SUBSET DOMAIN queue
  BY SetupFacts DEF Frame, Shapes, Places, Seen
<1>3. Range(a) = {queue[i] : i \in K} /\ Range(d) = {queue[i] : i \in D}
  <2> HIDE DEF K, D
  <2> QED
    BY <1>2, PartsOf
<1> HIDE DEF a, d
<1>4. Range(popped') = {queue[i] : i \in K} /\ Range(queue') = {queue[i] : i \in D} /\ Present' = Present
  <2>1. Range(popped') = Range(a) /\ Range(queue') = Range(d) /\ Present' = Present
    BY <1>1 DEF Range, Present
  <2> QED
    BY <1>3, <2>1
<1>5. \A r \in Reqs : flag'[r] = 0 => flag[r] = 0 /\ ~\E i \in Seen : queue[i] = r
  BY <1>1
<1>6. \A r \in Reqs : Open(r)' => Open(r)
  <2> SUFFICES ASSUME NEW r \in Reqs, Open(r)' PROVE Open(r)
    OBVIOUS
  <2>1. CASE client'[r] = "idle"
    BY <1>1, <2>1 DEF Open
  <2>5. CASE r \in Present' /\ ~seq'[r].retiring
    BY <1>1, <1>4, <2>5 DEF Open
  <2>2. CASE r \in Range(queue') /\ flag'[r] = 0
    <3>1. r \in Range(queue) /\ flag[r] = 0
      BY <1>4, <1>5, <2>2 DEF Range
    <3> QED
      BY <3>1 DEF Open
  <2>3. CASE r \in Range(popped')
    <3>1. r \in Range(queue) /\ flag[r] = 0
      BY <1>2, <1>4, <2>3 DEF Range
    <3> QED
      BY <3>1 DEF Open
  <2>4. \/ client'[r] = "idle"
        \/ r \in Range(queue') /\ flag'[r] = 0
        \/ r \in Range(popped')
        \/ r \in Present' /\ ~seq'[r].retiring
    BY Zenon DEF Open
  <2> QED
    BY <2>1, <2>2, <2>3, <2>4, <2>5, Zenon
<1>7. Pending'
  <2>1. \A r \in Reqs : flag'[r] = 0 /\ client'[r] # "idle" => r \in Range(queue')
    <3> SUFFICES ASSUME NEW r \in Reqs, flag'[r] = 0, client'[r] # "idle" PROVE r \in Range(queue')
      OBVIOUS
    <3>1. r \in Range(queue) /\ ~\E i \in Seen : queue[i] = r
      BY <1>1, <1>5 DEF Speaking, Pending
    <3>2. \E i \in D : queue[i] = r
      BY <3>1 DEF Range
    <3> QED
      BY <1>4, <3>2
  <2> QED
    BY <1>1, <1>4, <2>1 DEF Speaking, Pending
<1> QED
  BY <1>1, <1>6, <1>7, Silent

\* The refused were just taken, the doomed are cancelled once.
LEMMA AdmitSpeaks ==
    ASSUME TurboEngineAssumption, Frame, Speaking, Admit
    PROVE  Speaking'
<1> DEFINE p == signals'
           t == signals \o Refusals
<1>0. Shapes /\ Places
  BY DEF Frame
<1>1. /\ pc = "admit" /\ p = t \o Cancellations /\ popped' = <<>>
      /\ UNCHANGED <<client, told, state, flag, queue, sigs>>
  BY DEF Admit, Refusals, Cancellations, clientVars
<1>2. /\ signals \in Seq(Signals) /\ Refusals \in Seq(Signals) /\ Cancellations \in Seq(Signals)
      /\ DOMAIN Refusals = DOMAIN Refused /\ DOMAIN Cancellations = DOMAIN Doomed
      /\ \A i \in DOMAIN Refused : Refusals[i].req = Refused[i] /\ Refused[i] \in Range(Refused)
      /\ \A i \in DOMAIN Doomed : Cancellations[i].req = Doomed[i] /\ Doomed[i] \in Range(Doomed)
  <2>1. \A i \in DOMAIN Refused : Refused[i] \in Range(Refused)
    BY DEF Range
  <2>2. \A i \in DOMAIN Doomed : Doomed[i] \in Range(Doomed)
    BY DEF Range
  <2>3. signals \in Seq(Signals)
    BY <1>0 DEF Shapes
  <2>4. \A i \in DOMAIN Refused : Refusals[i].req = Refused[i]
    <3>1. \A i \in DOMAIN Refused : Refusals[i] = [req |-> Refused[i], st |-> Verdict(Refused[i]), len |-> 0]
      BY <1>0, AdmitAnswers
    <3> HIDE DEF Refusals
    <3> TAKE i \in DOMAIN Refused
    <3>2. Refusals[i] = [req |-> Refused[i], st |-> Verdict(Refused[i]), len |-> 0]
      BY <3>1
    <3> DEFINE x == Refused[i]
               v == Verdict(Refused[i])
               e == Refusals[i]
    <3>3. e = [req |-> x, st |-> v, len |-> 0]
      BY <3>2
    <3> HIDE DEF x, v, e
    <3>4. e.req = x
      BY <3>3
    <3> QED
      BY <3>4 DEF e, x
  <2>5. \A i \in DOMAIN Doomed : Cancellations[i].req = Doomed[i]
    <3>1. \A i \in DOMAIN Doomed : Cancellations[i] = [req |-> Doomed[i], st |-> Canceled, len |-> seq[Doomed[i]].len]
      BY <1>0, AdmitAnswers
    <3> HIDE DEF Cancellations
    <3> TAKE i \in DOMAIN Doomed
    <3> DEFINE x == Doomed[i]
               v == seq[Doomed[i]].len
               e == Cancellations[i]
    <3>3. e = [req |-> x, st |-> Canceled, len |-> v]
      BY <3>1
    <3> HIDE DEF x, v, e
    <3>4. e.req = x
      BY <3>3
    <3> QED
      BY <3>4 DEF e, x
  <2>6. /\ Refusals \in Seq(Signals) /\ Cancellations \in Seq(Signals)
        /\ DOMAIN Refusals = DOMAIN Refused /\ DOMAIN Cancellations = DOMAIN Doomed
    BY <1>0, AdmitAnswers
  <2> QED
    BY <2>1, <2>2, <2>3, <2>4, <2>5, <2>6
<1>3. /\ Refused \in Seq(Reqs) /\ Doomed \in Seq(Reqs) /\ Once(Refused) /\ Once(Doomed) /\ NoReq \notin Reqs
      /\ Range(Entering) = {r \in Range(popped) : Verdict(r) = Ok}
      /\ Range(Refused) = {r \in Range(popped) : Verdict(r) # Ok}
      /\ Range(Doomed) = {r \in Present : flag[r] = -1 /\ ~seq[r].retiring}
  BY <1>0, EntrantsOf, SetupFacts
<1>4. sigs = <<>> /\ sigs' = <<>>
  BY <1>1 DEF Speaking, Pending
<1>5. \A r \in Reqs : r \in Range(popped) => r \notin Present /\ r \notin Range(queue)
  BY <1>0 DEF Places
<1>6. /\ \A i, j \in DOMAIN Refusals : Refusals[i].req = Refusals[j].req => i = j
      /\ \A i, j \in DOMAIN Cancellations : Cancellations[i].req = Cancellations[j].req => i = j
  <2>1. /\ \A i \in DOMAIN Refused : Refused[i] \in Reqs
        /\ \A i \in DOMAIN Doomed : Doomed[i] \in Reqs
    BY <1>3, ElementOf
  <2> QED
    BY <1>2, <1>3, <2>1 DEF Once
<1>7. \A i \in DOMAIN Refusals : Refusals[i].req \in Range(Refused) /\ Refusals[i].req \in Reqs
  BY <1>2, <1>3, ElementOf
<1>8. \A i \in DOMAIN Cancellations : Cancellations[i].req \in Range(Doomed) /\ Cancellations[i].req \in Reqs
  BY <1>2, <1>3, ElementOf
<1>9. \A r : Mute(<<>>, r)
  BY DEF Mute
<1>10. \A r \in Reqs : r \in Range(popped) \/ (r \in Present /\ ~seq[r].retiring) => Calm(signals, r)
  BY DEF Speaking, Open
<1>11. Spoken(t, <<>>) /\ t \in Seq(Signals)
  <2>1. Spoken(signals, <<>>)
    BY <1>4 DEF Speaking
  <2>2. \A i \in DOMAIN Refusals : Calm(signals, Refusals[i].req) /\ Mute(<<>>, Refusals[i].req)
    BY <1>3, <1>7, <1>9, <1>10
  <2>3. <<>> \in Seq(Signals)
    OBVIOUS
  <2> QED
    BY <1>2, <1>6, <2>1, <2>2, <2>3, SpokenAppend, JoinOf
<1>12. \A r \in Reqs : Calm(signals, r) /\ r \notin Range(Refused) => Calm(t, r)
  BY <1>2, <1>7, CalmAppend
<1>13. \A i \in DOMAIN Cancellations : Calm(t, Cancellations[i].req)
  <2> TAKE i \in DOMAIN Cancellations
  <2> DEFINE r == Cancellations[i].req
  <2>1. r \in Reqs /\ r \in Present /\ ~seq[r].retiring
    BY <1>3, <1>8
  <2>2. r \notin Range(Refused)
    BY <1>3, <1>5, <2>1
  <2> QED
    BY <1>10, <1>12, <2>1, <2>2
<1> HIDE DEF t, p
<1>14. Spoken(p, <<>>) /\ p \in Seq(Signals)
  <2>1. <<>> \in Seq(Signals)
    OBVIOUS
  <2> QED
    BY <1>1, <1>2, <1>6, <1>9, <1>11, <1>13, <2>1, SpokenAppend, JoinOf
<1>15. \A r \in Reqs : Calm(t, r) /\ r \notin Range(Doomed) => Calm(p, r)
  BY <1>1, <1>2, <1>8, <1>11, CalmAppend
<1>16. Retired(Joined, AdmittedSeq, held)
  BY <1>0, AdmitRetires
<1>17. \A r \in Reqs : Open(r)' => Calm(p, r)
  <2> SUFFICES ASSUME NEW r \in Reqs, Open(r)' PROVE Calm(p, r)
    OBVIOUS
  <2>1. Range(popped)' = {} /\ Range(queue)' = Range(queue)
    BY <1>1 DEF Range
  <2>2. CASE client[r] = "idle" \/ (r \in Range(queue) /\ flag[r] = 0)
    <3>1. Calm(signals, r)
      BY <2>2 DEF Speaking, Open
    <3>2. r \notin Range(popped) /\ r \notin Present
      BY <1>0, <2>2 DEF Places
    <3> QED
      BY <1>3, <1>12, <1>15, <3>1, <3>2
  <2>3. CASE r \in Present' /\ ~seq'[r].retiring
    <3>1. (r \in Present \/ r \in Range(Entering)) /\ seq'[r] = Admitted(r)
      <4>1. r \in (Range(Joined) \ {NoReq}) \ Gone(Joined, AdmittedSeq) /\ seq'[r] = AdmittedSeq[r]
        BY <1>16, <2>3 DEF Retired
      <4> QED
        BY <1>0, <4>1, JoinedOf DEF AdmittedSeq
    <3>2. CASE r \in Range(Entering)
      <4>1. r \in Range(popped) /\ r \notin Range(Refused) /\ r \notin Range(Doomed)
        BY <1>3, <1>5, <3>2
      <4> QED
        BY <1>10, <1>12, <1>15, <4>1
    <3>3. CASE r \notin Range(Entering)
      <4>1. r \in Present /\ r \notin Range(Refused)
        BY <1>3, <1>5, <3>1, <3>3
      <4>2. r \notin Range(Doomed)
        <5> SUFFICES ASSUME r \in Range(Doomed) PROVE FALSE
          OBVIOUS
        <5>1. Admitted(r) = [seq[r] EXCEPT !.retiring = TRUE] /\ seq[r] \in SeqRecords
          BY <1>0, <3>3, AdmittedOf, SeqOfReq
        <5>2. Admitted(r).retiring
          BY <5>1 DEF SeqRecords
        <5> QED
          BY <2>3, <3>1, <5>2
      <4>3. ~seq[r].retiring
        BY <1>0, <2>3, <3>1, <3>3, <4>2, AdmittedOf
      <4> QED
        BY <1>10, <1>12, <1>15, <4>1, <4>2, <4>3
    <3> QED
      BY <3>1, <3>2, <3>3
  <2> QED
    BY <1>1, <2>1, <2>2, <2>3 DEF Open
<1>18. Pending'
  <2>1. Range(queue)' = Range(queue)
    BY <1>1 DEF Range
  <2> QED
    BY <1>1, <1>4, <2>1 DEF Speaking, Pending
<1>19. Spoken(signals, sigs)'
  BY <1>1, <1>4, <1>14 DEF p, Spoken, Mute
<1>20. \A r \in Reqs : Open(r)' => Calm(signals, r)' /\ Mute(sigs, r)'
  BY <1>1, <1>4, <1>17 DEF p, Calm, Mute
<1> QED
  BY <1>18, <1>19, <1>20 DEF Speaking

\* A request is given up only when the batch is empty.
LEMMA SubmitBatchSpeaks ==
    ASSUME TurboEngineAssumption, Frame, Speaking, SubmitBatch
    PROVE  Speaking'
<1>0. Shapes /\ Places
  BY DEF Frame
<1>1. /\ pc = "submit" /\ pc' = "collect"
      /\ UNCHANGED <<client, told, state, flag, queue, signals, popped>>
  BY DEF SubmitBatch, clientVars, gateVars
<1>2. PICK p \in Plans : Sent(p, BatchOf(p))
  BY SubmitFacts
<1> DEFINE q == sigs'
<1>3. /\ q \in Seq(Signals) /\ Len(q) <= 1 /\ \A i \in DOMAIN q : q[i].st = OutOfMemory /\ q[i].req \in Stalled(p.ends)
      /\ slots' = Turn(p) /\ seq' = [r \in Reqs |-> Launched(r, p)] /\ PlanShape(p)
      /\ Ordered(Turn(p), Rescheduled(p), p.ends)
  BY <1>2 DEF Sent, IsDespair, PlanInv
<1> HIDE DEF q
<1>4. sigs = <<>>
  BY <1>1 DEF Speaking, Pending
<1>5. Present' = Present
  <2>1. Range(Turn(p)) = Present
    BY <1>3 DEF Ordered, Range
  <2>2. NoReq \notin Present
    BY DEF Present
  <2>3. Present' = Range(Turn(p)) \ {NoReq}
    BY <1>3 DEF Present, Range
  <2> QED
    BY <2>1, <2>2, <2>3
<1>6. \A r : r \in Stalled(p.ends) => r \in Reqs /\ r \in Present /\ ~seq[r].retiring /\ r \notin DOMAIN p.ends
  <2>1. Present \subseteq Reqs
    BY <1>0, PresentFacts
  <2> QED
    BY <2>1 DEF Stalled, Eligible
<1>7. \A r \in Reqs : seq'[r].retiring = (seq[r].retiring \/ (r \notin DOMAIN p.ends /\ r \in Stalled(p.ends)))
  BY <1>0, <1>3, ScheduledOf
<1>8. \A r \in Reqs : r \in Stalled(p.ends) => Calm(signals, r)
  BY <1>6 DEF Speaking, Open
<1>9. \A i \in DOMAIN q : q[i].req \in Reqs /\ q[i].req \in Present /\ Calm(signals, q[i].req) /\ seq'[q[i].req].retiring
  BY <1>3, <1>6, <1>7, <1>8
<1>10. \A r \in Reqs : Open(r)' => Open(r) /\ Mute(q, r)
  <2> SUFFICES ASSUME NEW r \in Reqs, Open(r)' PROVE Open(r) /\ Mute(q, r)
    OBVIOUS
  <2>1. Range(queue)' = Range(queue) /\ Range(popped)' = Range(popped)
    BY <1>1 DEF Range
  <2>2. Open(r)
    BY <1>1, <1>5, <1>7, <2>1 DEF Open
  <2>3. CASE r \in Present
    <3>1. ~seq'[r].retiring
      BY <1>0, <1>1, <1>5, <2>1, <2>3 DEF Open, Places
    <3> QED
      BY <1>9, <2>2, <3>1 DEF Mute
  <2>4. CASE r \notin Present
    BY <1>9, <2>2, <2>4 DEF Mute
  <2> QED
    BY <2>2, <2>3, <2>4
<1>11. Spoken(signals, q)
  <2>1. \A r \in Reqs : told[r] \in Answered \/ (\E s \in state[r] : s.st \in Answered) => Mute(q, r)
    BY <1>9 DEF Calm, Mute
  <2>2. \A i \in DOMAIN signals, j \in DOMAIN q : signals[i].req = q[j].req => signals[i].st \notin Answered
    BY <1>9 DEF Calm
  <2> QED
    BY <1>3, <2>1, <2>2 DEF Speaking, Spoken
<1>12. Pending'
  <2>1. Range(queue)' = Range(queue)
    BY <1>1 DEF Range
  <2>2. \A i \in DOMAIN sigs' : sigs'[i].req \in Present' /\ seq'[sigs'[i].req].retiring
    BY <1>5, <1>9 DEF q
  <2> QED
    BY <1>1, <2>1, <2>2 DEF Speaking, Pending
<1>13. Spoken(signals, sigs)'
  BY <1>1, <1>11 DEF q, Spoken, Mute
<1>14. \A r \in Reqs : Open(r)' => Calm(signals, r)' /\ Mute(sigs, r)'
  BY <1>1, <1>10 DEF q, Speaking, Calm, Mute
<1> QED
  BY <1>12, <1>13, <1>14 DEF Speaking

LEMMA RunBatchSpeaks ==
    ASSUME TurboEngineAssumption, Frame, Speaking, NEW stop, RunBatch(stop)
    PROVE  Speaking'
<1>1. UNCHANGED <<told, state, signals, sigs, flag, queue, popped, slots, seq, pc, client>>
  BY RunBatchDef DEF clientVars, gateVars, loopVars, stateVars
<1>2. Present' = Present /\ Range(queue)' = Range(queue) /\ Range(popped)' = Range(popped)
  BY <1>1 DEF Present, Range
<1>3. \A p \in Reqs : Open(p)' => Open(p)
  BY <1>1, <1>2 DEF Open
<1>4. Pending'
  BY <1>1, <1>2 DEF Speaking, Pending
<1> QED
  BY <1>1, <1>3, <1>4, Silent

\* Only what went on until now is sampled for, so only that is told: that it
\* goes on, or that it finished, which closes it.
LEMMA CollectSpeaks ==
    ASSUME TurboEngineAssumption, Frame, Speaking, Collect
    PROVE  Speaking'
<1> DEFINE b == Head(inbound)
           p == signals'
           t == signals \o sigs
           a == Reports(b)
<1>0. Shapes /\ Places
  BY DEF Frame
<1>1. /\ p = t \o a /\ sigs' = <<>> /\ pc' = "pop"
      /\ UNCHANGED <<client, told, state, flag, queue, popped>>
  BY CollectDef DEF clientVars
<1>2. Back(b)
  BY CollectFacts
<1> HIDE DEF b
<1>3. /\ a \in Seq(Signals) /\ DOMAIN a = DOMAIN Informed(b) /\ Informed(b) \in Seq(Reqs) /\ Once(Informed(b))
      /\ Range(Informed(b)) = {r \in Sampling(b) : Collected(b)[r].retiring \/ cfg.stream}
      /\ \A i \in DOMAIN a : LET r == Informed(b)[i] IN a[i].req = r /\ a[i].st = IF Collected(b)[r].retiring THEN Finish ELSE Ok
  <2>1. /\ a \in Seq(Signals) /\ DOMAIN a = DOMAIN Informed(b) /\ Informed(b) \in Seq(Reqs) /\ Once(Informed(b))
        /\ Range(Informed(b)) = {r \in Sampling(b) : Collected(b)[r].retiring \/ cfg.stream}
    BY <1>2 DEF Back
  <2>2. \A i \in DOMAIN Informed(b) : LET r == Informed(b)[i] IN
          a[i] = [req |-> r, st |-> IF Collected(b)[r].retiring THEN Finish ELSE Ok, len |-> Collected(b)[r].len]
    BY <1>2 DEF Back
  <2> HIDE DEF a
  <2> QED
    BY <2>1, <2>2
<1> HIDE DEF a
<1>4. \A i \in DOMAIN a : a[i].req \in Reqs /\ a[i].req \in Sampling(b) /\ (~Collected(b)[a[i].req].retiring => a[i].st = Ok)
  <2> TAKE i \in DOMAIN a
  <2>1. Informed(b)[i] \in Reqs
    BY <1>3, ElementOf
  <2>2. Informed(b)[i] \in Range(Informed(b))
    BY <1>3 DEF Range
  <2> QED
    BY <1>3, <2>1, <2>2
<1>5. \A i, j \in DOMAIN a : a[i].req = a[j].req => i = j
  <2>1. NoReq \notin Reqs
    BY <1>0, SetupFacts
  <2>2. \A i \in DOMAIN a : Informed(b)[i] = a[i].req /\ Informed(b)[i] # NoReq
    BY <1>3, <1>4, <2>1
  <2> QED
    BY <1>3, <2>2 DEF Once
<1>6. signals \in Seq(Signals) /\ sigs \in Seq(Signals) /\ t \in Seq(Signals)
  BY <1>0, JoinOf DEF Shapes
<1>7. Spoken(t, <<>>)
  BY <1>6, SpokenMove DEF Speaking
<1>8. \A r \in Reqs : Open(r) => Calm(t, r)
  <2> SUFFICES ASSUME NEW r \in Reqs, Open(r) PROVE Calm(t, r)
    OBVIOUS
  <2>1. Calm(signals, r) /\ Mute(sigs, r)
    BY DEF Speaking
  <2> QED
    BY <1>6, <2>1, CalmAppend DEF Mute
<1> HIDE DEF t, p
<1>9. \A r : Mute(<<>>, r)
  BY DEF Mute
<1>10. \A r \in Sampling(b) : r \in Reqs => Open(r)
  BY DEF Sampling, Samples, Open
<1>11. Spoken(p, <<>>)
  <2>1. <<>> \in Seq(Signals)
    OBVIOUS
  <2>2. \A i \in DOMAIN a : Calm(t, a[i].req) /\ Mute(<<>>, a[i].req)
    BY <1>4, <1>8, <1>9, <1>10
  <2> QED
    BY <1>1, <1>3, <1>5, <1>6, <1>7, <2>1, <2>2, SpokenAppend
<1>12. \A r \in Reqs : Open(r)' => Calm(p, r)
  <2> SUFFICES ASSUME NEW r \in Reqs, Open(r)' PROVE Calm(p, r)
    OBVIOUS
  <2>1. Range(popped)' = Range(popped) /\ Range(queue)' = Range(queue)
    BY <1>1 DEF Range
  <2>2. CASE client[r] = "idle" \/ (r \in Range(queue) /\ flag[r] = 0) \/ r \in Range(popped)
    <3>1. Open(r) /\ r \notin Present
      BY <1>0, <2>2 DEF Open, Places
    <3>2. r \notin Sampling(b)
      BY <3>1 DEF Sampling
    <3>3. \A i \in DOMAIN a : a[i].req # r
      BY <1>4, <3>2
    <3> QED
      BY <1>1, <1>3, <1>6, <1>8, <3>1, <3>3, CalmAppend
  <2>3. CASE r \in Present' /\ ~seq'[r].retiring
    <3>1. r \in Present /\ ~Collected(b)[r].retiring
      BY <1>2, <2>3 DEF Back, Retired, Present
    <3>2. ~seq[r].retiring
      <4>1. AfterFacts(b, r, Collected(b)[r])
        BY <1>2, <3>1 DEF Back
      <4>2. Samples(b, r) => ~seq[r].retiring
        BY DEF Samples
      <4>3. ~Samples(b, r) => Collected(b)[r].retiring = seq[r].retiring
        BY <4>1 DEF AfterFacts
      <4> QED
        BY <3>1, <4>2, <4>3
    <3>3. Calm(t, r)
      BY <1>8, <3>1, <3>2 DEF Open
    <3>4. \A i \in DOMAIN a : a[i].req = r => a[i].st \notin Answered
      <4>1. Ok \notin Answered
        BY VerdictOf
      <4> QED
        BY <1>4, <3>1, <4>1
    <3> QED
      BY <1>1, <1>3, <1>6, <3>3, <3>4, CalmAppend
  <2> QED
    BY <1>1, <2>1, <2>2, <2>3 DEF Open
<1>13. Pending'
  <2>1. Range(queue)' = Range(queue)
    BY <1>1 DEF Range
  <2> QED
    BY <1>1, <2>1 DEF Speaking, Pending
<1>14. Spoken(signals, sigs)'
  BY <1>1, <1>11 DEF p, Spoken, Mute
<1>15. \A r \in Reqs : Open(r)' => Calm(signals, r)' /\ Mute(sigs, r)'
  BY <1>1, <1>12 DEF p, Calm, Mute
<1> QED
  BY <1>13, <1>14, <1>15 DEF Speaking

---------------------------------------------------------------------------
(* One answer each. *)

LEMMA InitSpeaks ==
    ASSUME Init
    PROVE  Speaking
<1>1. /\ signals = <<>> /\ sigs = <<>> /\ pc = "pop" /\ queue = <<>> /\ popped = <<>> /\ slots = <<>>
      /\ \A r \in Reqs : client[r] = "idle" /\ told[r] = Ok /\ state[r] = {}
  BY DEF Init
<1>2. Ok \notin Answered
  BY VerdictOf
<1>3. \A r : Mute(<<>>, r)
  BY DEF Mute
<1>4. \A r \in Reqs : Calm(<<>>, r)
  BY <1>1, <1>2 DEF Calm
<1>5. Spoken(<<>>, <<>>)
  BY <1>1, <1>2, <1>3 DEF Spoken
<1>6. Pending
  BY <1>1 DEF Pending
<1> QED
  BY <1>1, <1>3, <1>4, <1>5, <1>6 DEF Speaking

LEMMA SpeakingStep ==
    ASSUME TurboEngineAssumption, Frame, Speaking, [Next]_vars
    PROVE  Speaking'
<1>1. CASE UNCHANGED vars
  <2>1. UNCHANGED <<told, state, signals, sigs, flag, queue, popped, slots, seq, pc, client>>
    BY <1>1 DEF vars, clientVars, gateVars, loopVars, stateVars
  <2>2. Present' = Present /\ Range(queue)' = Range(queue) /\ Range(popped)' = Range(popped)
    BY <2>1 DEF Present, Range
  <2>3. \A p \in Reqs : Open(p)' => Open(p)
    BY <2>1, <2>2 DEF Open
  <2>4. Pending'
    BY <2>1, <2>2 DEF Speaking, Pending
  <2> QED
    BY <2>1, <2>3, <2>4, Silent
<1>2. CASE \E r \in Reqs : Release(r) \/ Consume(r) \/ Leave(r) \/ AsyncCancel(r) \/ Submit(r)
  BY <1>2, ReleaseSpeaks, ConsumeSpeaks, LeaveSpeaks, SubmitSpeaks
<1>3. CASE Signal
  BY <1>3, SignalSpeaks
<1>4. CASE Pop
  BY <1>4, PopSpeaks
<1>5. CASE Admit
  BY <1>5, AdmitSpeaks
<1>6. CASE SubmitBatch
  BY <1>6, SubmitBatchSpeaks
<1>7. CASE \E stop \in SUBSET Reqs : RunBatch(stop)
  BY <1>7, RunBatchSpeaks
<1>8. CASE Collect
  BY <1>8, CollectSpeaks
<1> QED
  BY <1>1, <1>2, <1>3, <1>4, <1>5, <1>6, <1>7, <1>8 DEF Next, System, Users, Engine, Executor

LEMMA SpokenOnce ==
    ASSUME Frame, Speaking
    PROVE  AnsweredOnce
<1> DEFINE later == signals \o sigs
           n == Len(signals)
<1>1. signals \in Seq(Signals) /\ sigs \in Seq(Signals) /\ Spoken(signals, sigs)
  BY DEF Frame, Shapes, Speaking
<1>2. Spoken(later, <<>>) /\ later \in Seq(Signals)
  BY <1>1, SpokenMove, JoinOf
<1> HIDE DEF later
<1>3. \A i \in DOMAIN later : i \in Int
  BY <1>2, ElementOf
<1>4. ASSUME NEW r \in Reqs
      PROVE  LET mine == {i \in DOMAIN later : later[i].req = r}
             IN /\ told[r] \in Answered => state[r] = {} /\ mine = {}
                /\ \A s \in state[r] : s.st \in Answered => state[r] = {s} /\ mine = {}
                /\ \A i, j \in mine : i < j => later[i].st \notin Answered
  <2> DEFINE mine == {i \in DOMAIN later : later[i].req = r}
  <2>1. told[r] \in Answered => state[r] = {} /\ mine = {}
    BY <1>2 DEF Spoken, Mute
  <2>2. ASSUME NEW s \in state[r], s.st \in Answered PROVE state[r] = {s} /\ mine = {}
    BY <1>2, <2>2 DEF Spoken, Mute
  <2>3. \A i, j \in mine : i < j => later[i].st \notin Answered
    BY <1>2 DEF Spoken
  <2> QED
    BY <2>1, <2>2, <2>3
<1> QED
  BY <1>4 DEF AnsweredOnce, later

---------------------------------------------------------------------------
(* What the wake-ups rest on: a release is scheduled only when a state took
   the place of none, and runs once; so there is never more than one. *)
Waking ==
    /\ calls \in [Reqs -> {0, 1}]
    /\ sem \in [Reqs -> {0, 1}]
    /\ state = [r \in Reqs |-> state[r]]
    /\ WakeUpsMatch

LEMMA WakingInit == Init => Waking
BY DEF Init, Waking, WakeUpsMatch

LEMMA WakingStep == Waking /\ [Next]_vars => Waking'
<1> SUFFICES ASSUME Waking, [Next]_vars PROVE Waking'
    OBVIOUS
<1> USE DEF Waking, WakeUpsMatch
<1>1. CASE \E r \in Reqs : Submit(r) \/ Leave(r) \/ AsyncCancel(r)
    BY <1>1 DEF Submit, Leave, AsyncCancel, clientVars
<1>2. ASSUME NEW r \in Reqs, Release(r) PROVE Waking'
    <2>1. calls[r] = 1 /\ sem[r] = 0 /\ state[r] # {}
        BY <1>2 DEF Release
    <2> QED
        BY <1>2, <2>1 DEF Release
<1>3. ASSUME NEW r \in Reqs, Consume(r) PROVE Waking'
    <2>1. /\ sem[r] = 1 /\ state[r] # {}
          /\ sem' = [sem EXCEPT ![r] = 0]
          /\ state' = [state EXCEPT ![r] = {}]
          /\ calls' = calls
        BY <1>3 DEF Consume
    <2>2. calls[r] = 0
        BY <2>1
    <2>3. calls' \in [Reqs -> {0, 1}] /\ sem' \in [Reqs -> {0, 1}] /\ state' = [p \in Reqs |-> state'[p]]
        BY <2>1
    <2>4. \A p \in Reqs : calls'[p] + sem'[p] = IF state'[p] = {} THEN 0 ELSE 1
        <3> TAKE p \in Reqs
        <3>1. CASE p = r
            BY <2>1, <2>2, <3>1
        <3>2. CASE p # r
            BY <2>1, <3>2
        <3> QED
            BY <3>1, <3>2
    <2> QED
        BY <2>3, <2>4
<1>4. CASE Signal
    <2> DEFINE q == Head(signals).req
               new == {[st |-> Head(signals).st, len |-> Head(signals).len]}
    <2>1. /\ new # {}
          /\ state' = [state EXCEPT ![q] = new]
          /\ calls' = IF state[q] = {} THEN [calls EXCEPT ![q] = @ + 1] ELSE calls
          /\ sem' = sem
        BY <1>4 DEF Signal, clientVars
    <2> HIDE DEF q, new
    <2>2. CASE q \in Reqs /\ state[q] = {}
        <3>1. calls[q] = 0 /\ sem[q] = 0
            BY <2>2
        <3>2. calls' = [calls EXCEPT ![q] = 1]
            BY <2>1, <2>2, <3>1
        <3>3. \A r \in Reqs : calls'[r] + sem'[r] = IF state'[r] = {} THEN 0 ELSE 1
            <4> TAKE r \in Reqs
            <4>1. CASE r = q
                BY <2>1, <2>2, <3>1, <3>2, <4>1
            <4>2. CASE r # q
                BY <2>1, <2>2, <3>2, <4>2
            <4> QED
                BY <4>1, <4>2
        <3> QED
            BY <2>1, <2>2, <3>2, <3>3
    <2>3. CASE q \in Reqs /\ state[q] # {}
        BY <2>1, <2>3
    <2>4. CASE q \notin Reqs
        BY <2>1, <2>4
    <2> QED
        BY <2>2, <2>3, <2>4
<1>5. CASE Pop \/ Admit \/ SubmitBatch \/ Collect
    BY <1>5 DEF Pop, Admit, SubmitBatch, Collect, clientVars, gateVars
<1>6. CASE Executor
    BY <1>6 DEF Executor, RunBatch, clientVars, gateVars
<1>7. CASE UNCHANGED vars
    BY <1>7 DEF vars, clientVars, gateVars
<1> QED
    BY <1>1, <1>2, <1>3, <1>4, <1>5, <1>6, <1>7 DEF Next, System, Users, Engine

(* In every reachable state a reader is going to be woken exactly when there
   is a state for it: StreamingSemaphore, whose releases collapse into one,
   with UpdateState, which calls back only when it replaced nothing, neither
   loses a wake-up nor runs consume() on nothing. *)
THEOREM NoLostWakeUp == Spec => []WakeUpsMatch
<1>1. Waking => WakeUpsMatch
    BY DEF Waking
<1> QED
    BY WakingInit, WakingStep, <1>1, PTL DEF Spec

\* Each answer gets through, once: nothing is said to a request after a state
\* that ended it, by the engine, by the gateway that cancels it or by both at
\* once, and every state finds its reader.
THEOREM EveryAnswerRead == Spec => []AnswersRead
<1> USE TurboEngineAssumption
<1>1. Init => Speaking
  BY InitSpeaks
<1>2. (Frame /\ Alive) /\ Speaking /\ [Next]_vars => Speaking'
  BY SpeakingStep
<1>3. Frame /\ Alive /\ Speaking => AnsweredOnce
  BY SpokenOnce
<1>4. AnsweredOnce /\ WakeUpsMatch => AnswersRead
  BY DEF AnswersRead
<1> QED
  BY <1>1, <1>2, <1>3, <1>4, FrameHolds, NoLostWakeUp, PTL DEF Spec

---------------------------------------------------------------------------
(* What the engine foresees: a sequence after a Schedule, a place in the *)
(* slots, and the steps that leave all of it alone.                      *)

LEMMA PlaceIs ==
    ASSUME NEW s, Once(s), NEW i \in DOMAIN s, s[i] # NoReq
    PROVE  Place(s, s[i]) = i
<1>1. s[i] \in Range(s)
  BY DEF Range
<1>2. Place(s, s[i]) \in DOMAIN s /\ s[Place(s, s[i])] = s[i]
  BY <1>1, PlaceOf
<1> QED
  BY <1>2 DEF Once

LEMMA PlacedIn ==
    ASSUME TurboEngineAssumption, Frame, NEW r \in Present
    PROVE  /\ r \in Reqs /\ Place(slots, r) \in DOMAIN slots /\ slots[Place(slots, r)] = r
           /\ DOMAIN slots = 1..Len(slots) /\ Len(slots) \in Nat /\ Place(slots, r) \in Nat
<1>1. slots \in Seq(Reqs \cup {NoReq}) /\ Shapes /\ Places
  BY DEF Frame, Shapes
<1>2. DOMAIN slots = 1..Len(slots) /\ Len(slots) \in Nat
  BY <1>1, ElementOf
<1>3. r \in Range(slots) /\ r \in Reqs
  BY <1>1, PresentFacts DEF Present
<1> QED
  BY <1>2, <1>3, PlaceOf

\* A row of the batch submitted last is the sequence in that slot.
LEMMA NewestAt ==
    ASSUME TurboEngineAssumption, Frame, Alive, Pipeline # <<>>, NEW r \in Eligible
    PROVE  /\ Newest \in Batches /\ Len(Pipeline) \in DOMAIN Pipeline
           /\ DOMAIN Newest.rows = 1..nactive
           /\ Place(slots, r) <= nactive <=> Place(slots, r) \in DOMAIN Newest.rows
           /\ Place(slots, r) <= nactive => Newest.rows[Place(slots, r)].req = r
           /\ Names(Newest, r) <=> Place(slots, r) <= nactive
<1>0. Shapes /\ Places /\ Chained /\ r \in Present
  BY DEF Frame, Eligible
<1>1. Newest \in Batches /\ Len(Pipeline) \in DOMAIN Pipeline
  <2>1. Pipeline \in Seq(Batches)
    BY <1>0, PipelineOf
  <2> HIDE DEF Pipeline
  <2>2. Len(Pipeline) \in DOMAIN Pipeline
    BY <2>1
  <2> QED
    BY <2>1, <2>2, ElementOf DEF Newest
<1>2. DOMAIN Newest.rows = 1..nactive /\ nactive \in Nat
  <2>1. Newest.rows \in Seq(Rows)
    BY <1>1, BatchFields
  <2>2. Len(Newest.rows) = nactive
    BY DEF Alive, InSlots
  <2>3. nactive \in Nat
    BY <1>0 DEF Shapes
  <2> QED
    BY <2>1, <2>2, <2>3, ElementOf
<1>3. /\ r \in Reqs /\ Place(slots, r) \in DOMAIN slots /\ slots[Place(slots, r)] = r /\ Place(slots, r) \in Nat
      /\ DOMAIN slots = 1..Len(slots) /\ Len(slots) \in Nat
  BY <1>0, PlacedIn
<1>4. \A i \in DOMAIN Newest.rows : i \in DOMAIN slots /\ slots[i] = Newest.rows[i].req
  BY DEF Alive, InSlots
<1>5. Place(slots, r) <= nactive <=> Place(slots, r) \in DOMAIN Newest.rows
  BY <1>2, <1>3
<1>6. Names(Newest, r) => Place(slots, r) <= nactive
  <2> SUFFICES ASSUME NEW i \in DOMAIN Newest.rows, Newest.rows[i].req = r PROVE Place(slots, r) <= nactive
    BY DEF Names
  <2>1. i \in DOMAIN slots /\ slots[i] = r /\ r # NoReq
    BY <1>3, <1>4, SetupFacts, <1>0
  <2>2. Place(slots, r) = i
    BY <1>0, <1>3, <2>1 DEF Places, Once
  <2> QED
    BY <1>2, <2>2
<1> QED
  BY <1>1, <1>2, <1>4, <1>5, <1>6, <1>3 DEF Names

StillFull == /\ pc' = "collect" <=> pc = "collect"
             /\ UNCHANGED <<cfg, slots, perm, nactive, nswapout, seq, held, inbound, outbound, dev, kv>>

LEMMA StillFullOf ==
    ASSUME Predicted, Filled, StillFull
    PROVE  Predicted' /\ Filled'
<1>1. Eligible' = Eligible /\ Pipeline' = Pipeline
  BY DEF StillFull, Eligible, Present, Range, Pipeline
<1>2. \A r \in Eligible : Reached(r)' = Reached(r) /\ Lasting(r)' = Lasting(r)
  BY DEF StillFull, Reached, Lasting, Newly, Context
<1>3. \A r \in Eligible : Foretold(r)' = Foretold(r)
  BY <1>1 DEF StillFull, Foretold, In, RowOf, Place
<1>4. Newest' = Newest
  BY <1>1 DEF Newest
<1>5. \A r \in Eligible : Foreseen(r)'
  <2> TAKE r \in Eligible
  <2>1. Foreseen(r)
    BY DEF Predicted
  <2>2. Place(slots, r)' = Place(slots, r) /\ Pipeline' = Pipeline
    BY <1>1 DEF StillFull, Place
  <2> QED
    BY <1>2, <1>3, <1>4, <2>1, <2>2 DEF StillFull, Foreseen
<1>6. Predicted'
  BY <1>1, <1>5 DEF Predicted, StillFull
<1>7. \A r : Drained(r)' = Drained(r)
  BY DEF StillFull, Drained, Before, Lasts, Names, NamedAt
<1>8. \A r \in Eligible : Kept(r)' /\ Ready(r)'
  <2> TAKE r \in Eligible
  <2>1. Kept(r) /\ Ready(r)
    BY DEF Filled
  <2>2. Place(slots, r)' = Place(slots, r)
    BY DEF StillFull, Place
  <2> QED
    BY <1>2, <1>7, <2>1, <2>2 DEF StillFull, Kept, Ready
<1>9. \A k \in DOMAIN outbound : Fed(k)' = Fed(k)
  BY DEF StillFull, Fed, Sorted, FedRow, GoesOn, Carried, Before, Lasts, Names, NamedAt
<1>10. \A k \in DOMAIN inbound : Brought(inbound[k])' = Brought(inbound[k])
  BY DEF StillFull, Brought
<1>11. Filled'
  BY <1>1, <1>8, <1>9, <1>10 DEF Filled, StillFull
<1> QED
  BY <1>6, <1>11

\* The fields of a sequence after SubmitBatch.
LaunchedAs(r, p, l) ==
    /\ l.len = seq[r].len /\ l.iin = seq[r].iin /\ l.inew = seq[r].inew
    /\ IF r \in DOMAIN p.ends
       THEN /\ l.active /\ l.input = p.ends[r] - Begin(r) /\ l.filled = Resume(r)
            /\ l.gen = (p.ends[r] = Context(seq[r])) /\ l.auto = (seq[r].active /\ seq[r].gen /\ l.input = 1)
       ELSE ~l.active /\ l.filled = seq[r].filled /\ l.input = 0
LEMMA LaunchedFields ==
    ASSUME TurboEngineAssumption, Shapes, Places, NEW p, PlanShape(p), NEW r \in Eligible
    PROVE  LaunchedAs(r, p, Launched(r, p)) /\ LaunchedAs(r, p, Rescheduled(p)[r])
<1> DEFINE q == seq[r]
           s == Rescheduled(p)[r]
           l == Launched(r, p)
<1>0. r \in Reqs
  BY PresentFacts
<1>1. q \in SeqRecords /\ s \in SeqRecords /\ l \in SeqRecords
  BY <1>0, SeqOfReq, ScheduledOf
<1>2. s = Scheduled(r, p)
  BY <1>0 DEF Rescheduled
<1>3. l = IF r \in DOMAIN p.ends THEN [s EXCEPT !.inflight = @ + 1]
          ELSE IF r \in Stalled(p.ends) THEN [s EXCEPT !.retiring = TRUE] ELSE s
  BY DEF Launched
<1>4. LaunchedAs(r, p, s)
  <2>1. CASE r \notin DOMAIN p.ends
    <3> DEFINE off == FALSE
               none == 0
    <3>1. s = [q EXCEPT !.active = off, !.input = none] /\ off \in BOOLEAN /\ none \in Int
      BY <1>2, <2>1 DEF Scheduled
    <3> HIDE DEF s, q, off, none
    <3>2. s.active = off /\ s.input = none /\ s.filled = q.filled /\ s.len = q.len /\ s.iin = q.iin /\ s.inew = q.inew
      BY <1>1, <3>1 DEF SeqRecords
    <3> QED
      BY <2>1, <3>2 DEF LaunchedAs, off, none, q
  <2>2. CASE r \in DOMAIN p.ends
    <3> DEFINE input == p.ends[r] - (Resume(r) + q.iin)
               fil == Resume(r)
               auto == q.active /\ q.gen /\ input = 1
               gen == p.ends[r] = Context(q)
               on == TRUE
    <3>1. s = [q EXCEPT !.active = on, !.input = input, !.filled = fil, !.auto = auto, !.gen = gen]
      BY <1>2, <2>2 DEF Scheduled
    <3>2. auto \in BOOLEAN /\ gen \in BOOLEAN /\ on \in BOOLEAN
      BY <1>0, SeqOfReq
    <3>3. input = p.ends[r] - Begin(r)
      BY DEF Begin
    <3> HIDE DEF s, q, input, fil, auto, gen, on
    <3>4. s.active = on /\ s.input = input /\ s.filled = fil /\ s.auto = auto /\ s.gen = gen
      BY <1>1, <3>1 DEF SeqRecords
    <3>5. s.len = q.len /\ s.iin = q.iin /\ s.inew = q.inew
      BY <1>1, <3>1 DEF SeqRecords
    <3>6. s.gen = (p.ends[r] = Context(q))
      BY <3>4 DEF gen
    <3>7. s.auto = (q.active /\ q.gen /\ s.input = 1)
      BY <3>4 DEF auto
    <3> QED
      BY <2>2, <3>3, <3>4, <3>5, <3>6, <3>7 DEF LaunchedAs, on, fil, q
  <2> QED
    BY <2>1, <2>2
<1>5. LaunchedAs(r, p, l)
  <2> HIDE DEF s, l
  <2>0. s.inflight \in Int
    BY <1>1 DEF SeqRecords
  <2>1. /\ l.len = s.len /\ l.iin = s.iin /\ l.inew = s.inew /\ l.active = s.active /\ l.input = s.input
        /\ l.filled = s.filled /\ l.gen = s.gen /\ l.auto = s.auto
    <3>1. CASE r \in DOMAIN p.ends
      BY <1>1, <1>3, <2>0, <3>1 DEF SeqRecords
    <3>2. CASE r \notin DOMAIN p.ends /\ r \in Stalled(p.ends)
      <4>1. l = [s EXCEPT !.retiring = TRUE]
        BY <1>3, <3>2
      <4> QED
        BY <1>1, <4>1 DEF SeqRecords
    <3>3. CASE r \notin DOMAIN p.ends /\ r \notin Stalled(p.ends)
      BY <1>3, <3>3
    <3> QED
      BY <3>1, <3>2, <3>3
  <2> QED
    BY <1>4, <2>1 DEF LaunchedAs
<1> QED
  BY <1>4, <1>5

---------------------------------------------------------------------------
(* SubmitBatch on what is foreseen: the batch before it will have come to *)
(* where the new rows begin.                                              *)

\* In an iteration's middle at most one batch is on its way, the newest.
Middle(p) ==
    /\ Shapes /\ Places /\ Chained /\ Alive /\ pc = "submit" /\ pc' = "collect" /\ PlanShape(p) /\ Sent(p, BatchOf(p))
    /\ Present' = Present /\ Eligible' \subseteq Eligible
    /\ UNCHANGED <<cfg, inbound, dev, kv>>
    /\ \A r \in Eligible : LaunchedAs(r, p, seq'[r]) /\ Present' = Present
    /\ \A i \in DOMAIN Turn(p) : /\ Turn(p)[i] \in Present /\ Turn(p)[i] \in Reqs /\ Place(slots', Turn(p)[i]) = i
                                 /\ perm'[i] = Place(slots, Turn(p)[i])
    /\ \A r \in Present : Place(slots', r) \in DOMAIN Turn(p) /\ Turn(p)[Place(slots', r)] = r

LEMMA MiddleOf ==
    ASSUME TurboEngineAssumption, Frame, Alive, SubmitBatch
    PROVE  \E p \in Plans : Middle(p)
<1>0. Shapes /\ Places /\ Chained
  BY DEF Frame
<1>1. PICK p \in Plans : Sent(p, BatchOf(p))
  BY SubmitFacts
<1>2. PlanShape(p) /\ Ordered(Turn(p), Rescheduled(p), p.ends)
  BY <1>1 DEF Sent, PlanInv
<1>3. pc = "submit" /\ pc' = "collect" /\ UNCHANGED <<cfg, inbound, dev, kv>>
  BY DEF SubmitBatch, deviceVars
<1>4. slots' = Turn(p) /\ seq' = [r \in Reqs |-> Launched(r, p)]
  BY <1>1 DEF Sent
<1>5. Present' = Present
  <2>1. Range(Turn(p)) = Present
    BY <1>2 DEF Ordered, Range
  <2>2. NoReq \notin Present
    BY DEF Present
  <2>3. Present' = Range(Turn(p)) \ {NoReq}
    BY <1>4 DEF Present, Range
  <2> QED
    BY <2>1, <2>2, <2>3
<1>6. Present \subseteq Reqs /\ Eligible \subseteq Present /\ NoReq \notin Reqs
  BY <1>0, PresentFacts, SetupFacts
<1>7. Eligible' \subseteq Eligible
  <2>1. \A r \in Reqs : seq[r].retiring => seq'[r].retiring
    BY <1>0, <1>2, <1>4, ScheduledOf
  <2> QED
    BY <1>5, <1>6, <2>1 DEF Eligible
<1>8. \A r \in Eligible : LaunchedAs(r, p, seq'[r])
  BY <1>0, <1>2, <1>4, <1>6, LaunchedFields
<1>9. \A i \in DOMAIN Turn(p) : Turn(p)[i] \in Present /\ perm'[i] = Place(slots, Turn(p)[i])
  BY <1>1, <1>2 DEF Sent, Ordered
<1>10. Once(Turn(p))
  BY <1>2 DEF Ordered, Once
<1>11. \A i \in DOMAIN Turn(p) : Place(slots', Turn(p)[i]) = i
  <2> TAKE i \in DOMAIN Turn(p)
  <2>1. Place(Turn(p), Turn(p)[i]) = i
    BY <1>6, <1>9, <1>10, PlaceIs
  <2> QED
    BY <1>4, <2>1
<1>12. \A r \in Present : Place(slots', r) \in DOMAIN Turn(p) /\ Turn(p)[Place(slots', r)] = r
  <2> TAKE r \in Present
  <2>1. PICK i \in DOMAIN Turn(p) : Turn(p)[i] = r
    BY <1>2 DEF Ordered
  <2> QED
    BY <1>11, <2>1
<1>13. \A i \in DOMAIN Turn(p) : Turn(p)[i] \in Reqs
  BY <1>6, <1>9
<1>14. Middle(p)
  BY <1>0, <1>1, <1>2, <1>3, <1>5, <1>7, <1>8, <1>9, <1>11, <1>12, <1>13 DEF Middle
<1> QED
  BY <1>14

\* The row of a sequence that runs.
RowFor(p, r, i, b) ==
    /\ i = Place(slots', r) /\ i \in DOMAIN b.rows /\ i <= nactive'
    /\ b.rows[i].req = r /\ b.rows[i].end = p.ends[r] /\ b.rows[i].input = p.ends[r] - Begin(r)
    /\ b.rows[i].gen = (p.ends[r] = Context(seq[r])) /\ b.rows[i].known = (p.ends[r] <= seq[r].len)
    /\ b.rows[i].auto = (seq[r].active /\ seq[r].gen /\ p.ends[r] - Begin(r) = 1)
    /\ b.rows[i].readonly = ReadOnly(r) * cfg.blockSize /\ b.perm[i] = Place(slots, r)
    /\ b.kept = p.holds /\ b.bs0 = nactive
LEMMA RowForOf ==
    ASSUME TurboEngineAssumption, NEW p, Middle(p), NEW r \in DOMAIN p.ends
    PROVE  RowFor(p, r, Place(slots', r), BatchOf(p)) /\ r \in Eligible
<1> DEFINE b == BatchOf(p)
           i == Place(slots', r)
           s == Rescheduled(p)[r]
<1>1. r \in Eligible /\ r \in Present
  BY PresentFacts DEF Middle, PlanShape
<1>2. i \in DOMAIN Turn(p) /\ Turn(p)[i] = r
  BY <1>1 DEF Middle
<1>3. IsBatchOf(b, p) /\ Ordered(Turn(p), Rescheduled(p), p.ends) /\ nactive' = Cardinality(DOMAIN p.ends)
  BY DEF Middle, Sent
<1> HIDE DEF b, i
<1>4. i \in 1..Cardinality(DOMAIN p.ends) /\ i <= nactive'
  BY <1>2, <1>3 DEF Ordered
<1>5. i \in DOMAIN b.rows /\ b.rows[i] = Row(r, s, p) /\ b.perm[i] = Place(slots, r) /\ b.kept = p.holds /\ b.bs0 = nactive
  BY <1>2, <1>3, <1>4 DEF IsBatchOf
<1>6. LaunchedAs(r, p, s)
  BY <1>1, LaunchedFields DEF Middle
<1> HIDE DEF s
<1>7. /\ b.rows[i].req = r /\ b.rows[i].end = p.ends[r] /\ b.rows[i].input = s.input
      /\ b.rows[i].gen = s.gen /\ b.rows[i].auto = s.auto
      /\ b.rows[i].readonly = ReadOnly(r) * cfg.blockSize
  BY <1>5 DEF Row
<1>8. b.rows[i].known = (p.ends[r] <= s.len)
  BY <1>5 DEF Row
<1>9. /\ s.input = p.ends[r] - Begin(r) /\ s.len = seq[r].len
      /\ s.gen = (p.ends[r] = Context(seq[r])) /\ s.auto = (seq[r].active /\ seq[r].gen /\ s.input = 1)
  BY <1>6 DEF LaunchedAs
<1>10. RowFor(p, r, i, b)
  BY <1>4, <1>5, <1>7, <1>8, <1>9 DEF RowFor, i
<1> QED
  BY <1>1, <1>10 DEF b, i

\* With two phases the batch in flight is the one the slots are those of.
LEMMA InFlightOnly ==
    ASSUME TurboEngineAssumption, Frame, Alive, pc # "collect"
    PROVE  /\ cfg.phases = 1 => Pipeline = <<>> /\ outbound = <<>>
           /\ cfg.phases = 2 => Len(Pipeline) = 1 /\ Pipeline # <<>> /\ Pipeline[1] = Newest
           /\ Len(outbound) \in {0, 1} /\ cfg.phases \in {1, 2}
           /\ Len(outbound) = 1 => outbound[1] = Newest /\ Pipeline # <<>> /\ outbound # <<>>
<1>1. /\ inbound \in Seq(Batches) /\ outbound \in Seq(Batches) /\ Pipeline \in Seq(Batches)
      /\ cfg.phases \in {1, 2} /\ Len(Pipeline) = cfg.phases - 1 /\ Len(Pipeline) = Len(inbound) + Len(outbound)
      /\ Len(inbound) \in Nat /\ Len(outbound) \in Nat
  BY PipelineOf DEF Frame
<1> DEFINE l == Len(Pipeline)
           m == Len(inbound)
           n == Len(outbound)
           c == cfg.phases
<1>6. /\ c = 1 => l = 0 /\ n = 0
      /\ c = 2 => l = 1
      /\ n \in {0, 1} /\ (n = 1 => m = 0 /\ l = 1)
  <2>1. c \in {1, 2} /\ l = c - 1 /\ l = m + n /\ m \in Nat /\ n \in Nat
    BY <1>1
  <2> HIDE DEF l, m, n, c
  <2> QED
    BY <2>1
<1>2. Len(outbound) = 1 => outbound[1] = Newest /\ Pipeline # <<>> /\ outbound # <<>>
  <2> SUFFICES ASSUME Len(outbound) = 1 PROVE outbound[1] = Newest /\ Pipeline # <<>> /\ outbound # <<>>
    OBVIOUS
  <2>1. Len(inbound) = 0 /\ Len(Pipeline) = 1
    BY <1>6
  <2>2. inbound = <<>>
    BY <1>1, <2>1
  <2>3. Pipeline = outbound
    BY <1>1, <2>2 DEF Pipeline
  <2>4. outbound # <<>>
    BY <1>1
  <2>5. Newest = Pipeline[1]
    BY <2>1 DEF Newest
  <2> QED
    BY <2>3, <2>4, <2>5
<1>3. cfg.phases = 1 => Pipeline = <<>> /\ outbound = <<>>
  <2> SUFFICES ASSUME cfg.phases = 1 PROVE Pipeline = <<>> /\ outbound = <<>>
    OBVIOUS
  <2>1. Len(Pipeline) = 0 /\ Len(outbound) = 0
    BY <1>6
  <2> QED
    BY <1>1, <2>1
<1>4. cfg.phases = 2 => Len(Pipeline) = 1 /\ Pipeline # <<>> /\ Pipeline[1] = Newest
  <2> SUFFICES ASSUME cfg.phases = 2 PROVE Len(Pipeline) = 1 /\ Pipeline # <<>> /\ Pipeline[1] = Newest
    OBVIOUS
  <2>1. Len(Pipeline) = 1
    BY <1>6
  <2>2. Pipeline # <<>>
    BY <2>1
  <2>3. Newest = Pipeline[1]
    BY <2>1 DEF Newest
  <2> QED
    BY <2>1, <2>2, <2>3
<1>5. Len(outbound) \in {0, 1}
  BY <1>6
<1> QED
  BY <1>1, <1>2, <1>3, <1>4, <1>5

LEMMA BeginOf ==
    ASSUME TurboEngineAssumption, Frame, Predicted, pc # "collect", NEW r \in Eligible
    PROVE  /\ Resume(r) \in Int /\ Begin(r) \in Int /\ Resume(r) >= 0 /\ Begin(r) >= 0
           /\ Reached(r) = seq[r].filled + seq[r].iin /\ Reached(r) \in Int /\ Reached(r) >= 0
           /\ seq[r].active => Resume(r) = seq[r].filled /\ Begin(r) = Reached(r)
           /\ ~seq[r].active => /\ Begin(r) = Resume(r) /\ Resume(r) <= Reusable(r) /\ Reusable(r) \in Int /\ Reusable(r) >= 0
                                /\ Reusable(r) = Lesser(held[r] * cfg.blockSize, Reached(r))
                                /\ Context(seq[r]) = seq[r].len
<1> DEFINE q == seq[r]
<1>0. Shapes /\ Places /\ r \in Reqs
  BY PresentFacts DEF Frame
<1>1. /\ q.len \in Int /\ q.filled \in Int /\ q.input \in Int /\ q.iin \in Int /\ q.inew \in Int /\ held[r] \in Nat
      /\ q.active \in BOOLEAN
  BY <1>0, SeqOfReq
<1>2. Reusable(r) \in Int /\ Resume(r) \in Int /\ Context(q) \in Int /\ Begin(r) \in Int
  BY <1>0, ResumeOf
<1>3. q.len >= 1 /\ q.filled >= 0 /\ q.iin >= 0 /\ q.inew >= 0
  BY DEF Predicted, Foreseen
<1>4. ~q.active => q.iin = 0 /\ q.inew = 0
  <2>1. cfg.phases \in {1, 2}
    BY <1>0, SetupFacts DEF IsSetup
  <2> QED
    BY <2>1 DEF Predicted, Foreseen
<1>5. Reached(r) = q.filled + q.iin /\ Reached(r) \in Int /\ Reached(r) >= 0
  BY <1>1, <1>3 DEF Reached, Newly
<1>6. Begin(r) = Resume(r) + q.iin
  BY DEF Begin
<1>7. CASE q.active
  <2>1. Resume(r) = q.filled
    BY <1>7 DEF Resume
  <2> QED
    BY <1>1, <1>2, <1>3, <1>5, <1>6, <1>7, <2>1
<1>8. CASE ~q.active
  <2> DEFINE bs == held[r] * cfg.blockSize
             least == Lesser(q.len, Context(q) - q.iin - 1)
  <2>1. bs \in Int /\ bs >= 0
    <3>1. cfg.blockSize \in Nat
      BY <1>0, SetupFacts DEF IsSetup
    <3>2. 0 * cfg.blockSize <= bs /\ bs \in Int
      BY <1>1, <3>1, TimesOf
    <3>3. 0 * cfg.blockSize = 0
      BY <3>1
    <3> QED
      BY <3>2, <3>3
  <2>2. Reusable(r) = Lesser(bs, q.filled)
    BY DEF Reusable
  <2>3. Resume(r) = Lesser(Reusable(r), least)
    BY <1>8 DEF Resume
  <2>4. Context(q) = q.len
    BY <1>1, <1>4, <1>8 DEF Context
  <2>5. Reached(r) = q.filled
    BY <1>1, <1>4, <1>5, <1>8
  <2> HIDE DEF bs
  <2>6. Reusable(r) >= 0
    BY <1>1, <1>3, <2>1, <2>2, LesserOf
  <2>7. least \in Int /\ least >= 0
    <3>1. Context(q) - q.iin - 1 = q.len - 1
      BY <1>1, <1>4, <1>8, <2>4
    <3>2. least = Lesser(q.len, q.len - 1)
      BY <3>1
    <3> QED
      BY <1>1, <1>3, <3>2 DEF Lesser
  <2> HIDE DEF least
  <2>8. Resume(r) <= Reusable(r) /\ Resume(r) >= 0
    BY <1>2, <2>3, <2>6, <2>7, LesserOf
  <2>9. Begin(r) = Resume(r)
    BY <1>2, <1>4, <1>6, <1>8
  <2> QED
    BY <1>2, <1>5, <1>8, <2>2, <2>4, <2>5, <2>6, <2>8, <2>9 DEF bs
<1> QED
  BY <1>7, <1>8

\* How far the cache will be filled and how long the sequence will be, once
\* the new batch came back too.
LEMMA SubmitReaches ==
    ASSUME TurboEngineAssumption, Frame, Predicted, NEW p, Middle(p), PlanInv(Cardinality(Eligible), p), NEW r \in Eligible
    PROVE  /\ r \in DOMAIN p.ends => /\ Reached(r)' = p.ends[r] /\ p.ends[r] \in Int /\ Begin(r) < p.ends[r]
                                     /\ seq'[r].gen => Reached(r)' = Lasting(r)' - 1
           /\ r \notin DOMAIN p.ends => Reached(r)' = Reached(r)
<1> DEFINE q == seq[r]
           l == seq'[r]
<1>0. Shapes /\ Places /\ r \in Reqs /\ pc = "submit" /\ pc' = "collect"
  BY PresentFacts DEF Frame, Middle
<1>1. LaunchedAs(r, p, l)
  BY DEF Middle
<1>2. /\ q.len \in Int /\ q.filled \in Int /\ q.iin \in Int /\ q.inew \in Int
  BY <1>0, SeqOfReq
<1>3. Resume(r) \in Int /\ Begin(r) \in Int /\ Begin(r) = Resume(r) + q.iin /\ Reached(r) = q.filled + q.iin
  BY <1>0, BeginOf DEF Begin
<1> DEFINE reach == l.filled + l.iin + (IF pc' = "collect" /\ l.active THEN l.input ELSE 0)
           last == l.len + l.inew + (IF (pc' = "collect" /\ l.active) /\ l.gen THEN 1 ELSE 0)
<1>4. Reached(r)' = reach /\ Lasting(r)' = last
  BY DEF Reached, Lasting, Newly, Context
<1> HIDE DEF l
<1>5. CASE r \in DOMAIN p.ends
  <2>1. p.ends[r] \in Int /\ Begin(r) < p.ends[r]
    BY <1>5 DEF PlanInv, PlanShape
  <2>2. l.filled = Resume(r) /\ l.iin = q.iin /\ l.input = p.ends[r] - Begin(r) /\ l.active
    BY <1>1, <1>5 DEF LaunchedAs
  <2>3. reach = p.ends[r]
    BY <1>0, <1>2, <1>3, <2>1, <2>2
  <2>4. l.gen => p.ends[r] = q.len + q.inew
    BY <1>1, <1>5 DEF LaunchedAs, Context
  <2>5. l.len = q.len /\ l.inew = q.inew
    BY <1>1 DEF LaunchedAs
  <2>6. l.gen => last = q.len + q.inew + 1
    BY <1>0, <2>2, <2>5
  <2>7. l.gen => reach = last - 1
    BY <1>2, <2>1, <2>3, <2>4, <2>6
  <2> HIDE DEF reach, last
  <2>8. Reached(r)' = p.ends[r] /\ (l.gen => Reached(r)' = Lasting(r)' - 1)
    BY <1>4, <2>3, <2>7
  <2> QED
    BY <1>5, <2>1, <2>8 DEF l
<1>6. CASE r \notin DOMAIN p.ends
  <2>1. ~l.active /\ l.filled = q.filled /\ l.iin = q.iin
    BY <1>1, <1>6 DEF LaunchedAs
  <2>2. reach = q.filled + q.iin
    BY <1>2, <2>1
  <2> QED
    BY <1>3, <1>4, <1>6, <2>2
<1> QED
  BY <1>5, <1>6

LEMMA SubmitPredicted ==
    ASSUME TurboEngineAssumption, Frame, Alive, Predicted, SubmitBatch
    PROVE  Predicted'
<1>0. Shapes /\ Places /\ Chained
  BY DEF Frame
<1>1. PICK p \in Plans : Middle(p)
  BY MiddleOf
<1>2. /\ PlanInv(Cardinality(Eligible), p) /\ PlanShape(p) /\ Ordered(Turn(p), Rescheduled(p), p.ends)
      /\ slots' = Turn(p) /\ nactive' = Cardinality(DOMAIN p.ends) /\ nswapout' = Cardinality(Swapped(p.ends))
      /\ pc = "submit" /\ pc' = "collect" /\ Eligible' \subseteq Eligible /\ cfg' = cfg
      /\ BatchOf(p) \in Batches /\ outbound' = Append(outbound, BatchOf(p)) /\ inbound' = inbound
  BY <1>1 DEF Middle, Sent, IsBatchOf
<1>3. nactive' <= Len(slots')
  BY <1>2 DEF Ordered
<1>4. ASSUME NEW r \in Eligible PROVE Foreseen(r)'
  <2> DEFINE q == seq[r]
             l == seq'[r]
             i == Place(slots', r)
             o == Place(slots, r)
  <2>0. r \in Present /\ r \in Reqs
    BY <1>0, PresentFacts
  <2>1. LaunchedAs(r, p, l) /\ Foreseen(r)
    BY <1>1 DEF Middle, Predicted
  <2>2. i \in DOMAIN Turn(p) /\ Turn(p)[i] = r /\ perm'[i] = o
    BY <1>1, <2>0 DEF Middle
  <2>3. /\ q.len \in Int /\ q.filled \in Int /\ q.input \in Int /\ q.iin \in Int /\ q.inew \in Int
        /\ q.active \in BOOLEAN /\ q.gen \in BOOLEAN
    BY <1>0, <2>0, SeqOfReq
  <2>4. /\ i <= nactive' <=> r \in DOMAIN p.ends
        /\ i > nactive' + nswapout' => r \notin DOMAIN p.ends /\ ~q.active
    <3> DEFINE d == Cardinality(DOMAIN p.ends)
               w == Cardinality(Swapped(p.ends))
               n == Cardinality(Present)
    <3>1. /\ i \in 1..n /\ n \in Nat /\ d \in Nat /\ w \in Nat
          /\ i <= d <=> r \in DOMAIN p.ends
          /\ i \in d + 1 .. d + w <=> r \in Swapped(p.ends)
      BY <1>2, <2>2 DEF Ordered
    <3> HIDE DEF d, w, n, i
    <3>2. i > d + w => ~(i <= d) /\ ~(i \in d + 1 .. d + w)
      BY <3>1
    <3>3. r \notin DOMAIN p.ends /\ r \notin Swapped(p.ends) => ~q.active
      BY DEF Swapped
    <3> QED
      BY <1>2, <3>1, <3>2, <3>3 DEF d, w
  <2>5. l.active <=> r \in DOMAIN p.ends
    BY <2>1 DEF LaunchedAs
  <2>6. l.len = q.len /\ l.iin = q.iin /\ l.inew = q.inew
    BY <2>1 DEF LaunchedAs
  <2>7. Resume(r) \in Int /\ Begin(r) \in Int /\ Resume(r) >= 0
    BY <1>2, BeginOf
  <2>8. /\ r \in DOMAIN p.ends => /\ Reached(r)' = p.ends[r] /\ p.ends[r] \in Int /\ Begin(r) < p.ends[r]
                                  /\ l.gen => Reached(r)' = Lasting(r)' - 1
        /\ r \notin DOMAIN p.ends => Reached(r)' = Reached(r)
    BY <1>1, <1>2, SubmitReaches
  <2> HIDE DEF l, i, o
  <2>9. q.len >= 1 /\ q.filled >= 0 /\ q.iin >= 0 /\ q.inew >= 0
    BY <2>1 DEF Foreseen
  <2>10. l.len >= 1 /\ l.filled >= 0 /\ l.iin >= 0 /\ l.inew >= 0 /\ l.input >= 0
    BY <2>1, <2>3, <2>6, <2>7, <2>8, <2>9 DEF LaunchedAs
  <2>11. cfg.phases = 1 => l.iin = 0 /\ l.inew = 0
    BY <2>1, <2>6 DEF Foreseen
  <2>12. ASSUME cfg.phases = 2, i > nactive' + nswapout' PROVE l.iin = 0 /\ l.inew = 0
    BY <1>2, <2>1, <2>4, <2>6, <2>12 DEF Foreseen
  <2>13. ASSUME cfg.phases = 2 PROVE Foretold(r)'
    <3> DEFINE b == Pipeline[1]
    <3>1. Pipeline # <<>> /\ Pipeline[1] = Newest /\ Len(Pipeline) = 1
      BY <1>2, <2>13, InFlightOnly
    <3>2. DOMAIN b.rows = 1..nactive /\ (o <= nactive <=> o \in DOMAIN b.rows)
      BY <3>1, NewestAt DEF o
    <3>3. Pipeline'[1] = b
      <4>1. Pipeline' = Append(Pipeline, BatchOf(p)) /\ \A k \in DOMAIN Pipeline : Pipeline'[k] = Pipeline[k]
        BY <1>0, <1>2, PipelineGrows
      <4>2. 1 \in DOMAIN Pipeline
        BY <1>0, <3>1, PipelineOf
      <4> QED
        BY <4>1, <4>2
    <3>4. RowOf(Place(slots, r))' = o
      <4>1. RowOf(Place(slots, r))' = (IF cfg'.phases > 1 THEN perm'[i] ELSE i)
        BY DEF RowOf, i
      <4> QED
        BY <1>2, <2>2, <2>13, <4>1
    <3>5. o <= nactive <=> q.active
      BY <2>1 DEF Foreseen, o
    <3>6. q.active => /\ b.rows[o].end = q.filled + q.iin /\ q.inew = (IF b.rows[o].gen THEN 1 ELSE 0)
                      /\ b.rows[o].gen => b.rows[o].end = q.len
      <4> SUFFICES ASSUME q.active
                   PROVE  /\ b.rows[o].end = q.filled + q.iin /\ q.inew = (IF b.rows[o].gen THEN 1 ELSE 0)
                          /\ b.rows[o].gen => b.rows[o].end = q.len
        OBVIOUS
      <4>1. b.rows[o].end = Reached(r) /\ b.rows[o].gen = q.gen
        BY <2>1, <3>1 DEF Foreseen, o
      <4>2. Reached(r) = q.filled + q.iin
        BY <1>2, BeginOf
      <4>3. q.inew = (IF q.gen THEN 1 ELSE 0)
        BY <1>2, <2>1, <2>13 DEF Foreseen
      <4>6. Lasting(r) = q.len + q.inew
        BY <1>2, <2>3 DEF Lasting, Newly, Context
      <4>4. q.gen => Reached(r) = Lasting(r) - 1
        BY <2>1 DEF Foreseen
      <4>5. q.gen => Reached(r) = q.len
        BY <2>3, <4>3, <4>4, <4>6
      <4> QED
        BY <4>1, <4>2, <4>3, <4>5
    <3>7. ~q.active => q.iin = 0 /\ q.inew = 0
      BY <1>2, <2>1, <2>13 DEF Foreseen
    <3>8. l.filled = q.filled \/ ~q.active
      <4>1. q.active => Resume(r) = q.filled
        BY <1>2, BeginOf
      <4> QED
        BY <2>1, <4>1 DEF LaunchedAs
    <3> HIDE DEF q
    <3>9. IF o \in DOMAIN b.rows
          THEN b.rows[o].end = l.filled + l.iin /\ l.inew = (IF b.rows[o].gen THEN 1 ELSE 0) /\ (b.rows[o].gen => b.rows[o].end = l.len)
          ELSE l.iin = 0 /\ l.inew = 0
      BY <2>6, <3>2, <3>5, <3>6, <3>7, <3>8
    <3>10. IF o \in DOMAIN Pipeline'[1].rows
           THEN /\ Pipeline'[1].rows[o].end = l.filled + l.iin /\ l.inew = (IF Pipeline'[1].rows[o].gen THEN 1 ELSE 0)
                /\ (Pipeline'[1].rows[o].gen => Pipeline'[1].rows[o].end = l.len)
           ELSE l.iin = 0 /\ l.inew = 0
      BY <3>3, <3>9
    <3>11. Place(slots, r)' = i
      BY DEF i
    <3> QED
      BY <3>4, <3>10, <3>11 DEF Foretold, In, l
  <2>14. ASSUME l.active PROVE Newest'.rows[i].end = Reached(r)' /\ Newest'.rows[i].gen = l.gen
    <3>1. r \in DOMAIN p.ends
      BY <2>5, <2>14
    <3>2. Newest' = BatchOf(p)
      BY <1>0, <1>2, PipelineGrows
    <3>3. RowFor(p, r, i, BatchOf(p))
      BY <1>1, <3>1, RowForOf DEF i
    <3>4. l.gen = (p.ends[r] = Context(seq[r]))
      BY <2>1, <3>1 DEF LaunchedAs
    <3> QED
      BY <2>8, <3>1, <3>2, <3>3, <3>4 DEF RowFor
  <2>15. Place(slots, r)' = i
    BY DEF i
  <2>16. l.active /\ l.gen => Reached(r)' = Lasting(r)' - 1
    BY <2>5, <2>8
  <2>17. l.active <=> i <= nactive'
    BY <2>4, <2>5
  <2> QED
    BY <1>2, <2>10, <2>11, <2>12, <2>13, <2>14, <2>15, <2>16, <2>17 DEF Foreseen, l
<1> QED
  BY <1>2, <1>3, <1>4 DEF Predicted

---------------------------------------------------------------------------
(* SubmitBatch on the memory: the new batch finds what its rows read. *)

LEMMA NamedIs ==
    ASSUME NEW b, NEW i \in DOMAIN b.rows, \A j \in DOMAIN b.rows : b.rows[j].req = b.rows[i].req => j = i
    PROVE  Names(b, b.rows[i].req) /\ NamedAt(b, b.rows[i].req) = i
<1>1. Names(b, b.rows[i].req)
  BY DEF Names
<1> DEFINE n == NamedAt(b, b.rows[i].req)
<1>2. n \in DOMAIN b.rows /\ b.rows[n].req = b.rows[i].req
  BY DEF NamedAt
<1> QED
  BY <1>1, <1>2

\* The rows that sample come first.
LEMMA SortedOf ==
    ASSUME TurboEngineAssumption, NEW p, Middle(p)
    PROVE  Sorted(BatchOf(p))
<1> DEFINE b == BatchOf(p)
           t == Turn(p)
           D == DOMAIN p.ends
           G == Samplers(Rescheduled(p), p.ends)
           d == Cardinality(D)
           g == Cardinality(G)
           n == Cardinality(Present)
           J == {j \in DOMAIN b.rows : b.rows[j].gen}
<1>0. Shapes /\ Places /\ PlanShape(p)
  BY DEF Middle
<1>1. IsBatchOf(b, p) /\ Ordered(t, Rescheduled(p), p.ends)
  BY DEF Middle, Sent
<1>2. /\ n \in Nat /\ d \in Nat /\ d <= n /\ g \in Nat /\ DOMAIN t = 1..n
      /\ \A i, j \in 1..n : t[i] = t[j] => i = j
      /\ \A i \in 1..n : i <= d <=> t[i] \in D
      /\ \A i \in 1..n : i <= g <=> t[i] \in G
  BY <1>1 DEF Ordered
<1>3. DOMAIN b.rows = 1..d /\ \A i \in DOMAIN b.rows : i \in DOMAIN t /\ b.rows[i] = Row(t[i], Rescheduled(p)[t[i]], p)
  BY <1>1 DEF IsBatchOf
<1>4. g <= n /\ G \subseteq D
  <2>1. G \subseteq D /\ D \subseteq Present /\ IsFiniteSet(Present)
    BY <1>0, PresentFacts DEF Samplers, PlanShape
  <2> HIDE DEF G, D
  <2>2. G \subseteq Present
    BY <2>1
  <2> QED
    BY <2>1, <2>2, FS_Subset
<1> HIDE DEF b, t, d, g, n
<1>5. \A i \in DOMAIN b.rows : b.rows[i].gen <=> t[i] \in G
  <2> TAKE i \in DOMAIN b.rows
  <2>1. b.rows[i].gen = Rescheduled(p)[t[i]].gen
    <3>1. b.rows[i] = Row(t[i], Rescheduled(p)[t[i]], p)
      BY <1>3
    <3> QED
      BY <3>1 DEF Row
  <2>2. t[i] \in D
    BY <1>2, <1>3
  <2>3. t[i] \in G <=> Rescheduled(p)[t[i]].gen
    BY <2>2 DEF Samplers
  <2>4. Rescheduled(p)[t[i]].gen \in BOOLEAN
    <3>1. t[i] \in Reqs
      BY <1>3 DEF Middle, t
    <3>2. Rescheduled(p)[t[i]] \in SeqRecords
      BY <1>0, <3>1, ScheduledOf
    <3> QED
      BY <3>2 DEF SeqRecords
  <2> QED
    BY <2>1, <2>3, <2>4
<1> HIDE DEF G, D
<1>6. J = 1..g
  <2>1. J = {j \in 1..d : t[j] \in G}
    BY <1>3, <1>5
  <2>2. \A j \in 1..n : j <= g => j <= d
    BY <1>2, <1>4
  <2>3. \A j \in 1..g : j \in 1..n /\ j <= g
    BY <1>2, <1>4
  <2>4. \A j \in 1..d : j \in 1..n
    BY <1>2
  <2> QED
    BY <1>2, <2>1, <2>2, <2>3, <2>4
<1>7. Cardinality(J) = g
  <2> HIDE DEF J
  <2> QED
    BY <1>2, <1>6, FS_Interval
<1>8. \A i \in DOMAIN b.rows : b.rows[i].gen <=> i <= Cardinality({j \in DOMAIN b.rows : b.rows[j].gen})
  <2>1. \A i \in DOMAIN b.rows : i <= g <=> t[i] \in G
    BY <1>2, <1>3
  <2> QED
    BY <1>5, <1>7, <2>1
<1>9. \A i, j \in DOMAIN b.rows : b.rows[i].req = b.rows[j].req => i = j
  <2>1. \A i \in DOMAIN b.rows : b.rows[i].req = t[i] /\ i \in 1..n
    <3> TAKE i \in DOMAIN b.rows
    <3>1. b.rows[i] = Row(t[i], Rescheduled(p)[t[i]], p)
      BY <1>3
    <3>2. b.rows[i].req = t[i]
      BY <3>1 DEF Row
    <3>3. i \in 1..n
      BY <1>2, <1>3
    <3> QED
      BY <3>2, <3>3
  <2> QED
    BY <1>2, <2>1
<1> QED
  BY <1>8, <1>9 DEF Sorted, b

\* The memory a row reads is held by the time its batch runs.
LEMMA RowHeld ==
    ASSUME TurboEngineAssumption, Frame, Predicted, pc # "collect", NEW r \in Eligible, Kept(r), Drained(r) \in Int,
           NEW p, PlanInv(Cardinality(Eligible), p), r \in DOMAIN p.ends
    PROVE  /\ p.holds[r] * cfg.blockSize \in Int /\ ReadOnly(r) * cfg.blockSize \in Int
           /\ 0 <= Begin(r) /\ Begin(r) <= Drained(r) /\ Begin(r) <= p.holds[r] * cfg.blockSize
           /\ ReadOnly(r) * cfg.blockSize <= Drained(r) /\ ReadOnly(r) * cfg.blockSize <= p.holds[r] * cfg.blockSize
<1> DEFINE q == seq[r]
           bs == cfg.blockSize
           room == p.holds[r] * bs
           had == held[r] * bs
           ro == ReadOnly(r) * bs
<1>0. Shapes /\ Places /\ r \in Reqs
  BY PresentFacts DEF Frame
<1>1. bs \in Nat \ {0} /\ held[r] \in Nat /\ p.holds[r] \in Nat /\ p.ends[r] \in Int /\ Context(q) \in Int
  BY <1>0, SetupFacts, SeqOfReq, ResumeOf DEF IsSetup, PlanInv, PlanShape
<1>2. /\ Begin(r) < p.ends[r] /\ p.ends[r] <= Context(q)
      /\ p.holds[r] >= Blocks(Context(q)) /\ p.holds[r] >= held[r]
  BY DEF PlanInv
<1>3. /\ Resume(r) \in Int /\ Begin(r) \in Int /\ Resume(r) >= 0 /\ Begin(r) >= 0 /\ Reached(r) \in Int /\ Reached(r) >= 0
      /\ q.active => Begin(r) = Reached(r)
      /\ ~q.active => /\ Begin(r) = Resume(r) /\ Resume(r) <= Reusable(r) /\ Reusable(r) \in Int /\ Reusable(r) >= 0
                      /\ Reusable(r) = Lesser(had, Reached(r))
  BY BeginOf
<1>4. room \in Int /\ Context(q) <= room /\ had <= room /\ had \in Int /\ room >= 0
  <2>1. Blocks(Context(q)) \in Int /\ Context(q) <= Blocks(Context(q)) * bs /\ Blocks(Context(q)) * bs \in Int
    BY <1>0, <1>1, BlocksOf
  <2>2. Blocks(Context(q)) * bs <= room /\ room \in Int
    BY <1>1, <1>2, <2>1, TimesOf
  <2>3. had <= room /\ had \in Int
    BY <1>1, <1>2, TimesOf
  <2>4. 0 * bs <= had /\ 0 * bs = 0
    BY <1>1, TimesOf
  <2> HIDE DEF room, had, bs
  <2> QED
    BY <1>1, <2>1, <2>2, <2>3, <2>4
<1>5. /\ q.active => ro = 0
      /\ ~q.active => ro \in Int /\ ro <= Reusable(r)
  <2>1. CASE q.active
    <3>1. ReadOnly(r) = 0
      BY <2>1 DEF ReadOnly
    <3> QED
      BY <1>1, <2>1, <3>1
  <2>2. CASE ~q.active
    <3>1. ReadOnly(r) = Reusable(r) \div bs
      BY <2>2 DEF ReadOnly
    <3>2. Reusable(r) \div bs \in Int /\ bs * (Reusable(r) \div bs) <= Reusable(r)
      BY <1>1, <1>3, <2>2, DivOf
    <3>3. (Reusable(r) \div bs) * bs = bs * (Reusable(r) \div bs)
      BY <1>1, <3>2, TimesCommute
    <3>4. bs * (Reusable(r) \div bs) \in Int
      BY <1>1, <1>3, <2>2, DivOf
    <3> HIDE DEF bs
    <3>5. ro = bs * (Reusable(r) \div bs)
      BY <3>1, <3>3
    <3> QED
      BY <2>2, <3>2, <3>4, <3>5
  <2> QED
    BY <2>1, <2>2
<1>6. Drained(r) >= IF q.active THEN Reached(r) ELSE Lesser(had, Reached(r))
  BY DEF Kept
<1> HIDE DEF room, had, ro
<1>7. CASE q.active
  <2>1. 0 <= Begin(r) /\ Begin(r) <= Drained(r) /\ Begin(r) <= room
    BY <1>1, <1>2, <1>3, <1>4, <1>6, <1>7
  <2>2. ro \in Int /\ ro <= Drained(r) /\ ro <= room
    BY <1>3, <1>4, <1>5, <1>6, <1>7
  <2> QED
    BY <1>4, <2>1, <2>2 DEF room, ro
<1>8. CASE ~q.active
  <2>1. Reusable(r) <= Drained(r) /\ Reusable(r) <= had
    BY <1>3, <1>4, <1>6, <1>8, LesserOf
  <2>2. 0 <= Begin(r) /\ Begin(r) <= Drained(r) /\ Begin(r) <= room
    BY <1>1, <1>2, <1>3, <1>4, <1>8, <2>1
  <2>3. ro \in Int /\ ro <= Drained(r) /\ ro <= room
    BY <1>3, <1>4, <1>5, <1>8, <2>1
  <2> QED
    BY <1>4, <2>2, <2>3 DEF room, ro
<1> QED
  BY <1>1, <1>7, <1>8

LEMMA LastsOf ==
    ASSUME TurboEngineAssumption, Shapes, NEW b \in Batches, NEW k \in Int, NEW r \in Reqs
    PROVE  /\ Lasts(b, k, r) \in Int /\ b.kept[r] * cfg.blockSize \in Int /\ b.kept[r] * cfg.blockSize >= 0
           /\ Names(b, r) => NamedAt(b, r) \in DOMAIN b.rows /\ b.rows[NamedAt(b, r)].req = r
                             /\ Lasts(b, k, r) = b.rows[NamedAt(b, r)].end
           /\ ~Names(b, r) => Lasts(b, k, r) = Lesser(k, b.kept[r] * cfg.blockSize)
<1>1. cfg.blockSize \in Nat /\ b.kept[r] \in Nat
  BY SetupFacts, BatchFields DEF IsSetup
<1>2. b.kept[r] * cfg.blockSize \in Int /\ 0 * cfg.blockSize <= b.kept[r] * cfg.blockSize /\ 0 * cfg.blockSize = 0
  BY <1>1, TimesOf
<1>3. b.kept[r] * cfg.blockSize \in Int /\ b.kept[r] * cfg.blockSize >= 0
  BY <1>2
<1>4. Names(b, r) => NamedAt(b, r) \in DOMAIN b.rows /\ b.rows[NamedAt(b, r)].req = r
  BY DEF Names, NamedAt
<1>5. Names(b, r) => Lasts(b, k, r) = b.rows[NamedAt(b, r)].end /\ Lasts(b, k, r) \in Int
  <2>1. Names(b, r) => b.rows[NamedAt(b, r)].end \in Int
    BY <1>4, BatchFields
  <2> QED
    BY <2>1 DEF Lasts
<1>6. ~Names(b, r) => Lasts(b, k, r) = Lesser(k, b.kept[r] * cfg.blockSize) /\ Lasts(b, k, r) \in Int
  BY <1>3, LesserOf DEF Lasts
<1> QED
  BY <1>3, <1>4, <1>5, <1>6

\* Drained, by the number of batches that are still to run.
LEMMA DrainedOf ==
    ASSUME TurboEngineAssumption, Frame, NEW r \in Reqs
    PROVE  /\ Len(outbound) \in {0, 1, 2} /\ kv[r] \in Int /\ Drained(r) \in Int
           /\ Len(outbound) = 0 => outbound = <<>> /\ Drained(r) = kv[r]
           /\ Len(outbound) = 1 => outbound[1] \in Batches /\ Drained(r) = Lasts(outbound[1], kv[r], r)
           /\ Len(outbound) = 2 => /\ outbound[1] \in Batches /\ outbound[2] \in Batches
                                   /\ Lasts(outbound[1], kv[r], r) \in Int
                                   /\ Drained(r) = Lasts(outbound[2], Lasts(outbound[1], kv[r], r), r)
<1>0. Shapes /\ Chained
  BY DEF Frame
<1>1. /\ inbound \in Seq(Batches) /\ outbound \in Seq(Batches)
      /\ cfg.phases \in {1, 2} /\ Len(Pipeline) = cfg.phases - (IF pc = "collect" THEN 0 ELSE 1)
      /\ Len(Pipeline) = Len(inbound) + Len(outbound) /\ Len(inbound) \in Nat /\ Len(outbound) \in Nat
  BY <1>0, PipelineOf
<1>2. Len(outbound) \in {0, 1, 2}
  <2> DEFINE l == Len(Pipeline)
             m == Len(inbound)
             n == Len(outbound)
             c == cfg.phases
  <2>1. c \in {1, 2} /\ l = c - (IF pc = "collect" THEN 0 ELSE 1) /\ l = m + n /\ m \in Nat /\ n \in Nat
    BY <1>1
  <2> HIDE DEF l, m, n, c
  <2>2. n \in {0, 1, 2}
    BY <2>1
  <2> QED
    BY <2>2 DEF n
<1>3. kv[r] \in Int
  BY <1>0 DEF Shapes
<1>4. Len(outbound) = 0 => outbound = <<>> /\ Drained(r) = kv[r]
  <2>1. Len(outbound) = 0 => outbound = <<>>
    BY <1>1
  <2> QED
    BY <2>1 DEF Drained
<1>5. Len(outbound) # 0 => outbound # <<>>
  OBVIOUS
<1>6. Len(outbound) = 1 => outbound[1] \in Batches /\ Drained(r) = Lasts(outbound[1], kv[r], r)
  <2> SUFFICES ASSUME Len(outbound) = 1 PROVE outbound[1] \in Batches /\ Drained(r) = Lasts(outbound[1], kv[r], r)
    OBVIOUS
  <2>1. 1 \in DOMAIN outbound
    BY <1>1
  <2>2. outbound[1] \in Batches
    BY <1>1, <2>1, ElementOf
  <2>3. Drained(r) = Lasts(outbound[1], Before(1, r), r)
    BY <1>5 DEF Drained
  <2> QED
    BY <2>2, <2>3 DEF Before
<1>7. Len(outbound) = 2 => /\ outbound[1] \in Batches /\ outbound[2] \in Batches
                           /\ Lasts(outbound[1], kv[r], r) \in Int
                           /\ Drained(r) = Lasts(outbound[2], Lasts(outbound[1], kv[r], r), r)
  <2> SUFFICES ASSUME Len(outbound) = 2
               PROVE  /\ outbound[1] \in Batches /\ outbound[2] \in Batches
                      /\ Lasts(outbound[1], kv[r], r) \in Int
                      /\ Drained(r) = Lasts(outbound[2], Lasts(outbound[1], kv[r], r), r)
    OBVIOUS
  <2>1. 1 \in DOMAIN outbound /\ 2 \in DOMAIN outbound
    BY <1>1
  <2>2. outbound[1] \in Batches /\ outbound[2] \in Batches
    BY <1>1, <2>1, ElementOf
  <2>3. Drained(r) = Lasts(outbound[2], Before(2, r), r)
    BY <1>5 DEF Drained
  <2>4. Before(2, r) = Lasts(outbound[1], kv[r], r)
    BY DEF Before
  <2>5. Lasts(outbound[1], kv[r], r) \in Int
    BY <1>0, <1>3, <2>2, LastsOf
  <2> QED
    BY <2>2, <2>3, <2>4, <2>5
<1>8. Drained(r) \in Int
  BY <1>0, <1>2, <1>3, <1>4, <1>6, <1>7, LastsOf
<1> QED
  BY <1>2, <1>3, <1>4, <1>6, <1>7, <1>8

\* The new batch is the k-th to run.
NextInLine(r, k, b) ==
    /\ DOMAIN outbound = 1..k - 1 /\ DOMAIN outbound' = 1..k /\ outbound'[k] = b
    /\ \A j \in 1..k - 1 : outbound'[j] = outbound[j]
    /\ Before(k, r)' = Drained(r) /\ Drained(r)' = Lasts(b, Drained(r), r) /\ Drained(r) \in Int
LEMMA NextInLineOf ==
    ASSUME TurboEngineAssumption, Frame, Alive, NEW p, Middle(p), NEW k \in {1, 2}, k = Len(outbound) + 1,
           NEW b, b = BatchOf(p), NEW r \in Reqs
    PROVE  NextInLine(r, k, b)
<1>0. /\ outbound' = Append(outbound, b) /\ b \in Batches /\ cfg' = cfg /\ kv' = kv /\ outbound \in Seq(Batches)
  BY DEF Middle, Sent, IsBatchOf, Shapes
<1>1. /\ Append(outbound, b) \in Seq(Batches) /\ Len(Append(outbound, b)) = Len(outbound) + 1
      /\ \A i \in DOMAIN outbound : Append(outbound, b)[i] = outbound[i]
      /\ Append(outbound, b)[Len(outbound) + 1] = b
  BY <1>0, AppendOf
<1>2. DOMAIN outbound = 1..Len(outbound) /\ Len(outbound) \in Nat
  BY <1>0, ElementOf
<1> DEFINE q == outbound'
           n == Len(outbound)
<1>3. q \in Seq(Batches) /\ Len(q) = k /\ q[k] = b /\ DOMAIN q = 1..Len(q) /\ \A j \in DOMAIN outbound : q[j] = outbound[j]
  BY <1>0, <1>1, ElementOf
<1>4. n = k - 1
  <2> HIDE DEF n
  <2>1. n \in Nat /\ k = n + 1
    BY <1>2 DEF n
  <2> QED
    BY <2>1
<1> HIDE DEF q
<1>5. DOMAIN outbound = 1..k - 1 /\ DOMAIN q = 1..k /\ \A j \in 1..k - 1 : q[j] = outbound[j]
  BY <1>2, <1>3, <1>4
<1>6. \A a, m : Lasts(a, m, r)' = Lasts(a, m, r)
  BY <1>0 DEF Lasts, Names, NamedAt
<1>7. /\ n = 0 => Drained(r) = kv[r]
      /\ n = 1 => Drained(r) = Lasts(outbound[1], kv[r], r)
      /\ Drained(r) \in Int
  BY DrainedOf
<1>8. Before(k, r)' = Drained(r)
  <2>1. CASE k = 1
    <3>1. n = 0
      BY <1>4, <2>1
    <3> QED
      BY <1>0, <1>7, <2>1, <3>1 DEF Before
  <2>2. CASE k = 2
    <3>1. n = 1 /\ outbound'[1] = outbound[1]
      BY <1>4, <1>5, <2>2 DEF q
    <3>2. Before(k, r)' = Lasts(outbound[1], kv[r], r)
      BY <1>0, <2>2, <3>1 DEF Before, Lasts, Names, NamedAt
    <3> QED
      BY <1>7, <3>1, <3>2
  <2> QED
    BY <2>1, <2>2
<1>9. Drained(r)' = Lasts(b, Drained(r), r)
  <2>1. q # <<>> /\ Len(q) = k /\ q[k] = b
    <3>1. Len(q) = k /\ q[k] = b /\ k # 0
      BY <1>3
    <3> QED
      BY <3>1
  <2>2. Drained(r)' = (IF outbound = <<>> THEN kv[r] ELSE Lasts(outbound[Len(outbound)], Before(Len(outbound), r), r))'
    BY DEF Drained
  <2>3. outbound' # <<>> /\ Len(outbound') = k /\ outbound'[k] = b
    BY <2>1 DEF q
  <2>4. Drained(r)' = Lasts(b, Before(k, r), r)'
    BY <2>2, <2>3 DEF Before, Lasts, Names, NamedAt
  <2>5. Lasts(b, Before(k, r), r)' = Lasts(b, Drained(r), r)
    BY <1>0, <1>8 DEF Lasts, Names, NamedAt
  <2> QED
    BY <2>4, <2>5
<1> QED
  BY <1>3, <1>5, <1>7, <1>8, <1>9 DEF NextInLine, q

\* A row of the new batch finds what it reads.
LEMMA SubmitFed ==
    ASSUME TurboEngineAssumption, Frame, Alive, Predicted, Filled, NEW p, Middle(p), PlanInv(Cardinality(Eligible), p),
           NEW k \in {1, 2}, k = Len(outbound) + 1, NEW b, b = BatchOf(p), NEW i \in DOMAIN b.rows
    PROVE  FedRow(k, b, i)'
<1>0. /\ Shapes /\ Places /\ cfg' = cfg /\ kv' = kv /\ dev' = dev /\ b \in Batches /\ pc = "submit" /\ pc # "collect"
  BY DEF Middle, Sent, IsBatchOf
<1>1. PICK r \in DOMAIN p.ends : i = Place(slots', r)
  <2>1. IsBatchOf(b, p)
    BY DEF Middle, Sent
  <2>2. i \in DOMAIN Turn(p) /\ Turn(p)[i] \in DOMAIN p.ends
    BY <2>1 DEF IsBatchOf
  <2> QED
    BY <2>2 DEF Middle
<1> DEFINE row == b.rows[i]
           q == seq[r]
           o == Place(slots, r)
<1>2. r \in Eligible /\ RowFor(p, r, i, b)
  BY <1>1, RowForOf
<1>3. r \in Reqs /\ r \in Present
  BY <1>0, <1>2, PresentFacts
<1>4. NextInLine(r, k, b)
  BY <1>3, NextInLineOf
<1>5. Before(k, r)' = Drained(r) /\ Drained(r) \in Int
  BY <1>4 DEF NextInLine
<1>6. Foreseen(r) /\ Kept(r) /\ Ready(r)
  BY <1>2 DEF Predicted, Filled
<1>7. /\ p.holds[r] * cfg.blockSize \in Int /\ ReadOnly(r) * cfg.blockSize \in Int
      /\ 0 <= Begin(r) /\ Begin(r) <= Drained(r) /\ Begin(r) <= p.holds[r] * cfg.blockSize
      /\ ReadOnly(r) * cfg.blockSize <= Drained(r) /\ ReadOnly(r) * cfg.blockSize <= p.holds[r] * cfg.blockSize
  BY <1>0, <1>1, <1>2, <1>5, <1>6, RowHeld
<1>8. /\ Begin(r) \in Int /\ p.ends[r] \in Int /\ Begin(r) < p.ends[r] /\ p.ends[r] <= Context(q) /\ Context(q) \in Int
      /\ Reached(r) \in Int
      /\ q.active => Begin(r) = Reached(r)
  BY <1>0, <1>1, <1>2, <1>3, BeginOf, ResumeOf DEF PlanInv, PlanShape
<1>9. /\ row.req = r /\ row.end = p.ends[r] /\ row.input = p.ends[r] - Begin(r)
      /\ row.known = (p.ends[r] <= q.len)
      /\ row.auto = (q.active /\ q.gen /\ p.ends[r] - Begin(r) = 1)
      /\ row.readonly = ReadOnly(r) * cfg.blockSize /\ b.perm[i] = o /\ b.kept = p.holds /\ b.bs0 = nactive
  BY <1>2 DEF RowFor
<1>10. row.end - row.input = Begin(r) /\ row.input >= 1
  BY <1>8, <1>9
<1>11. /\ q.len \in Int /\ q.filled \in Int /\ q.iin \in Int /\ q.inew \in Int
       /\ q.active \in BOOLEAN /\ q.gen \in BOOLEAN
  BY <1>0, <1>3, SeqOfReq
\* A sequence that was generating samples its next token.
<1>12. q.active /\ q.gen => Context(q) = Reached(r) + 1
  <2> SUFFICES ASSUME q.active, q.gen PROVE Context(q) = Reached(r) + 1
    OBVIOUS
  <2>1. Reached(r) = Lasting(r) - 1
    BY <1>6 DEF Foreseen
  <2>2. Lasting(r) = Context(q) + 0
    BY <1>0 DEF Lasting, Newly
  <2> QED
    BY <1>8, <2>1, <2>2
<1>13. ~(q.active /\ q.gen) => Context(q) = q.len
  <2>1. q.inew = 0 \/ (q.active /\ q.gen)
    <3>1. cfg.phases \in {1, 2}
      BY <1>0, SetupFacts DEF IsSetup
    <3> QED
      BY <1>0, <1>6, <3>1 DEF Foreseen
  <2> QED
    BY <1>11, <2>1 DEF Context
<1>14. CASE q.active /\ q.gen
  <2>1. p.ends[r] = Begin(r) + 1 /\ Begin(r) = Reached(r)
    BY <1>8, <1>12, <1>14
  <2>2. row.auto /\ row.input = 1
    <3>1. p.ends[r] - Begin(r) = 1
      BY <1>8, <2>1
    <3>2. row.input = 1
      BY <1>9, <3>1
    <3>3. row.auto
      BY <1>9, <1>14, <3>1, Zenon
    <3> QED
      BY <3>2, <3>3
  <2>3. Carried(b, i)
    BY <1>6, <1>9, <1>14 DEF Foreseen, Carried
  <2>4. ASSUME k = 1 PROVE dev'[o].len = row.end /\ dev'[o].tok = Right(row.req, row.end - 1)
    <3>1. outbound = <<>>
      <4>1. DOMAIN outbound = 1..k - 1
        BY <1>4 DEF NextInLine
      <4>2. Len(outbound) = 0
        BY <1>0, <2>4, <4>1, DrainedOf
      <4> QED
        BY <1>3, <4>2, DrainedOf
    <3>2. dev[o].len = Reached(r) + 1 /\ dev[o].tok = Right(r, Reached(r))
      BY <1>6, <1>14, <3>1 DEF Ready
    <3>3. row.end = Reached(r) + 1 /\ row.end - 1 = Reached(r)
      BY <1>8, <1>9, <2>1
    <3> QED
      BY <1>0, <1>9, <3>2, <3>3
  <2>5. ASSUME k # 1 PROVE outbound'[1].rows[o].req = row.req /\ outbound'[1].rows[o].gen /\ outbound'[1].rows[o].end = row.end - 1
    <3>1. k = 2
      BY <2>5
    <3>2. outbound'[1] = outbound[1]
      BY <1>4, <3>1 DEF NextInLine
    <3>3. outbound[1] = Newest /\ Pipeline # <<>>
      <4>1. Len(outbound) = 1
        BY <1>3, <3>1, DrainedOf
      <4> QED
        BY <1>0, <4>1, InFlightOnly
    <3>4. o <= nactive /\ Newest.rows[o].end = Reached(r) /\ Newest.rows[o].gen
      BY <1>6, <1>14, <3>3 DEF Foreseen
    <3>5. Newest.rows[o].req = r
      BY <1>2, <3>3, <3>4, NewestAt
    <3>6. row.end - 1 = Reached(r)
      BY <1>8, <1>9, <2>1
    <3> QED
      BY <1>9, <3>2, <3>3, <3>4, <3>5, <3>6
  <2> HIDE DEF o
  <2>6. GoesOn(k, b, i)'
    BY <1>9, <2>2, <2>3, <2>4, <2>5 DEF GoesOn, Carried
  <2> QED
    BY <1>0, <1>5, <1>7, <1>9, <1>10, <2>2, <2>6 DEF FedRow
<1>15. CASE ~(q.active /\ q.gen)
  <2>1. row.known
    BY <1>8, <1>9, <1>13, <1>15
  <2>2. ~row.auto
    BY <1>9, <1>15
  <2> QED
    BY <1>0, <1>5, <1>7, <1>9, <1>10, <2>1, <2>2 DEF FedRow
<1> QED
  BY <1>14, <1>15

\* Once the new batch ran too, the memory holds what the sequence counts on.
LEMMA SubmitKept ==
    ASSUME TurboEngineAssumption, Frame, Alive, Predicted, Filled, NEW p, Middle(p), PlanInv(Cardinality(Eligible), p),
           NEW r \in Eligible
    PROVE  Kept(r)'
<1>0. /\ Shapes /\ Places /\ Chained /\ cfg' = cfg /\ pc = "submit" /\ pc # "collect" /\ r \in Reqs /\ PlanShape(p)
  BY PresentFacts DEF Middle
<1>1. PICK k \in {1, 2} : k = Len(outbound) + 1
  <2> DEFINE n == Len(outbound)
  <2>1. n \in {0, 1}
    BY <1>0, InFlightOnly
  <2> HIDE DEF n
  <2>2. n + 1 \in {1, 2}
    BY <2>1
  <2> QED
    BY <2>2 DEF n
<1>2. PICK b : b = BatchOf(p)
  OBVIOUS
<1>3. /\ b \in Batches /\ b.kept = p.holds /\ IsBatchOf(b, p) /\ held' = p.holds
  BY <1>2 DEF Middle, Sent, IsBatchOf
<1>4. NextInLine(r, k, b)
  BY <1>0, <1>1, <1>2, NextInLineOf
<1> DEFINE d == Drained(r)
           bs == cfg.blockSize
           room == p.holds[r] * bs
           had == held[r] * bs
<1>5. Drained(r)' = Lasts(b, d, r) /\ d \in Int
  BY <1>4 DEF NextInLine
<1>6. /\ r \in DOMAIN p.ends => Reached(r)' = p.ends[r] /\ p.ends[r] \in Int
      /\ r \notin DOMAIN p.ends => Reached(r)' = Reached(r)
  BY SubmitReaches
<1>7. LaunchedAs(r, p, seq'[r])
  BY DEF Middle
<1>8. CASE r \in DOMAIN p.ends
  <2> DEFINE i == Place(slots', r)
  <2>1. i \in DOMAIN b.rows /\ b.rows[i].req = r /\ b.rows[i].end = p.ends[r]
    BY <1>2, <1>8, RowForOf DEF RowFor
  <2>2. Sorted(b)
    BY <1>2, SortedOf
  <2> HIDE DEF i
  <2>3. Names(b, r) /\ NamedAt(b, r) = i
    BY <2>1, <2>2, NamedIs DEF Sorted
  <2>4. Lasts(b, d, r) = p.ends[r]
    BY <2>1, <2>3 DEF Lasts
  <2>5. seq'[r].active
    BY <1>7, <1>8 DEF LaunchedAs
  <2>6. Drained(r)' = Reached(r)' /\ Reached(r)' \in Int
    BY <1>5, <1>6, <1>8, <2>4
  <2>7. Drained(r)' >= Reached(r)'
    BY <2>6
  <2> QED
    BY <2>5, <2>7 DEF Kept
<1>9. CASE r \notin DOMAIN p.ends
  <2>1. ~Names(b, r)
    <3> SUFFICES ASSUME NEW i \in DOMAIN b.rows, b.rows[i].req = r PROVE FALSE
      BY DEF Names
    <3>1. b.rows[i] = Row(Turn(p)[i], Rescheduled(p)[Turn(p)[i]], p) /\ Turn(p)[i] \in DOMAIN p.ends
      BY <1>3 DEF IsBatchOf
    <3>2. b.rows[i].req = Turn(p)[i]
      BY <3>1 DEF Row
    <3> QED
      BY <1>9, <3>1, <3>2
  <2>2. bs \in Nat /\ p.holds[r] \in Nat /\ held[r] \in Nat /\ p.holds[r] <= held[r]
    BY <1>0, <1>9, SetupFacts, SeqOfReq DEF IsSetup, PlanInv, PlanShape
  <2>3. room \in Int /\ had \in Int /\ room <= had
    BY <2>2, TimesOf
  <2>4. Drained(r)' = Lesser(d, room)
    BY <1>3, <1>5, <2>1 DEF Lasts
  <2>5. Reached(r) \in Int
    BY <1>0, BeginOf
  <2>6. d >= IF seq[r].active THEN Reached(r) ELSE Lesser(had, Reached(r))
    BY DEF Filled, Kept
  <2> HIDE DEF d, room, had
  <2>7. Lesser(d, room) >= Lesser(room, Reached(r))
    BY <1>5, <2>3, <2>5, <2>6 DEF Lesser
  <2>8. ~seq'[r].active
    BY <1>7, <1>9 DEF LaunchedAs
  <2>9. Lesser(held[r] * cfg.blockSize, Reached(r))' = Lesser(room, Reached(r))
    BY <1>0, <1>3, <1>6, <1>9 DEF Lesser, room
  <2> QED
    BY <2>4, <2>7, <2>8, <2>9 DEF Kept
<1> QED
  BY <1>8, <1>9

LEMMA SubmitFilled ==
    ASSUME TurboEngineAssumption, Frame, Alive, Predicted, Filled, SubmitBatch
    PROVE  Filled'
<1>1. PICK p \in Plans : Middle(p)
  BY MiddleOf
<1>2. /\ Shapes /\ Places /\ cfg' = cfg /\ dev' = dev /\ kv' = kv /\ inbound' = inbound /\ Eligible' \subseteq Eligible
      /\ PlanInv(Cardinality(Eligible), p) /\ pc # "collect"
  BY <1>1 DEF Middle, Sent
<1>3. PICK k \in {1, 2} : k = Len(outbound) + 1
  <2> DEFINE n == Len(outbound)
  <2>1. n \in {0, 1}
    BY <1>2, InFlightOnly
  <2> HIDE DEF n
  <2>2. n + 1 \in {1, 2}
    BY <2>1
  <2> QED
    BY <2>2 DEF n
<1>4. PICK b : b = BatchOf(p)
  OBVIOUS
<1>5. DOMAIN outbound' = 1..k /\ outbound'[k] = b /\ DOMAIN outbound = 1..k - 1 /\ \A j \in 1..k - 1 : outbound'[j] = outbound[j]
  <2> DEFINE n == Len(outbound)
  <2>1. /\ outbound' = Append(outbound, b) /\ b \in Batches /\ outbound \in Seq(Batches)
    BY <1>1, <1>4 DEF Middle, Sent, IsBatchOf, Shapes
  <2>2. /\ DOMAIN Append(outbound, b) = DOMAIN outbound \cup {n + 1}
        /\ \A i \in DOMAIN outbound : Append(outbound, b)[i] = outbound[i]
        /\ Append(outbound, b)[n + 1] = b
    BY <2>1, AppendOf
  <2>3. DOMAIN outbound = 1..n /\ n \in Nat
    BY <2>1, ElementOf
  <2> HIDE DEF n
  <2>4. n + 1 = k /\ n = k - 1
    BY <1>3, <2>3 DEF n
  <2>5. 1..k - 1 \cup {k} = 1..k
    OBVIOUS
  <2> QED
    BY <2>1, <2>2, <2>3, <2>4, <2>5
<1>6. Fed(k)'
  <2>1. Sorted(b) /\ \A i \in DOMAIN b.rows : FedRow(k, b, i)'
    BY <1>1, <1>2, <1>3, <1>4, SortedOf, SubmitFed
  <2>2. \A a : a = b => (outbound'[k] = a => Fed(k)')
    <3> TAKE a
    <3> HAVE a = b
    <3> HAVE outbound'[k] = a
    <3>1. Sorted(a) /\ \A i \in DOMAIN a.rows : FedRow(k, a, i)'
      BY <2>1
    <3> QED
      BY <3>1, ZenonT(30) DEF Fed, Sorted, FedRow, GoesOn, Carried, Before
  <2> QED
    BY <1>5, <2>2
<1>7. ASSUME NEW j \in DOMAIN outbound', j # k PROVE Fed(j)'
  <2>1. j = 1 /\ k = 2
    BY <1>5, <1>7
  <2>2. 1 \in DOMAIN outbound /\ outbound'[1] = outbound[1]
    BY <1>5, <2>1
  <2>3. Fed(1)
    BY <2>2 DEF Filled
  <2>4. Fed(1)'
    BY <1>2, <2>2, <2>3 DEF Fed, Sorted, FedRow, GoesOn, Carried, Before
  <2> QED
    BY <2>1, <2>4
<1>8. \A j \in DOMAIN outbound' : Fed(j)'
  BY <1>6, <1>7
<1>9. \A j \in DOMAIN inbound' : Brought(inbound[j])'
  BY <1>2 DEF Filled, Brought
<1>10. \A r \in Reqs : kv'[r] >= 0
  BY <1>2 DEF Filled
<1>11. \A r \in Eligible' : Kept(r)'
  BY <1>1, <1>2, SubmitKept
<1>12. \A r \in Eligible' : Ready(r)'
  <2>1. k \in DOMAIN outbound'
    BY <1>5
  <2>2. outbound' # <<>>
    BY <2>1
  <2> QED
    BY <2>2 DEF Ready
<1> QED
  BY <1>8, <1>9, <1>10, <1>11, <1>12 DEF Filled

---------------------------------------------------------------------------
(* The executor on what is foreseen and on the memory: a batch does what *)
(* its rows say.                                                         *)

LEMMA RunPredicted ==
    ASSUME TurboEngineAssumption, Frame, Predicted, NEW stop, RunBatch(stop)
    PROVE  Predicted'
<1>0. Shapes /\ Chained
  BY DEF Frame
<1>1. /\ Len(Pipeline') = Len(Pipeline) /\ DOMAIN Pipeline' = DOMAIN Pipeline
      /\ \A k \in DOMAIN Pipeline : Pipeline'[k].rows = Pipeline[k].rows
  BY RowsStay
<1>2. UNCHANGED <<cfg, pc, slots, perm, nactive, nswapout, seq, held>>
  BY DEF RunBatch, loopVars, stateVars
<1>3. Eligible' = Eligible
  BY <1>2 DEF Eligible, Present, Range
<1> DEFINE l == Len(Pipeline)
<1>4. DOMAIN Pipeline = 1..l /\ l \in Nat /\ l = cfg.phases - (IF pc = "collect" THEN 0 ELSE 1) /\ cfg.phases \in {1, 2}
      /\ Pipeline \in Seq(Batches)
  <2>1. DOMAIN Pipeline = 1..l /\ l = cfg.phases - (IF pc = "collect" THEN 0 ELSE 1) /\ cfg.phases \in {1, 2}
        /\ Pipeline \in Seq(Batches)
    BY <1>0, PipelineOf
  <2>2. l \in Nat
    BY <2>1, ElementOf
  <2> QED
    BY <2>1, <2>2
<1>5. l \in DOMAIN Pipeline /\ Pipeline # <<>>
  <2> DEFINE m == Len(inbound)
             n == Len(outbound)
  <2>1. l = m + n /\ m \in Nat /\ n \in Nat
    BY <1>0, PipelineOf
  <2>2. n # 0
    BY <1>0, RunBatchDef DEF Shapes
  <2> HIDE DEF l, m, n
  <2>3. l \in 1..l
    BY <2>1, <2>2
  <2>4. l \in DOMAIN Pipeline
    BY <1>4, <2>3
  <2> QED
    BY <2>4
<1>6. Newest'.rows = Newest.rows
  <2>1. Newest' = Pipeline'[Len(Pipeline')] /\ Newest = Pipeline[l]
    BY DEF Newest
  <2>2. Pipeline'[Len(Pipeline')] = Pipeline'[l]
    BY <1>1
  <2>3. Pipeline'[l].rows = Pipeline[l].rows
    BY <1>1, <1>5
  <2> HIDE DEF l
  <2> QED
    BY <2>1, <2>2, <2>3
<1>7. ASSUME NEW r \in Eligible PROVE Foreseen(r)'
  <2> DEFINE q == seq[r]
             i == Place(slots, r)
  <2>1. Foreseen(r)
    BY DEF Predicted
  <2>2. seq'[r] = q /\ Place(slots, r)' = i /\ RowOf(Place(slots, r))' = RowOf(i)
    BY <1>2 DEF Place, RowOf
  <2>3. Reached(r)' = Reached(r) /\ Lasting(r)' = Lasting(r)
    BY <1>2 DEF Reached, Lasting, Newly, Context
  <2>4. ASSUME cfg.phases = 2, pc = "collect" PROVE Foretold(r)'
    <3>1. Pipeline'[1].rows = Pipeline[1].rows
      <4>1. 1 \in DOMAIN Pipeline
        BY <1>4, <1>5
      <4> QED
        BY <1>1, <4>1
    <3>2. Foretold(r)
      BY <2>1, <2>4 DEF Foreseen
    <3> HIDE DEF q, i
    <3> QED
      BY <2>2, <3>1, <3>2 DEF Foretold, In, q, i
  <2> QED
    BY <1>2, <1>5, <1>6, <2>1, <2>2, <2>3, <2>4 DEF Foreseen
<1> QED
  BY <1>2, <1>3, <1>7 DEF Predicted

\* What a row that is fed brings.
RanRow(b, i, res) ==
    /\ res.kv = b.rows[i].end
    /\ b.rows[i].gen => res.len = b.rows[i].end + 1 /\ res.tok = Right(b.rows[i].req, b.rows[i].end)
    /\ ~b.rows[i].gen => res.len = b.rows[i].end
LEMMA RanRight ==
    ASSUME TurboEngineAssumption, Shapes, NEW b \in Batches, b.bs0 = Len(dev), Sorted(b), NEW i \in DOMAIN b.rows,
           DOMAIN b.perm = DOMAIN b.rows, b.perm[i] >= 1, FedRow(1, b, i), kv[b.rows[i].req] \in Int, NEW stop
    PROVE  RanRow(b, i, Forwarded(b, i, stop, Left(b)))
<1> DEFINE row == b.rows[i]
           r == row.req
           e == row.end
           left == Left(b)[r]
           begin == e - row.input
           kept == b.kept[r] * cfg.blockSize
<1>1. /\ row \in Rows /\ r \in Reqs /\ row.auto \in BOOLEAN /\ row.gen \in BOOLEAN /\ e \in Int /\ row.input \in Int
      /\ row.readonly \in Int
  BY BatchFields
<1>2. /\ row.input >= 1 /\ begin >= 0 /\ begin <= kv[r] /\ row.readonly <= kv[r] /\ begin <= kept /\ row.readonly <= kept
      /\ IF row.auto THEN GoesOn(1, b, i) ELSE row.known
  BY DEF FedRow, Before
<1>3. left \in {kv[r], kept} /\ kept \in Int
  BY <1>1, LeftOf
<1>4. row.auto => /\ row.input = 1 /\ Carried(b, i) /\ Old(b, i).len = e /\ Old(b, i).tok = Right(r, e - 1)
  BY <1>2 DEF GoesOn, Old
<1>5. LenOf(b, i) = e
  BY <1>4 DEF LenOf
<1>6. InputOf(b, i) = row.input
  BY <1>4 DEF InputOf
<1>7. RightOf(b, i)
  <2>1. CASE row.auto
    BY <1>4, <1>5, <2>1 DEF RightOf, Right
  <2>2. CASE ~row.auto
    BY <1>2, <2>2 DEF RightOf
  <2> QED
    BY <2>1, <2>2
<1>8. GoodOf(b, i)
  <2>1. begin \in Int /\ Lesser(row.readonly, e) <= row.readonly /\ Lesser(row.readonly, e) \in Int
    <3>1. begin \in Int
      BY <1>1
    <3> DEFINE ro == row.readonly
    <3>2. ro \in Int /\ e \in Int
      BY <1>1
    <3> HIDE DEF ro, e
    <3>3. Lesser(ro, e) <= ro /\ Lesser(ro, e) \in Int
      BY <3>2, LesserOf
    <3> QED
      BY <3>1, <3>3 DEF ro, e
  <2> DEFINE g == Greater(begin, Lesser(row.readonly, e))
  <2>2. g \in {begin, Lesser(row.readonly, e)}
    BY <2>1, GreaterOf
  <2> HIDE DEF g, begin, e, row, r, left, kept
  <2>3. begin <= left /\ row.readonly <= left /\ left \in Int
    BY <1>2, <1>3 DEF r, row
  <2>4. left >= g
    BY <1>1, <2>1, <2>2, <2>3
  <2> QED
    BY <1>5, <1>6, <1>7, <2>4 DEF GoodOf, g, begin, e, row, r, left
<1>9. SampledOf(b, i) <=> row.gen
  BY DEF SampledOf, Sorted
<1>10. GrownTo(b, i) = IF row.gen THEN e + 1 ELSE e
  BY <1>5, <1>9 DEF GrownTo
<1> DEFINE f == Forwarded(b, i, stop, Left(b))
<1>11. /\ f.len = GrownTo(b, i)
       /\ f.tok = (IF SampledOf(b, i) THEN [req |-> r, pos |-> LenOf(b, i), good |-> GoodOf(b, i)] ELSE Unsampled)
       /\ f.kv = (IF GoodOf(b, i) THEN LenOf(b, i) ELSE Lesser(Left(b)[r], LenOf(b, i) - InputOf(b, i)))
  <2>1. f = [len |-> GrownTo(b, i),
             tok |-> IF SampledOf(b, i) THEN [req |-> r, pos |-> LenOf(b, i), good |-> GoodOf(b, i)] ELSE Unsampled,
             fin |-> FinOf(b, i, stop),
             kv  |-> IF GoodOf(b, i) THEN LenOf(b, i) ELSE Lesser(Left(b)[r], LenOf(b, i) - InputOf(b, i))]
    BY ForwardedDef
  <2> HIDE DEF f, r
  <2> QED
    BY <2>1
<1>12. GoodOf(b, i) = TRUE
  BY <1>8 DEF GoodOf, RightOf
<1> HIDE DEF f
<1>13. f.kv = e
  BY <1>5, <1>8, <1>11
<1>14. row.gen => f.len = e + 1 /\ f.tok = Right(r, e)
  BY <1>5, <1>9, <1>10, <1>11, <1>12 DEF Right
<1>15. ~row.gen => f.len = e
  BY <1>10, <1>11
<1> QED
  BY <1>13, <1>14, <1>15 DEF RanRow, f

\* The batch in front ran: its rows, the memory, and the batch behind it.
RanFed(b) ==
    /\ b \in Batches /\ b = outbound[1] /\ Sorted(b) /\ DOMAIN dev' = DOMAIN b.rows
    /\ \A i \in DOMAIN b.rows : RanRow(b, i, dev'[i])
    /\ \A r \in Reqs : kv'[r] = Lasts(b, kv[r], r) /\ kv'[r] >= 0
    /\ Len(outbound) \in {1, 2} /\ outbound # <<>>
    /\ Len(outbound) = 1 => outbound' = <<>> /\ DOMAIN outbound' = {}
    /\ Len(outbound) = 2 => /\ DOMAIN outbound' = {1} /\ Len(outbound') = 1 /\ outbound' # <<>>
                            /\ outbound'[1] = outbound[2] /\ outbound[2] \in Batches
                            /\ 2 \in DOMAIN outbound
    /\ UNCHANGED <<cfg, pc, slots, perm, nactive, nswapout, seq, held>>
LEMMA RanFedOf ==
    ASSUME TurboEngineAssumption, Frame, Filled, NEW stop, RunBatch(stop)
    PROVE  RanFed(outbound[1])
<1>0. Shapes /\ Chained
  BY DEF Frame
<1>1. UNCHANGED <<cfg, pc, slots, perm, nactive, nswapout, seq, held>> /\ outbound # <<>>
  BY DEF RunBatch, loopVars, stateVars
<1>2. PICK b : b = Head(outbound)
  OBVIOUS
<1>3. RanOn(b, stop)
  BY <1>2, RunFacts
<1>4. /\ b \in Batches /\ b = outbound[1] /\ 1 \in DOMAIN outbound /\ b.bs0 = Len(dev)
      /\ DOMAIN b.perm = DOMAIN b.rows /\ (\A i \in DOMAIN b.perm : b.perm[i] >= 1)
      /\ DOMAIN dev' = DOMAIN b.rows /\ outbound' = Tail(outbound)
      /\ \A i \in DOMAIN b.rows : dev'[i] = Forwarded(b, i, stop, Left(b))
      /\ \A r \in Reqs : \/ RowAt(b, r) = {} /\ kv'[r] = Left(b)[r]
                         \/ \E i \in RowAt(b, r) : kv'[r] = dev'[i].kv
  BY <1>3 DEF RanOn
<1>5. Sorted(b) /\ \A i \in DOMAIN b.rows : FedRow(1, b, i)
  BY <1>4 DEF Filled, Fed
<1>6. \A r \in Reqs : kv[r] \in Int /\ kv[r] >= 0
  BY <1>0 DEF Shapes, Filled
<1>7. \A i \in DOMAIN b.rows : b.rows[i].req \in Reqs
  BY <1>4, BatchFields
<1>8. \A i \in DOMAIN b.rows : RanRow(b, i, dev'[i])
  BY <1>0, <1>4, <1>5, <1>6, <1>7, RanRight
<1>9. ASSUME NEW r \in Reqs PROVE kv'[r] = Lasts(b, kv[r], r) /\ kv'[r] >= 0
  <2>1. CASE RowAt(b, r) = {}
    <3>1. ~Names(b, r)
      BY <2>1 DEF Names, RowAt
    <3>2. kv'[r] = Lesser(kv[r], b.kept[r] * cfg.blockSize)
      BY <1>4, <2>1 DEF Left
    <3>3. b.kept[r] * cfg.blockSize \in Int /\ b.kept[r] * cfg.blockSize >= 0
      BY <1>0, <1>4, <1>6, LastsOf
    <3>4. Lesser(kv[r], b.kept[r] * cfg.blockSize) >= 0
      BY <1>6, <3>3, LesserOf
    <3> QED
      BY <3>1, <3>2, <3>4 DEF Lasts
  <2>2. CASE RowAt(b, r) # {}
    <3>1. PICK i \in RowAt(b, r) : kv'[r] = dev'[i].kv
      BY <1>4, <2>2
    <3>2. i \in DOMAIN b.rows /\ b.rows[i].req = r
      BY DEF RowAt
    <3>3. Names(b, r) /\ NamedAt(b, r) = i
      BY <1>5, <3>2, NamedIs DEF Sorted
    <3>4. kv'[r] = b.rows[i].end
      BY <1>8, <3>1, <3>2 DEF RanRow
    <3>5. b.rows[i].end >= 0
      <4>1. b.rows[i].input \in Int /\ b.rows[i].end \in Int
        BY <1>4, <3>2, BatchFields
      <4>2. b.rows[i].input >= 1 /\ b.rows[i].end - b.rows[i].input >= 0
        BY <1>5, <3>2 DEF FedRow
      <4> QED
        BY <4>1, <4>2
    <3> QED
      BY <3>3, <3>4, <3>5 DEF Lasts
  <2> QED
    BY <2>1, <2>2
<1>10. outbound \in Seq(Batches)
  BY <1>0 DEF Shapes
<1>11. Len(outbound) \in {1, 2}
  <2> DEFINE n == Len(outbound)
             l == Len(Pipeline)
             m == Len(inbound)
             c == cfg.phases
  <2>2. c \in {1, 2} /\ l = c - (IF pc = "collect" THEN 0 ELSE 1) /\ l = m + n /\ m \in Nat /\ n \in Nat
    BY <1>0, PipelineOf
  <2>3. n # 0
    BY <1>1, <1>10
  <2> HIDE DEF l, m, n, c
  <2>4. n \in {1, 2}
    BY <2>2, <2>3
  <2> QED
    BY <2>4 DEF n
<1>12. /\ Tail(outbound) \in Seq(Batches) /\ Len(Tail(outbound)) = Len(outbound) - 1
       /\ \A i \in DOMAIN outbound : i # 1 => i - 1 \in DOMAIN Tail(outbound) /\ Tail(outbound)[i - 1] = outbound[i]
  BY <1>1, <1>10, TailOf
<1>13. Len(outbound) = 1 => outbound' = <<>> /\ DOMAIN outbound' = {}
  BY <1>4, <1>12
<1>14. Len(outbound) = 2 => /\ DOMAIN outbound' = {1} /\ Len(outbound') = 1 /\ outbound' # <<>>
                            /\ outbound'[1] = outbound[2] /\ outbound[2] \in Batches
                            /\ 2 \in DOMAIN outbound
  <2> SUFFICES ASSUME Len(outbound) = 2
               PROVE  /\ DOMAIN outbound' = {1} /\ Len(outbound') = 1 /\ outbound' # <<>>
                      /\ outbound'[1] = outbound[2] /\ outbound[2] \in Batches
                      /\ 2 \in DOMAIN outbound
    OBVIOUS
  <2>1. 2 \in DOMAIN outbound
    BY <1>10
  <2>2. outbound[2] \in Batches
    BY <1>10, <2>1, ElementOf
  <2>3. Tail(outbound)[1] = outbound[2]
    <3>1. 2 - 1 \in DOMAIN Tail(outbound) /\ Tail(outbound)[2 - 1] = outbound[2]
      BY <1>12, <2>1
    <3> QED
      BY <3>1
  <2>4. Len(Tail(outbound)) = 1
    BY <1>12
  <2>5. DOMAIN Tail(outbound) = 1..1
    BY <1>12, <2>4, ElementOf
  <2>6. Tail(outbound) # <<>>
    BY <2>5
  <2> QED
    BY <1>4, <2>1, <2>2, <2>3, <2>4, <2>5, <2>6
<1> QED
  BY <1>1, <1>4, <1>5, <1>8, <1>9, <1>11, <1>13, <1>14 DEF RanFed

\* The memory once everything ran is what it was to be.
LEMMA RunDrains ==
    ASSUME TurboEngineAssumption, Frame, NEW b, RanFed(b), NEW r \in Reqs
    PROVE  Drained(r)' = Drained(r)
<1>1. kv'[r] = Lasts(b, kv[r], r) /\ cfg' = cfg /\ b = outbound[1] /\ Len(outbound) \in {1, 2}
  BY DEF RanFed
<1>2. CASE Len(outbound) = 1
  <2>1. outbound' = <<>>
    BY <1>2 DEF RanFed
  <2>2. Drained(r)' = kv'[r]
    BY <2>1 DEF Drained
  <2>3. Drained(r) = Lasts(outbound[1], kv[r], r)
    BY <1>2, DrainedOf
  <2> QED
    BY <1>1, <2>2, <2>3
<1>3. CASE Len(outbound) = 2
  <2>1. Len(outbound') = 1 /\ outbound' # <<>> /\ outbound'[1] = outbound[2]
    BY <1>3 DEF RanFed
  <2>2. Drained(r) = Lasts(outbound[2], kv'[r], r)
    BY <1>1, <1>3, DrainedOf
  <2>3. Drained(r)' = (IF outbound = <<>> THEN kv[r] ELSE Lasts(outbound[Len(outbound)], Before(Len(outbound), r), r))'
    BY DEF Drained
  <2>4. Drained(r)' = Lasts(outbound[2], kv'[r], r)
    BY <1>1, <2>1, <2>3 DEF Before, Lasts, Names, NamedAt
  <2> QED
    BY <2>2, <2>4
<1> QED
  BY <1>1, <1>2, <1>3

\* The batch behind it finds what it reads.
LEMMA RunFeeds ==
    ASSUME TurboEngineAssumption, Frame, Filled, NEW b, RanFed(b), Len(outbound) = 2
    PROVE  Fed(1)'
<1>00. PICK d : d = outbound[2]
  OBVIOUS
<1>0. Shapes /\ Chained /\ d = outbound[2] /\ outbound'[1] = d /\ d \in Batches /\ cfg' = cfg /\ 2 \in DOMAIN outbound /\ b = outbound[1] /\ b \in Batches
  BY <1>00 DEF RanFed, Frame
<1>1. Sorted(d) /\ \A i \in DOMAIN d.rows : FedRow(2, d, i)
  BY <1>0 DEF Filled, Fed
<1>2. \A i \in DOMAIN d.rows : d.rows[i].req \in Reqs
  BY <1>0, BatchFields
<1>3. DOMAIN d.perm = DOMAIN d.rows /\ \A i \in DOMAIN d.perm : d.perm[i] >= 1 /\ d.perm[i] \in Nat
  <2>1. DOMAIN d.perm = DOMAIN d.rows /\ \A i \in DOMAIN d.perm : d.perm[i] >= 1
    BY <1>0 DEF Chained
  <2>2. d.perm \in Seq(Nat)
    BY <1>0, BatchFields
  <2> QED
    BY <2>1, <2>2, ElementOf
<1>4. d.bs0 = Len(b.rows) /\ DOMAIN b.rows = 1..Len(b.rows)
  <2>1. b.rows \in Seq(Rows)
    BY <1>0, BatchFields
  <2> QED
    BY <1>0, <2>1, ElementOf DEF Chained
<1>5. ASSUME NEW i \in DOMAIN d.rows PROVE FedRow(1, d, i)'
  <2> DEFINE row == d.rows[i]
             j == d.perm[i]
  <2>1. row.req \in Reqs /\ FedRow(2, d, i)
    BY <1>1, <1>2
  <2>2. Before(2, row.req) = kv'[row.req]
    BY <1>0, <2>1 DEF Before, RanFed
  <2>3. Before(1, row.req)' = kv'[row.req]
    BY DEF Before
  <2>4. ASSUME row.auto PROVE GoesOn(1, d, i)'
    <3>1. GoesOn(2, d, i)
      BY <2>1, <2>4 DEF FedRow
    <3>2. row.input = 1 /\ Carried(d, i) /\ b.rows[j].req = row.req /\ b.rows[j].gen /\ b.rows[j].end = row.end - 1
      BY <1>0, <3>1 DEF GoesOn
    <3>3. j \in DOMAIN b.rows
      <4>1. j \in Nat /\ j >= 1 /\ j <= d.bs0
        BY <1>3, <3>2 DEF Carried
      <4> HIDE DEF j
      <4> DEFINE n == Len(b.rows)
      <4>2. n = d.bs0 /\ DOMAIN b.rows = 1..n
        BY <1>4
      <4>3. n \in Nat
        <5>1. b.rows \in Seq(Rows)
          BY <1>0, BatchFields
        <5> QED
          BY <5>1, ElementOf
      <4> HIDE DEF n
      <4> QED
        BY <4>1, <4>2, <4>3
    <3>4. RanRow(b, j, dev'[j]) /\ b.rows[j].end \in Int /\ row.end \in Int
      BY <1>0, <3>3, BatchFields DEF RanFed
    <3>5. dev'[j].len = row.end /\ dev'[j].tok = Right(row.req, row.end - 1)
      BY <3>2, <3>4 DEF RanRow
    <3> QED
      BY <3>2, <3>5 DEF GoesOn, Carried
  <2>5. GoesOn(1, d, i)' \/ ~row.auto
    BY <2>4
  <2>6. /\ row.input >= 1 /\ row.end - row.input >= 0
        /\ row.end - row.input <= kv'[row.req] /\ row.readonly <= kv'[row.req]
        /\ row.end - row.input <= d.kept[row.req] * cfg.blockSize /\ row.readonly <= d.kept[row.req] * cfg.blockSize
        /\ row.auto \/ row.known
    BY <2>1, <2>2 DEF FedRow
  <2> QED
    BY <1>0, <2>3, <2>4, <2>6 DEF FedRow
<1>6. \A a : a = d => (outbound'[1] = a => Fed(1)')
  <2> TAKE a
  <2> HAVE a = d
  <2> HAVE outbound'[1] = a
  <2>1. Sorted(a) /\ \A i \in DOMAIN a.rows : FedRow(1, a, i)'
    BY <1>1, <1>5
  <2> QED
    BY <2>1 DEF Fed, Sorted, FedRow, GoesOn, Carried, Before
<1> QED
  BY <1>0, <1>6

LEMMA RunFilled ==
    ASSUME TurboEngineAssumption, Frame, Alive, Predicted, Filled, NEW stop, RunBatch(stop)
    PROVE  Filled'
<1>0. Shapes /\ Places /\ Chained
  BY DEF Frame
<1>1. PICK b : b = outbound[1]
  OBVIOUS
<1>2. RanFed(b)
  BY <1>1, RanFedOf
<1>3. UNCHANGED <<cfg, pc, slots, perm, nactive, nswapout, seq, held>> /\ Len(outbound) \in {1, 2} /\ b \in Batches
  BY <1>2 DEF RanFed
<1>4. Eligible' = Eligible
  BY <1>3 DEF Eligible, Present, Range
<1>5. \A k \in DOMAIN outbound' : Fed(k)'
  <2>1. CASE Len(outbound) = 1
    BY <1>2, <2>1 DEF RanFed
  <2>2. CASE Len(outbound) = 2
    <3>1. Fed(1)' /\ DOMAIN outbound' = {1}
      BY <1>2, <2>2, RunFeeds DEF RanFed
    <3> QED
      BY <3>1
  <2> QED
    BY <1>3, <2>1, <2>2
<1>6. \A k \in DOMAIN inbound' : Brought(inbound'[k])
  <2>1. PICK n : n = Ran(b, stop)
    OBVIOUS
  <2>2. inbound' = Append(inbound, n) /\ n \in Batches /\ n.rows = b.rows /\ n.res = dev'
    <3>1. RanOn(Head(outbound), stop) /\ Head(outbound) = b
      BY <1>1, RunFacts DEF RanOn
    <3> QED
      BY <2>1, <3>1 DEF RanOn
  <2>3. Brought(n)
    BY <1>2, <2>2 DEF RanFed, RanRow, Brought
  <2>4. inbound \in Seq(Batches)
    BY <1>0 DEF Shapes
  <2>5. /\ DOMAIN Append(inbound, n) = DOMAIN inbound \cup {Len(inbound) + 1}
        /\ \A i \in DOMAIN inbound : Append(inbound, n)[i] = inbound[i]
        /\ Append(inbound, n)[Len(inbound) + 1] = n
    BY <2>2, <2>4, AppendOf
  <2>6. \A i \in DOMAIN inbound : Brought(inbound[i])
    BY DEF Filled
  <2> QED
    BY <2>2, <2>3, <2>5, <2>6
<1>7. \A r \in Reqs : kv'[r] >= 0
  BY <1>2 DEF RanFed
<1>8. ASSUME NEW r \in Eligible PROVE Kept(r)' /\ Ready(r)'
  <2>0. r \in Reqs /\ Kept(r)
    BY <1>0, PresentFacts DEF Filled
  <2>1. Drained(r)' = Drained(r)
    BY <1>2, <2>0, RunDrains
  <2>2. Reached(r)' = Reached(r)
    BY <1>3 DEF Reached, Newly
  <2>3. Kept(r)'
    BY <1>3, <2>0, <2>1, <2>2 DEF Kept
  <2> DEFINE o == Place(slots, r)
  <2>4. Place(slots, r)' = o
    BY <1>3 DEF Place
  <2>5. ASSUME outbound' = <<>>, seq[r].active, seq[r].gen
        PROVE  dev'[o].len = Reached(r) + 1 /\ dev'[o].tok = Right(r, Reached(r))
    <3>1. Len(outbound) = 1
      BY <1>2, <1>3, <2>5 DEF RanFed
    <3>2. Newest = outbound[1] /\ Pipeline # <<>>
      <4> DEFINE m == Len(inbound)
                 l == Len(Pipeline)
      <4>1. inbound \in Seq(Batches) /\ outbound \in Seq(Batches) /\ l = m + Len(outbound) /\ m \in Nat
        BY <1>0, PipelineOf
      <4>2. l = m + 1 /\ 1 \in DOMAIN outbound
        BY <3>1, <4>1
      <4>3. Pipeline[m + 1] = outbound[1]
        BY <4>1, <4>2, ConcatOf DEF Pipeline
      <4>4. Newest = Pipeline[m + 1]
        BY <4>2 DEF Newest
      <4>5. Pipeline # <<>>
        BY <4>1, <4>2
      <4> QED
        BY <4>3, <4>4, <4>5
    <3>3. Foreseen(r)
      BY DEF Predicted
    <3>4. o <= nactive /\ b.rows[o].end = Reached(r) /\ b.rows[o].gen
      BY <1>1, <2>5, <3>2, <3>3 DEF Foreseen
    <3>5. o \in DOMAIN b.rows /\ b.rows[o].req = r
      BY <1>1, <3>2, <3>4, NewestAt
    <3> QED
      BY <1>2, <3>4, <3>5 DEF RanFed, RanRow
  <2> HIDE DEF o
  <2>6. Ready(r)'
    BY <1>3, <2>2, <2>4, <2>5 DEF Ready
  <2> QED
    BY <2>3, <2>6
<1> QED
  BY <1>4, <1>5, <1>6, <1>7, <1>8 DEF Filled, Brought

---------------------------------------------------------------------------
(* Collect on what is foreseen and on the memory: a sequence that goes on *)
(* comes to where it was expected.                                        *)

Returned(b, r) ==
    /\ b = inbound[1] /\ b = Pipeline[1] /\ b \in Batches /\ Pipeline # <<>> /\ DOMAIN b.res = DOMAIN b.rows
    /\ r \in Eligible /\ r \in Reqs /\ r \in Present
    /\ Place(slots', r) = Place(slots, r) /\ AfterFacts(b, r, seq'[r]) /\ ~seq'[r].retiring /\ held'[r] = held[r]
LEMMA ReturnedOf ==
    ASSUME TurboEngineAssumption, Frame, Collect, NEW r \in Eligible'
    PROVE  Returned(Head(inbound), r)
<1> DEFINE b == Head(inbound)
           a == Collected(b)[r]
<1>0. Shapes /\ Places /\ Chained
  BY DEF Frame
<1>1. /\ Retired(slots, Collected(b), held) /\ b \in Batches /\ DOMAIN b.res = DOMAIN b.rows /\ b = inbound[1] /\ b = Pipeline[1]
      /\ 1 \in DOMAIN inbound
      /\ \A v \in Present : v \in Reqs /\ AfterFacts(b, v, Collected(b)[v])
  BY CollectFacts DEF Back
<1> HIDE DEF b
<1>2. r \in Present' /\ ~seq'[r].retiring
  BY DEF Eligible
<1>3. r \in Present /\ r \notin Gone(slots, Collected(b))
  BY <1>1, <1>2 DEF Retired, Present
<1>4. r \in Reqs /\ AfterFacts(b, r, a)
  BY <1>1, <1>3
<1>5. seq'[r] = a /\ held'[r] = held[r]
  BY <1>1, <1>3, <1>4 DEF Retired
<1>6. r \in Eligible
  <2>1. Samples(b, r) => ~seq[r].retiring
    BY DEF Samples
  <2>2. ~Samples(b, r) => a.retiring = seq[r].retiring
    BY <1>4 DEF AfterFacts
  <2> HIDE DEF a
  <2> QED
    BY <1>2, <1>3, <1>5, <2>1, <2>2 DEF Eligible
<1>7. Place(slots', r) = Place(slots, r)
  <2> DEFINE i == Place(slots, r)
  <2>1. i \in DOMAIN slots /\ slots[i] = r /\ r # NoReq
    BY <1>0, <1>3, <1>4, PlacedIn, SetupFacts
  <2>2. i \in DOMAIN slots' /\ slots'[i] = r /\ Once(slots')
    BY <1>1, <1>3, <2>1 DEF Retired
  <2> HIDE DEF i
  <2>3. \A s : s = slots' => Place(s, r) = i
    BY <2>1, <2>2, PlaceIs
  <2> QED
    BY <2>3 DEF i
<1>8. Pipeline # <<>>
  <2> DEFINE l == Len(Pipeline)
             c == cfg.phases
  <2>1. l = c - (IF pc = "collect" THEN 0 ELSE 1) /\ c \in {1, 2} /\ pc = "collect"
    BY <1>0, PipelineOf DEF Collect
  <2>2. l # 0
    <3> HIDE DEF l, c
    <3> QED
      BY <2>1
  <2> QED
    BY <2>2
<1> QED
  BY <1>1, <1>2, <1>3, <1>4, <1>5, <1>6, <1>7, <1>8 DEF Returned, b

\* Where it is then.
ComesTo(r) ==
    LET q == seq[r]
        a == seq'[r]
    IN /\ a.len \in Int /\ a.filled \in Int /\ a.iin \in Int /\ a.inew \in Int /\ a.input \in Int
       /\ a.active = q.active /\ a.gen = q.gen /\ a.input = q.input
       /\ Reached(r) \in Int /\ a.filled + a.iin = Reached(r)
       /\ a.len >= 1 /\ a.filled >= 0 /\ a.iin >= 0 /\ a.inew >= 0 /\ a.input >= 0
       /\ cfg.phases = 1 => a.iin = 0 /\ a.inew = 0
       /\ cfg.phases = 2 => IF a.active THEN a.inew = (IF a.gen THEN 1 ELSE 0) ELSE a.iin = 0 /\ a.inew = 0
       /\ q.active /\ q.gen => Reached(r) = a.len + a.inew - 1
       /\ q.active /\ ~q.gen => Lasting(r) = a.len + a.inew
LEMMA ComesToOf ==
    ASSUME TurboEngineAssumption, Frame, Alive, Predicted, Filled, pc = "collect", NEW b, NEW r, Returned(b, r),
           1 \in DOMAIN inbound, seq'[r] \in SeqRecords
    PROVE  ComesTo(r)
<1> DEFINE q == seq[r]
           a == seq'[r]
           i == Place(slots, r)
           row == b.rows[RowOf(i)]
           res == b.res[RowOf(i)]
<1>0. Shapes /\ Places /\ r \in Reqs /\ r \in Eligible /\ ~q.retiring /\ b \in Batches
  BY DEF Frame, Returned, Eligible
<1>1. /\ q.len \in Int /\ q.filled \in Int /\ q.iin \in Int /\ q.inew \in Int /\ q.input \in Int
      /\ q.active \in BOOLEAN /\ q.gen \in BOOLEAN
  BY <1>0, SeqOfReq
<1>2. /\ a.len \in Int /\ a.filled \in Int /\ a.iin \in Int /\ a.inew \in Int /\ a.input \in Int
      /\ a.active \in BOOLEAN /\ a.gen \in BOOLEAN
  BY DEF SeqRecords
<1>3. Foreseen(r)
  BY <1>0 DEF Predicted
<1>4. q.len >= 1 /\ q.filled >= 0 /\ q.iin >= 0 /\ q.inew >= 0 /\ q.input >= 0 /\ (q.active <=> i <= nactive)
  BY <1>3 DEF Foreseen
<1>5. /\ a.active = q.active /\ a.input = q.input /\ a.gen = q.gen
      /\ In(b, r) => a.filled = (IF row.gen THEN res.len - 1 ELSE res.len)
      /\ ~In(b, r) => a.filled = q.filled
      /\ Samples(b, r) => a.len = res.len
      /\ ~Samples(b, r) => a.len = q.len
      /\ cfg.phases = 1 => a.iin = q.iin /\ a.inew = q.inew
      /\ cfg.phases = 2 =>
           IF i <= nactive THEN a.iin = q.input /\ a.inew = (IF q.gen THEN 1 ELSE 0)
           ELSE IF i \in nactive + 1 .. nactive + nswapout THEN a.iin = 0 /\ a.inew = 0
           ELSE a.iin = q.iin /\ a.inew = q.inew
  BY DEF Returned, AfterFacts
\* What the row brought.
<1>6. In(b, r) => /\ row.end \in Int /\ row.gen \in BOOLEAN /\ a.filled = row.end
                  /\ row.gen => a.len = row.end + 1
                  /\ ~row.gen => a.len = q.len
  <2> SUFFICES ASSUME In(b, r)
               PROVE  /\ row.end \in Int /\ row.gen \in BOOLEAN /\ a.filled = row.end
                      /\ row.gen => a.len = row.end + 1
                      /\ ~row.gen => a.len = q.len
    OBVIOUS
  <2>1. RowOf(i) \in DOMAIN b.rows
    BY DEF In
  <2>2. Brought(b)
    BY DEF Filled, Returned
  <2>3. row.end \in Int /\ row.gen \in BOOLEAN
    BY <1>0, <2>1, BatchFields
  <2>4. IF row.gen THEN res.len = row.end + 1 ELSE res.len = row.end
    BY <2>1, <2>2 DEF Brought
  <2>5. Samples(b, r) <=> row.gen
    BY <1>0, <2>3 DEF Samples
  <2> HIDE DEF row, res, a, q
  <2> QED
    BY <1>5, <2>3, <2>4, <2>5
<1>7. ~In(b, r) => a.filled = q.filled /\ a.len = q.len
  BY <1>5 DEF Samples
<1>8. Reached(r) = q.filled + q.iin + (IF q.active THEN q.input ELSE 0)
  BY DEF Reached, Newly
<1>9. Lasting(r) = q.len + q.inew + (IF q.active /\ q.gen THEN 1 ELSE 0)
  BY DEF Lasting, Newly, Context
<1>10. q.active /\ q.gen => Reached(r) = Lasting(r) - 1
  BY <1>3 DEF Foreseen
<1>11. nactive \in Nat /\ nswapout \in Nat /\ i \in Nat
  BY <1>0, PlacedIn DEF Shapes, Returned
<1>12. CASE cfg.phases = 1
  <2>1. q.iin = 0 /\ q.inew = 0
    BY <1>3, <1>12 DEF Foreseen
  <2>2. RowOf(i) = i
    BY <1>12 DEF RowOf
  <2>3. b = Newest
    <3>1. Len(Pipeline) = 1
      <4> DEFINE l == Len(Pipeline)
                 c == cfg.phases
      <4>1. l = c - 0
        BY <1>0, PipelineOf DEF Frame
      <4> HIDE DEF l
      <4>2. l = 1
        BY <1>12, <4>1
      <4> QED
        BY <4>2 DEF l
    <3> QED
      BY <3>1 DEF Newest, Returned
  <2>4. In(b, r) <=> q.active
    BY <1>0, <1>4, <2>2, <2>3, NewestAt DEF In, Returned
  <2>5. q.active => row.end = Reached(r) /\ row.gen = q.gen
    BY <1>3, <2>2, <2>3 DEF Foreseen, Returned
  <2> HIDE DEF row, res, a, q
  <2>6. Reached(r) \in Int /\ a.filled + a.iin = Reached(r) /\ a.filled >= 0 /\ a.len >= 1
    BY <1>1, <1>2, <1>4, <1>5, <1>6, <1>7, <1>8, <1>12, <2>1, <2>4, <2>5
  <2>7. q.active /\ q.gen => Reached(r) = a.len + a.inew - 1
    <3> SUFFICES ASSUME q.active, q.gen PROVE Reached(r) = a.len + a.inew - 1
      OBVIOUS
    <3>1. row.gen
      BY <2>5
    <3>2. a.len = Reached(r) + 1
      BY <1>6, <2>4, <2>5, <3>1
    <3>3. a.inew = 0
      BY <1>5, <1>12, <2>1
    <3> QED
      BY <1>2, <2>6, <3>2, <3>3
  <2>8. q.active /\ ~q.gen => Lasting(r) = a.len + a.inew
    BY <1>1, <1>2, <1>5, <1>6, <1>9, <1>12, <2>1, <2>4, <2>5
  <2> QED
    BY <1>2, <1>4, <1>5, <1>12, <2>1, <2>6, <2>7, <2>8 DEF ComesTo, a, q
<1>13. CASE cfg.phases = 2
  <2>1. Foretold(r) /\ (i > nactive + nswapout => q.iin = 0 /\ q.inew = 0)
    BY <1>3, <1>13 DEF Foreseen
  <2>2. IF In(b, r)
        THEN row.end = q.filled + q.iin /\ q.inew = (IF row.gen THEN 1 ELSE 0) /\ (row.gen => row.end = q.len)
        ELSE q.iin = 0 /\ q.inew = 0
    BY <2>1 DEF Foretold, Returned
  <2> HIDE DEF row, res, a, q, i
  <2>3. IF a.active THEN a.iin = q.input /\ a.inew = (IF a.gen THEN 1 ELSE 0) ELSE a.iin = 0 /\ a.inew = 0
    BY <1>4, <1>5, <1>11, <1>13, <2>1
  <2>4. a.filled = q.filled + q.iin
    BY <1>1, <1>6, <1>7, <2>2
  <2>5. Reached(r) \in Int /\ a.filled + a.iin = Reached(r) /\ a.filled >= 0
    BY <1>1, <1>4, <1>5, <1>8, <2>3, <2>4
  <2>6. a.len = q.len + q.inew
    BY <1>1, <1>6, <1>7, <2>2
  <2>7. a.len >= 1 /\ a.iin >= 0 /\ a.inew >= 0
    BY <1>1, <1>4, <2>3, <2>6
  <2>8. q.active /\ q.gen => Reached(r) = a.len + a.inew - 1
    BY <1>1, <1>2, <1>5, <1>9, <1>10, <2>3, <2>6
  <2>9. q.active /\ ~q.gen => Lasting(r) = a.len + a.inew
    BY <1>1, <1>2, <1>5, <1>9, <2>3, <2>6
  <2> QED
    BY <1>2, <1>4, <1>5, <1>13, <2>3, <2>5, <2>7, <2>8, <2>9 DEF ComesTo, a, q
<1> QED
  BY <1>0, <1>12, <1>13, SetupFacts DEF IsSetup

LEMMA CollectForesees ==
    ASSUME TurboEngineAssumption, Frame, Alive, Predicted, Filled, Collect
    PROVE  Predicted' /\ Filled'
<1>0. Shapes /\ Places /\ Chained /\ pc = "collect" /\ pc' = "pop" /\ inbound # <<>>
  BY CollectDef DEF Frame
<1>1. UNCHANGED <<cfg, nactive, nswapout, perm, outbound, dev, kv>>
  BY CollectDef DEF deviceVars
<1>2. PICK b : b = Head(inbound)
  OBVIOUS
<1>3. Back(b)
  BY <1>2, CollectFacts
<1>4. 1 \in DOMAIN inbound /\ DOMAIN slots' = DOMAIN slots /\ slots' \in Seq(Reqs \cup {NoReq}) /\ seq' \in [Reqs -> SeqRecords]
  BY <1>3 DEF Back, Retired
<1>5. ASSUME NEW r \in Eligible' PROVE Returned(b, r) /\ ComesTo(r)
  <2>1. Returned(b, r)
    BY <1>2, ReturnedOf
  <2> QED
    BY <1>0, <1>4, <2>1, ComesToOf DEF Returned
<1>6. nactive' <= Len(slots')
  <2> DEFINE s == slots'
  <2>1. DOMAIN s = DOMAIN slots /\ s \in Seq(Reqs \cup {NoReq}) /\ slots \in Seq(Reqs \cup {NoReq})
    BY <1>0, <1>4 DEF Shapes
  <2>2. Len(s) \in Nat /\ DOMAIN s = 1..Len(s) /\ Len(slots) \in Nat /\ DOMAIN slots = 1..Len(slots)
    BY <2>1
  <2> HIDE DEF s
  <2> DEFINE m == Len(s)
             n == Len(slots)
  <2>3. m \in Nat /\ n \in Nat /\ 1..m = 1..n
    BY <2>1, <2>2
  <2> HIDE DEF m, n
  <2>4. m = n
    BY <2>3
  <2>5. Len(s) = Len(slots)
    BY <2>4 DEF m, n
  <2> QED
    BY <1>1, <2>5 DEF Predicted, s
\* Where the sequence is to come does not change: it gets there.
<1>7. ASSUME NEW r \in Eligible'
      PROVE  /\ Reached(r)' = Reached(r) /\ Place(slots, r)' = Place(slots, r)
             /\ seq'[r].active /\ seq'[r].gen => Reached(r)' = Lasting(r)' - 1
  <2> DEFINE a == seq'[r]
  <2>1. Returned(b, r) /\ ComesTo(r)
    BY <1>5
  <2>2. Reached(r)' = a.filled + a.iin + 0 /\ Lasting(r)' = a.len + a.inew + 0
    BY <1>0 DEF Reached, Lasting, Newly, Context
  <2>3. Reached(r)' = Reached(r)
    BY <2>1, <2>2 DEF ComesTo
  <2>4. a.active /\ a.gen => Reached(r) = a.len + a.inew - 1 /\ Lasting(r)' = a.len + a.inew
    BY <2>1, <2>2 DEF ComesTo
  <2>5. Place(slots, r)' = Place(slots, r)
    BY <2>1 DEF Returned
  <2>6. ASSUME a.active, a.gen PROVE Reached(r)' = Lasting(r)' - 1
    <3>1. Reached(r) = a.len + a.inew - 1 /\ Lasting(r)' = a.len + a.inew
      BY <2>4, <2>6
    <3>2. a.len \in Int /\ a.inew \in Int
      BY <2>1 DEF ComesTo
    <3> HIDE DEF a
    <3> QED
      BY <2>3, <3>1, <3>2
  <2> QED
    BY <2>3, <2>5, <2>6
<1>8. Pipeline' # <<>> => Newest' = Newest
  <2> SUFFICES ASSUME Pipeline' # <<>> PROVE Newest' = Newest
    OBVIOUS
  <2> DEFINE q == inbound'
             l == Len(Pipeline)
             m == Len(inbound)
             n == Len(outbound)
  <2>1. inbound \in Seq(Batches) /\ outbound \in Seq(Batches) /\ l = m + n /\ m \in Nat /\ n \in Nat /\ Pipeline \in Seq(Batches)
    BY <1>0, PipelineOf
  <2>2. /\ q \in Seq(Batches) /\ Len(q) = m - 1 /\ \A i \in DOMAIN q : i + 1 \in DOMAIN inbound /\ q[i] = inbound[i + 1]
    BY <1>3 DEF Back
  <2>3. Pipeline' = q \o outbound
    BY <1>1 DEF Pipeline
  <2>4. Newest' = (q \o outbound)[Len(q \o outbound)] /\ Newest = Pipeline[l]
    BY <2>3 DEF Newest
  <2> HIDE DEF q
  <2>5. /\ Len(q \o outbound) = Len(q) + n
        /\ \A i \in DOMAIN q : (q \o outbound)[i] = q[i]
        /\ \A i \in DOMAIN outbound : (q \o outbound)[Len(q) + i] = outbound[i]
    <3>1. q \in Seq(Batches) /\ outbound \in Seq(Batches)
      BY <2>1, <2>2
    <3> HIDE DEF n
    <3>2. /\ Len(q \o outbound) = Len(q) + Len(outbound)
          /\ \A i \in DOMAIN q : (q \o outbound)[i] = q[i]
          /\ \A i \in DOMAIN outbound : (q \o outbound)[Len(q) + i] = outbound[i]
      BY <3>1, ConcatOf
    <3> QED
      BY <3>2 DEF n
  <2>6. /\ \A i \in DOMAIN inbound : Pipeline[i] = inbound[i]
        /\ \A i \in DOMAIN outbound : Pipeline[m + i] = outbound[i]
    BY <2>1, ConcatOf DEF Pipeline
  <2>7. DOMAIN q = 1..m - 1 /\ DOMAIN outbound = 1..n /\ Len(q \o outbound) = m - 1 + n
    BY <2>1, <2>2, <2>5
  <2>8. CASE n = 0
    <3>0. m - 1 # 0
      <4> SUFFICES ASSUME m - 1 = 0 PROVE FALSE
        OBVIOUS
      <4>1. Len(q \o outbound) = 0 /\ q \o outbound \in Seq(Batches)
        BY <2>1, <2>2, <2>7, <2>8
      <4> QED
        BY <2>3, <4>1
    <3> HIDE DEF l, m, n
    <3>1. m - 1 \in DOMAIN q /\ m - 1 + n = m - 1 /\ m - 1 + 1 = m /\ l = m
      BY <2>1, <2>2, <2>7, <2>8, <3>0, <1>4
    <3>2. Newest' = inbound[m]
      BY <2>2, <2>4, <2>5, <2>7, <3>1
    <3>3. m \in DOMAIN inbound
      BY <2>2, <3>1
    <3> QED
      BY <2>4, <2>6, <3>1, <3>2, <3>3
  <2>9. CASE n # 0
    <3> HIDE DEF l, m, n
    <3>1. n \in DOMAIN outbound /\ m - 1 + n = (m - 1) + n
      BY <2>1, <2>7, <2>9
    <3>2. Newest' = outbound[n]
      BY <2>2, <2>4, <2>5, <2>7, <3>1
    <3> QED
      BY <2>1, <2>4, <2>6, <3>1, <3>2
  <2> QED
    BY <2>8, <2>9
<1>9. ASSUME NEW r \in Eligible' PROVE Foreseen(r)'
  <2> DEFINE q == seq[r]
             a == seq'[r]
             i == Place(slots, r)
  <2>1. Returned(b, r) /\ ComesTo(r) /\ Foreseen(r)
    BY <1>5 DEF Predicted, Returned
  <2>2. Reached(r)' = Reached(r) /\ Place(slots, r)' = i /\ (a.active /\ a.gen => Reached(r)' = Lasting(r)' - 1)
    BY <1>7
  <2>3. a.active = q.active /\ a.gen = q.gen /\ a.input = q.input
    BY <2>1 DEF ComesTo
  <2>4. Pipeline # <<>>
    BY <2>1 DEF Returned
  <2>5. a.active /\ Pipeline' # <<>> => Newest'.rows[i].end = Reached(r)' /\ Newest'.rows[i].gen = a.gen
    BY <1>8, <2>1, <2>2, <2>3, <2>4 DEF Foreseen
  <2>6. a.active <=> i <= nactive
    BY <2>1, <2>3 DEF Foreseen
  <2> HIDE DEF q, i
  <2> QED
    BY <1>0, <1>1, <2>1, <2>2, <2>5, <2>6 DEF Foreseen, ComesTo, a
<1>10. Predicted'
  BY <1>6, <1>9 DEF Predicted
<1>11. \A k \in DOMAIN outbound' : Fed(k)'
  <2>1. \A k \in DOMAIN outbound : Fed(k)' = Fed(k)
    BY <1>1 DEF Fed, Sorted, FedRow, GoesOn, Carried, Before, Lasts, Names, NamedAt
  <2> QED
    BY <1>1, <2>1 DEF Filled
<1>12. \A k \in DOMAIN inbound' : Brought(inbound'[k])
  BY <1>3 DEF Back, Filled
<1>13. ASSUME NEW r \in Eligible' PROVE Kept(r)' /\ Ready(r)'
  <2>1. Returned(b, r) /\ ComesTo(r) /\ Reached(r)' = Reached(r) /\ Place(slots, r)' = Place(slots, r)
    BY <1>5, <1>7
  <2>2. Kept(r) /\ Ready(r) /\ held'[r] = held[r] /\ seq'[r].active = seq[r].active /\ seq'[r].gen = seq[r].gen
    BY <2>1 DEF Filled, Returned, ComesTo
  <2>3. Drained(r)' = Drained(r)
    BY <1>1 DEF Drained, Before, Lasts, Names, NamedAt
  <2> QED
    BY <1>1, <2>1, <2>2, <2>3 DEF Kept, Ready
<1>14. Filled'
  BY <1>1, <1>11, <1>12, <1>13 DEF Filled, Brought
<1> QED
  BY <1>10, <1>14

---------------------------------------------------------------------------
(* Admit on what is foreseen and on the memory: what was there stays, and a *)
(* request that enters has nothing in memory and nothing on its way.        *)

LEMMA DrainedNat ==
    ASSUME TurboEngineAssumption, Frame, Filled, NEW r \in Reqs
    PROVE  Drained(r) \in Int /\ Drained(r) >= 0
<1>0. Shapes
  BY DEF Frame
<1>1. ASSUME NEW k \in DOMAIN outbound, outbound[k] \in Batches, NEW n \in Int, n >= 0 PROVE Lasts(outbound[k], n, r) >= 0
  <2> DEFINE b == outbound[k]
             i == NamedAt(b, r)
  <2>1. CASE Names(b, r)
    <3>1. i \in DOMAIN b.rows /\ Lasts(b, n, r) = b.rows[i].end
      BY <1>0, <1>1, <2>1, LastsOf
    <3>2. b.rows[i].input >= 1 /\ b.rows[i].end - b.rows[i].input >= 0
      BY <3>1 DEF Filled, Fed, FedRow
    <3>3. b.rows[i].input \in Int /\ b.rows[i].end \in Int
      BY <1>1, <3>1, BatchFields
    <3> HIDE DEF b, i
    <3>4. b.rows[i].end >= 0
      BY <3>2, <3>3
    <3> QED
      BY <3>1, <3>4 DEF b
  <2>2. CASE ~Names(b, r)
    <3>1. /\ Lasts(b, n, r) = Lesser(n, b.kept[r] * cfg.blockSize)
          /\ b.kept[r] * cfg.blockSize \in Int /\ b.kept[r] * cfg.blockSize >= 0
      BY <1>0, <1>1, <2>2, LastsOf
    <3> DEFINE m == b.kept[r] * cfg.blockSize
    <3>2. m \in Int /\ m >= 0 /\ Lasts(b, n, r) = Lesser(n, m)
      BY <3>1
    <3> HIDE DEF m, b
    <3> QED
      BY <1>1, <3>2 DEF Lesser, b
  <2> QED
    BY <2>1, <2>2
<1>2. /\ Len(outbound) \in {0, 1, 2} /\ kv[r] \in Int /\ Drained(r) \in Int
      /\ Len(outbound) = 0 => Drained(r) = kv[r]
      /\ Len(outbound) = 1 => outbound[1] \in Batches /\ Drained(r) = Lasts(outbound[1], kv[r], r)
      /\ Len(outbound) = 2 => /\ outbound[1] \in Batches /\ outbound[2] \in Batches
                              /\ Lasts(outbound[1], kv[r], r) \in Int
                              /\ Drained(r) = Lasts(outbound[2], Lasts(outbound[1], kv[r], r), r)
  BY DrainedOf
<1>3. kv[r] >= 0 /\ outbound \in Seq(Batches)
  BY <1>0 DEF Filled, Shapes
<1>4. CASE Len(outbound) = 0
  BY <1>2, <1>3, <1>4
<1>5. CASE Len(outbound) = 1
  <2>1. 1 \in DOMAIN outbound
    BY <1>3, <1>5
  <2> QED
    BY <1>1, <1>2, <1>3, <1>5, <2>1
<1>6. CASE Len(outbound) = 2
  <2>1. 1 \in DOMAIN outbound /\ 2 \in DOMAIN outbound
    BY <1>3, <1>6
  <2>2. Lasts(outbound[1], kv[r], r) >= 0
    BY <1>1, <1>2, <1>3, <1>6, <2>1
  <2> QED
    BY <1>1, <1>2, <1>6, <2>1, <2>2
<1> QED
  BY <1>2, <1>4, <1>5, <1>6

\* A sequence after Admit: it was there and is what it was, or it is new.
Welcome(r) ==
    LET a == seq'[r]
        i == Place(slots', r)
    IN \/ /\ r \in Eligible /\ a = seq[r] /\ held'[r] = held[r] /\ i = Place(slots, r)
       \/ /\ ~a.active /\ a.filled = 0 /\ a.iin = 0 /\ a.inew = 0 /\ a.input = 0 /\ a.len >= 1
          /\ held'[r] = 0 /\ i > nactive /\ i \in Nat
LEMMA WelcomeOf ==
    ASSUME TurboEngineAssumption, Frame, nactive <= Len(slots), Admit, NEW r \in Eligible'
    PROVE  r \in Reqs /\ Welcome(r)
<1>0. Shapes /\ Places
  BY DEF Frame
<1>1. Retired(Joined, AdmittedSeq, held)
  BY <1>0, AdmitRetires
<1>2. r \in Present' /\ ~seq'[r].retiring
  BY DEF Eligible
<1>3. r \in Present \cup Range(Entering) /\ r \notin Gone(Joined, AdmittedSeq)
  BY <1>0, <1>1, <1>2, JoinedOf DEF Retired
<1>4. r \in Reqs
  BY <1>0, <1>3, PresentFacts, EntrantsOf DEF Range
<1>5. seq'[r] = Admitted(r) /\ held'[r] = held[r]
  BY <1>1, <1>3, <1>4 DEF Retired, AdmittedSeq
<1>6. /\ Joined \in Seq(Reqs \cup {NoReq}) /\ Once(Joined) /\ Range(Joined) \ {NoReq} = Present \cup Range(Entering)
      /\ \A i \in DOMAIN slots : i \in DOMAIN Joined /\ Joined[i] = slots[i]
  BY <1>0, JoinedOf
<1>7. r # NoReq
  BY <1>0, <1>4, SetupFacts
<1>8. \A i \in DOMAIN Joined : Joined[i] = r => Place(slots', r) = i
  <2> TAKE i \in DOMAIN Joined
  <2> HAVE Joined[i] = r
  <2>1. i \in DOMAIN slots' /\ slots'[i] = r /\ Once(slots')
    BY <1>1, <1>3 DEF Retired
  <2>2. \A s : s = slots' => Place(s, r) = i
    BY <1>7, <2>1, PlaceIs
  <2> QED
    BY <2>2
<1>9. CASE r \in Range(Entering)
  <2>1. /\ Admitted(r) = [NoSeq EXCEPT !.uid = uids + Place(popped, r), !.len = cfg.prompt[r]]
        /\ held[r] = 0 /\ r \notin Present /\ Place(popped, r) \in 1..Len(popped)
    BY <1>0, <1>4, <1>9, AdmittedOf
  <2>2. cfg.prompt[r] \in Nat \ {0} /\ uids \in Nat
    BY <1>0, <1>4, SetupFacts DEF IsSetup, Shapes
  <2> DEFINE a == seq'[r]
             u == uids + Place(popped, r)
             l == cfg.prompt[r]
  <2>3. a = [NoSeq EXCEPT !.uid = u, !.len = l] /\ l >= 1
    BY <1>5, <2>1, <2>2
  <2> HIDE DEF a, u, l
  <2>4. ~a.active /\ a.filled = 0 /\ a.iin = 0 /\ a.inew = 0 /\ a.input = 0 /\ a.len = l
    BY <2>3 DEF NoSeq
  <2>5. PICK i \in DOMAIN Joined : Joined[i] = r
    BY <1>6, <1>7, <1>9 DEF Range
  <2>6. i \notin DOMAIN slots
    <3>1. r \notin Range(slots)
      BY <1>7, <2>1 DEF Present
    <3> QED
      BY <1>6, <2>5, <3>1 DEF Range
  <2>7. i > nactive /\ i \in Nat
    <3> DEFINE n == Len(slots)
               m == Len(Joined)
    <3>1. DOMAIN slots = 1..n /\ n \in Nat /\ DOMAIN Joined = 1..m /\ m \in Nat /\ nactive <= n /\ nactive \in Nat
      BY <1>0, <1>6, ElementOf DEF Shapes
    <3> HIDE DEF n, m
    <3> QED
      BY <2>5, <2>6, <3>1
  <2>8. Place(slots', r) = i
    BY <1>8, <2>5
  <2>9. a.len >= 1 /\ held'[r] = 0
    BY <1>5, <2>1, <2>3, <2>4
  <2> QED
    BY <1>4, <2>4, <2>7, <2>8, <2>9 DEF Welcome, a
<1>10. CASE r \notin Range(Entering)
  <2>1. r \in Present
    BY <1>3, <1>10
  <2>2. r \notin Range(Doomed)
    <3> SUFFICES ASSUME r \in Range(Doomed) PROVE FALSE
      OBVIOUS
    <3> DEFINE yes == TRUE
               q == seq[r]
    <3>1. Admitted(r) = [q EXCEPT !.retiring = yes] /\ q \in SeqRecords
      BY <1>0, <1>4, <1>10, AdmittedOf, SeqOfReq
    <3> HIDE DEF yes, q
    <3>2. Admitted(r).retiring = yes
      BY <3>1 DEF SeqRecords
    <3> QED
      BY <1>2, <1>5, <3>2 DEF yes
  <2>3. Admitted(r) = seq[r]
    BY <1>0, <1>4, <1>10, <2>2, AdmittedOf
  <2>4. Place(slots', r) = Place(slots, r)
    <3>1. Place(slots, r) \in DOMAIN slots /\ slots[Place(slots, r)] = r
      BY <2>1, PlacedIn
    <3> QED
      BY <1>6, <1>8, <3>1
  <2>5. r \in Eligible
    BY <1>2, <1>5, <2>1, <2>3 DEF Eligible
  <2> QED
    BY <1>4, <1>5, <2>3, <2>4, <2>5 DEF Welcome
<1> QED
  BY <1>9, <1>10

LEMMA AdmitForesees ==
    ASSUME TurboEngineAssumption, Frame, Alive, Predicted, Filled, Admit
    PROVE  Predicted' /\ Filled'
<1>0. Shapes /\ Places /\ Chained
  BY DEF Frame
<1>1. /\ UNCHANGED <<cfg, perm, nactive, nswapout, inbound, outbound, dev, kv>>
      /\ pc # "collect" /\ pc' # "collect"
  BY DEF Admit, pipeVars, deviceVars
<1>2. Pipeline' = Pipeline /\ Newest' = Newest
  BY <1>1 DEF Pipeline, Newest
<1>3. nactive' <= Len(slots')
  <2>1. DOMAIN slots' = DOMAIN Joined /\ slots' \in Seq(Reqs \cup {NoReq})
    BY <1>0, AdmitRetires DEF Retired
  <2>2. \A i \in DOMAIN slots : i \in DOMAIN Joined
    BY <1>0, JoinedOf
  <2> DEFINE s == slots'
             m == Len(s)
             n == Len(slots)
  <2>3. DOMAIN slots = 1..n /\ n \in Nat
    BY <1>0, ElementOf DEF Shapes
  <2>4. DOMAIN s = 1..m /\ m \in Nat
    BY <2>1, ElementOf
  <2>5. nactive <= n /\ nactive \in Nat
    BY <1>0 DEF Predicted, Shapes
  <2> HIDE DEF m, n, s
  <2>6. \A i \in 1..n : i \in 1..m
    BY <2>1, <2>2, <2>3, <2>4 DEF s
  <2>7. n <= m
    BY <2>3, <2>4, <2>6
  <2> QED
    BY <1>1, <2>4, <2>5, <2>3, <2>7 DEF m, s
<1>4. ASSUME NEW r \in Eligible' PROVE r \in Reqs /\ Welcome(r)
  BY WelcomeOf DEF Predicted
<1>5. ASSUME NEW r \in Eligible' PROVE Foreseen(r)' /\ Kept(r)' /\ Ready(r)'
  <2> DEFINE a == seq'[r]
             q == seq[r]
             i == Place(slots', r)
  <2>1. r \in Reqs /\ Welcome(r)
    BY <1>4
  <2>2. Place(slots, r)' = i
    OBVIOUS
  <2>3. Drained(r)' = Drained(r) /\ Drained(r) \in Int /\ Drained(r) >= 0
    <3>1. Drained(r)' = Drained(r)
      BY <1>1 DEF Drained, Before, Lasts, Names, NamedAt
    <3> QED
      BY <2>1, <3>1, DrainedNat
  <2>4. CASE r \in Eligible /\ a = q /\ held'[r] = held[r] /\ i = Place(slots, r)
    <3>1. Foreseen(r) /\ Kept(r) /\ Ready(r)
      BY <2>4 DEF Predicted, Filled
    <3>2. Reached(r)' = Reached(r) /\ Lasting(r)' = Lasting(r)
      BY <1>1, <2>4 DEF Reached, Lasting, Newly, Context
    <3>3. Foreseen(r)'
      BY <1>1, <1>2, <2>2, <2>4, <3>1, <3>2 DEF Foreseen
    <3>4. Kept(r)'
      BY <1>1, <2>3, <2>4, <3>1, <3>2 DEF Kept
    <3>5. Ready(r)'
      BY <1>1, <2>2, <2>4, <3>1, <3>2 DEF Ready
    <3> QED
      BY <3>3, <3>4, <3>5
  <2>5. CASE /\ ~a.active /\ a.filled = 0 /\ a.iin = 0 /\ a.inew = 0 /\ a.input = 0 /\ a.len >= 1
             /\ held'[r] = 0 /\ i > nactive /\ i \in Nat
    <3> HIDE DEF a, i
    <3>1. ~(i <= nactive)
      <4>1. nactive \in Nat
        BY <1>0 DEF Shapes
      <4> QED
        BY <2>5, <4>1
    <3>2. Foreseen(r)'
      BY <1>1, <2>2, <2>5, <3>1 DEF Foreseen, a
    <3>3. Reached(r)' = 0
      BY <1>1, <2>5 DEF Reached, Newly, a
    <3>4. Lesser(held[r] * cfg.blockSize, Reached(r))' = 0
      <4>1. cfg.blockSize \in Nat
        BY <1>0, SetupFacts DEF IsSetup
      <4>2. 0 * cfg.blockSize = 0
        BY <4>1
      <4> QED
        BY <1>1, <2>5, <3>3, <4>2 DEF Lesser
    <3>5. Kept(r)'
      BY <2>3, <2>5, <3>4 DEF Kept, a
    <3>6. Ready(r)'
      BY <2>5 DEF Ready, a
    <3> QED
      BY <3>2, <3>5, <3>6
  <2> QED
    BY <2>1, <2>4, <2>5 DEF Welcome
<1>6. Predicted'
  BY <1>3, <1>5 DEF Predicted
<1>7. \A k \in DOMAIN outbound' : Fed(k)'
  <2>1. \A k \in DOMAIN outbound : Fed(k)' = Fed(k)
    BY <1>1 DEF Fed, Sorted, FedRow, GoesOn, Carried, Before, Lasts, Names, NamedAt
  <2> QED
    BY <1>1, <2>1 DEF Filled
<1>8. Filled'
  BY <1>1, <1>5, <1>7 DEF Filled, Brought
<1> QED
  BY <1>6, <1>8

---------------------------------------------------------------------------
(* Every step. *)

LEMMA InitForesees ==
    ASSUME TurboEngineAssumption, Init
    PROVE  Predicted /\ Filled
<1>1. /\ slots = <<>> /\ nactive = 0 /\ outbound = <<>> /\ kv = [r \in Reqs |-> 0] /\ pc = "pop"
      /\ inbound = [i \in 1 .. cfg.phases - 1 |-> NoBatch]
  BY DEF Init
<1>2. Eligible = {} /\ Len(slots) = 0
  BY <1>1 DEF Eligible, Present, Range
<1>3. \A k \in DOMAIN inbound : Brought(inbound[k])
  <2> TAKE k \in DOMAIN inbound
  <2>1. inbound[k] = NoBatch
    BY <1>1
  <2>2. DOMAIN NoBatch.rows = {}
    BY DEF NoBatch
  <2> QED
    BY <2>1, <2>2 DEF Brought
<1> QED
  BY <1>1, <1>2, <1>3 DEF Predicted, Filled

LEMMA ForeseeingStep ==
    ASSUME TurboEngineAssumption, Frame, Alive, Predicted, Filled, [Next]_vars
    PROVE  Predicted' /\ Filled'
<1>1. ASSUME NEW r \in Reqs, Submit(r) PROVE Predicted' /\ Filled'
  BY <1>1, StillFullOf DEF Submit, StillFull, loopVars, stateVars, pipeVars, deviceVars
<1>2. CASE Pop
  <2>1. pc' # "collect" /\ pc # "collect"
    BY <1>2 DEF Pop
  <2>2. UNCHANGED <<cfg, slots, perm, nactive, nswapout, seq, held, inbound, outbound, dev, kv>>
    BY <1>2 DEF Pop, stateVars, pipeVars, deviceVars
  <2> QED
    BY <2>1, <2>2, StillFullOf DEF StillFull
<1>3. CASE Admit
  BY <1>3, AdmitForesees
<1>4. CASE SubmitBatch
  BY <1>4, SubmitPredicted, SubmitFilled
<1>5. CASE Collect
  BY <1>5, CollectForesees
<1>6. ASSUME NEW stop, RunBatch(stop) PROVE Predicted' /\ Filled'
  BY <1>6, RunPredicted, RunFilled
<1>7. ASSUME Outside PROVE Predicted' /\ Filled'
  BY <1>7, StillFullOf DEF Outside, StillInside, StillFull
<1>8. CASE Signal
  BY <1>7, <1>8, SignalOutside
<1>9. ASSUME NEW r \in Reqs, Release(r) \/ Consume(r) \/ Leave(r) \/ AsyncCancel(r) PROVE Predicted' /\ Filled'
  BY <1>7, <1>9, ReleaseOutside, ConsumeOutside, LeaveOutside, AsyncCancelOutside
<1>10. CASE UNCHANGED vars
  BY <1>10, StillFullOf DEF vars, StillFull, stateVars, pipeVars, deviceVars, loopVars
<1> QED
  BY <1>1, <1>2, <1>3, <1>4, <1>5, <1>6, <1>8, <1>9, <1>10 DEF Next, System, Engine, Executor, Users

---------------------------------------------------------------------------
(* The tokens: what a sequence counts, what its reader was told. *)

LEMMA TallyOf ==
    ASSUME TurboEngineAssumption, Shapes, NEW r \in Reqs
    PROVE  cfg.prompt[r] \in Nat /\ cfg.prompt[r] >= 1 /\ Len(out[r]) \in Nat /\ out[r] \in Seq(Tokens) /\ prev[r] \in Int
<1>1. cfg.prompt[r] \in Nat \ {0}
  BY SetupFacts DEF IsSetup
<1>2. out[r] \in Seq(Tokens) /\ prev[r] \in Int
  BY DEF Shapes
<1> QED
  BY <1>1, <1>2, ElementOf

\* A step that hands nothing on and tells nobody anything.
LEMMA CountsStill ==
    ASSUME Counts, UNCHANGED <<cfg, client, prev, told, state, signals, out>>,
           \A r \in Present' : r \in Present /\ seq'[r].len = seq[r].len,
           \A r \in Reqs : r \in Range(queue') \/ r \in Range(popped') => r \in Range(queue) \/ r \in Range(popped),
           \A i \in DOMAIN sigs' : sigs'[i].st = OutOfMemory
    PROVE  Counts'
<1>1. \A r \in Present' : seq'[r].len = cfg'.prompt[r] + Len(out'[r])
  BY DEF Counts
<1>2. \A r \in Reqs : client'[r] = "idle" \/ r \in Range(queue') \/ r \in Range(popped') => out'[r] = <<>>
  BY DEF Counts
<1>3. \A r \in Reqs : \A s \in state'[r] : Told(r, s)'
  BY DEF Counts, Told
<1>4. (\A i \in DOMAIN signals : Told(signals[i].req, signals[i]))'
  BY DEF Counts, Told
<1>5. OutputsRight'
  BY DEF Counts, OutputsRight
<1> QED
  BY <1>1, <1>2, <1>3, <1>4, <1>5 DEF Counts, Range

LEMMA SubmitCounts ==
    ASSUME TurboEngineAssumption, Frame, Counts, NEW r \in Reqs, Submit(r)
    PROVE  Counts'
<1>0. Shapes
  BY DEF Frame
<1>1. /\ UNCHANGED <<cfg, told, state, signals, sigs, out, popped, seq, slots>>
      /\ client[r] = "idle" /\ client' = [client EXCEPT ![r] = "reading"]
      /\ prev' = [prev EXCEPT ![r] = cfg.prompt[r]] /\ queue' = Append(queue, r)
  BY DEF Submit, loopVars, stateVars
<1>2. Present' = Present
  BY <1>1 DEF Present, Range
<1>3. Range(queue') \subseteq Range(queue) \cup {r}
  <2>1. queue \in Seq(Reqs)
    BY <1>0 DEF Shapes
  <2> QED
    BY <1>1, <2>1, AppendOf DEF Range
<1>4. client \in [Reqs -> {"idle", "reading", "draining", "done", "gone"}] /\ prev \in [Reqs -> Int]
  BY <1>0 DEF Shapes
<1>5. \A p \in Reqs : client'[p] = "idle" \/ p \in Range(queue') \/ p \in Range(popped') => out'[p] = <<>>
  <2> TAKE p \in Reqs
  <2>1. client[p] = "idle" \/ p \in Range(queue) \/ p \in Range(popped) => out[p] = <<>>
    BY DEF Counts
  <2>2. popped' = popped /\ out' = out
    BY <1>1
  <2> QED
    BY <1>1, <1>3, <1>4, <2>1, <2>2
<1>6. \A p \in Reqs : \A s \in state'[p] : Told(p, s)'
  BY <1>1 DEF Counts, Told
<1>7. (\A i \in DOMAIN signals : Told(signals[i].req, signals[i]))'
  BY <1>1 DEF Counts, Told
<1>8. OutputsRight'
  <2> SUFFICES ASSUME NEW p \in Reqs
               PROVE  /\ \A i \in DOMAIN out[p] : out[p][i] = [req |-> p, pos |-> cfg.prompt[p] + i - 1, good |-> TRUE]
                      /\ prev'[p] <= cfg.prompt[p] + Len(out[p])
                      /\ client'[p] = "done" /\ told[p] = Finish => prev'[p] = cfg.prompt[p] + Len(out[p])
    BY <1>1 DEF OutputsRight
  <2>1. /\ \A i \in DOMAIN out[p] : out[p][i] = [req |-> p, pos |-> cfg.prompt[p] + i - 1, good |-> TRUE]
        /\ prev[p] <= cfg.prompt[p] + Len(out[p])
        /\ client[p] = "done" /\ told[p] = Finish => prev[p] = cfg.prompt[p] + Len(out[p])
    BY DEF Counts, OutputsRight
  <2>2. cfg.prompt[p] \in Nat /\ Len(out[p]) \in Nat
    BY <1>0, TallyOf
  <2>3. CASE p = r
    <3>1. prev'[p] = cfg.prompt[p] /\ client'[p] = "reading"
      BY <1>1, <1>4, <2>3
    <3>2. prev'[p] <= cfg.prompt[p] + Len(out[p])
      BY <2>2, <3>1
    <3> QED
      BY <2>1, <3>1, <3>2
  <2>4. CASE p # r
    BY <1>1, <1>4, <2>1, <2>4
  <2> QED
    BY <2>3, <2>4
<1> QED
  BY <1>1, <1>2, <1>5, <1>6, <1>7, <1>8 DEF Counts

\* The reader takes over what the state says.
LEMMA ConsumeCounts ==
    ASSUME TurboEngineAssumption, Frame, Counts, NEW r \in Reqs, Consume(r)
    PROVE  Counts'
<1>0. Shapes
  BY DEF Frame
<1>1. /\ UNCHANGED <<cfg, queue, signals, sigs, out, popped, seq, slots>>
      /\ client[r] \in {"reading", "draining"} /\ state' = [state EXCEPT ![r] = {}]
  BY DEF Consume, loopVars, stateVars
<1>2. PICK s \in state[r] :
         /\ prev' = IF client[r] = "reading" /\ s.st \in {Ok, Finish, Canceled}
                    THEN [prev EXCEPT ![r] = s.len] ELSE prev
         /\ told' = [told EXCEPT ![r] = s.st]
         /\ client' = IF s.st = Ok THEN client
                      ELSE [client EXCEPT ![r] = IF @ = "reading" THEN "done" ELSE "gone"]
  BY DEF Consume
<1>3. Present' = Present
  BY <1>1 DEF Present, Range
<1>4. /\ client \in [Reqs -> {"idle", "reading", "draining", "done", "gone"}] /\ prev \in [Reqs -> Int]
      /\ told \in [Reqs -> Statuses] /\ state \in [Reqs -> SUBSET States]
  BY <1>0 DEF Shapes
<1>5. \A p \in Reqs : client'[p] = "idle" \/ p \in Range(queue') \/ p \in Range(popped') => out'[p] = <<>>
  <2> TAKE p \in Reqs
  <2>1. client[p] = "idle" \/ p \in Range(queue) \/ p \in Range(popped) => out[p] = <<>>
    BY DEF Counts
  <2>2. popped' = popped /\ out' = out /\ queue' = queue
    BY <1>1
  <2>3. client'[p] = "idle" => client[p] = "idle"
    BY <1>1, <1>2, <1>4
  <2> QED
    BY <2>1, <2>2, <2>3
<1>6. \A p \in Reqs : \A t \in state'[p] : Told(p, t)'
  <2> SUFFICES ASSUME NEW p \in Reqs, NEW t \in state'[p] PROVE Told(p, t)'
    OBVIOUS
  <2>1. t \in state[p]
    BY <1>1, <1>4
  <2>2. Told(p, t)
    BY <2>1 DEF Counts
  <2> QED
    BY <1>1, <2>2 DEF Told
<1>7. (\A i \in DOMAIN signals : Told(signals[i].req, signals[i]))'
  BY <1>1 DEF Counts, Told
<1>8. OutputsRight'
  <2> SUFFICES ASSUME NEW p \in Reqs
               PROVE  /\ \A i \in DOMAIN out[p] : out[p][i] = [req |-> p, pos |-> cfg.prompt[p] + i - 1, good |-> TRUE]
                      /\ prev'[p] <= cfg.prompt[p] + Len(out[p])
                      /\ client'[p] = "done" /\ told'[p] = Finish => prev'[p] = cfg.prompt[p] + Len(out[p])
    BY <1>1 DEF OutputsRight
  <2>1. /\ \A i \in DOMAIN out[p] : out[p][i] = [req |-> p, pos |-> cfg.prompt[p] + i - 1, good |-> TRUE]
        /\ prev[p] <= cfg.prompt[p] + Len(out[p])
        /\ client[p] = "done" /\ told[p] = Finish => prev[p] = cfg.prompt[p] + Len(out[p])
    BY DEF Counts, OutputsRight
  <2>2. CASE p = r
    <3>1. /\ s.st \in {Ok, Finish, Canceled} => s.len <= cfg.prompt[r] + Len(out[r])
          /\ s.st = Finish => s.len = cfg.prompt[r] + Len(out[r])
      BY DEF Counts, Told
    <3>2. prev'[r] = IF client[r] = "reading" /\ s.st \in {Ok, Finish, Canceled} THEN s.len ELSE prev[r]
      BY <1>2, <1>4
    <3>3. prev'[r] <= cfg.prompt[r] + Len(out[r])
      BY <2>1, <2>2, <3>1, <3>2
    <3>4. told'[r] = s.st /\ Ok # Finish
      BY <1>2, <1>4 DEF Ok, Finish
    <3>5. client'[r] = "done" /\ s.st = Finish => client[r] = "reading"
      BY <1>1, <1>2, <1>4, <3>4
    <3>6. client'[r] = "done" /\ told'[r] = Finish => prev'[r] = cfg.prompt[r] + Len(out[r])
      BY <3>1, <3>2, <3>4, <3>5
    <3> QED
      BY <2>1, <2>2, <3>3, <3>6
  <2>3. CASE p # r
    <3>1. prev'[p] = prev[p] /\ told'[p] = told[p] /\ client'[p] = client[p]
      BY <1>2, <1>4, <2>3
    <3> QED
      BY <2>1, <3>1
  <2> QED
    BY <2>2, <2>3
<1> QED
  BY <1>1, <1>3, <1>5, <1>6, <1>7, <1>8 DEF Counts

\* Signals that are added, and readers that go on or only drain.
LEMMA CountsTell ==
    ASSUME TurboEngineAssumption, Frame, Counts, UNCHANGED <<cfg, prev, told, state, out>>,
           \A r \in Present' : seq'[r].len = cfg.prompt[r] + Len(out[r]),
           \A r \in Reqs : client'[r] = "idle" \/ r \in Range(queue') \/ r \in Range(popped')
                              => client[r] = "idle" \/ r \in Range(queue) \/ r \in Range(popped),
           \A r \in Reqs : client'[r] = "done" => client[r] = "done",
           sigs' = sigs, NEW a \in Seq(Signals), signals' = signals \o a, \A i \in DOMAIN a : Told(a[i].req, a[i])
    PROVE  Counts'
<1>0. signals \in Seq(Signals)
  BY DEF Frame, Shapes
<1>1. \A r \in Reqs : client'[r] = "idle" \/ r \in Range(queue') \/ r \in Range(popped') => out'[r] = <<>>
  BY DEF Counts
<1>2. \A r \in Reqs : \A s \in state'[r] : Told(r, s)'
  BY DEF Counts, Told
<1>3. \A i \in DOMAIN (signals \o a) : Told((signals \o a)[i].req, (signals \o a)[i])
  <2> TAKE i \in DOMAIN (signals \o a)
  <2>1. \/ i \in DOMAIN signals /\ (signals \o a)[i] = signals[i]
        \/ \E j \in DOMAIN a : i = Len(signals) + j /\ (signals \o a)[i] = a[j]
    BY <1>0, JoinOf
  <2>2. \A j \in DOMAIN signals : Told(signals[j].req, signals[j])
    BY DEF Counts
  <2> QED
    BY <2>1, <2>2
<1>4. (\A i \in DOMAIN signals : Told(signals[i].req, signals[i]))'
  <2>1. \A q : q = signals \o a => \A i \in DOMAIN q : Told(q[i].req, q[i])
    BY <1>3
  <2>2. \A q : q = signals' => \A i \in DOMAIN q : Told(q[i].req, q[i])
    BY <2>1
  <2> QED
    BY <2>2 DEF Told
<1>5. OutputsRight'
  BY DEF Counts, OutputsRight
<1> QED
  BY <1>1, <1>2, <1>4, <1>5 DEF Counts

LEMMA LeaveCounts ==
    ASSUME TurboEngineAssumption, Frame, Counts, NEW r \in Reqs, Leave(r) \/ AsyncCancel(r)
    PROVE  Counts'
<1>0. Shapes
  BY DEF Frame
<1>1. /\ UNCHANGED <<cfg, prev, told, state, out, sigs, queue, popped, seq, slots>> /\ Cancel(r)
      /\ client[r] = "reading" /\ client' \in {client, [client EXCEPT ![r] = "draining"]}
  BY DEF Leave, AsyncCancel, clientVars, loopVars, stateVars
<1>2. Present' = Present
  BY <1>1 DEF Present, Range
<1>3. \A p \in Present' : seq'[p].len = cfg.prompt[p] + Len(out[p])
  BY <1>1, <1>2 DEF Counts
<1>4. client \in [Reqs -> {"idle", "reading", "draining", "done", "gone"}]
  BY <1>0 DEF Shapes
<1>5. \A p \in Reqs : (client'[p] = "idle" => client[p] = "idle") /\ (client'[p] = "done" => client[p] = "done")
  BY <1>1, <1>4
<1> DEFINE s == [req |-> r, st |-> Canceled, len |-> 0]
           a == <<s>>
<1>6. s \in Signals /\ <<>> \in Seq(Signals) /\ a \in Seq(Signals)
  BY DEF Signals, Statuses, Answered, Canceled
<1>7. signals \in Seq(Signals)
  BY <1>0 DEF Shapes
<1>8. Told(r, s)
  <2>1. cfg.prompt[r] \in Nat /\ Len(out[r]) \in Nat
    BY <1>0, TallyOf
  <2>2. 0 <= cfg.prompt[r] + Len(out[r])
    BY <2>1
  <2> QED
    BY <2>2 DEF Told, Canceled, Finish
<1>9. signals' = signals \o a \/ signals' = signals \o <<>>
  <2>1. signals' = Append(signals, s) \/ signals' = signals
    BY <1>1 DEF Cancel
  <2> HIDE DEF s
  <2>2. Append(signals, s) = signals \o a
    BY <1>6, <1>7
  <2>3. signals = signals \o <<>>
    BY <1>7
  <2> QED
    BY <2>1, <2>2, <2>3
<1>10. CASE signals' = signals \o a
  <2>1. DOMAIN a = {1} /\ a[1] = s /\ s.req = r
    OBVIOUS
  <2> HIDE DEF a, s
  <2>2. \A i \in DOMAIN a : Told(a[i].req, a[i])
    BY <1>8, <2>1
  <2> QED
    BY <1>1, <1>3, <1>5, <1>6, <1>10, <2>2, CountsTell
<1>11. CASE signals' = signals \o <<>>
  <2> DEFINE b == <<>>
  <2>1. b \in Seq(Signals) /\ signals' = signals \o b /\ DOMAIN b = {}
    BY <1>6, <1>11
  <2> HIDE DEF b, a
  <2>2. \A i \in DOMAIN b : Told(b[i].req, b[i])
    BY <2>1
  <2> QED
    BY <1>1, <1>3, <1>5, <2>1, <2>2, CountsTell
<1> QED
  BY <1>9, <1>10, <1>11

\* A signal becomes the state of its request.
LEMMA SignalCounts ==
    ASSUME TurboEngineAssumption, Frame, Counts, Signal
    PROVE  Counts'
<1>0. Shapes /\ signals \in Seq(Signals) /\ signals # <<>> /\ state \in [Reqs -> SUBSET States]
  BY DEF Frame, Shapes, Signal
<1> DEFINE s == Head(signals)
           t == [st |-> s.st, len |-> s.len]
<1>1. /\ UNCHANGED <<cfg, client, prev, told, queue, sigs, out, popped, seq, slots>>
      /\ state' = [state EXCEPT ![s.req] = {t}] /\ signals' = Tail(signals)
  BY DEF Signal, clientVars, loopVars, stateVars
<1>2. Present' = Present
  BY <1>1 DEF Present, Range
<1>3. /\ Tail(signals) \in Seq(Signals) /\ Head(signals) = signals[1] /\ 1 \in DOMAIN signals
      /\ \A i \in DOMAIN Tail(signals) : i + 1 \in DOMAIN signals /\ Tail(signals)[i] = signals[i + 1]
  BY <1>0, TailOf
<1>4. \A i \in DOMAIN signals : Told(signals[i].req, signals[i])
  BY DEF Counts
<1>5. s \in Signals /\ s.req \in Reqs /\ Told(s.req, s)
  <2>1. s = signals[1] /\ signals[1] \in Signals /\ Told(signals[1].req, signals[1])
    BY <1>0, <1>3, <1>4, ElementOf
  <2> HIDE DEF s
  <2>2. s.req \in Reqs
    BY <2>1 DEF Signals
  <2> QED
    BY <2>1, <2>2
<1>6. Told(s.req, t)
  BY <1>5 DEF Told
<1> HIDE DEF s, t
<1>7. \A r \in Reqs : \A u \in state'[r] : Told(r, u)'
  <2> SUFFICES ASSUME NEW r \in Reqs, NEW u \in state'[r] PROVE Told(r, u)'
    OBVIOUS
  <2>1. (r = s.req /\ u = t) \/ u \in state[r]
    BY <1>0, <1>1
  <2>2. Told(r, u)
    BY <1>6, <2>1 DEF Counts
  <2> QED
    BY <1>1, <2>2 DEF Told
<1>8. (\A i \in DOMAIN signals : Told(signals[i].req, signals[i]))'
  <2>1. \A q : q = signals' => \A i \in DOMAIN q : Told(q[i].req, q[i])
    <3> TAKE q
    <3> HAVE q = signals'
    <3> TAKE i \in DOMAIN q
    <3>1. q[i] = signals[i + 1] /\ i + 1 \in DOMAIN signals
      BY <1>1, <1>3
    <3> QED
      BY <1>4, <3>1
  <2> QED
    BY <1>1, <2>1 DEF Told
<1>9. OutputsRight'
  BY <1>1 DEF Counts, OutputsRight
<1>10. \A r \in Reqs : client'[r] = "idle" \/ r \in Range(queue') \/ r \in Range(popped') => out'[r] = <<>>
  BY <1>1 DEF Counts
<1>11. \A r \in Present' : seq'[r].len = cfg'.prompt[r] + Len(out'[r])
  BY <1>1, <1>2 DEF Counts
<1>12. \A i \in DOMAIN sigs' : sigs'[i].st = OutOfMemory
  BY <1>1 DEF Counts
<1> QED
  BY <1>7, <1>8, <1>9, <1>10, <1>11, <1>12 DEF Counts

\* What is refused or cancelled is told no tokens that it did not get; what
\* enters starts from its prompt.
LEMMA AdmitCounts ==
    ASSUME TurboEngineAssumption, Frame, Counts, Admit
    PROVE  Counts'
<1>0. Shapes /\ Places
  BY DEF Frame
<1>1. /\ UNCHANGED <<cfg, client, prev, told, state, out, sigs, queue>>
      /\ popped' = <<>> /\ signals' = signals \o Refusals \o Cancellations
  BY DEF Admit, clientVars, Refusals, Cancellations
<1>2. signals \in Seq(Signals) /\ queue \in Seq(Reqs) /\ popped \in Seq(Reqs)
  BY <1>0 DEF Shapes
<1>3. /\ Refusals \in Seq(Signals) /\ DOMAIN Refusals = DOMAIN Refused
      /\ \A i \in DOMAIN Refused : Refusals[i] = [req |-> Refused[i], st |-> Verdict(Refused[i]), len |-> 0]
      /\ Cancellations \in Seq(Signals) /\ DOMAIN Cancellations = DOMAIN Doomed
      /\ \A i \in DOMAIN Doomed : Cancellations[i] = [req |-> Doomed[i], st |-> Canceled, len |-> seq[Doomed[i]].len]
  BY <1>0, AdmitAnswers
<1>4. /\ Refused \in Seq(Reqs) /\ Doomed \in Seq(Reqs)
      /\ Range(Entering) = {r \in Range(popped) : Verdict(r) = Ok}
      /\ Range(Doomed) = {r \in Present : flag[r] = -1 /\ ~seq[r].retiring}
  BY <1>0, EntrantsOf
<1>5. \A i \in DOMAIN Refusals : Told(Refusals[i].req, Refusals[i])
  <2> TAKE i \in DOMAIN Refusals
  <2> DEFINE r == Refused[i]
             v == Verdict(r)
             e == Refusals[i]
  <2>1. e = [req |-> r, st |-> v, len |-> 0] /\ r \in Reqs
    BY <1>3, <1>4, ElementOf
  <2>2. cfg.prompt[r] \in Nat /\ cfg.prompt[r] >= 1 /\ Len(out[r]) \in Nat
    BY <1>0, <2>1, TallyOf
  <2>3. v # Finish
    BY DEF Verdict, Finish, Canceled, Conflict, TooLong, Ok
  <2> HIDE DEF r, v, e
  <2>4. e.req = r /\ e.len = 0 /\ e.st # Finish
    BY <2>1, <2>3
  <2>5. 0 <= cfg.prompt[r] + Len(out[r])
    BY <2>2
  <2>6. Told(r, e)
    BY <2>4, <2>5 DEF Told
  <2> QED
    BY <2>4, <2>6 DEF e
<1>6. \A i \in DOMAIN Cancellations : Told(Cancellations[i].req, Cancellations[i])
  <2> TAKE i \in DOMAIN Cancellations
  <2> DEFINE r == Doomed[i]
             e == Cancellations[i]
             n == seq[r].len
             c == Canceled
  <2>1. e = [req |-> r, st |-> c, len |-> n] /\ r \in Reqs /\ r \in Range(Doomed)
    BY <1>3, <1>4, ElementOf DEF Range
  <2>2. n = cfg.prompt[r] + Len(out[r])
    BY <1>4, <2>1 DEF Counts
  <2>3. cfg.prompt[r] \in Nat /\ Len(out[r]) \in Nat /\ c # Finish
    BY <1>0, <2>1, TallyOf DEF Canceled, Finish
  <2> HIDE DEF r, e, n, c
  <2>4. e.req = r /\ e.len = n /\ e.st = c
    BY <2>1
  <2>5. n <= cfg.prompt[r] + Len(out[r])
    BY <2>2, <2>3
  <2>6. Told(r, e)
    BY <2>3, <2>4, <2>5 DEF Told
  <2> QED
    BY <2>4, <2>6 DEF e
<1> DEFINE a == Refusals \o Cancellations
<1>7. a \in Seq(Signals) /\ signals' = signals \o a
  BY <1>1, <1>2, <1>3
<1>8. \A i \in DOMAIN a : Told(a[i].req, a[i])
  <2> TAKE i \in DOMAIN a
  <2>1. \/ i \in DOMAIN Refusals /\ a[i] = Refusals[i]
        \/ \E j \in DOMAIN Cancellations : i = Len(Refusals) + j /\ a[i] = Cancellations[j]
    BY <1>3, JoinOf
  <2> HIDE DEF a
  <2> QED
    BY <1>5, <1>6, <2>1
<1> HIDE DEF a
<1>9. \A r \in Present' : seq'[r].len = cfg.prompt[r] + Len(out[r])
  <2> TAKE r \in Present'
  <2>1. Retired(Joined, AdmittedSeq, held)
    BY <1>0, AdmitRetires
  <2>2. r \in Present \cup Range(Entering) /\ r \notin Gone(Joined, AdmittedSeq)
    BY <1>0, <2>1, JoinedOf DEF Retired
  <2>3. r \in Reqs
    BY <1>0, <2>2, PresentFacts, EntrantsOf DEF Range
  <2>4. seq'[r] = Admitted(r)
    BY <2>1, <2>2, <2>3 DEF Retired, AdmittedSeq
  <2>5. CASE r \in Range(Entering)
    <3> DEFINE u == uids + Place(popped, r)
               l == cfg.prompt[r]
               e == Admitted(r)
    <3>1. e = [NoSeq EXCEPT !.uid = u, !.len = l]
      BY <1>0, <2>3, <2>5, AdmittedOf
    <3> HIDE DEF u, l, e
    <3>2. e.len = l
      BY <3>1 DEF NoSeq
    <3>3. out[r] = <<>>
      BY <1>4, <2>3, <2>5 DEF Counts
    <3>4. cfg.prompt[r] \in Nat /\ Len(out[r]) = 0
      BY <1>0, <2>3, <3>3, TallyOf
    <3> QED
      BY <2>4, <3>2, <3>4 DEF e, l
  <2>6. CASE r \notin Range(Entering)
    <3>1. r \in Present /\ seq[r].len = cfg.prompt[r] + Len(out[r])
      BY <2>2, <2>6 DEF Counts
    <3>2. CASE r \in Range(Doomed)
      <4> DEFINE yes == TRUE
                 q == seq[r]
                 e == Admitted(r)
      <4>1. e = [q EXCEPT !.retiring = yes] /\ q \in SeqRecords
        BY <1>0, <2>3, <2>6, <3>2, AdmittedOf, SeqOfReq
      <4> HIDE DEF yes, q, e
      <4>2. e.len = q.len
        BY <4>1 DEF SeqRecords
      <4> QED
        BY <2>4, <3>1, <4>2 DEF e, q
    <3>3. CASE r \notin Range(Doomed)
      <4>1. Admitted(r) = seq[r]
        BY <1>0, <2>3, <2>6, <3>3, AdmittedOf
      <4> QED
        BY <2>4, <3>1, <4>1
    <3> QED
      BY <3>2, <3>3
  <2> QED
    BY <2>5, <2>6
<1>10. \A r \in Reqs : client'[r] = "idle" \/ r \in Range(queue') \/ r \in Range(popped')
                          => client[r] = "idle" \/ r \in Range(queue) \/ r \in Range(popped)
  BY <1>1 DEF Range
<1> QED
  BY <1>1, <1>7, <1>8, <1>9, <1>10, CountsTell

\* The token that a batch brought a sequence that goes on: the next, and right.
LEMMA TokenBrought ==
    ASSUME TurboEngineAssumption, Frame, Alive, Predicted, Filled, Collect, NEW b, b = Head(inbound), NEW r \in Sampling(b)
    PROVE  /\ r \in Reqs /\ r \in Eligible /\ seq[r].len \in Int
           /\ b.res[RowOf(Place(slots, r))].tok = Right(r, seq[r].len)
           /\ Collected(b)[r].len = seq[r].len + 1
<1> DEFINE q == seq[r]
           i == Place(slots, r)
           row == b.rows[RowOf(i)]
           res == b.res[RowOf(i)]
           a == Collected(b)[r]
<1>0. Shapes /\ Places /\ Chained /\ pc = "collect"
  BY DEF Frame, Collect
<1>1. Back(b)
  BY CollectFacts
<1>2. b \in Batches /\ b = Pipeline[1] /\ b = inbound[1] /\ 1 \in DOMAIN inbound
  BY <1>1 DEF Back
<1>3. r \in Present /\ Samples(b, r) /\ r \in Reqs /\ AfterFacts(b, r, a)
  BY <1>1 DEF Back, Sampling
<1>4. In(b, r) /\ row.gen /\ ~q.retiring /\ RowOf(i) \in DOMAIN b.rows
  BY <1>3 DEF Samples, In
<1>5. r \in Eligible
  BY <1>3, <1>4 DEF Eligible
<1>6. row.end \in Int /\ row.req = r
  BY <1>0, <1>2, <1>3, <1>4, InOf, BatchFields
<1>7. res.len = row.end + 1 /\ res.tok = Right(r, row.end)
  BY <1>2, <1>4, <1>6 DEF Filled, Brought
<1>8. /\ q.len \in Int /\ q.filled \in Int /\ q.iin \in Int /\ q.inew \in Int /\ q.input \in Int
      /\ q.active \in BOOLEAN /\ q.gen \in BOOLEAN
  BY <1>0, <1>3, SeqOfReq
<1>9. Foreseen(r)
  BY <1>5 DEF Predicted
<1>10. cfg.phases \in {1, 2}
  BY <1>0, SetupFacts DEF IsSetup
<1>11. row.end = q.len
  <2>1. CASE cfg.phases = 2
    <3>1. Foretold(r)
      BY <1>0, <1>9, <2>1 DEF Foreseen
    <3> QED
      BY <1>2, <1>4, <3>1 DEF Foretold
  <2>2. CASE cfg.phases = 1
    <3>1. Len(Pipeline) = 1
      <4> DEFINE l == Len(Pipeline)
                 c == cfg.phases
      <4>1. l = c - 0
        BY <1>0, PipelineOf
      <4> HIDE DEF l
      <4>2. l = 1
        BY <2>2, <4>1
      <4> QED
        BY <4>2 DEF l
    <3>2. b = Newest /\ Pipeline # <<>>
      <4>1. b = Newest
        BY <1>2, <3>1 DEF Newest
      <4>2. Pipeline # <<>>
        BY <3>1
      <4> QED
        BY <4>1, <4>2
    <3>3. RowOf(i) = i
      BY <2>2 DEF RowOf
    <3>4. i <= nactive
      BY <1>4, <1>5, <3>2, <3>3, NewestAt
    <3>5. q.active /\ row.end = Reached(r) /\ row.gen = q.gen
      BY <1>9, <3>2, <3>3, <3>4 DEF Foreseen
    <3>6. q.gen /\ Reached(r) = Lasting(r) - 1 /\ q.inew = 0
      BY <1>4, <1>9, <2>2, <3>5 DEF Foreseen
    <3>7. Lasting(r) = q.len + q.inew + 1
      BY <1>0, <3>5, <3>6 DEF Lasting, Newly, Context
    <3> HIDE DEF row, q
    <3> QED
      BY <1>8, <3>5, <3>6, <3>7
  <2> QED
    BY <1>10, <2>1, <2>2
<1>12. a.len = res.len
  BY <1>3 DEF AfterFacts
<1> QED
  BY <1>3, <1>5, <1>7, <1>8, <1>11, <1>12

\* What a request was handed by a Collect, and what of it is signalled.
Handed(b, r) ==
    /\ cfg.prompt[r] \in Nat /\ Len(out[r]) \in Nat /\ Len(out'[r]) \in Nat
    /\ IF r \in Sampling(b)
       THEN /\ Len(out'[r]) = Len(out[r]) + 1 /\ Collected(b)[r].len = cfg.prompt[r] + Len(out'[r])
            /\ told[r] \notin Answered /\ Calm(signals, r)
            /\ out'[r][Len(out[r]) + 1] = Right(r, cfg.prompt[r] + Len(out[r]))
            /\ DOMAIN out'[r] = DOMAIN out[r] \cup {Len(out[r]) + 1} /\ \A i \in DOMAIN out[r] : out'[r][i] = out[r][i]
            /\ r \in Present
       ELSE /\ out'[r] = out[r]
            /\ r \in Present => Collected(b)[r].len = cfg.prompt[r] + Len(out'[r])
LEMMA HandedOf ==
    ASSUME TurboEngineAssumption, Frame, Alive, Speaking, Predicted, Filled, Counts, Collect,
           NEW b, b = Head(inbound), NEW r \in Reqs
    PROVE  Handed(b, r)
<1>0. Shapes
  BY DEF Frame
<1>1. Back(b)
  BY CollectFacts
<1>2. out'[r] = IF r \in Sampling(b) THEN Append(out[r], b.res[RowOf(Place(slots, r))].tok) ELSE out[r]
  BY CollectDef
<1>3. cfg.prompt[r] \in Nat /\ Len(out[r]) \in Nat /\ out[r] \in Seq(Tokens)
  BY <1>0, TallyOf
<1>4. r \in Present => seq[r].len = cfg.prompt[r] + Len(out[r])
  BY DEF Counts
<1>5. CASE r \in Sampling(b)
  <2> DEFINE t == Right(r, seq[r].len)
             n == Len(out[r])
  <2>1. /\ r \in Eligible /\ b.res[RowOf(Place(slots, r))].tok = t
        /\ Collected(b)[r].len = seq[r].len + 1 /\ seq[r].len \in Int
    BY <1>5, TokenBrought
  <2>2. r \in Present /\ seq[r].len = cfg.prompt[r] + n
    BY <1>4, <2>1 DEF Eligible
  <2>3. Open(r)
    BY <2>1 DEF Eligible, Open
  <2>4. Calm(signals, r) /\ told[r] \notin Answered
    BY <2>3 DEF Speaking, Calm
  <2>5. out'[r] = Append(out[r], t)
    BY <1>2, <1>5, <2>1
  <2>6. t \in Tokens
    <3> DEFINE m == seq[r].len
               yes == TRUE
    <3>1. m \in Int /\ yes \in BOOLEAN /\ t = [req |-> r, pos |-> m, good |-> yes]
      BY <2>1 DEF Right
    <3> HIDE DEF m, yes, t
    <3> QED
      BY <3>1 DEF Tokens
  <2> HIDE DEF t
  <2>7. /\ Len(Append(out[r], t)) = n + 1
        /\ DOMAIN Append(out[r], t) = DOMAIN out[r] \cup {n + 1}
        /\ \A i \in DOMAIN out[r] : Append(out[r], t)[i] = out[r][i]
        /\ Append(out[r], t)[n + 1] = t
    BY <1>3, <2>6, AppendOf
  <2>8. t = Right(r, cfg.prompt[r] + n)
    BY <2>2 DEF t
  <2>9. Collected(b)[r].len = cfg.prompt[r] + (n + 1) /\ n + 1 \in Nat
    BY <1>3, <2>1, <2>2
  <2> QED
    BY <1>3, <1>5, <2>2, <2>4, <2>5, <2>7, <2>8, <2>9 DEF Handed
<1>6. CASE r \notin Sampling(b)
  <2>1. r \in Present => Collected(b)[r].len = seq[r].len
    BY <1>1, <1>6 DEF Back, AfterFacts, Sampling
  <2> QED
    BY <1>2, <1>3, <1>4, <1>6, <2>1 DEF Handed
<1> QED
  BY <1>5, <1>6

LEMMA ToldStays ==
    ASSUME NEW b, NEW r \in Reqs, Handed(b, r), cfg' = cfg, NEW s, s.len \in Int, Told(r, s),
           r \in Sampling(b) => s.st \notin Answered
    PROVE  Told(r, s)'
<1> DEFINE p == cfg.prompt[r]
           n == Len(out[r])
           m == Len(out'[r])
<1>1. p \in Nat /\ n \in Nat /\ m \in Nat /\ m \in {n, n + 1} /\ (r \notin Sampling(b) => m = n)
  BY DEF Handed
<1>2. /\ s.st \in {Ok, Finish, Canceled} => s.len <= p + n
      /\ s.st = Finish => s.len = p + n /\ r \notin Sampling(b)
  BY DEF Told, Answered
<1> HIDE DEF p, n, m
<1>3. /\ s.st \in {Ok, Finish, Canceled} => s.len <= p + m
      /\ s.st = Finish => s.len = p + m
  BY <1>1, <1>2
<1> QED
  BY <1>3 DEF Told, p, m

\* What is signalled after a Collect says how far its request has come.
LEMMA CollectTells ==
    ASSUME TurboEngineAssumption, Frame, Counts, Collect,
           NEW b, b = Head(inbound), \A r \in Reqs : Handed(b, r), NEW q, q = signals', NEW i \in DOMAIN q
    PROVE  q[i].req \in Reqs /\ Told(q[i].req, q[i])'
<1>0. Shapes /\ cfg' = cfg /\ signals' = signals \o sigs \o Reports(b)
  BY CollectDef DEF Frame
<1>1. Back(b)
  BY CollectFacts
<1>2. signals \in Seq(Signals) /\ sigs \in Seq(Signals) /\ Reports(b) \in Seq(Signals)
  BY <1>0, <1>1 DEF Shapes, Back
<1>3. /\ signals \o sigs \in Seq(Signals)
      /\ \A j \in DOMAIN (signals \o sigs) : \/ j \in DOMAIN signals /\ (signals \o sigs)[j] = signals[j]
                                             \/ \E k \in DOMAIN sigs : (signals \o sigs)[j] = sigs[k]
  BY <1>2, JoinOf
<1> DEFINE p == signals \o sigs
<1>4. \/ i \in DOMAIN p /\ q[i] = p[i]
      \/ \E k \in DOMAIN Reports(b) : q[i] = Reports(b)[k]
  <2> HIDE DEF p
  <2>1. q = p \o Reports(b) /\ p \in Seq(Signals)
    BY <1>0, <1>3 DEF p
  <2> QED
    BY <1>2, <2>1, JoinOf
<1>5. ASSUME NEW j \in DOMAIN signals, q[i] = signals[j] PROVE q[i].req \in Reqs /\ Told(q[i].req, q[i])'
  <2>1. signals[j] \in Signals /\ Told(signals[j].req, signals[j])
    BY <1>2, ElementOf DEF Counts
  <2> DEFINE e == q[i]
             r == e.req
  <2>2. e \in Signals /\ Told(r, e) /\ e = signals[j]
    BY <1>5, <2>1
  <2> HIDE DEF e
  <2>3. r \in Reqs /\ e.len \in Int
    BY <2>2 DEF Signals
  <2>4. Handed(b, r)
    BY <2>3
  <2>5. r \in Sampling(b) => e.st \notin Answered
    BY <2>2, <2>4 DEF Handed, Calm
  <2> HIDE DEF r
  <2>6. Told(r, e)'
    BY <1>0, <2>2, <2>3, <2>4, <2>5, ToldStays
  <2> QED
    BY <2>3, <2>6 DEF r, e
<1>6. ASSUME NEW j \in DOMAIN sigs, q[i] = sigs[j] PROVE q[i].req \in Reqs /\ Told(q[i].req, q[i])'
  <2>1. sigs[j] \in Signals /\ sigs[j].st = OutOfMemory
    BY <1>2, ElementOf DEF Counts
  <2>2. q[i] \in Signals /\ q[i].st = OutOfMemory
    BY <1>6, <2>1
  <2>3. q[i].req \in Reqs
    BY <2>2 DEF Signals
  <2> QED
    BY <2>2, <2>3 DEF Told, OutOfMemory, Ok, Finish, Canceled
<1>7. ASSUME NEW j \in DOMAIN Reports(b), q[i] = Reports(b)[j] PROVE q[i].req \in Reqs /\ Told(q[i].req, q[i])'
  <2> DEFINE r == Informed(b)[j]
             st == IF Collected(b)[r].retiring THEN Finish ELSE Ok
             n == Collected(b)[r].len
             e == q[i]
  <2>1. e = [req |-> r, st |-> st, len |-> n] /\ r \in Reqs /\ r \in Range(Informed(b)) /\ j \in DOMAIN Informed(b)
    BY <1>1, <1>7, ElementOf DEF Back, Range
  <2>2. r \in Sampling(b)
    BY <1>1, <2>1 DEF Back
  <2>3. n = cfg.prompt[r] + Len(out'[r]) /\ cfg.prompt[r] \in Nat /\ Len(out'[r]) \in Nat
    BY <2>1, <2>2 DEF Handed
  <2> HIDE DEF r, st, n, e
  <2>4. e.req = r /\ e.len = n
    BY <2>1
  <2>5. e.len = cfg'.prompt[r] + Len(out'[r]) /\ e.len <= cfg'.prompt[r] + Len(out'[r])
    BY <1>0, <2>3, <2>4
  <2>6. \A a, v : a.len = cfg'.prompt[v] + Len(out'[v]) /\ a.len <= cfg'.prompt[v] + Len(out'[v]) => Told(v, a)'
    BY DEF Told
  <2>7. \A a : a = e => Told(a.req, a)'
    <3> TAKE a
    <3> HAVE a = e
    <3> DEFINE v == a.req
    <3>1. v = r
      BY <2>4
    <3> HIDE DEF v
    <3> QED
      BY <2>5, <2>6, <3>1 DEF v
  <2> QED
    BY <2>1, <2>4, <2>7 DEF e
<1>8. CASE i \in DOMAIN p /\ q[i] = p[i]
  BY <1>3, <1>5, <1>6, <1>8
<1> HIDE DEF p
<1> QED
  BY <1>4, <1>7, <1>8

LEMMA CollectCounts ==
    ASSUME TurboEngineAssumption, Frame, Alive, Speaking, Predicted, Filled, Counts, Collect
    PROVE  Counts'
<1>0. Shapes /\ Places
  BY DEF Frame
<1>1. /\ UNCHANGED <<cfg, client, prev, told, state, queue, popped>> /\ sigs' = <<>>
      /\ out' = [r \in Reqs |-> out'[r]]
  BY CollectDef DEF clientVars
<1>2. PICK b : b = Head(inbound)
  OBVIOUS
<1>3. Back(b)
  BY <1>2, CollectFacts
<1>4. \A r \in Reqs : Handed(b, r)
  BY <1>2, HandedOf
<1>5. \A r \in Present' : seq'[r].len = cfg'.prompt[r] + Len(out'[r])
  <2> TAKE r \in Present'
  <2>1. r \in Present /\ r \notin Gone(slots, Collected(b)) /\ r \in Reqs
    BY <1>3 DEF Back, Retired, Present
  <2>2. seq'[r] = Collected(b)[r]
    BY <1>3, <2>1 DEF Back, Retired
  <2>3. Collected(b)[r].len = cfg.prompt[r] + Len(out'[r])
    BY <1>4, <2>1 DEF Handed
  <2> QED
    BY <1>1, <2>2, <2>3
<1>6. \A r \in Reqs : client'[r] = "idle" \/ r \in Range(queue') \/ r \in Range(popped') => out'[r] = <<>>
  <2> TAKE r \in Reqs
  <2>1. client[r] = "idle" \/ r \in Range(queue) \/ r \in Range(popped) => r \notin Present /\ out[r] = <<>>
    BY <1>0 DEF Places, Counts
  <2>2. r \notin Present => out'[r] = out[r]
    BY <1>4 DEF Handed
  <2>3. queue' = queue /\ popped' = popped /\ client' = client
    BY <1>1
  <2> QED
    BY <2>1, <2>2, <2>3
<1>7. \A r \in Reqs : \A s \in state'[r] : Told(r, s)'
  <2> SUFFICES ASSUME NEW r \in Reqs, NEW s \in state[r] PROVE Told(r, s)'
    BY <1>1
  <2>1. s \in States /\ Told(r, s)
    BY <1>0 DEF Shapes, Counts
  <2>2. s.len \in Int
    BY <2>1 DEF States
  <2>3. Handed(b, r)
    BY <1>4
  <2>4. r \in Sampling(b) => s.st \notin Answered
    BY <2>3 DEF Handed, Calm
  <2> QED
    BY <1>1, <2>1, <2>2, <2>3, <2>4, ToldStays
<1>8. (\A i \in DOMAIN signals : Told(signals[i].req, signals[i]))'
  <2>1. \A q : q = signals' => \A i \in DOMAIN q : Told(q[i].req, q[i])'
    BY <1>2, <1>4, CollectTells
  <2> QED
    BY <2>1 DEF Told
<1>9. OutputsRight'
  <2> SUFFICES ASSUME NEW r \in Reqs
               PROVE  /\ \A i \in DOMAIN out'[r] : out'[r][i] = [req |-> r, pos |-> cfg.prompt[r] + i - 1, good |-> TRUE]
                      /\ prev[r] <= cfg.prompt[r] + Len(out'[r])
                      /\ client[r] = "done" /\ told[r] = Finish => prev[r] = cfg.prompt[r] + Len(out'[r])
    BY <1>1 DEF OutputsRight
  <2> DEFINE p == cfg.prompt[r]
             n == Len(out[r])
  <2>1. /\ \A i \in DOMAIN out[r] : out[r][i] = [req |-> r, pos |-> p + i - 1, good |-> TRUE]
        /\ prev[r] <= p + n
        /\ client[r] = "done" /\ told[r] = Finish => prev[r] = p + n
    BY DEF Counts, OutputsRight
  <2>2. p \in Nat /\ n \in Nat /\ prev[r] \in Int
    BY <1>0, TallyOf
  <2>3. CASE r \in Sampling(b)
    <3>1. /\ Len(out'[r]) = n + 1 /\ told[r] # Finish
          /\ out'[r][n + 1] = Right(r, p + n)
          /\ DOMAIN out'[r] = DOMAIN out[r] \cup {n + 1} /\ \A i \in DOMAIN out[r] : out'[r][i] = out[r][i]
      BY <1>4, <2>3 DEF Handed, Answered
    <3> HIDE DEF p, n
    <3>2. prev[r] <= p + Len(out'[r])
      BY <2>1, <2>2, <3>1
    <3>3. out'[r][n + 1] = [req |-> r, pos |-> p + (n + 1) - 1, good |-> TRUE]
      <4>1. p + (n + 1) - 1 = p + n
        BY <2>2
      <4> QED
        BY <3>1, <4>1 DEF Right
    <3>4. \A i \in DOMAIN out'[r] : out'[r][i] = [req |-> r, pos |-> p + i - 1, good |-> TRUE]
      <4> TAKE i \in DOMAIN out'[r]
      <4>1. CASE i = n + 1
        BY <3>3, <4>1
      <4>2. CASE i \in DOMAIN out[r]
        BY <2>1, <3>1, <4>2
      <4> QED
        BY <3>1, <4>1, <4>2
    <3> QED
      BY <3>1, <3>2, <3>4 DEF p
  <2>4. CASE r \notin Sampling(b)
    <3>1. out'[r] = out[r]
      BY <1>4, <2>4 DEF Handed
    <3> QED
      BY <2>1, <3>1
  <2> QED
    BY <2>3, <2>4
<1>10. \A i \in DOMAIN sigs' : sigs'[i].st = OutOfMemory
  BY <1>1
<1> QED
  BY <1>5, <1>6, <1>7, <1>8, <1>9, <1>10 DEF Counts

---------------------------------------------------------------------------
(* The tokens through every step. *)

\* A step of the outside that hands nothing on, or one that moves requests.
LEMMA PopCounts ==
    ASSUME TurboEngineAssumption, Frame, Counts, Pop
    PROVE  Counts'
<1>0. Shapes /\ Places /\ NoReq \notin Reqs
  BY SetupFacts DEF Frame
<1> DEFINE A == {i \in Seen : flag[queue[i]] = 0}
           B == DOMAIN queue \ Seen
<1>1. /\ popped' = Entries(queue, A) /\ queue' = Entries(queue, B)
      /\ UNCHANGED <<cfg, client, prev, told, state, signals, sigs, slots, seq, out>>
  BY DEF Pop, clientVars, stateVars
<1>2. queue \in Seq(Reqs) /\ A \in SUBSET DOMAIN queue /\ B \in SUBSET DOMAIN queue /\ Once(queue)
  BY <1>0 DEF Shapes, Places, Seen
<1> HIDE DEF A, B
<1>3. Range(popped') = {queue[i] : i \in A} /\ Range(queue') = {queue[i] : i \in B}
  BY <1>0, <1>1, <1>2, PartsOf
<1>4. \A r \in Reqs : r \in Range(queue') \/ r \in Range(popped') => r \in Range(queue) \/ r \in Range(popped)
  BY <1>2, <1>3 DEF Range
<1>5. Present' = Present
  BY <1>1 DEF Present, Range
<1>6. \A r \in Present' : r \in Present /\ seq'[r].len = seq[r].len
  BY <1>1, <1>5
<1>7. \A i \in DOMAIN sigs' : sigs'[i].st = OutOfMemory
  BY <1>1 DEF Counts
<1> QED
  BY <1>1, <1>4, <1>6, <1>7, CountsStill

LEMMA SubmitBatchCounts ==
    ASSUME TurboEngineAssumption, Frame, Alive, Counts, SubmitBatch
    PROVE  Counts'
<1>1. UNCHANGED <<cfg, client, prev, told, state, signals, out, queue, popped>>
  BY DEF SubmitBatch, clientVars, gateVars
<1>2. PICK p \in Plans : Middle(p)
  BY MiddleOf
<1>3. Sent(p, BatchOf(p)) /\ Present' = Present /\ PlanShape(p)
  BY <1>2 DEF Middle
<1>4. \A i \in DOMAIN sigs' : sigs'[i].st = OutOfMemory
  BY <1>3 DEF Sent, IsDespair
<1>5. \A r \in Present' : r \in Present /\ seq'[r].len = seq[r].len
  <2> TAKE r \in Present'
  <2>1. r \in Present /\ r \in Reqs
    BY <1>3, PresentFacts DEF Frame
  <2>2. CASE r \in Eligible
    BY <1>2, <2>1, <2>2 DEF Middle, LaunchedAs
  <2>3. CASE r \notin Eligible
    <3>1. r \notin DOMAIN p.ends /\ r \notin Stalled(p.ends)
      BY <1>3, <2>3 DEF PlanShape, Stalled
    <3>2. seq'[r] = seq[r]
      BY <1>3, <2>1, <2>3, <3>1 DEF Sent, Launched, Rescheduled
    <3> QED
      BY <2>1, <3>2
  <2> QED
    BY <2>2, <2>3
<1>6. \A r \in Reqs : r \in Range(queue') \/ r \in Range(popped') => r \in Range(queue) \/ r \in Range(popped)
  BY <1>1
<1> QED
  BY <1>1, <1>4, <1>5, <1>6, CountsStill

\* Nothing a count reads changes.
LEMMA CountsUnmoved ==
    ASSUME Counts, UNCHANGED <<cfg, client, prev, told, state, signals, sigs, out, queue, popped, slots, seq>>
    PROVE  Counts'
<1>1. Present' = Present
  BY DEF Present, Range
<1>2. \A r \in Present' : r \in Present /\ seq'[r].len = seq[r].len
  BY <1>1
<1>3. \A i \in DOMAIN sigs' : sigs'[i].st = OutOfMemory
  BY DEF Counts
<1>4. \A r \in Reqs : r \in Range(queue') \/ r \in Range(popped') => r \in Range(queue) \/ r \in Range(popped)
  OBVIOUS
<1> QED
  BY <1>2, <1>3, <1>4, CountsStill

LEMMA InitCounts ==
    ASSUME TurboEngineAssumption, Init
    PROVE  Counts
<1>1. /\ cfg \in Setups /\ slots = <<>> /\ queue = <<>> /\ popped = <<>> /\ signals = <<>> /\ sigs = <<>>
      /\ \A r \in Reqs : prev[r] = 0 /\ told[r] = Ok /\ state[r] = {} /\ out[r] = <<>> /\ client[r] = "idle"
  BY DEF Init
<1>2. Present = {}
  BY <1>1 DEF Present, Range
<1>3. OutputsRight
  <2> SUFFICES ASSUME NEW r \in Reqs
               PROVE  /\ \A i \in DOMAIN out[r] : out[r][i] = [req |-> r, pos |-> cfg.prompt[r] + i - 1, good |-> TRUE]
                      /\ prev[r] <= cfg.prompt[r] + Len(out[r])
                      /\ client[r] = "done" /\ told[r] = Finish => prev[r] = cfg.prompt[r] + Len(out[r])
    BY DEF OutputsRight
  <2>1. out[r] = <<>> /\ prev[r] = 0 /\ client[r] # "done"
    BY <1>1
  <2>2. cfg.prompt[r] \in Nat \ {0}
    BY <1>1 DEF TurboEngineAssumption, IsSetup
  <2>3. DOMAIN out[r] = {} /\ Len(out[r]) = 0
    BY <2>1
  <2>4. prev[r] <= cfg.prompt[r] + Len(out[r])
    BY <2>1, <2>2, <2>3
  <2> QED
    BY <2>1, <2>3, <2>4
<1> QED
  BY <1>1, <1>2, <1>3 DEF Counts

LEMMA CountingStep ==
    ASSUME TurboEngineAssumption, Frame, Alive, Speaking, Predicted, Filled, Counts, [Next]_vars
    PROVE  Counts'
<1>1. ASSUME NEW r \in Reqs, Submit(r) PROVE Counts'
  BY <1>1, SubmitCounts
<1>2. CASE Pop
  BY <1>2, PopCounts
<1>3. CASE Admit
  BY <1>3, AdmitCounts
<1>4. CASE SubmitBatch
  BY <1>4, SubmitBatchCounts
<1>5. CASE Collect
  BY <1>5, CollectCounts
<1>6. ASSUME NEW stop, RunBatch(stop) PROVE Counts'
  <2>1. UNCHANGED <<cfg, clientVars, gateVars, loopVars, stateVars, out>>
    BY <1>6, RunBatchDef
  <2> QED
    BY <2>1, CountsUnmoved DEF clientVars, gateVars, loopVars, stateVars
<1>7. CASE Signal
  BY <1>7, SignalCounts
<1>8. ASSUME NEW r \in Reqs, Release(r) PROVE Counts'
  BY <1>8, CountsUnmoved DEF Release, loopVars, stateVars
<1>9. ASSUME NEW r \in Reqs, Consume(r) PROVE Counts'
  BY <1>9, ConsumeCounts
<1>10. ASSUME NEW r \in Reqs, Leave(r) \/ AsyncCancel(r) PROVE Counts'
  BY <1>10, LeaveCounts
<1>11. CASE UNCHANGED vars
  BY <1>11, CountsUnmoved DEF vars, clientVars, gateVars, loopVars, stateVars
<1> QED
  BY <1>1, <1>2, <1>3, <1>4, <1>5, <1>6, <1>7, <1>8, <1>9, <1>10, <1>11 DEF Next, System, Engine, Executor, Users

\* The reader is handed the tokens its own prompt leads to, in order, none of
\* them twice or from another request's row, sampled over a cache that holds
\* what it should: however the batches overlap, sequences are swapped out and
\* their blocks are evicted; and all of them when it is told Finish.
THEOREM TokensRight == Spec => []OutputsRight
<1> USE TurboEngineAssumption
<1> DEFINE All == Frame /\ Alive /\ Speaking /\ Predicted /\ Filled /\ Counts
<1>1. Init => All
  BY InitAlive, InitSpeaks, InitForesees, InitCounts
<1>2. All /\ [Next]_vars => All'
  <2> SUFFICES ASSUME All, [Next]_vars PROVE All'
    OBVIOUS
  <2>1. Frame' /\ Alive'
    BY FrameStep
  <2>2. Speaking'
    BY SpeakingStep
  <2>3. Predicted' /\ Filled'
    BY ForeseeingStep
  <2>4. Counts'
    BY CountingStep
  <2> QED
    BY <2>1, <2>2, <2>3, <2>4
<1>3. All => OutputsRight
  BY DEF Counts
<1> HIDE DEF All
<1> QED
  BY <1>1, <1>2, <1>3, PTL DEF Spec

---------------------------------------------------------------------------
(* A sequence that runs always has something left to run. *)

LEMMA SubmitUnfinished ==
    ASSUME TurboEngineAssumption, Frame, Alive, Predicted, SubmitBatch
    PROVE  Unfinished'
<1>1. PICK p \in Plans : Middle(p)
  BY MiddleOf
<1>0. Shapes /\ Places /\ PlanInv(Cardinality(Eligible), p) /\ pc' = "collect"
  BY <1>1, PlanFacts DEF Frame, Middle
<1> SUFFICES ASSUME NEW r \in Eligible', seq'[r].active PROVE Reached(r)' < Lasting(r)'
  BY DEF Unfinished
<1>2. r \in Eligible /\ r \in Reqs
  BY <1>0, <1>1, PresentFacts DEF Middle
<1> DEFINE q == seq[r]
           l == seq'[r]
<1>3. LaunchedAs(r, p, l)
  BY <1>1, <1>2 DEF Middle
<1>4. r \in DOMAIN p.ends
  BY <1>3 DEF LaunchedAs
<1>5. Reached(r)' = p.ends[r] /\ p.ends[r] \in Int /\ p.ends[r] <= Context(q)
  BY <1>0, <1>1, <1>2, <1>4, SubmitReaches DEF PlanInv
<1>6. q.len \in Int /\ q.inew \in Int /\ Context(q) = q.len + q.inew
  BY <1>0, <1>2, SeqOfReq DEF Context
<1>7. /\ l.active /\ l.len = q.len /\ l.inew = q.inew
      /\ l.gen = (p.ends[r] = Context(q))
  BY <1>3, <1>4 DEF LaunchedAs
<1>8. Lasting(r)' = l.len + l.inew + (IF pc' = "collect" /\ l.active /\ l.gen THEN 1 ELSE 0)
  BY DEF Lasting, Newly, Context
<1> HIDE DEF l, q
<1> DEFINE e == p.ends[r]
           c == Context(q)
<1>9. CASE e = c
  <2>1. l.gen
    BY <1>7, <1>9, Zenon
  <2>2. Lasting(r)' = q.len + q.inew + 1
    BY <1>0, <1>7, <1>8, <2>1
  <2> QED
    BY <1>5, <1>6, <1>9, <2>2
<1>10. CASE e # c
  <2>1. ~l.gen
    BY <1>7, <1>10, Zenon
  <2>2. Lasting(r)' = q.len + q.inew + 0
    BY <1>0, <1>7, <1>8, <2>1
  <2> QED
    BY <1>5, <1>6, <1>10, <2>2
<1> QED
  BY <1>9, <1>10

LEMMA CollectUnfinished ==
    ASSUME TurboEngineAssumption, Frame, Alive, Predicted, Filled, Unfinished, Collect
    PROVE  Unfinished'
<1>0. Shapes /\ pc = "collect" /\ pc' = "pop" /\ inbound # <<>>
  BY CollectDef DEF Frame
<1>1. PICK b : b = Head(inbound)
  OBVIOUS
<1>2. 1 \in DOMAIN inbound /\ seq' \in [Reqs -> SeqRecords]
  BY <1>1, CollectFacts DEF Back, Retired
<1> SUFFICES ASSUME NEW r \in Eligible', seq'[r].active PROVE Reached(r)' < Lasting(r)'
  BY DEF Unfinished
<1> DEFINE a == seq'[r]
<1>3. Returned(b, r)
  BY <1>1, ReturnedOf
<1>4. ComesTo(r)
  BY <1>0, <1>2, <1>3, ComesToOf DEF Returned
<1>5. Reached(r)' = a.filled + a.iin + 0 /\ Lasting(r)' = a.len + a.inew + 0
  BY <1>0 DEF Reached, Lasting, Newly, Context
<1>6. /\ a.filled \in Int /\ a.iin \in Int /\ a.len \in Int /\ a.inew \in Int
      /\ a.filled + a.iin = Reached(r) /\ seq[r].active
      /\ seq[r].gen => Reached(r) = a.len + a.inew - 1
      /\ ~seq[r].gen => Lasting(r) = a.len + a.inew
  BY <1>4 DEF ComesTo
<1>7. Reached(r) < Lasting(r)
  BY <1>3, <1>6 DEF Unfinished, Returned
<1> HIDE DEF a
<1>8. CASE seq[r].gen
  BY <1>5, <1>6, <1>8
<1>9. CASE ~seq[r].gen
  BY <1>5, <1>6, <1>7, <1>9
<1> QED
  BY <1>8, <1>9

LEMMA AdmitUnfinished ==
    ASSUME TurboEngineAssumption, Frame, Predicted, Unfinished, Admit
    PROVE  Unfinished'
<1>0. pc # "collect" /\ pc' # "collect"
  BY DEF Admit
<1> SUFFICES ASSUME NEW r \in Eligible', seq'[r].active PROVE Reached(r)' < Lasting(r)'
  BY DEF Unfinished
<1>1. Welcome(r)
  BY WelcomeOf DEF Predicted
<1>2. r \in Eligible /\ seq'[r] = seq[r]
  BY <1>1 DEF Welcome
<1>3. Reached(r)' = Reached(r) /\ Lasting(r)' = Lasting(r)
  BY <1>0, <1>2 DEF Reached, Lasting, Newly, Context
<1> QED
  BY <1>2, <1>3 DEF Unfinished

\* A step that leaves the sequences and the place of the loop alone.
LEMMA UnfinishedStill ==
    ASSUME Unfinished, UNCHANGED <<slots, seq>>, (pc' = "collect") <=> (pc = "collect")
    PROVE  Unfinished'
<1>1. \A r : Reached(r)' = Reached(r) /\ Lasting(r)' = Lasting(r)
  BY DEF Reached, Lasting, Newly, Context
<1>2. Eligible' = Eligible
  BY DEF Eligible, Present, Range
<1> QED
  BY <1>1, <1>2 DEF Unfinished

LEMMA UnfinishedStep ==
    ASSUME TurboEngineAssumption, Frame, Alive, Predicted, Filled, Unfinished, [Next]_vars
    PROVE  Unfinished'
<1>1. ASSUME NEW r \in Reqs, Submit(r) \/ Release(r) \/ Consume(r) \/ Leave(r) \/ AsyncCancel(r) PROVE Unfinished'
  <2>1. UNCHANGED <<slots, seq, pc>>
    BY <1>1 DEF Submit, Release, Consume, Leave, AsyncCancel, loopVars, stateVars
  <2> QED
    BY <2>1, UnfinishedStill
<1>2. CASE Pop
  BY <1>2, UnfinishedStill DEF Pop, stateVars
<1>3. CASE Admit
  BY <1>3, AdmitUnfinished
<1>4. CASE SubmitBatch
  BY <1>4, SubmitUnfinished
<1>5. CASE Collect
  BY <1>5, CollectUnfinished
<1>6. ASSUME NEW stop, RunBatch(stop) PROVE Unfinished'
  <2>1. UNCHANGED <<cfg, clientVars, gateVars, loopVars, stateVars, out>>
    BY <1>6, RunBatchDef
  <2> QED
    BY <2>1, UnfinishedStill DEF loopVars, stateVars
<1>7. CASE Signal
  BY <1>7, UnfinishedStill DEF Signal, loopVars, stateVars
<1>8. CASE UNCHANGED vars
  BY <1>8, UnfinishedStill DEF vars, loopVars, stateVars
<1> QED
  BY <1>1, <1>2, <1>3, <1>4, <1>5, <1>6, <1>7, <1>8 DEF Next, System, Engine, Executor, Users

---------------------------------------------------------------------------
(* How many blocks some requests hold, and what an eviction frees. *)

LEMMA TotalSplit ==
    ASSUME NEW A, NEW B, IsFiniteSet(A), IsFiniteSet(B), A \cap B = {},
           NEW h, \A w \in A \cup B : h[w] \in Int
    PROVE  Total(A \cup B, h) = Total(A, h) + Total(B, h)
<1> DEFINE X == UNION {{w} \X (1 .. h[w]) : w \in A}
           Y == UNION {{w} \X (1 .. h[w]) : w \in B}
           Z == UNION {{w} \X (1 .. h[w]) : w \in A \cup B}
<1>1. IsFiniteSet(X) /\ IsFiniteSet(Y)
  BY TotalOf
<1>2. Z = X \cup Y
  OBVIOUS
<1>3. X \cap Y = {}
  <2> SUFFICES ASSUME NEW x \in X, x \in Y PROVE FALSE
    OBVIOUS
  <2>1. PICK v \in A : x \in {v} \X (1 .. h[v])
    OBVIOUS
  <2>2. PICK w \in B : x \in {w} \X (1 .. h[w])
    OBVIOUS
  <2>3. x[1] = v /\ x[1] = w
    BY <2>1, <2>2
  <2> QED
    BY <2>3
<1>4. Total(A, h) = Cardinality(X) /\ Total(B, h) = Cardinality(Y) /\ Total(A \cup B, h) = Cardinality(Z)
  BY DEF Total
<1> HIDE DEF X, Y, Z
<1>5. Cardinality(X \cup Y) = Cardinality(X) + Cardinality(Y) - Cardinality({})
  BY <1>1, <1>3, FS_Union
<1>6. Cardinality({}) = 0 /\ Cardinality(X) \in Nat /\ Cardinality(Y) \in Nat
  BY <1>1, FS_EmptySet, FS_CardinalityType
<1> QED
  BY <1>2, <1>4, <1>5, <1>6

LEMMA TotalOne ==
    ASSUME NEW v, NEW h, h[v] \in Nat
    PROVE  Total({v}, h) = h[v]
<1> DEFINE n == h[v]
<1>1. UNION {{w} \X (1 .. h[w]) : w \in {v}} = {v} \X (1 .. n)
  OBVIOUS
<1>2. Total({v}, h) = Cardinality({v} \X (1 .. n))
  BY <1>1 DEF Total
<1>3. n \in Nat
  OBVIOUS
<1> HIDE DEF n
<1>4. IsFiniteSet({v}) /\ Cardinality({v}) = 1 /\ IsFiniteSet(1 .. n) /\ Cardinality(1 .. n) = n
  <2>1. IsFiniteSet(1 .. n) /\ Cardinality(1 .. n) = IF 1 > n THEN 0 ELSE n - 1 + 1
    <3>1. 1 \in Int /\ n \in Int
      BY <1>3
    <3> QED
      BY <3>1, FS_Interval
  <2>2. Cardinality(1 .. n) = n
    BY <1>3, <2>1
  <2> QED
    BY <2>1, <2>2, FS_Singleton
<1>5. Cardinality({v} \X (1 .. n)) = Cardinality({v}) * Cardinality(1 .. n)
  BY <1>4, FS_Product
<1>6. Total({v}, h) = 1 * n
  BY <1>2, <1>4, <1>5
<1>7. Total({v}, h) = n
  BY <1>3, <1>6
<1> QED
  BY <1>7 DEF n

LEMMA TotalNone ==
    ASSUME NEW A, NEW h, \A w \in A : h[w] = 0
    PROVE  Total(A, h) = 0
<1>1. \A w \in A : {w} \X (1 .. h[w]) = {}
  <2> TAKE w \in A
  <2>1. 1 .. h[w] = {}
    OBVIOUS
  <2> QED
    BY <2>1
<1>2. UNION {{w} \X (1 .. h[w]) : w \in A} = {}
  BY <1>1
<1>3. Total(A, h) = Cardinality({})
  BY <1>2 DEF Total
<1> QED
  BY <1>3, FS_EmptySet

LEMMA TotalLess ==
    ASSUME NEW A, IsFiniteSet(A), NEW h, NEW g, \A w \in A : h[w] \in Int /\ g[w] \in Int /\ g[w] <= h[w]
    PROVE  Total(A, g) <= Total(A, h)
<1> DEFINE X == UNION {{w} \X (1 .. g[w]) : w \in A}
           Y == UNION {{w} \X (1 .. h[w]) : w \in A}
<1>1. IsFiniteSet(Y)
  BY TotalOf
<1>2. X \subseteq Y
  <2> SUFFICES ASSUME NEW x \in X PROVE x \in Y
    OBVIOUS
  <2>1. PICK w \in A : x \in {w} \X (1 .. g[w])
    OBVIOUS
  <2>2. 1 .. g[w] \subseteq 1 .. h[w]
    OBVIOUS
  <2>3. x \in {w} \X (1 .. h[w])
    BY <2>1, <2>2
  <2> QED
    BY <2>3
<1>3. Total(A, g) = Cardinality(X) /\ Total(A, h) = Cardinality(Y)
  BY DEF Total
<1> HIDE DEF X, Y
<1> QED
  BY <1>1, <1>2, <1>3, FS_Subset

LEMMA TotalSame ==
    ASSUME NEW A, NEW h, NEW g, \A w \in A : g[w] = h[w]
    PROVE  Total(A, g) = Total(A, h)
<1>1. {{w} \X (1 .. g[w]) : w \in A} = {{w} \X (1 .. h[w]) : w \in A}
  OBVIOUS
<1> QED
  BY <1>1 DEF Total


\* The order in which an eviction takes blocks.
Earlier(a, b) == IF seq[a].retiring # seq[b].retiring THEN seq[a].retiring ELSE seq[a].uid > seq[b].uid
Turned(v)     == (IF seq[v].retiring THEN 0 ELSE uids + 1) + (uids - seq[v].uid)
Ahead(r, v, h) == Total({w \in Below(r) : Earlier(w, v)}, h)

LEMMA TurnedOf ==
    ASSUME TurboEngineAssumption, Shapes, Places, NEW a \in Present
    PROVE  Turned(a) \in Nat /\ \A b \in Present : Earlier(b, a) <=> Turned(b) < Turned(a)
<1>1. \A v \in Present : seq[v].uid \in 1..uids /\ seq[v].retiring \in BOOLEAN /\ uids \in Nat
  BY PresentFacts, SeqOfReq DEF Places, Shapes
<1>2. Turned(a) \in Nat
  BY <1>1 DEF Turned
<1>3. ASSUME NEW b \in Present PROVE Earlier(b, a) <=> Turned(b) < Turned(a)
  <2> DEFINE x == seq[a].uid
             y == seq[b].uid
             ra == seq[a].retiring
             rb == seq[b].retiring
  <2>1. x \in 1..uids /\ y \in 1..uids /\ ra \in BOOLEAN /\ rb \in BOOLEAN /\ uids \in Nat
    BY <1>1
  <2>2. Turned(a) = (IF ra THEN 0 ELSE uids + 1) + (uids - x) /\ Turned(b) = (IF rb THEN 0 ELSE uids + 1) + (uids - y)
    BY DEF Turned
  <2>3. Earlier(b, a) <=> (IF rb # ra THEN rb ELSE y > x)
    BY DEF Earlier
  <2> DEFINE ta == Turned(a)
             tb == Turned(b)
  <2> HIDE DEF x, y, ra, rb, ta, tb
  <2> SUFFICES (IF rb # ra THEN rb ELSE y > x) <=> tb < ta
    BY <2>3 DEF ta, tb
  <2>8. ta = (IF ra THEN 0 ELSE uids + 1) + (uids - x) /\ tb = (IF rb THEN 0 ELSE uids + 1) + (uids - y)
    BY <2>2 DEF ta, tb
  <2>4. CASE ra /\ rb
    BY <2>1, <2>8, <2>4
  <2>5. CASE ra /\ ~rb
    <3>1. ta = uids - x /\ tb = uids + 1 + (uids - y)
      BY <2>1, <2>5, <2>8
    <3>2. ~(tb < ta)
      BY <2>1, <3>1
    <3>3. ~(IF rb # ra THEN rb ELSE y > x)
      BY <2>5, Zenon
    <3> QED
      BY <3>2, <3>3
  <2>6. CASE ~ra /\ rb
    <3>1. ta = uids + 1 + (uids - x) /\ tb = uids - y
      BY <2>1, <2>6, <2>8
    <3>2. tb < ta
      BY <2>1, <3>1
    <3>3. IF rb # ra THEN rb ELSE y > x
      BY <2>6, Zenon
    <3> QED
      BY <3>2, <3>3
  <2>7. CASE ~ra /\ ~rb
    BY <2>1, <2>8, <2>7
  <2> QED
    BY <2>1, <2>4, <2>5, <2>6, <2>7
<1> QED
  BY <1>2, <1>3

LEMMA EvictDef ==
    ASSUME NEW r, NEW h, NEW n
    PROVE  Evict(r, h, n) = [v \in Reqs |-> IF v \in Below(r) THEN h[v] - Lesser(h[v], Greater(0, n - Ahead(r, v, h))) ELSE h[v]]
  BY DEF Evict, Below, Ahead, Earlier

\* An eviction frees as much as it was asked to, or all there is to take.
LEMMA EvictFrees ==
    ASSUME TurboEngineAssumption, Shapes, Places, NEW r \in Eligible, NEW h \in [Reqs -> Nat], NEW n \in Int
    PROVE  \/ Total(Below(r), h) - Total(Below(r), Evict(r, h, n)) >= n
           \/ Total(Below(r), Evict(r, h, n)) = 0
<1> DEFINE D == Below(r)
           e == Evict(r, h, n)
           T == {v \in D : n - Ahead(r, v, h) < h[v]}
<1>0. D \subseteq Present /\ Present \subseteq Reqs /\ IsFiniteSet(D)
  BY PresentFacts, FS_Subset DEF Below
<1>1. e \in [Reqs -> Nat] /\ \A v \in Reqs : e[v] <= h[v]
  BY EvictOf
<1>2. \A v \in D : e[v] = h[v] - Lesser(h[v], Greater(0, n - Ahead(r, v, h)))
  BY <1>0, EvictDef
<1>3. \A v \in D : Ahead(r, v, h) \in Nat
  <2> TAKE v \in D
  <2> DEFINE F == {w \in Below(r) : Earlier(w, v)}
  <2>1. IsFiniteSet(F) /\ \A w \in F : h[w] \in Int
    BY <1>0, FS_Subset
  <2> HIDE DEF F
  <2>2. Total(F, h) \in Nat
    BY <2>1, TotalOf
  <2> QED
    BY <2>2 DEF Ahead, F
<1> HIDE DEF e
\* Who is not the last to give gives all.
<1>4. \A v \in D \ T : e[v] = 0
  <2> TAKE v \in D \ T
  <2> DEFINE x == n - Ahead(r, v, h)
             g == Greater(0, x)
             y == h[v]
  <2>1. x \in Int /\ y \in Nat /\ x >= y
    BY <1>0, <1>3
  <2>2. e[v] = y - Lesser(y, g)
    BY <1>2
  <2> HIDE DEF x, y
  <2>5. x >= 0 /\ x \in Int
    BY <2>1
  <2>3. g = x
    BY <2>5 DEF Greater
  <2> HIDE DEF g
  <2>4. Lesser(y, g) = y
    BY <2>1, <2>3 DEF Lesser
  <2> QED
    BY <2>1, <2>2, <2>4
<1>5. CASE T = {}
  <2>1. \A v \in D : e[v] = 0
    BY <1>4, <1>5
  <2> HIDE DEF D
  <2>2. Total(D, e) = 0
    BY <2>1, TotalNone
  <2> QED
    BY <2>2 DEF D, e
<1>6. CASE T # {}
  <2> DEFINE K == {Turned(v) : v \in T}
  <2>1. K \in SUBSET Nat /\ K # {}
    BY <1>0, <1>6, TurnedOf
  <2>2. PICK k \in K : \A j \in K : k <= j
    <3> HIDE DEF K
    <3> QED
      BY <2>1, LeastOf
  <2>3. PICK v \in T : k = Turned(v)
    BY <2>2
  <2> DEFINE F == {w \in D : Earlier(w, v)}
             R == D \ (F \cup {v})
  <2>4. v \in D /\ v \in Reqs /\ v \in Present /\ n - Ahead(r, v, h) < h[v]
    BY <1>0, <2>3
  <2>5. \A w \in F : w \notin T
    <3> SUFFICES ASSUME NEW w \in F, w \in T PROVE FALSE
      OBVIOUS
    <3>1. Turned(w) < Turned(v) /\ Turned(w) \in Nat /\ Turned(v) \in Nat
      BY <1>0, <2>4, TurnedOf
    <3>2. Turned(v) <= Turned(w)
      BY <2>2, <2>3
    <3> QED
      BY <3>1, <3>2
  <2>6. \A w \in F : e[w] = 0
    BY <1>4, <2>5
  <2>7. v \notin F
    <3> SUFFICES ASSUME v \in F PROVE FALSE
      OBVIOUS
    <3> QED
      BY <2>3, <2>5
  <2>8. /\ IsFiniteSet(F) /\ IsFiniteSet({v}) /\ IsFiniteSet(R) /\ IsFiniteSet(F \cup {v})
        /\ D = (F \cup {v}) \cup R /\ (F \cup {v}) \cap R = {} /\ F \cap {v} = {} /\ F \subseteq Reqs /\ R \subseteq Reqs
    <3>1. IsFiniteSet(F) /\ IsFiniteSet({v}) /\ IsFiniteSet(R)
      BY <1>0, FS_Subset, FS_Singleton
    <3>2. IsFiniteSet(F \cup {v})
      BY <3>1, FS_AddElement
    <3> QED
      BY <1>0, <2>4, <2>7, <3>1, <3>2
  <2>9. Ahead(r, v, h) = Total(F, h)
    BY DEF Ahead
  <2> HIDE DEF F, R, D, T
  <2>10. Total(D, h) = Total(F, h) + h[v] + Total(R, h)
    <3>1. Total((F \cup {v}) \cup R, h) = Total(F \cup {v}, h) + Total(R, h)
      BY <2>4, <2>8, TotalSplit
    <3>2. Total(F \cup {v}, h) = Total(F, h) + Total({v}, h)
      BY <2>4, <2>8, TotalSplit
    <3>3. Total({v}, h) = h[v]
      BY <2>4, TotalOne
    <3> QED
      BY <2>8, <3>1, <3>2, <3>3
  <2>11. Total(D, e) = Total(F, e) + e[v] + Total(R, e)
    <3>1. Total((F \cup {v}) \cup R, e) = Total(F \cup {v}, e) + Total(R, e)
      BY <1>1, <2>4, <2>8, TotalSplit
    <3>2. Total(F \cup {v}, e) = Total(F, e) + Total({v}, e)
      BY <1>1, <2>4, <2>8, TotalSplit
    <3>3. Total({v}, e) = e[v]
      BY <1>1, <2>4, TotalOne
    <3> QED
      BY <2>8, <3>1, <3>2, <3>3
  <2>12. Total(F, e) = 0
    BY <2>6, TotalNone
  <2>13. Total(R, e) <= Total(R, h)
    BY <1>1, <2>8, TotalLess
  <2>14. Total(F, h) \in Nat /\ Total(R, h) \in Nat /\ Total(R, e) \in Nat /\ h[v] \in Nat /\ e[v] \in Nat
    <3>1. /\ \A w \in F : h[w] \in Int
          /\ \A w \in R : h[w] \in Int
          /\ \A w \in R : e[w] \in Int
      BY <1>1, <2>8
    <3> QED
      BY <1>1, <2>4, <2>8, <3>1, TotalOf
  <2> DEFINE x == n - Total(F, h)
             y == h[v]
             g == Greater(0, x)
  <2>15. e[v] = y - Lesser(y, g) /\ x < y /\ x \in Int /\ y \in Nat
    BY <1>2, <2>4, <2>9, <2>14
  <2>16. x <= h[v] - e[v]
    <3> HIDE DEF x
    <3>1. g \in Int /\ g <= y /\ g >= x
      <4> HIDE DEF y
      <4> QED
        BY <2>15 DEF Greater
    <3> HIDE DEF g
    <3>2. y \in Int
      BY <2>15
    <3> HIDE DEF y
    <3>3. Lesser(y, g) = g
      BY <3>1, <3>2 DEF Lesser
    <3>4. e[v] = y - g
      BY <2>15, <3>3
    <3>5. y - e[v] = g
      BY <3>1, <3>2, <3>4
    <3>6. x <= y - e[v]
      BY <3>1, <3>5
    <3> QED
      BY <3>6 DEF y
  <2>17. Total(D, h) - Total(D, e) >= n
    BY <2>10, <2>11, <2>12, <2>13, <2>14, <2>16
  <2> QED
    BY <2>17 DEF D, e
<1> QED
  BY <1>5, <1>6

---------------------------------------------------------------------------
(* A request is given up for want of memory. *)

\* Nothing is in flight, so what a sequence is going to have is what it has.
Quiet(r) == /\ Context(seq[r]) = seq[r].len /\ seq[r].len \in Int
            /\ Begin(r) \in Int /\ 0 <= Begin(r) /\ Begin(r) < seq[r].len
LEMMA QuietOf ==
    ASSUME TurboEngineAssumption, Frame, Alive, Predicted, Unfinished, pc = "submit",
           NEW r \in Eligible, seq[r].inflight = 0
    PROVE  Quiet(r)
<1> DEFINE q == seq[r]
<1>0. Shapes /\ Places /\ Chained /\ r \in Reqs /\ r \in Present /\ Foreseen(r)
  BY PresentFacts DEF Frame, Predicted
<1>1. /\ q.len \in Int /\ q.filled \in Int /\ q.iin \in Int /\ q.inew \in Int /\ q.active \in BOOLEAN /\ q.len >= 1
  BY <1>0, SeqOfReq DEF Foreseen
<1>2. cfg.phases \in {1, 2} /\ Len(Pipeline) = cfg.phases - 1 /\ DOMAIN Pipeline = 1..Len(Pipeline)
  BY <1>0, PipelineOf
<1>3. q.iin = 0 /\ q.inew = 0
  <2>1. CASE cfg.phases = 1
    BY <1>0, <2>1 DEF Foreseen
  <2>2. CASE cfg.phases = 2
    <3>1. Len(Pipeline) = 1 /\ Pipeline # <<>> /\ 1 \in DOMAIN Pipeline
      <4>1. Len(Pipeline) = 1
        BY <1>2, <2>2
      <4> QED
        BY <1>2, <4>1, SMTT(30)
    <3>2. q.active <=> Place(slots, r) <= nactive
      BY <1>0 DEF Foreseen
    <3>3. Names(Newest, r) <=> Place(slots, r) <= nactive
      BY <3>1, NewestAt
    <3>4. Newest = Pipeline[1]
      BY <3>1 DEF Newest
    <3>5. q.inflight = In1(1, r) + In1(2, r) /\ q.inflight = 0
      BY <1>0 DEF Alive, Counted
    <3>6. ~q.active
      <4> SUFFICES ASSUME q.active PROVE FALSE
        OBVIOUS
      <4>1. In1(1, r) = 1 /\ In1(2, r) \in {0, 1}
        BY <3>1, <3>2, <3>3, <3>4 DEF In1
      <4> QED
        BY <3>5, <4>1
    <3> QED
      BY <1>0, <2>2, <3>6 DEF Foreseen
  <2> QED
    BY <1>2, <2>1, <2>2
<1>4. Context(q) = q.len
  BY <1>1, <1>3 DEF Context
<1>5. /\ Begin(r) \in Int /\ Resume(r) \in Int /\ 0 <= Begin(r)
      /\ q.active => Begin(r) = Reached(r)
      /\ ~q.active => Begin(r) = Resume(r) /\ Reusable(r) \in Int
  BY BeginOf
<1>6. Begin(r) < q.len
  <2>1. CASE q.active
    <3>1. Reached(r) < Lasting(r)
      BY <2>1 DEF Unfinished
    <3>2. Lasting(r) = Context(q) + 0
      BY DEF Lasting, Newly
    <3>3. Begin(r) = Reached(r)
      BY <1>5, <2>1
    <3> HIDE DEF q
    <3> QED
      BY <1>1, <1>4, <3>1, <3>2, <3>3
  <2>2. CASE ~q.active
    <3> DEFINE least == Lesser(q.len, Context(q) - q.iin - 1)
    <3>1. Resume(r) = Lesser(Reusable(r), least)
      BY <2>2 DEF Resume
    <3>2. least = q.len - 1
      <4>1. Context(q) - q.iin - 1 = q.len - 1
        BY <1>1, <1>3, <1>4
      <4>2. least = Lesser(q.len, q.len - 1)
        BY <4>1
      <4> HIDE DEF least
      <4> QED
        BY <1>1, <4>2 DEF Lesser
    <3>3. least \in Int
      BY <1>1, <3>2
    <3> HIDE DEF least
    <3>4. Resume(r) <= least
      BY <1>5, <2>2, <3>1, <3>3, LesserOf
    <3>5. Begin(r) = Resume(r)
      BY <1>5, <2>2
    <3> QED
      BY <1>1, <1>5, <3>2, <3>4, <3>5
  <2> QED
    BY <1>1, <2>1, <2>2
<1> QED
  BY <1>1, <1>4, <1>5, <1>6 DEF Quiet

\* The first of the pass is not refused for tokens: a forward takes a block.
LEMMA FirstRuns ==
    ASSUME TurboEngineAssumption, Shapes, Places, NEW r \in Eligible, Quiet(r), seq[r].len <= cfg.maxContext
    PROVE  ~Refuses(NoPlan, r) /\ ~(End(NoPlan, r) <= Begin(r))
<1> DEFINE p == NoPlan
           n == seq[r].len
           b == Begin(r)
           s == cfg.blockSize
           f == cfg.maxForward
<1>1. p.full = FALSE /\ p.hit = {} /\ p.forward = f /\ p.context = cfg.maxContext
  BY DEF NoPlan
<1>2. s \in Nat \ {0} /\ f \in Nat /\ f >= s /\ cfg.maxContext \in Nat
  BY SetupFacts DEF IsSetup
<1>3. Context(seq[r]) = n /\ n \in Int /\ b \in Int /\ 0 <= b /\ b < n
  BY DEF Quiet
<1>4. Wanted(r) = n - b /\ Wanted(r) \in Int /\ Wanted(r) >= 1
  <2>1. Wanted(r) = n - b
    BY <1>3 DEF Wanted
  <2> HIDE DEF n, b
  <2> QED
    BY <1>3, <2>1
<1>5. ~(Cost(r) > p.context)
  <2>1. Cost(r) = n \/ Cost(r) = 0
    BY <1>3 DEF Cost
  <2> HIDE DEF p
  <2> QED
    BY <1>1, <1>2, <1>3, <2>1
<1> DEFINE g == Granted(p, r)
<1>6. g = Lesser(Wanted(r), f)
  BY <1>1, <1>5 DEF Granted
<1> HIDE DEF g, p, n, b, s, f
<1>7. g \in Int /\ g >= 1 /\ g <= Wanted(r) /\ (g < Wanted(r) => g = f)
  BY <1>2, <1>4, <1>6 DEF Lesser
<1>8. ~Refuses(p, r)
  <2>1. ~(Granted(p, r) <= 0)
    BY <1>7 DEF g
  <2> QED
    BY <1>1, <2>1 DEF Refuses
<1> DEFINE d == b + g
<1>9. Desired(p, r) = d
  BY DEF Desired, g, b
<1>10. d \in Int /\ d > b /\ (d < n => d >= b + s)
  BY <1>2, <1>3, <1>4, <1>7
<1> HIDE DEF d
<1>11. End(p, r) = IF d < n THEN s * (d \div s) ELSE d
  BY <1>3, <1>9 DEF End, s
<1>12. s * (d \div s) \in Int /\ d < s * (d \div s) + s
  BY <1>2, <1>10, DivOf
<1>13. ~(End(p, r) <= b)
  <2> DEFINE m == s * (d \div s)
  <2>1. m \in Int /\ d < m + s /\ End(p, r) = IF d < n THEN m ELSE d
    BY <1>11, <1>12
  <2> HIDE DEF m
  <2>2. CASE d < n
    BY <1>2, <1>3, <1>10, <2>1, <2>2
  <2>3. CASE ~(d < n)
    BY <1>3, <1>10, <2>1, <2>3
  <2> QED
    BY <2>2, <2>3
<1> QED
  BY <1>8, <1>13 DEF p, b

\* It may take the blocks of everybody else: if these do not do, it needs more
\* than there are.
LEMMA FirstFits ==
    ASSUME TurboEngineAssumption, Shapes, Places, NEW r \in Eligible,
           \A v \in Eligible : seq[r].uid <= seq[v].uid, Cannot(NoPlan, r), Context(seq[r]) \in Int
    PROVE  Blocks(Context(seq[r])) > cfg.blocks
<1> DEFINE p == NoPlan
           D == Below(r)
           h == held
           n == Lacking(p, r)
           e == Evict(r, h, n)
           need == Blocks(Context(seq[r]))
<1>0. /\ Present \subseteq Reqs /\ Eligible \subseteq Present /\ IsFiniteSet(Reqs) /\ IsFiniteSet(Present) /\ r \in Present
      /\ r \in Reqs /\ ~seq[r].retiring
  BY PresentFacts, SetupFacts DEF Eligible
<1>1. h \in [Reqs -> Nat] /\ p.holds = h /\ cfg.blocks \in Nat /\ need \in Int
  BY BlocksOf, SetupFacts DEF Shapes, NoPlan, IsSetup
\* Everybody else comes after it.
<1>2. D = Present \ {r}
  <2>1. r \notin D
    BY <1>0, SeqOfReq DEF Below
  <2>2. ASSUME NEW v \in Present \ {r}, ~seq[v].retiring PROVE seq[v].uid > seq[r].uid
    <3>1. v \in Eligible /\ v \in Reqs
      BY <1>0, <2>2 DEF Eligible
    <3>2. seq[r].uid <= seq[v].uid /\ seq[r].uid \in Nat /\ seq[v].uid \in Nat
      BY <1>0, <3>1, SeqOfReq
    <3>3. seq[r].uid # seq[v].uid
      BY <1>0 DEF Places
    <3> QED
      BY <3>2, <3>3
  <2> QED
    BY <2>1, <2>2 DEF Below
<1>3. \A v \in Reqs \ Present : h[v] = 0
  BY DEF Places, NoSeq
<1> DEFINE used == Total(Reqs, h)
           left == Total(Reqs, e)
           x == need - h[r] - (cfg.blocks - used)
<1>4. used \in Nat
  <2>1. \A w \in Reqs : h[w] \in Int
    BY <1>1
  <2> HIDE DEF h
  <2> QED
    BY <1>0, <2>1, TotalOf
<1>5. n = Greater(0, x) /\ n > used - left
  BY <1>1 DEF Lacking, Cannot, Shrunk
<1>6. x \in Int /\ h[r] \in Nat
  BY <1>0, <1>1, <1>4
<1> HIDE DEF x
<1>7. n \in Int /\ n \in {0, x}
  BY <1>5, <1>6, GreaterOf
<1> HIDE DEF n, p
<1>8. e \in [Reqs -> Nat] /\ \A v \in Reqs : (v \notin D => e[v] = h[v]) /\ e[v] <= h[v]
  BY <1>1, <1>7, EvictOf
<1>9. Total(D, h) - Total(D, e) >= n \/ Total(D, e) = 0
  BY <1>1, <1>7, EvictFrees
<1> DEFINE O == Reqs \ Present
<1> HIDE DEF e, need
\* What there is, is with it and with those after it.
<1>10. ASSUME NEW g \in [Reqs -> Nat], \A v \in Reqs \ D : g[v] = h[v]
       PROVE  Total(Reqs, g) = Total(D, g) + h[r] /\ Total(D, g) \in Nat
  <2>1. /\ IsFiniteSet(D) /\ IsFiniteSet(O) /\ IsFiniteSet({r}) /\ IsFiniteSet(D \cup {r})
        /\ D \subseteq Reqs /\ O \subseteq Reqs
        /\ (D \cup {r}) \cup O = Reqs /\ (D \cup {r}) \cap O = {} /\ D \cap {r} = {}
    <3>1. IsFiniteSet(D) /\ IsFiniteSet(O) /\ IsFiniteSet({r})
      BY <1>0, <1>2, FS_Subset, FS_Singleton
    <3>2. IsFiniteSet(D \cup {r})
      BY <3>1, FS_AddElement
    <3> QED
      BY <1>0, <1>2, <3>1, <3>2
  <2>2. g[r] = h[r] /\ g[r] \in Nat /\ \A v \in O : g[v] = 0
    BY <1>0, <1>2, <1>3, <1>10
  <2>3. \A v \in Reqs : g[v] \in Int
    OBVIOUS
  <2> HIDE DEF D, O, h
  <2>4. Total((D \cup {r}) \cup O, g) = Total(D \cup {r}, g) + Total(O, g)
    BY <1>0, <2>1, <2>3, TotalSplit
  <2>5. Total(D \cup {r}, g) = Total(D, g) + Total({r}, g)
    BY <1>0, <2>1, <2>3, TotalSplit
  <2>6. Total({r}, g) = g[r]
    BY <2>2, TotalOne
  <2>7. Total(O, g) = 0
    BY <2>2, TotalNone
  <2>8. Total(D, g) \in Nat
    BY <2>1, <2>3, TotalOf
  <2>9. Total(Reqs, g) = Total(D \cup {r}, g) + Total(O, g)
    BY <2>1, <2>4
  <2>10. Total(D \cup {r}, g) = Total(D, g) + g[r]
    BY <2>5, <2>6
  <2>11. Total(Reqs, g) = Total(D, g) + g[r]
    BY <2>2, <2>7, <2>8, <2>9, <2>10
  <2> QED
    BY <2>2, <2>8, <2>11
<1>11. used = Total(D, h) + h[r] /\ Total(D, h) \in Nat
  BY <1>1, <1>10
<1>12. left = Total(D, e) + h[r] /\ Total(D, e) \in Nat
  BY <1>8, <1>10
<1>13. Total(D, e) <= Total(D, h)
  <2>1. IsFiniteSet(D) /\ \A v \in D : h[v] \in Int /\ e[v] \in Int /\ e[v] <= h[v]
    BY <1>0, <1>1, <1>2, <1>8, FS_Subset
  <2> HIDE DEF D, h
  <2> QED
    BY <2>1, TotalLess
<1> DEFINE a == Total(D, h)
           z == Total(D, e)
           m == h[r]
<1>14. /\ used = a + m /\ left = z + m /\ a \in Nat /\ z \in Nat /\ m \in Nat /\ z <= a
       /\ n > used - left /\ n \in {0, x} /\ x = need - m - (cfg.blocks - used) /\ (a - z >= n \/ z = 0)
  BY <1>5, <1>6, <1>7, <1>9, <1>11, <1>12, <1>13 DEF x
<1> HIDE DEF a, z, m, used, left
<1>15. n > a - z /\ n = x /\ z = 0
  BY <1>6, <1>7, <1>14
<1>16. need > cfg.blocks
  BY <1>1, <1>6, <1>14, <1>15
<1> QED
  BY <1>16 DEF need

---------------------------------------------------------------------------
(* Who is given up was considered first, and was refused. *)

LEMMA ConsiderKeeps ==
    ASSUME TurboEngineAssumption, Shapes, Places, NEW r \in Eligible, NEW p, PlanShape(p)
    PROVE  /\ DOMAIN p.ends \subseteq DOMAIN Consider(p, r).ends
           /\ ~Refuses(p, r) /\ ~(End(p, r) <= Begin(r)) /\ ~Cannot(p, r) => r \in DOMAIN Consider(p, r).ends
<1> DEFINE c == Consider(p, r)
<1>1. CASE c = p /\ (Refuses(p, r) \/ End(p, r) <= Begin(r) \/ Cannot(p, r))
  BY <1>1
<1>2. CASE c = [p EXCEPT !.full = TRUE] /\ (Refuses(p, r) \/ End(p, r) <= Begin(r) \/ Cannot(p, r))
  <2>1. c.ends = p.ends
    BY <1>2 DEF PlanShape
  <2> HIDE DEF c
  <2> QED
    BY <1>2, <2>1 DEF c
<1>3. CASE c = Grown(p, r) /\ ~Refuses(p, r) /\ ~(End(p, r) <= Begin(r))
  <2>1. GrownOf(p, r)
    BY <1>3, GrownFacts
  <2>2. DOMAIN Grown(p, r).ends = DOMAIN p.ends \cup {r}
    BY <2>1 DEF GrownOf
  <2> QED
    BY <1>3, <2>2
<1> QED
  BY <1>1, <1>2, <1>3, ConsiderDef

\* Once admitted, always admitted.
LEMMA FirstKept ==
    ASSUME TurboEngineAssumption, Shapes, Places, NEW p \in Plans, Eligible # {}
    PROVE  DOMAIN Consider(NoPlan, Priority[1]).ends \subseteq DOMAIN p.ends
<1> DEFINE n == Cardinality(Eligible)
           first == DOMAIN Consider(NoPlan, Priority[1]).ends
<1>1. n \in Nat /\ n >= 1
  <2>1. IsFiniteSet(Eligible) /\ n \in Nat
    BY PresentFacts
  <2>2. n # 0
    BY <2>1, FS_EmptySet
  <2> QED
    BY <2>1, <2>2
<1>2. PICK f : IsPass(f, n) /\ Plans = f[n]
  BY <1>1, PlansOf
<1> DEFINE T == {i \in 1..n : ~ \A q \in f[i] : PlanInv(i, q) /\ first \subseteq DOMAIN q.ends}
<1>3. T = {}
  <2> SUFFICES ASSUME T # {} PROVE FALSE
    OBVIOUS
  <2>1. T \in SUBSET Nat
    BY <1>1
  <2>2. PICK m \in T : \A k \in T : m <= k
    <3> HIDE DEF T
    <3> QED
      BY <2>1, LeastOf
  <2>3. m \in 1..n /\ m \in 0..n /\ m \in Nat /\ m # 0
    BY <1>1
  <2>4. f[m] = Considered(f[m - 1], m)
    BY <1>2, <2>3 DEF IsPass
  <2>5. CASE m = 1
    <3>1. f[0] = {NoPlan}
      BY <1>1, <1>2 DEF IsPass
    <3>2. f[m] = {Consider(NoPlan, Priority[1])}
      BY <2>4, <2>5, <3>1 DEF Considered
    <3>3. PlanInv(m - 1, NoPlan)
      BY <2>5, PlanStart
    <3>4. PlanInv(m, Consider(NoPlan, Priority[m]))
      BY <2>3, <3>3, PlanStep
    <3> QED
      BY <2>5, <3>2, <3>4
  <2>6. CASE m # 1
    <3>1. m - 1 \in 1..n /\ m - 1 \notin T
      BY <1>1, <2>2, <2>3, <2>6
    <3>2. \A q \in f[m - 1] : PlanInv(m - 1, q) /\ first \subseteq DOMAIN q.ends
      BY <3>1
    <3>3. ASSUME NEW q \in f[m] PROVE PlanInv(m, q) /\ first \subseteq DOMAIN q.ends
      <4>1. PICK p0 \in f[m - 1] : q = Consider(p0, Priority[m])
        BY <2>4 DEF Considered
      <4>2. PlanInv(m - 1, p0) /\ first \subseteq DOMAIN p0.ends
        BY <3>2
      <4>3. PlanInv(m, q)
        BY <2>3, <4>1, <4>2, PlanStep
      <4>4. Priority[m] \in Eligible /\ PlanShape(p0)
        BY <2>3, <4>2, PriorityOf DEF PlanInv
      <4>5. DOMAIN p0.ends \subseteq DOMAIN q.ends
        BY <4>1, <4>4, ConsiderKeeps
      <4> QED
        BY <4>2, <4>3, <4>5
    <3> QED
      BY <3>3
  <2> QED
    BY <2>5, <2>6
<1>4. n \in 1..n /\ n \notin T
  BY <1>1, <1>3
<1> QED
  BY <1>2, <1>4

LEMMA StalledNeeds ==
    ASSUME TurboEngineAssumption, Frame, Alive, Predicted, Unfinished, pc = "submit", NEW p \in Plans, NEW r \in Stalled(p.ends)
    PROVE  Blocks(seq[r].len) > cfg.blocks \/ seq[r].len > cfg.maxContext
<1>0. Shapes /\ Places
  BY DEF Frame
<1>1. p.ends = <<>> /\ r \in Eligible /\ (\A v \in Eligible : seq[r].uid <= seq[v].uid) /\ \A v \in Present : seq[v].inflight = 0
  BY DEF Stalled
<1>2. Quiet(r)
  <2>1. seq[r].inflight = 0
    BY <1>0, <1>1, PresentFacts
  <2> QED
    BY <1>1, <2>1, QuietOf
<1>3. Priority[1] = r
  <2>1. PICK i \in 1..Cardinality(Eligible) : Priority[i] = r
    BY <1>0, <1>1, PriorityOf
  <2>2. Cardinality(Eligible) \in Nat /\ 1 \in 1..Cardinality(Eligible) /\ Priority[1] \in Eligible
    BY <1>0, <2>1, PriorityOf
  <2>3. CASE i = 1
    BY <2>1, <2>3
  <2>4. CASE i # 1
    <3>1. seq[Priority[1]].uid < seq[Priority[i]].uid
      BY <1>0, <2>1, <2>2, <2>4, PriorityOf
    <3>2. seq[r].uid <= seq[Priority[1]].uid
      BY <1>1, <2>2
    <3>3. seq[r].uid \in Nat /\ seq[Priority[1]].uid \in Nat
      BY <1>0, <1>1, <2>2, PresentFacts, SeqOfReq
    <3> QED
      BY <2>1, <3>1, <3>2, <3>3
  <2> QED
    BY <2>3, <2>4
<1>4. r \notin DOMAIN Consider(NoPlan, r).ends
  <2>1. DOMAIN p.ends = {}
    BY <1>1
  <2>2. DOMAIN Consider(NoPlan, Priority[1]).ends \subseteq DOMAIN p.ends
    BY <1>0, <1>1, FirstKept
  <2> QED
    BY <1>3, <2>1, <2>2
<1>5. PlanShape(NoPlan)
  BY <1>0, PlanStart DEF PlanInv
<1>6. Refuses(NoPlan, r) \/ End(NoPlan, r) <= Begin(r) \/ Cannot(NoPlan, r)
  BY <1>0, <1>1, <1>4, <1>5, ConsiderKeeps
<1>7. CASE Cannot(NoPlan, r)
  <2>1. Context(seq[r]) = seq[r].len /\ Context(seq[r]) \in Int
    BY <1>2 DEF Quiet
  <2>2. Blocks(Context(seq[r])) > cfg.blocks
    BY <1>0, <1>1, <1>7, <2>1, FirstFits
  <2> QED
    BY <2>1, <2>2
<1>8. CASE ~Cannot(NoPlan, r)
  <2>1. ~(seq[r].len <= cfg.maxContext)
    BY <1>0, <1>1, <1>2, <1>6, <1>8, FirstRuns
  <2>2. seq[r].len \in Int /\ cfg.maxContext \in Nat
    BY <1>0, <1>2, SetupFacts DEF Quiet, IsSetup
  <2> QED
    BY <2>1, <2>2
<1> QED
  BY <1>7, <1>8

LEMMA JustifiedStep ==
    ASSUME TurboEngineAssumption, Frame, Alive, Speaking, Predicted, Unfinished, OutOfMemoryJustified, [Next]_vars
    PROVE  OutOfMemoryJustified'
<1>1. CASE UNCHANGED <<cfg, seq, sigs>>
  BY <1>1 DEF OutOfMemoryJustified, Blocks
<1>2. ASSUME NEW r \in Reqs, Submit(r) \/ Release(r) \/ Consume(r) \/ Leave(r) \/ AsyncCancel(r) PROVE OutOfMemoryJustified'
  BY <1>1, <1>2 DEF Submit, Release, Consume, Leave, AsyncCancel, loopVars, stateVars
<1>3. CASE Pop
  BY <1>1, <1>3 DEF Pop, stateVars
<1>4. CASE Admit
  <2>1. sigs' = <<>>
    BY <1>4 DEF Admit, Speaking, Pending
  <2> QED
    BY <2>1 DEF OutOfMemoryJustified
<1>5. CASE SubmitBatch
  <2>1. PICK p \in Plans : Middle(p)
    BY <1>5, MiddleOf
  <2>2. /\ Sent(p, BatchOf(p)) /\ cfg' = cfg /\ pc = "submit" /\ Shapes /\ Places
        /\ \A r \in Eligible : LaunchedAs(r, p, seq'[r])
    BY <2>1 DEF Middle
  <2> SUFFICES ASSUME NEW i \in DOMAIN sigs'
               PROVE  Blocks(seq'[sigs'[i].req].len) > cfg.blocks \/ seq'[sigs'[i].req].len > cfg.maxContext
    BY <2>2 DEF OutOfMemoryJustified, Blocks
  <2> DEFINE r == sigs'[i].req
  <2>3. r \in Stalled(p.ends)
    BY <2>2 DEF Sent, IsDespair
  <2>4. r \in Eligible
    BY <2>3 DEF Stalled
  <2>5. seq'[r].len = seq[r].len
    BY <2>2, <2>4 DEF LaunchedAs
  <2>6. \A v : v = r => Blocks(seq[v].len) > cfg.blocks \/ seq[v].len > cfg.maxContext
    <3> TAKE v
    <3> HAVE v = r
    <3>1. v \in Stalled(p.ends)
      BY <2>3
    <3> QED
      BY <2>2, <3>1, StalledNeeds
  <2> QED
    BY <2>5, <2>6
<1>6. CASE Collect
  BY <1>6, CollectDef DEF OutOfMemoryJustified
<1>7. ASSUME NEW stop, RunBatch(stop) PROVE OutOfMemoryJustified'
  <2>1. UNCHANGED <<cfg, clientVars, gateVars, loopVars, stateVars, out>>
    BY <1>7, RunBatchDef
  <2> QED
    BY <1>1, <2>1 DEF loopVars, stateVars
<1>8. CASE Signal
  BY <1>1, <1>8 DEF Signal, loopVars, stateVars
<1>9. CASE UNCHANGED vars
  BY <1>1, <1>9 DEF vars, loopVars, stateVars
<1> QED
  BY <1>2, <1>3, <1>4, <1>5, <1>6, <1>7, <1>8, <1>9 DEF Next, System, Engine, Executor, Users

\* A request fails for want of memory only if the whole cache, or the context
\* budget, is too small for what it has come to: FailStalledHeadOfLine gives up
\* the first in line, with nothing in flight, after a pass in which it could
\* have taken the blocks of everybody else and the tokens of a whole forward.
THEOREM GivenUpRightly == Spec => []OutOfMemoryJustified
<1> USE TurboEngineAssumption
<1> DEFINE All == Frame /\ Alive /\ Speaking /\ Predicted /\ Filled /\ Unfinished /\ OutOfMemoryJustified
<1>1. Init => All
  <2>1. Init => Unfinished
    BY DEF Init, Unfinished, Eligible, Present, Range
  <2>2. Init => OutOfMemoryJustified
    BY DEF Init, OutOfMemoryJustified
  <2> QED
    BY <2>1, <2>2, InitAlive, InitSpeaks, InitForesees
<1>2. All /\ [Next]_vars => All'
  <2> SUFFICES ASSUME All, [Next]_vars PROVE All'
    OBVIOUS
  <2>1. Frame' /\ Alive'
    BY FrameStep
  <2>2. Speaking'
    BY SpeakingStep
  <2>3. Predicted' /\ Filled'
    BY ForeseeingStep
  <2>4. Unfinished'
    BY UnfinishedStep
  <2>5. OutOfMemoryJustified'
    BY JustifiedStep
  <2> QED
    BY <2>1, <2>2, <2>3, <2>4, <2>5
<1>3. All => OutOfMemoryJustified
  OBVIOUS
<1> HIDE DEF All
<1> QED
  BY <1>1, <1>2, <1>3, PTL DEF Spec
=============================================================================
