-------------------------- MODULE KVTransfer_proofs --------------------------
(***************************************************************************)
(* Proofs, for every value of the constants, that the result of a remote   *)
(* load is at one place until it is applied, that its destinations belong  *)
(* to its request alone for as long as a worker may write them, that an    *)
(* ended request stays ended, and that sleep leaves nothing behind.        *)
(***************************************************************************)
EXTENDS KVTransferProps, FiniteSetTheorems, FunctionTheorems, SequenceTheorems,
        WellFoundedInduction, TLAPS

---------------------------------------------------------------------------
(* The shapes of the state. *)

\* Block texts of a setup's prompts, and those of all.
SetupToks(u) == UNION {UNION {{p[i] : i \in 1..Len(p)} : p \in u.prompts[s]} : s \in DOMAIN u.prompts}
Tok == UNION {SetupToks(u) : u \in Setups}

Statuses == {"none", "WAITING", "LOADING", "RUNNING", "STOPPED"}
Pcs      == {"send", "sent", "wait", "pick", "apply", "prefetch", "drained", "asleep"}
Loads    == [phase : {"none", "LOADING", "READY", "PREFILLING"}, start : Nat, remote : Nat,
             cleanup : {"none", "STOP", "END"}]
Requests == [seq : Seqs, first : Nat, blocks : Seq(Blocks), text : Seq(Tok)]
Jobs     == [req : Requests, after : Nat]

Frame ==
    /\ setup \in Setups
    /\ status \in [Seqs -> Statuses] /\ text \in [Seqs -> Seq(Tok)]
    /\ table \in [Seqs -> Seq(Blocks)] /\ hist \in [Seqs -> Nat]
    /\ cache \in [DOMAIN cache -> Blocks]
    /\ load \in [Seqs -> Loads] /\ target \in [Seqs -> Nat]
    /\ plan \in [Seqs -> Nat] /\ lookup \in [Seqs -> Int] /\ nextSave \in [Seqs -> Nat]
    /\ failed \subseteq Seqs /\ todo \subseteq Seqs /\ batch \subseteq Seqs
    /\ pending \subseteq Requests /\ inflight \subseteq Requests
    /\ pc \in Pcs /\ sleeping \in BOOLEAN

---------------------------------------------------------------------------
(* What a sequence's fields say of each other. *)

\* Nothing is kept of a slot without a sequence.
Forgotten(s) ==
    /\ text[s] = <<>> /\ table[s] = <<>> /\ hist[s] = 0 /\ load[s] = NoLoad /\ target[s] = 0
    /\ plan[s] = 0 /\ lookup[s] = NoLookup /\ nextSave[s] = 0 /\ s \notin failed

\* A load covers the blocks behind the history up to the remote depth.
LoadingShape(s) ==
    /\ status[s] = "LOADING"
    /\ load[s].start = hist[s] /\ hist[s] < load[s].remote
    /\ load[s].remote = Len(table[s]) /\ load[s].remote < Len(text[s])
    /\ plan[s] = 0 /\ lookup[s] = NoLookup

RecordOf(s) ==
    /\ status[s] = "none" => Forgotten(s)
    /\ status[s] # "none" => Len(text[s]) >= 1
    /\ status[s] = "LOADING" => IsLoading(s)
    /\ load[s].phase = "none" => load[s] = NoLoad
    /\ IsLoading(s) => LoadingShape(s)
    /\ RemoteReady(s) => status[s] = "WAITING"
    /\ load[s].phase = "PREFILLING" => status[s] = "RUNNING"
    /\ hist[s] <= Len(table[s]) /\ hist[s] <= Len(text[s])
    /\ status[s] = "WAITING" => hist[s] = Len(table[s]) /\ hist[s] < Len(text[s])
    /\ status[s] = "RUNNING" => Len(table[s]) = Target(s)
    /\ plan[s] > 0 => lookup[s] = NoLookup /\ plan[s] < Len(text[s])
    /\ lookup[s] \in {NoLookup, Pending} \/ lookup[s] \in 0..(Len(text[s]) - 1)

Records == \A s \in Seqs : RecordOf(s)

\* What the engine loop's locals hold, and what is left when it sleeps.
Control ==
    /\ pc # "pick" => pending = {} /\ batch = {}
    /\ pc \notin {"pick", "apply"} => todo = {}
    /\ pc = "pick" => todo \subseteq Waiting /\ batch \subseteq WithStatus("RUNNING")
    /\ pc = "apply" => \A s \in todo : IsLoading(s)
    /\ pc = "drained" => \A s \in Seqs : status[s] = "none" \/ (IsLoading(s) /\ load[s].cleanup = "END")
    /\ pc = "asleep" => /\ WithStatus("none") = Seqs
                        /\ lease = <<>> /\ cache = <<>> /\ queue = <<>> /\ got = {}
                        /\ \A r \in Ranks : loading[r] = {} /\ saving[r] = {} /\ done[r] = {}

---------------------------------------------------------------------------
(* The requests of loads, on the host and with the workers. *)

\* A step, with what every rank reports in its output.
IsStep(e) == e = [kind |-> e.kind, rows |-> e.rows, meta |-> e.meta, loads |-> e.loads,
                  saves |-> e.saves, out |-> [r \in Ranks |-> e.out[r]]]

\* What every rank is known to have reported of a transfer.
IsReport(w) == w = <<[kind |-> w[1].kind, of |-> w[1].of], w[2]>> /\ w[2] \in Ranks

\* Steps are begun in order, and run behind that.  A step that was not begun
\* has reported nothing.
Pipe ==
    /\ queue \in Seq({queue[i] : i \in 1..Len(queue)})
    /\ \A i \in 1..Len(queue) : IsStep(queue[i]) /\ queue[i].loads \subseteq Requests
    /\ gpu \in Nat /\ launched \in [Ranks -> Nat]
    /\ \A r \in Ranks : gpu <= launched[r] /\ launched[r] <= Len(queue)
    /\ loading \in [Ranks -> SUBSET Jobs]
    /\ done = [r \in Ranks |-> done[r]]
    /\ \A r \in Ranks : \A i \in 1..Len(queue) : launched[r] < i => queue[i].out[r] = {}
    /\ pc = "apply" => gpu >= 1
    /\ \A w \in got : IsReport(w)

\* The load of a request that waits for it to end.
Applying(s) == pc = "apply" /\ s \in todo

\* A request and its sequence's table agree on the destinations.
RequestShape(w) ==
    /\ IsLoading(w.seq) /\ ~Applying(w.seq)
    /\ w.first = load[w.seq].start
    /\ w.first + Len(w.blocks) = load[w.seq].remote
    /\ \A i \in DOMAIN w.blocks : table[w.seq][w.first + i] = w.blocks[i]
    /\ w.text = Path(text[w.seq], load[w.seq].remote)

OneEach ==
    /\ \A w \in pending \cup inflight : RequestShape(w)
    /\ \A v, w \in pending \cup inflight : v.seq = w.seq => v = w
    /\ \A s \in Seqs : IsLoading(s) => Applying(s) \/ \E w \in pending \cup inflight : w.seq = s

\* What the workers hold or will be given is in flight.
Flying ==
    /\ \A r \in Ranks : \A j \in loading[r] : j.req \in inflight
    /\ \A r \in Ranks : \A i, j \in loading[r] : i.req.seq = j.req.seq => i = j
    /\ \A r \in Ranks : \A i \in 1..Len(queue) : launched[r] < i => queue[i].loads \subseteq inflight

\* A result is at one place, and there are no results but of loads under way.
Once ==
    pc # "asleep" => \A s \in Seqs : \A r \in Ranks :
        IF IsLoading(s) THEN \E p : ResultAt(s, r) = {p} ELSE ResultAt(s, r) = {}

\* The destinations are nobody else's.
Mine(w) ==
    \A b \in InTable(w.blocks) : /\ b \notin Cached(cache) \cup Leased(lease)
                                 /\ \A s \in Seqs \ {w.seq} : b \notin InTable(table[s])
Private == \A w \in pending \cup inflight : Mine(w)

---------------------------------------------------------------------------
(* Sequences and prefixes. *)

LEMMA ElementOf ==
    ASSUME NEW S, NEW q \in Seq(S)
    PROVE  DOMAIN q = 1..Len(q) /\ Len(q) \in Nat /\ \A i \in DOMAIN q : q[i] \in S
  OBVIOUS

LEMMA PathOf ==
    ASSUME NEW S, NEW x \in Seq(S), NEW n \in Nat, n <= Len(x)
    PROVE  /\ Path(x, n) \in Seq(S) /\ Len(Path(x, n)) = n
           /\ \A i \in 1..n : Path(x, n)[i] = x[i]
<1>1. \A i \in 1..n : x[i] \in S
  OBVIOUS
<1> QED
  BY <1>1, SubSeqProperties DEF Path

LEMMA TailOf ==
    ASSUME NEW S, NEW q \in Seq(S), q # <<>>
    PROVE  /\ Tail(q) \in Seq(S) /\ Len(Tail(q)) = Len(q) - 1 /\ Head(q) = q[1] /\ 1 \in DOMAIN q
           /\ \A i \in DOMAIN Tail(q) : i + 1 \in DOMAIN q /\ Tail(q)[i] = q[i + 1]
           /\ \A i \in DOMAIN q : i # 1 => i - 1 \in DOMAIN Tail(q) /\ Tail(q)[i - 1] = q[i]
  OBVIOUS

LEMMA AppendOf ==
    ASSUME NEW S, NEW q \in Seq(S), NEW e \in S
    PROVE  /\ Append(q, e) \in Seq(S) /\ Len(Append(q, e)) = Len(q) + 1
           /\ DOMAIN Append(q, e) = DOMAIN q \cup {Len(q) + 1}
           /\ \A i \in DOMAIN q : Append(q, e)[i] = q[i]
           /\ Append(q, e)[Len(q) + 1] = e
  OBVIOUS

LEMMA ConcatOf ==
    ASSUME NEW S, NEW q \in Seq(S), NEW r \in Seq(S)
    PROVE  /\ q \o r \in Seq(S) /\ Len(q \o r) = Len(q) + Len(r)
           /\ \A i \in DOMAIN q : i \in DOMAIN (q \o r) /\ (q \o r)[i] = q[i]
           /\ \A i \in DOMAIN r : Len(q) + i \in DOMAIN (q \o r) /\ (q \o r)[Len(q) + i] = r[i]
           /\ \A i \in DOMAIN (q \o r) : \/ i \in DOMAIN q
                                         \/ i - Len(q) \in DOMAIN r /\ (q \o r)[i] = r[i - Len(q)]
  OBVIOUS

LEMMA JoinAt ==
    ASSUME NEW S, NEW q \in Seq(S), NEW r \in Seq(S), NEW k, NEW d, Len(q) = k, Len(r) = d
    PROVE  /\ q \o r \in Seq(S) /\ Len(q \o r) = k + d
           /\ \A i \in DOMAIN q : (q \o r)[i] = q[i]
           /\ \A i \in DOMAIN r : (q \o r)[k + i] = r[i]
<1>1. q \o r \in Seq(S) /\ Len(q \o r) = Len(q) + Len(r)
  OBVIOUS
<1>2. \A i \in DOMAIN q : (q \o r)[i] = q[i]
  OBVIOUS
<1>3. \A i \in DOMAIN r : (q \o r)[Len(q) + i] = r[i]
  OBVIOUS
<1> QED
  BY <1>1, <1>2, <1>3

\* A table of n blocks.
LEMMA TableOf ==
    ASSUME NEW S, NEW n \in Nat, NEW f \in [1..n -> S]
    PROVE  f \in Seq(S) /\ Len(f) = n /\ DOMAIN f = 1..n
  OBVIOUS

LEMMA EmptyOf ==
    ASSUME NEW S
    PROVE  <<>> \in Seq(S) /\ Len(<<>>) = 0 /\ DOMAIN <<>> = {}
  OBVIOUS

---------------------------------------------------------------------------
(* Setups. *)

LEMMA SetupFacts ==
    ASSUME ConstantsAssumption, setup \in Setups
    PROVE  /\ IsFiniteSet(Ranks) /\ Ranks # {}
           /\ \A p \in Texts : p \in Seq(Tok) /\ Len(p) >= 1 /\ Len(p) \in Nat
<1>1. IsSetup(setup)
  BY DEF ConstantsAssumption
<1>2. IsFiniteSet(Ranks) /\ Ranks # {}
  BY <1>1 DEF IsSetup, Ranks
<1>3. ASSUME NEW p \in Texts PROVE p \in Seq(Tok) /\ Len(p) >= 1 /\ Len(p) \in Nat
  <2>1. PICK s \in DOMAIN setup.prompts : p \in setup.prompts[s]
    BY DEF Texts
  <2> DEFINE T == {p[i] : i \in 1..Len(p)}
  <2>2. Len(p) >= 1 /\ p \in Seq(T \ {Gen})
    BY <1>1, <2>1 DEF IsSetup
  <2>3. T \subseteq SetupToks(setup)
    BY <2>1 DEF SetupToks
  <2>4. SetupToks(setup) \subseteq Tok
    BY DEF Tok
  <2>5. T \ {Gen} \subseteq Tok
    BY <2>3, <2>4
  <2> HIDE DEF T
  <2>6. p \in Seq(Tok)
    BY <2>2, <2>5
  <2> QED
    BY <2>2, <2>6
<1> QED
  BY <1>2, <1>3

---------------------------------------------------------------------------
(* Making room takes blocks of waiting and stopped sequences only. *)

LEMMA OutcomeFacts ==
    ASSUME NEW s, NEW tables, NEW need, NEW o \in Outcomes(s, tables, need)
    PROVE  /\ o.gone \subseteq Victims("STOPPED", s) \cup Victims("WAITING", s)
           /\ o.out \subseteq DOMAIN cache
<1> DEFINE all == Victims("STOPPED", s) \cup Victims("WAITING", s)
           After(gone) == Without(tables, gone)
           Short(gone) == NumFree(After(gone), Unused(After(gone))) < need
           Evict(gone, base) ==
             {out \in SUBSET Unused(After(gone)) :
                LET miss == need - NumFree(After(gone), base) IN
                /\ base \subseteq out /\ LeafClosed(out)
                /\ Cardinality(out \ base) = IF miss > 0 THEN miss ELSE 0}
           End(gone, outs, ok) == {[gone |-> gone, out |-> u, ok |-> ok] : u \in outs}
           Many == UNION {LET gone == w[1] \cup {w[2]} IN
                     End(gone, Evict(gone, IF w[1] = {} THEN {} ELSE Unused(After(w[1]))), TRUE) :
                   w \in {x \in Orders(s) : /\ ~Short(x[1] \cup {x[2]})
                                            /\ x[1] # {} => Short(x[1])}}
<1>1. Outcomes(s, tables, need) =
        IF NumFree(tables, {}) >= need THEN End({}, {{}}, TRUE)
        ELSE IF Short(all) THEN End(all, {Unused(After(all))}, FALSE)
        ELSE IF all = {} THEN End({}, Evict({}, {}), TRUE) ELSE Many
  BY DEF Outcomes
<1>2. \A gone : Unused(After(gone)) \subseteq DOMAIN cache
  BY DEF Unused
<1>3. \A gone, base : Evict(gone, base) \subseteq SUBSET Unused(After(gone))
  OBVIOUS
<1>4. ASSUME NEW gone, NEW outs, NEW ok, o \in End(gone, outs, ok)
      PROVE  o.gone = gone /\ o.out \in outs
  BY <1>4
<1>5. CASE o \in End({}, {{}}, TRUE)
  BY <1>4, <1>5
<1>6. CASE o \in End(all, {Unused(After(all))}, FALSE)
  <2>1. o.gone = all /\ o.out = Unused(After(all))
    BY <1>4, <1>6
  <2> QED
    BY <1>2, <2>1
<1>7. CASE o \in End({}, Evict({}, {}), TRUE)
  <2>1. o.gone = {} /\ o.out \in Evict({}, {})
    BY <1>4, <1>7
  <2> QED
    BY <1>2, <1>3, <2>1
<1>8. CASE o \in Many
  <2>1. PICK w \in Orders(s) :
          o \in End(w[1] \cup {w[2]}, Evict(w[1] \cup {w[2]}, IF w[1] = {} THEN {} ELSE Unused(After(w[1]))), TRUE)
    BY <1>8
  <2> DEFINE gone == w[1] \cup {w[2]}
  <2>2. o.gone = gone /\ o.out \in Evict(gone, IF w[1] = {} THEN {} ELSE Unused(After(w[1])))
    BY <1>4, <2>1
  <2>3. w \in (SUBSET all) \X all
    BY DEF Orders
  <2>4. gone \subseteq all
    BY <2>3
  <2> QED
    BY <1>2, <1>3, <2>2, <2>4
<1> HIDE DEF End, Many, Evict, Short, After, all
<1>9. o \in End({}, {{}}, TRUE) \/ o \in End(all, {Unused(After(all))}, FALSE)
        \/ o \in End({}, Evict({}, {}), TRUE) \/ o \in Many
  BY <1>1
<1> QED
  BY <1>5, <1>6, <1>7, <1>8, <1>9 DEF all

\* The sequences that give their blocks up.
LEMMA GoneFacts ==
    ASSUME NEW s, NEW tables, NEW need, NEW o \in Outcomes(s, tables, need)
    PROVE  /\ \A v \in o.gone : /\ v \in Seqs /\ v # s /\ ~RemoteReady(v)
                                /\ status[v] \in {"WAITING", "STOPPED"}
           /\ o.out \subseteq DOMAIN cache
  BY OutcomeFacts DEF Victims, WithStatus

---------------------------------------------------------------------------
(* The least number of a set. *)

LEMMA LeastOf ==
    ASSUME NEW T \in SUBSET Nat, T # {}
    PROVE  \E x \in T : \A y \in T : x <= y
<1>0. \A y \in T : y \in Nat
  OBVIOUS
<1>1. PICK m \in T : TRUE
  OBVIOUS
<1> DEFINE B == {y \in T : y <= m}
<1>2. B \subseteq 0..m
  <2>1. m \in Nat
    BY <1>0
  <2>2. ASSUME NEW y \in B PROVE y \in 0..m
    <3>1. y \in Nat /\ y <= m
      BY <1>0
    <3> QED
      BY <2>1, <3>1
  <2> QED
    BY <2>2
<1>3. IsFiniteSet(0..m)
  BY FS_Interval
<1>4. IsFiniteSet(B)
  BY <1>2, <1>3, FS_Subset
<1> DEFINE D == {u \in SUBSET B : \E x \in B : u = {y \in B : y <= x}}
<1>5. \A u \in SUBSET B : IsFiniteSet(u)
  BY <1>4, FS_Subset
<1>6. IsWellFoundedOn(StrictSubsetOrdering(B), FiniteSubsetsOf(B))
  BY FS_StrictSubsetOrderingWellFounded
<1>7. D \subseteq FiniteSubsetsOf(B)
  BY <1>5 DEF FiniteSubsetsOf
<1>8. D # {}
  <2>1. m \in B
    BY <1>0
  <2>2. {y \in B : y <= m} \in D
    BY <2>1
  <2> QED
    BY <2>2
<1>9. \E u \in D : \A v \in D : ~(<<v, u>> \in StrictSubsetOrdering(B))
  <2> HIDE DEF D
  <2> QED
    BY <1>6, <1>7, <1>8, WFMin
<1>10. PICK u \in D : \A v \in D : ~(<<v, u>> \in StrictSubsetOrdering(B))
  BY <1>9
<1>11. PICK x \in B : u = {y \in B : y <= x}
  OBVIOUS
<1>12. \A y \in B : x <= y
  <2> SUFFICES ASSUME NEW y \in B, ~(x <= y) PROVE FALSE
    OBVIOUS
  <2>1. y < x /\ x \in Nat /\ y \in Nat
    OBVIOUS
  <2> DEFINE v == {z \in B : z <= y}
  <2>2. v \in D
    OBVIOUS
  <2>3. v \subseteq u
    <3>1. ASSUME NEW z \in B, z <= y PROVE z <= x
      <4>1. z \in Nat
        BY <1>0
      <4> QED
        BY <2>1, <3>1, <4>1
    <3> QED
      BY <1>11, <3>1
  <2>4. x \in u /\ x \notin v
    BY <1>11, <2>1
  <2>5. <<v, u>> \in StrictSubsetOrdering(B)
    BY <2>3, <2>4 DEF StrictSubsetOrdering
  <2> QED
    BY <1>10, <2>2, <2>5
<1>13. \A y \in T : x <= y
  <2> TAKE y \in T
  <2>1. CASE y <= m
    BY <1>12, <2>1
  <2>2. CASE ~(y <= m)
    BY <2>2
  <2> QED
    BY <2>1, <2>2
<1> QED
  BY <1>13

---------------------------------------------------------------------------
(* The local match of a candidate. *)

LEMMA MatchFacts ==
    ASSUME NEW s \in Seqs, hist[s] \in Nat, Len(text[s]) \in Nat, hist[s] < Len(text[s]),
           NEW k \in Matches(s)
    PROVE  /\ k \in Nat /\ hist[s] <= k /\ k < Len(text[s])
           /\ RemoteReady(s) => k = hist[s]
           /\ \A i \in (hist[s] + 1)..k : Path(text[s], i) \in DOMAIN cache
<1> DEFINE H == hist[s]
           R == Reusable(s)
           D(d) == /\ \A i \in (H + 1)..d : Path(text[s], i) \in DOMAIN cache
                   /\ d < R => Path(text[s], d + 1) \notin DOMAIN cache
           deep == CHOOSE d \in H..R : D(d)
           Bad == {i \in (H + 1)..R : Path(text[s], i) \notin DOMAIN cache}
<1>1. H \in Nat /\ R \in Nat /\ H <= R /\ R = Len(text[s]) - 1
  BY DEF Reusable
<1>2. \E d \in H..R : D(d)
  <2>1. CASE Bad = {}
    <3>1. D(R) /\ R \in H..R
      BY <1>1, <2>1
    <3> QED
      BY <3>1
  <2>2. CASE Bad # {}
    <3>1. Bad \subseteq Nat
      BY <1>1
    <3>2. PICK x \in Bad : \A y \in Bad : x <= y
      BY <2>2, <3>1, LeastOf
    <3>3. x \in Nat /\ x \in (H + 1)..R /\ Path(text[s], x) \notin DOMAIN cache
      BY <3>1, <3>2
    <3>4. x - 1 \in H..R /\ (x - 1) + 1 = x
      BY <1>1, <3>3
    <3>5. \A i \in (H + 1)..(x - 1) : Path(text[s], i) \in DOMAIN cache
      <4> SUFFICES ASSUME NEW i \in (H + 1)..(x - 1), Path(text[s], i) \notin DOMAIN cache PROVE FALSE
        OBVIOUS
      <4>1. i \in Int /\ i \in (H + 1)..R /\ ~(x <= i)
        BY <1>1, <3>3
      <4>2. i \in Bad
        BY <4>1
      <4> QED
        BY <3>2, <4>1, <4>2
    <3>6. D(x - 1)
      BY <3>3, <3>4, <3>5
    <3> QED
      BY <3>4, <3>6
  <2> QED
    BY <2>1, <2>2
<1>3. deep \in H..R /\ D(deep)
  <2> HIDE DEF D
  <2> QED
    BY <1>2
<1>4. Matches(s) = IF RemoteReady(s) THEN {H} ELSE IF Hybrid THEN H..deep ELSE {deep}
  BY DEF Matches
<1> HIDE DEF deep
<1>5. CASE k = H
  BY <1>1, <1>5
<1>6. CASE ~RemoteReady(s) /\ k \in H..deep
  <2>1. k \in Nat /\ H <= k /\ k <= deep /\ deep \in Nat /\ deep <= R
    BY <1>1, <1>3, <1>6
  <2>2. \A i \in (H + 1)..k : i \in (H + 1)..deep
    BY <1>1, <2>1
  <2>3. \A i \in (H + 1)..k : Path(text[s], i) \in DOMAIN cache
    BY <1>3, <2>2
  <2> QED
    BY <1>1, <1>6, <2>1, <2>3
<1>7. deep \in H..deep /\ H \in H..deep
  BY <1>1, <1>3
<1>8. k = H \/ (~RemoteReady(s) /\ k \in H..deep)
  BY <1>4, <1>7
<1> QED
  BY <1>5, <1>6, <1>8

\* The blocks of the match, and that they are the sequence's or the trie's.
LEMMA MatchedFacts ==
    ASSUME NEW s \in Seqs, table[s] \in Seq(Blocks), cache \in [DOMAIN cache -> Blocks],
           hist[s] \in Nat, hist[s] <= Len(table[s]), NEW k \in Nat,
           \A i \in (hist[s] + 1)..k : Path(text[s], i) \in DOMAIN cache
    PROVE  /\ MatchedTable(s, k) \in Seq(Blocks) /\ Len(MatchedTable(s, k)) = k
           /\ InTable(MatchedTable(s, k)) \subseteq InTable(table[s]) \cup Cached(cache)
<1> DEFINE f == MatchedTable(s, k)
<1>1. f = [i \in 1..k |-> IF i <= hist[s] THEN table[s][i] ELSE cache[Path(text[s], i)]]
  BY DEF MatchedTable
<1>2. \A i \in 1..k : i <= hist[s] => i \in DOMAIN table[s] /\ table[s][i] \in Blocks
  OBVIOUS
<1>3. \A i \in 1..k : ~(i <= hist[s]) => i \in (hist[s] + 1)..k
  OBVIOUS
<1>4. \A i \in 1..k : ~(i <= hist[s]) => cache[Path(text[s], i)] \in Blocks \cap Cached(cache)
  BY <1>3 DEF Cached
<1>5. f \in [1..k -> Blocks]
  BY <1>1, <1>2, <1>4
<1> HIDE DEF f
<1>6. f \in Seq(Blocks) /\ Len(f) = k /\ DOMAIN f = 1..k
  BY <1>5, TableOf
<1>7. \A i \in 1..k : f[i] \in InTable(table[s]) \cup Cached(cache)
  BY <1>1, <1>2, <1>4 DEF InTable
<1>8. InTable(f) \subseteq InTable(table[s]) \cup Cached(cache)
  BY <1>6, <1>7 DEF InTable
<1> QED
  BY <1>6, <1>8 DEF f

\* What is picked: so many different free blocks.
LEMMA PickFacts ==
    ASSUME NEW free \in SUBSET Blocks, NEW n \in Nat, NEW q \in Picks(free, n)
    PROVE  /\ q \in Seq(Blocks) /\ Len(q) = n /\ DOMAIN q = 1..n
           /\ InTable(q) \subseteq free
           /\ \A i, j \in 1..n : q[i] = q[j] => i = j
<1>1. q \in [1..n -> free] /\ \A i \in 1..n : \A j \in 1..(i - 1) : q[j] # q[i]
  BY DEF Picks
<1>2. q \in [1..n -> Blocks]
  BY <1>1
<1>3. q \in Seq(Blocks) /\ Len(q) = n /\ DOMAIN q = 1..n
  BY <1>2, TableOf
<1>4. InTable(q) \subseteq free
  BY <1>1, <1>3 DEF InTable
<1>5. ASSUME NEW i \in 1..n, NEW j \in 1..n, q[i] = q[j], i # j PROVE FALSE
  <2>1. CASE i < j
    <3>1. i \in 1..(j - 1)
      BY <2>1
    <3> QED
      BY <1>1, <1>5, <3>1
  <2>2. CASE j < i
    <3>1. j \in 1..(i - 1)
      BY <2>2
    <3> QED
      BY <1>1, <1>5, <3>1
  <2> QED
    BY <1>5, <2>1, <2>2
<1> QED
  BY <1>3, <1>4, <1>5

---------------------------------------------------------------------------
(* The table of an admitted sequence. *)

\* Ranks are places in the list of what is picked, and differ.
LEMMA RankOf ==
    ASSUME NEW P \in SUBSET Nat, IsFiniteSet(P), NEW p \in P
    PROVE  /\ Cardinality({x \in P : x <= p}) \in 1..Cardinality(P)
           /\ \A r \in P : p < r => Cardinality({x \in P : x <= p}) < Cardinality({x \in P : x <= r})
<1> DEFINE A == {x \in P : x <= p}
<1>0. \A x \in P : x \in Nat /\ x \in Int /\ x <= x
  OBVIOUS
<1>1. A \subseteq P /\ p \in A
  BY <1>0
<1>2. IsFiniteSet(A) /\ Cardinality(A) <= Cardinality(P)
  BY <1>1, FS_Subset
<1>3. Cardinality(A) \in Nat /\ Cardinality(P) \in Nat
  BY <1>2, FS_CardinalityType
<1>4. Cardinality(A) # 0
  BY <1>1, <1>2, FS_EmptySet
<1>5. ASSUME NEW r \in P, p < r PROVE Cardinality(A) < Cardinality({x \in P : x <= r})
  <2> DEFINE B == {x \in P : x <= r}
  <2>1. \A x \in P : x <= p => x <= r
    BY <1>0, <1>5
  <2>2. A \subseteq B /\ B \subseteq P /\ r \in B /\ r \notin A
    <3>1. ~(r <= p) /\ r <= r
      BY <1>0, <1>5
    <3> QED
      BY <2>1, <3>1
  <2> HIDE DEF A, B
  <2>3. IsFiniteSet(B)
    BY <2>2, FS_Subset
  <2>4. Cardinality(A) <= Cardinality(B) /\ Cardinality(A) # Cardinality(B)
    BY <2>2, <2>3, FS_Subset
  <2>5. Cardinality(B) \in Nat
    BY <2>3, FS_CardinalityType
  <2>6. Cardinality(A) < Cardinality(B)
    BY <1>3, <2>4, <2>5
  <2> QED
    BY <2>6 DEF B
<1> QED
  BY <1>2, <1>3, <1>4, <1>5

FillNew(s, k, c) == {i \in (k + 1)..Target(s) : i = Target(s) \/ Path(text[s], i) \notin DOMAIN c}

\* The blocks to pick are as many as the places to fill.
LEMMA NumNewIs ==
    ASSUME NEW s \in Seqs, text[s] \in Seq(Tok), NEW k \in Nat, k < Len(text[s]), NEW c
    PROVE  /\ FillNew(s, k, c) \subseteq Nat /\ IsFiniteSet(FillNew(s, k, c))
           /\ Cardinality(FillNew(s, k, c)) = NumNew(s, k, c) /\ NumNew(s, k, c) \in Nat
<1> DEFINE n == Len(text[s])
           A == {i \in (k + 1)..n : Path(text[s], i) \notin DOMAIN c}
           N == FillNew(s, k, c)
<1>1. n \in Nat /\ Target(s) = n + 1
  BY DEF Target
<1>2. N = A \cup {n + 1}
  <2>1. \A i : i \in (k + 1)..(n + 1) <=> i \in (k + 1)..n \/ i = n + 1
    BY <1>1
  <2> QED
    BY <1>1, <2>1 DEF FillNew
<1>3. n + 1 \notin A /\ A \subseteq (k + 1)..n
  BY <1>1
<1>4. IsFiniteSet((k + 1)..n)
  <2>1. k + 1 \in Int /\ n \in Int
    BY <1>1
  <2> QED
    BY <2>1, FS_Interval
<1> HIDE DEF A, N
<1>5. IsFiniteSet(A)
  BY <1>3, <1>4, FS_Subset
<1>6. IsFiniteSet(N) /\ Cardinality(N) = Cardinality(A) + 1 /\ Cardinality(A) \in Nat
  BY <1>2, <1>3, <1>5, FS_AddElement, FS_CardinalityType
<1>7. N \subseteq Nat
  <2>1. \A x \in (k + 1)..n : x \in Nat
    BY <1>1
  <2>2. n + 1 \in Nat
    BY <1>1
  <2> QED
    BY <1>2, <1>3, <2>1, <2>2
<1>8. NumNew(s, k, c) = 1 + Cardinality(A)
  BY DEF NumNew, A, n
<1>9. NumNew(s, k, c) = Cardinality(N) /\ NumNew(s, k, c) \in Nat
  BY <1>6, <1>8
<1> QED
  BY <1>6, <1>7, <1>9 DEF N

\* A match to depth k, and picked blocks for what is new behind it.
FillInput(s, k, c, q) ==
    /\ s \in Seqs /\ text[s] \in Seq(Tok) /\ k \in Nat /\ k < Len(text[s])
    /\ MatchedTable(s, k) \in Seq(Blocks) /\ Len(MatchedTable(s, k)) = k
    /\ c \in [DOMAIN c -> Blocks]
    /\ q \in Seq(Blocks) /\ DOMAIN q = 1..NumNew(s, k, c)
    /\ \A i, j \in DOMAIN q : q[i] = q[j] => i = j

LEMMA FilledFacts ==
    ASSUME NEW s, NEW k, NEW c, NEW q, FillInput(s, k, c, q)
    PROVE  LET tbl == Filled(s, k, c, q) IN
           /\ tbl \in Seq(Blocks) /\ Len(tbl) = Target(s) /\ DOMAIN tbl = 1..Target(s)
           /\ \A i \in FillNew(s, k, c) : tbl[i] \in InTable(q)
           /\ \A i, j \in FillNew(s, k, c) : tbl[i] = tbl[j] => i = j
           /\ \A i \in 1..Target(s) : i \notin FillNew(s, k, c) /\ i > k =>
                 Path(text[s], i) \in DOMAIN c /\ tbl[i] = c[Path(text[s], i)]
           /\ \A i \in 1..k : tbl[i] = MatchedTable(s, k)[i] /\ i \notin FillNew(s, k, c)
           /\ Target(s) \in FillNew(s, k, c)
           /\ InTable(tbl) \subseteq InTable(q) \cup Cached(c) \cup InTable(MatchedTable(s, k))
<1> USE DEF FillInput
<1> DEFINE n == Len(text[s])
           N == FillNew(s, k, c)
           rank(i) == Cardinality({j \in N : j <= i})
           m == MatchedTable(s, k)
           f == [i \in 1..(n + 1) |-> IF i \in N THEN q[rank(i)]
                                      ELSE IF i > k THEN c[Path(text[s], i)] ELSE m[i]]
<1>1. n \in Nat /\ Target(s) = n + 1 /\ k \in Nat /\ k < n
  BY DEF Target
<1>2. Filled(s, k, c, q) = f
  BY <1>1 DEF Filled, FillNew
<1>3. N \subseteq Nat /\ IsFiniteSet(N) /\ Cardinality(N) = NumNew(s, k, c)
  BY NumNewIs
<1>4. \A i \in N : i \in Nat /\ i > k /\ i <= n + 1
  BY <1>1 DEF FillNew
<1>5. \A i \in N : rank(i) \in DOMAIN q
  BY <1>3, RankOf
<1>6. \A i, j \in N : i < j => rank(i) < rank(j)
  BY <1>3, RankOf
<1>7. \A i \in 1..(n + 1) : i \notin N /\ i > k => Path(text[s], i) \in DOMAIN c
  BY <1>1 DEF FillNew
<1>8. \A i \in 1..k : i \in DOMAIN m /\ m[i] \in Blocks /\ i \notin N
  BY <1>1, <1>4
<1>9. \A i \in DOMAIN q : q[i] \in Blocks /\ q[i] \in InTable(q)
  <2>1. \A i \in DOMAIN q : q[i] \in Blocks
    BY ElementOf
  <2> QED
    BY <2>1 DEF InTable
<1>10. \A i \in 1..(n + 1) : i > k \/ i \in 1..k
  BY <1>1
<1> HIDE DEF N, m
<1>11. f \in [1..(n + 1) -> Blocks]
  <2> SUFFICES ASSUME NEW i \in 1..(n + 1) PROVE f[i] \in Blocks
    OBVIOUS
  <2>1. CASE i \in N
    BY <1>5, <1>9, <2>1
  <2>2. CASE i \notin N /\ i > k
    BY <1>7, <2>2
  <2>3. CASE i \notin N /\ ~(i > k)
    BY <1>8, <1>10, <2>3
  <2> QED
    BY <2>1, <2>2, <2>3
<1>12. \A i \in N : i \in 1..(n + 1) /\ f[i] = q[rank(i)]
  BY <1>1, <1>4
<1>13. \A i \in 1..(n + 1) : i \notin N /\ i > k => f[i] = c[Path(text[s], i)]
  OBVIOUS
<1>14. \A i \in 1..k : f[i] = m[i]
  <2> TAKE i \in 1..k
  <2>1. i \in 1..(n + 1) /\ ~(i > k) /\ i \notin N
    BY <1>1, <1>8
  <2> QED
    BY <2>1
<1>15. n + 1 \in N
  <2>1. n + 1 \in (k + 1)..(n + 1)
    BY <1>1
  <2> QED
    BY <1>1, <2>1 DEF N, FillNew
<1> HIDE DEF f, rank
<1>16. f \in Seq(Blocks) /\ Len(f) = n + 1 /\ DOMAIN f = 1..(n + 1)
  <2>1. n + 1 \in Nat
    BY <1>1
  <2> QED
    BY <1>11, <2>1, TableOf
<1>17. \A i, j \in N : f[i] = f[j] => i = j
  <2> SUFFICES ASSUME NEW i \in N, NEW j \in N, f[i] = f[j], i # j PROVE FALSE
    OBVIOUS
  <2>1. rank(i) = rank(j) /\ rank(i) \in Nat
    BY <1>5, <1>12
  <2>2. i < j \/ j < i
    BY <1>4
  <2> QED
    BY <1>6, <2>1, <2>2
<1>18. \A i \in 1..(n + 1) : f[i] \in InTable(q) \cup Cached(c) \cup InTable(m)
  <2> SUFFICES ASSUME NEW i \in 1..(n + 1) PROVE f[i] \in InTable(q) \cup Cached(c) \cup InTable(m)
    OBVIOUS
  <2>1. CASE i \in N
    BY <1>5, <1>9, <1>12, <2>1
  <2>2. CASE i \notin N /\ i > k
    BY <1>7, <1>13, <2>2 DEF Cached
  <2>3. CASE i \notin N /\ ~(i > k)
    BY <1>8, <1>10, <1>14, <2>3 DEF InTable
  <2> QED
    BY <2>1, <2>2, <2>3
<1>19. InTable(f) \subseteq InTable(q) \cup Cached(c) \cup InTable(m)
  BY <1>16, <1>18 DEF InTable
<1>20. \A i \in N : f[i] \in InTable(q)
  BY <1>5, <1>9, <1>12
<1> QED
  BY <1>1, <1>2, <1>7, <1>8, <1>13, <1>14, <1>15, <1>16, <1>17, <1>19, <1>20 DEF N, m

---------------------------------------------------------------------------
(* Records from step to step. *)

Base == Frame /\ Records /\ Control

FieldsSame(s) ==
    /\ status'[s] = status[s] /\ text'[s] = text[s] /\ table'[s] = table[s] /\ hist'[s] = hist[s]
    /\ load'[s] = load[s] /\ plan'[s] = plan[s] /\ lookup'[s] = lookup[s]

\* Fields that only an ended sequence must have blank.
LEMMA SequencesSame ==
    ASSUME Records, NEW s \in Seqs, FieldsSame(s),
           status[s] = "none" => target'[s] = target[s] /\ nextSave'[s] = nextSave[s]
                                   /\ (s \in failed' => s \in failed)
    PROVE  RecordOf(s)'
<1>1. RecordOf(s)
  BY DEF Records
<1>2. Forgotten(s) => status[s] = "none" \/ s \notin failed
  BY DEF Forgotten
<1>3. status[s] = "none" => Forgotten(s)'
  BY <1>1 DEF RecordOf, Forgotten, FieldsSame
<1> QED
  BY <1>1, <1>3 DEF RecordOf, FieldsSame, LoadingShape, IsLoading, RemoteReady, Target

\* A sequence that gave its blocks up.
LEMMA GoneRecord ==
    ASSUME Base, NEW s \in Seqs, status[s] \in {"WAITING", "STOPPED"}, ~RemoteReady(s),
           status'[s] = status[s], text'[s] = text[s], load'[s] = load[s], plan'[s] = plan[s],
           lookup'[s] = lookup[s], table'[s] = <<>>, hist'[s] = 0
    PROVE  RecordOf(s)'
<1>1. RecordOf(s) /\ text[s] \in Seq(Tok)
  BY DEF Base, Records, Frame
<1>2. Len(text[s]) \in Nat /\ Len(<<>>) = 0
  BY <1>1
<1> HIDE DEF Base
<1> QED
  BY <1>1, <1>2 DEF RecordOf, LoadingShape, IsLoading, RemoteReady, Target

---------------------------------------------------------------------------
(* The client and the workers keep the records in order. *)

LEMMA AddMessageBase ==
    ASSUME ConstantsAssumption, Base, NEW s \in Seqs, NEW p \in Texts, AddMessage(s, p)
    PROVE  Base'
<1> USE DEF Await
<1>1. p \in Seq(Tok) /\ Len(p) >= 1 /\ Len(p) \in Nat
  BY SetupFacts DEF Base, Frame
<1>2. status[s] = "none" /\ Forgotten(s)
  BY DEF AddMessage, Base, Records, RecordOf
<1>3. Frame'
  BY <1>1 DEF AddMessage, Base, Frame, Statuses, seqVars, coVars, conVars, stepVars, workVars
<1>4. ASSUME NEW v \in Seqs PROVE RecordOf(v)'
  <2>1. CASE v # s
    <3>1. FieldsSame(v)
      BY <2>1 DEF AddMessage, FieldsSame, Base, Frame, seqVars, coVars, conVars, stepVars, workVars
    <3> QED
      BY <3>1, SequencesSame DEF AddMessage, Base, coVars, conVars
  <2>2. CASE v = s
    <3>1. status'[s] = "WAITING" /\ text'[s] = p
      BY DEF AddMessage, Base, Frame
    <3>2. table'[s] = <<>> /\ hist'[s] = 0 /\ load'[s] = NoLoad /\ plan'[s] = 0 /\ lookup'[s] = NoLookup
      BY <1>2 DEF AddMessage, Forgotten, coVars, conVars
    <3>3. RecordOf(s)'
      BY <1>1, <3>1, <3>2, EmptyOf DEF RecordOf, IsLoading, RemoteReady, NoLoad, LoadingShape
    <3> QED
      BY <2>2, <3>3
  <2> QED
    BY <2>1, <2>2
<1>5. Control'
  BY DEF AddMessage, Base, Control, Frame, coVars, conVars, stepVars, workVars
<1> QED
  BY <1>3, <1>4, <1>5 DEF Base, Records

LEMMA StopSessionBase ==
    ASSUME Base, NEW s \in Seqs, StopSession(s)
    PROVE  Base'
<1> USE DEF Await
<1>1. Frame'
  <2>1. load' \in [Seqs -> Loads]
    <3>1. CASE Deferred(s)
      <4>1. load' = [v \in Seqs |-> IF v \in {s} THEN [load[v] EXCEPT !.cleanup = Cleanup(v, "STOP")]
                                    ELSE load[v]]
        BY <3>1 DEF StopSession, Defer
      <4>2. \A v \in Seqs : load[v] \in Loads /\ Cleanup(v, "STOP") \in {"none", "STOP", "END"}
        BY DEF Base, Frame, Cleanup
      <4>3. \A v \in Seqs : [load[v] EXCEPT !.cleanup = Cleanup(v, "STOP")] \in Loads
        BY <4>2 DEF Loads
      <4> QED
        BY <4>1, <4>2, <4>3
    <3>2. CASE ~Deferred(s)
      <4>1. NoLoad \in Loads
        BY DEF NoLoad, Loads
      <4> QED
        BY <3>2, <4>1 DEF StopSession, Base, Frame
    <3> QED
      BY <3>1, <3>2
  <2>2. lookup' \in [Seqs -> Int] /\ status' \in [Seqs -> Statuses] /\ target' \in [Seqs -> Nat]
    <3>1. lookup' = [lookup EXCEPT ![s] = NoLookup] /\ NoLookup \in Int /\ lookup \in [Seqs -> Int]
      BY DEF StopSession, NoLookup, Base, Frame
    <3>2. status' = status \/ status' = [status EXCEPT ![s] = "STOPPED"]
      BY DEF StopSession
    <3>3. status \in [Seqs -> Statuses] /\ "STOPPED" \in Statuses
      BY DEF Base, Frame, Statuses
    <3>4. target' = target \/ target' = [target EXCEPT ![s] = 0]
      BY DEF StopSession
    <3>5. target \in [Seqs -> Nat]
      BY DEF Base, Frame
    <3>6. lookup' \in [Seqs -> Int]
      BY <3>1
    <3>7. status' \in [Seqs -> Statuses]
      BY <3>2, <3>3
    <3> QED
      BY <3>4, <3>5, <3>6, <3>7
  <2> QED
    BY <2>1, <2>2 DEF StopSession, Base, Frame, stepVars, workVars
<1>2. ASSUME NEW v \in Seqs PROVE RecordOf(v)'
  <2>0. RecordOf(v) /\ load[v] \in Loads
    BY DEF Base, Records, Frame
  <2>1. CASE v # s
    <3>1. FieldsSame(v)
      BY <2>1 DEF StopSession, FieldsSame, Base, Frame, Defer
    <3>2. target'[v] = target[v]
      BY <2>1 DEF StopSession, Base, Frame
    <3> QED
      BY <3>1, <3>2, SequencesSame DEF StopSession, Base
  <2>2. CASE v = s /\ Deferred(s)
    <3>1. status' = status /\ target' = target
          /\ load'[s] = [load[s] EXCEPT !.cleanup = Cleanup(s, "STOP")]
      BY <2>2 DEF StopSession, Defer
    <3>2. load'[s].phase = load[s].phase /\ load'[s].start = load[s].start /\ load'[s].remote = load[s].remote
      BY <2>0, <2>2, <3>1 DEF Loads
    <3>3. IsLoading(s) /\ status[s] = "LOADING" /\ lookup[s] = NoLookup
      BY <2>0, <2>2 DEF Deferred, RecordOf, LoadingShape
    <3>4. lookup'[s] = NoLookup
      BY DEF StopSession, Base, Frame
    <3>5. text' = text /\ table' = table /\ hist' = hist /\ plan' = plan
      BY DEF StopSession
    <3> QED
      BY <2>0, <2>2, <3>1, <3>2, <3>3, <3>4, <3>5
         DEF RecordOf, LoadingShape, IsLoading, RemoteReady, Target
  <2>3. CASE v = s /\ ~Deferred(s)
    <3>1. status'[s] = "STOPPED" /\ load'[s] = NoLoad /\ lookup'[s] = NoLookup
      BY <2>3 DEF StopSession, Base, Frame
    <3>2. text' = text /\ table' = table /\ hist' = hist /\ plan' = plan /\ status[s] # "none"
      BY DEF StopSession
    <3> QED
      BY <2>0, <2>3, <3>1, <3>2 DEF RecordOf, LoadingShape, IsLoading, RemoteReady, Target, NoLoad
  <2> QED
    BY <2>1, <2>2, <2>3
<1>3. Control'
  BY DEF StopSession, Base, Control, Frame, stepVars, workVars
<1> QED
  BY <1>1, <1>2, <1>3 DEF Base, Records

\* What ends a session or defers that keeps every record in order.
LEMMA RemoveFrame ==
    ASSUME Base, NEW E \in SUBSET Seqs, NEW tables \in [Seqs -> Seq(Blocks)],
           NEW loads \in [Seqs -> Loads], Remove(E, tables, loads)
    PROVE  /\ status' \in [Seqs -> Statuses] /\ text' \in [Seqs -> Seq(Tok)]
           /\ table' \in [Seqs -> Seq(Blocks)] /\ hist' \in [Seqs -> Nat]
           /\ load' \in [Seqs -> Loads] /\ target' \in [Seqs -> Nat] /\ plan' \in [Seqs -> Nat]
           /\ nextSave' \in [Seqs -> Nat] /\ failed' \subseteq Seqs /\ inflight' \subseteq inflight
<1>1. <<>> \in Seq(Blocks) /\ <<>> \in Seq(Tok)
  BY EmptyOf
<1>2. NoLoad \in Loads
  BY DEF NoLoad, Loads
<1> QED
  BY <1>1, <1>2 DEF Remove, Without, Base, Frame, Statuses

\* Sessions end now, or when their load is over.
LEMMA DeferFacts ==
    ASSUME Base, NEW W \in SUBSET Seqs, NEW wish \in {"STOP", "END"}
    PROVE  /\ Defer(W, wish) \in [Seqs -> Loads]
           /\ \A s \in Seqs \ W : Defer(W, wish)[s] = load[s]
           /\ \A s \in W : /\ Defer(W, wish)[s].phase = load[s].phase
                           /\ Defer(W, wish)[s].start = load[s].start
                           /\ Defer(W, wish)[s].remote = load[s].remote
                           /\ Defer(W, wish)[s].cleanup = Cleanup(s, wish)
<1>1. \A s \in Seqs : load[s] \in Loads /\ Cleanup(s, wish) \in {"none", "STOP", "END"}
  BY DEF Base, Frame, Cleanup
<1>2. \A s \in Seqs : /\ [load[s] EXCEPT !.cleanup = Cleanup(s, wish)] \in Loads
                      /\ [load[s] EXCEPT !.cleanup = Cleanup(s, wish)].phase = load[s].phase
                      /\ [load[s] EXCEPT !.cleanup = Cleanup(s, wish)].start = load[s].start
                      /\ [load[s] EXCEPT !.cleanup = Cleanup(s, wish)].remote = load[s].remote
                      /\ [load[s] EXCEPT !.cleanup = Cleanup(s, wish)].cleanup = Cleanup(s, wish)
  BY <1>1 DEF Loads
<1>3. \A s \in Seqs : Defer(W, wish)[s] =
         IF s \in W THEN [load[s] EXCEPT !.cleanup = Cleanup(s, wish)] ELSE load[s]
  BY DEF Defer
<1>4. Defer(W, wish) \in [Seqs -> Loads]
  BY <1>1, <1>2 DEF Defer
<1> QED
  BY <1>2, <1>3, <1>4

\* The records of those who end, who wait for it, and of the others.
LEMMA RemoveRecords ==
    ASSUME Base, NEW E \in SUBSET Seqs, NEW W \in SUBSET Seqs, NEW wish \in {"STOP", "END"},
           \A s \in W : IsLoading(s), Remove(E, table, Defer(W, wish)),
           \A s \in Seqs : lookup'[s] \in {lookup[s], NoLookup},
           \A s \in E : lookup'[s] = NoLookup
    PROVE  \A s \in Seqs : RecordOf(s)'
<1> SUFFICES ASSUME NEW s \in Seqs PROVE RecordOf(s)'
  OBVIOUS
<1>1. RecordOf(s) /\ load[s] \in Loads
  BY DEF Base, Records, Frame
<1>2. CASE s \in E
  <2>1. /\ status'[s] = "none" /\ text'[s] = <<>> /\ table'[s] = <<>> /\ hist'[s] = 0
        /\ load'[s] = NoLoad /\ target'[s] = 0 /\ plan'[s] = 0 /\ nextSave'[s] = 0 /\ s \notin failed'
    BY <1>2 DEF Remove, Without
  <2> QED
    BY <1>2, <2>1, EmptyOf DEF RecordOf, Forgotten, IsLoading, RemoteReady, NoLoad
<1>3. CASE s \notin E /\ s \notin W
  <2>1. /\ status'[s] = status[s] /\ text'[s] = text[s] /\ table'[s] = table[s] /\ hist'[s] = hist[s]
        /\ target'[s] = target[s] /\ plan'[s] = plan[s] /\ nextSave'[s] = nextSave[s]
        /\ (s \in failed' => s \in failed)
    BY <1>3 DEF Remove, Without
  <2>2. load'[s] = load[s]
    BY <1>3, DeferFacts DEF Remove
  <2> QED
    BY <1>1, <2>1, <2>2 DEF RecordOf, Forgotten, IsLoading, RemoteReady, Target, LoadingShape
<1>4. CASE s \notin E /\ s \in W
  <2>1. /\ status'[s] = status[s] /\ text'[s] = text[s] /\ table'[s] = table[s] /\ hist'[s] = hist[s]
        /\ plan'[s] = plan[s]
    BY <1>4 DEF Remove, Without
  <2>2. load'[s] = Defer(W, wish)[s]
    BY <1>4 DEF Remove
  <2>3. /\ load'[s].phase = load[s].phase /\ load'[s].start = load[s].start
        /\ load'[s].remote = load[s].remote
    BY <1>4, <2>2, DeferFacts
  <2>4. IsLoading(s)
    BY <1>4
  <2> QED
    BY <1>1, <2>1, <2>3, <2>4 DEF RecordOf, Forgotten, IsLoading, RemoteReady, Target, LoadingShape
<1> QED
  BY <1>2, <1>3, <1>4

LEMMA EndAllBase ==
    ASSUME Base, NEW S \in SUBSET Seqs, EndAll(S)
    PROVE  /\ \A s \in Seqs : RecordOf(s)'
           /\ pc' \in Pcs /\ sleeping' \in BOOLEAN /\ todo' \subseteq Seqs /\ batch' \subseteq Seqs => Frame'
           /\ \A s \in Seqs : \/ status'[s] = "none"
                              \/ s \in S /\ IsLoading(s)' /\ load'[s].cleanup = "END"
                              \/ s \notin S /\ status'[s] = status[s] /\ load'[s] = load[s]
<1> DEFINE W == {s \in S : Deferred(s)}
<1>1. /\ lookup' = [s \in Seqs |-> IF s \in S THEN NoLookup ELSE lookup[s]]
      /\ Remove(S \ W, table, Defer(W, "END"))
      /\ UNCHANGED <<cache, lease, pending, workVars>>
  BY DEF EndAll
<1>2. W \subseteq Seqs /\ S \ W \subseteq Seqs /\ \A s \in W : IsLoading(s)
  BY DEF Deferred
<1>3. Defer(W, "END") \in [Seqs -> Loads] /\ table \in [Seqs -> Seq(Blocks)]
  BY <1>2, DeferFacts DEF Base, Frame
<1>4. \A s \in Seqs : RecordOf(s)'
  BY <1>1, <1>2, RemoveRecords
<1>5. lookup' \in [Seqs -> Int]
  BY <1>1 DEF Base, Frame, NoLookup
<1>6. pc' \in Pcs /\ sleeping' \in BOOLEAN /\ todo' \subseteq Seqs /\ batch' \subseteq Seqs => Frame'
  BY <1>1, <1>2, <1>3, <1>5, RemoveFrame DEF Base, Frame, workVars
<1>7. ASSUME NEW s \in Seqs
      PROVE  \/ status'[s] = "none"
             \/ s \in S /\ IsLoading(s)' /\ load'[s].cleanup = "END"
             \/ s \notin S /\ status'[s] = status[s] /\ load'[s] = load[s]
  <2>1. CASE s \in S \ W
    BY <1>1, <2>1 DEF Remove
  <2>2. CASE s \in W
    <3>1. load'[s] = Defer(W, "END")[s]
      BY <1>1, <2>2 DEF Remove
    <3>2. load'[s].phase = load[s].phase /\ load'[s].cleanup = Cleanup(s, "END")
      BY <1>2, <2>2, <3>1, DeferFacts
    <3> QED
      BY <1>2, <2>2, <3>2 DEF IsLoading, Cleanup
  <2>3. CASE s \notin S
    BY <1>1, <1>2, <2>3, DeferFacts DEF Remove
  <2> QED
    BY <2>1, <2>2, <2>3
<1> QED
  BY <1>4, <1>6, <1>7

LEMMA EndSessionBase ==
    ASSUME Base, NEW s \in Seqs, EndSession(s)
    PROVE  Base'
<1>1. EndAll({s}) /\ UNCHANGED <<sleeping, pc, todo, batch>> /\ pc \in Await
  BY DEF EndSession
<1>2. Frame' /\ \A v \in Seqs : RecordOf(v)'
  BY <1>1, EndAllBase DEF Base, Frame
<1>3. UNCHANGED pending
  BY <1>1 DEF EndAll
<1>4. Control'
  BY <1>1, <1>3 DEF Base, Control, Await
<1> QED
  BY <1>2, <1>4 DEF Base, Records

LEMMA DrainBase ==
    ASSUME Base, Drain
    PROVE  Base'
<1> DEFINE S == {s \in Seqs : status[s] # "none"}
<1>1. EndAll(S) /\ pc' = "drained" /\ UNCHANGED <<sleeping, todo, batch>> /\ pc \in {"send", "prefetch"}
  BY DEF Drain
<1>2. Frame' /\ \A v \in Seqs : RecordOf(v)'
  BY <1>1, EndAllBase DEF Base, Frame, Pcs
<1>3. UNCHANGED pending
  BY <1>1 DEF EndAll
<1>4. \A s \in Seqs : status'[s] = "none" \/ (IsLoading(s)' /\ load'[s].cleanup = "END")
  BY <1>1, EndAllBase
<1>5. Control'
  BY <1>1, <1>3, <1>4 DEF Base, Control
<1> QED
  BY <1>2, <1>5 DEF Base, Records

\* The steps that touch no sequence.
LEMMA QuietBase ==
    ASSUME Base, UNCHANGED <<setup, seqVars, coVars, plan, pending, inflight, failed, nextSave, lookup, batch, todo>>,
           \/ pc' = pc /\ pc # "asleep"
           \/ pc \notin {"pick", "apply"} /\ pc' \in {"send", "wait"},
           sleeping' \in BOOLEAN
    PROVE  Base'
<1>1. Frame'
  BY DEF Base, Frame, Pcs, seqVars, coVars
<1>2. \A v \in Seqs : RecordOf(v)'
  <2>1. \A v \in Seqs : FieldsSame(v)
    BY DEF FieldsSame, seqVars, coVars
  <2> QED
    BY <2>1, SequencesSame DEF Base, coVars
<1>3. Control'
  BY DEF Base, Control, seqVars, coVars, IsLoading, WithStatus, Waiting
<1> QED
  BY <1>1, <1>2, <1>3 DEF Base, Records

LEMMA LookupDoneBase ==
    ASSUME Base, NEW s \in Seqs, NEW n \in 0..Reusable(s), LookupDone(s, n)
    PROVE  Base'
<1>1. /\ lookup[s] = Pending /\ lookup' = [lookup EXCEPT ![s] = n]
      /\ UNCHANGED <<seqVars, coVars, plan, pending, inflight, failed, nextSave, stepVars, workVars,
                     got, kv, sleeping, pc, todo, batch>>
  BY DEF LookupDone
<1>2. RecordOf(s) /\ text[s] \in Seq(Tok)
  BY DEF Base, Records, Frame
<1>3. Len(text[s]) \in Nat /\ n \in Int /\ n \in 0..(Len(text[s]) - 1)
  BY <1>2 DEF Reusable
<1>4. status[s] # "none" /\ ~IsLoading(s) /\ plan[s] = 0
  <2>1. lookup[s] # NoLookup /\ plan[s] \in Nat
    BY <1>1 DEF Pending, NoLookup, Base, Frame
  <2> QED
    BY <1>2, <2>1 DEF RecordOf, Forgotten, LoadingShape
<1>5. Frame'
  BY <1>1, <1>3 DEF Base, Frame, seqVars, coVars, workVars
<1>6. ASSUME NEW v \in Seqs PROVE RecordOf(v)'
  <2>1. CASE v # s
    <3>1. FieldsSame(v)
      BY <1>1, <2>1 DEF FieldsSame, Base, Frame, seqVars, coVars
    <3> QED
      BY <1>1, <3>1, SequencesSame DEF Base, coVars
  <2>2. CASE v = s
    <3>1. lookup'[s] = n /\ UNCHANGED <<status, text, table, hist, load, plan, target, nextSave, failed>>
      BY <1>1 DEF Base, Frame, seqVars, coVars
    <3> QED
      BY <1>2, <1>3, <1>4, <2>2, <3>1 DEF RecordOf, IsLoading, RemoteReady, Target
  <2> QED
    BY <2>1, <2>2
<1>7. Control'
  <2>1. pc # "asleep"
    BY <1>4 DEF Base, Control, WithStatus
  <2> QED
    BY <1>1, <2>1 DEF Base, Control, seqVars, coVars, IsLoading, WithStatus, Waiting
<1> QED
  BY <1>5, <1>6, <1>7 DEF Base, Records

---------------------------------------------------------------------------
(* A scheduling pass keeps the records in order. *)

LEMMA BeginPassBase ==
    ASSUME Base, NEW C \in SUBSET Waiting, BeginPass(C)
    PROVE  Base'
<1>1. C \subseteq Seqs
  BY DEF Waiting, WithStatus
<1>2. Frame'
  BY <1>1 DEF BeginPass, Base, Frame, Pcs, seqVars, coVars, conVars, workVars
<1>3. \A v \in Seqs : RecordOf(v)'
  <2>1. \A v \in Seqs : FieldsSame(v)
    BY DEF FieldsSame, BeginPass, seqVars, coVars, conVars
  <2> QED
    BY <2>1, SequencesSame DEF Base, BeginPass, coVars, conVars
<1>4. Control'
  BY DEF BeginPass, Base, Control, seqVars, coVars, WithStatus, Waiting
<1> QED
  BY <1>2, <1>3, <1>4 DEF Base, Records

LEMMA CandidateFacts ==
    ASSUME Base, NEW s, Candidate(s)
    PROVE  /\ s \in Seqs /\ pc = "pick" /\ s \in todo /\ status[s] = "WAITING"
           /\ hist[s] = Len(table[s]) /\ hist[s] < Len(text[s]) /\ ~IsLoading(s)
           /\ hist[s] \in Nat /\ Len(text[s]) \in Nat /\ text[s] \in Seq(Tok)
           /\ table[s] \in Seq(Blocks)
<1>1. pc = "pick" /\ s \in todo /\ s \in Seqs
  BY DEF Candidate, Base, Frame
<1>2. status[s] = "WAITING"
  BY <1>1 DEF Base, Control, Waiting, WithStatus
<1>3. RecordOf(s)
  BY <1>1 DEF Base, Records
<1>4. text[s] \in Seq(Tok) /\ hist[s] \in Nat /\ table[s] \in Seq(Blocks)
  BY <1>1 DEF Base, Frame
<1> QED
  BY <1>1, <1>2, <1>3, <1>4 DEF RecordOf, LoadingShape

\* A candidate that is put off: its lookup may have been taken up.
LEMMA PutOffBase ==
    ASSUME Base, NEW s, Candidate(s),
           UNCHANGED <<setup, seqVars, coVars, pending, inflight, failed, nextSave, sleeping, pc, batch>>,
           todo' \subseteq todo,
           \/ UNCHANGED <<lookup, plan>>
           \/ lookup' = [lookup EXCEPT ![s] = Pending] /\ plan' = [plan EXCEPT ![s] = 0]
    PROVE  Base'
<1>1. Frame'
  BY SMTT(30) DEF Base, Frame, seqVars, coVars, Pending
<1>2. ASSUME NEW v \in Seqs PROVE RecordOf(v)'
  <2>1. RecordOf(v)
    BY DEF Base, Records
  <2>2. CASE v = s /\ ~UNCHANGED <<lookup, plan>>
    <3>1. lookup'[v] = Pending /\ plan'[v] = 0
      BY <2>2 DEF Base, Frame
    <3> QED
      BY <2>1, <2>2, <3>1, CandidateFacts
         DEF RecordOf, IsLoading, RemoteReady, Target, LoadingShape, seqVars, coVars
  <2>3. CASE v # s \/ UNCHANGED <<lookup, plan>>
    <3>1. FieldsSame(v)
      BY <2>3 DEF FieldsSame, seqVars, coVars, Base, Frame
    <3> QED
      BY <3>1, SequencesSame DEF Base, coVars
  <2> QED
    BY <2>2, <2>3
<1>3. Control'
  BY CandidateFacts DEF Base, Control, seqVars, coVars, WithStatus, Waiting
<1> QED
  BY <1>1, <1>2, <1>3 DEF Base, Records

\* Making room changes the fields of those who gave their blocks up.
GoneOrSame(v, o) ==
    /\ UNCHANGED <<text, failed>>
    /\ status'[v] = status[v] /\ load'[v] = load[v] /\ plan'[v] = plan[v] /\ lookup'[v] = lookup[v]
    /\ nextSave'[v] = nextSave[v]
    /\ table'[v] = IF v \in o.gone THEN <<>> ELSE table[v]
    /\ hist'[v] = IF v \in o.gone THEN 0 ELSE hist[v]
    /\ target'[v] = IF v \in o.gone THEN 0 ELSE target[v]

LEMMA GoneOrSameRecord ==
    ASSUME Base, NEW s, NEW tables, NEW need, NEW o \in Outcomes(s, tables, need),
           NEW v \in Seqs, GoneOrSame(v, o)
    PROVE  RecordOf(v)'
<1>1. CASE v \in o.gone
  <2>1. status[v] \in {"WAITING", "STOPPED"} /\ ~RemoteReady(v)
    BY <1>1, GoneFacts
  <2> QED
    BY <1>1, <2>1, GoneRecord DEF GoneOrSame
<1>2. CASE v \notin o.gone
  <2>1. FieldsSame(v)
    BY <1>2 DEF GoneOrSame, FieldsSame
  <2> QED
    BY <1>2, <2>1, SequencesSame DEF GoneOrSame, Base
<1> QED
  BY <1>1, <1>2

\* A remote prefix that is known of lies within the prompt.
LEMMA RemoteFacts ==
    ASSUME Base, NEW s, Candidate(s), NEW k \in Nat, Answered(s, k)
    PROVE  /\ Remote(s, k) \in Nat /\ Remote(s, k) < Len(text[s])
           /\ Polled(s, k) => lookup' \in [Seqs -> Int] /\ lookup'[s] = NoLookup
                                /\ \A v \in Seqs \ {s} : lookup'[v] = lookup[v]
<1>1. s \in Seqs /\ Len(text[s]) \in Nat
  BY CandidateFacts
<1>2. RecordOf(s) /\ plan[s] \in Nat /\ lookup[s] \in Int /\ lookup \in [Seqs -> Int]
  BY <1>1 DEF Base, Records, Frame
<1>3. Remote(s, k) >= 0
  BY DEF Answered
<1>4. CASE plan[s] > k
  <2>1. plan[s] > 0 /\ Remote(s, k) = plan[s]
    BY <1>2, <1>4 DEF Remote
  <2>2. lookup[s] = NoLookup /\ plan[s] < Len(text[s])
    BY <1>2, <2>1 DEF RecordOf
  <2>3. Polled(s, k) => lookup' = lookup
    BY <1>2, <1>4 DEF Polled
  <2> QED
    BY <1>2, <2>1, <2>2, <2>3
<1>5. CASE ~(plan[s] > k)
  <2>1. Remote(s, k) = lookup[s] /\ lookup[s] >= 0
    BY <1>3, <1>5 DEF Remote
  <2>2. lookup[s] \in 0..(Len(text[s]) - 1)
    BY <1>2, <2>1 DEF RecordOf, NoLookup, Pending
  <2>3. Polled(s, k) => lookup' = [lookup EXCEPT ![s] = NoLookup]
    BY <1>5 DEF Polled
  <2> QED
    BY <1>1, <1>2, <2>1, <2>2, <2>3 DEF NoLookup
<1> QED
  BY <1>4, <1>5

LEMMA GaveRoomFrame ==
    ASSUME Base, NEW o, GaveRoom(o)
    PROVE  /\ table' \in [Seqs -> Seq(Blocks)] /\ hist' \in [Seqs -> Nat] /\ target' \in [Seqs -> Nat]
           /\ cache' \in [DOMAIN cache' -> Blocks]
<1>1. <<>> \in Seq(Blocks)
  BY EmptyOf
<1> QED
  BY <1>1 DEF GaveRoom, Without, Minus, Base, Frame

LEMMA LoadDoesNotFitBase ==
    ASSUME Base, NEW s, NEW k \in Matches(s), LoadDoesNotFit(s, k)
    PROVE  Base'
<1>1. Candidate(s) /\ Answered(s, k) /\ Polled(s, k) /\ Remote(s, k) > k
      /\ plan' = [plan EXCEPT ![s] = Remote(s, k)] /\ todo' = {}
      /\ UNCHANGED <<status, text, load, lease, pending, inflight, failed, nextSave, stepVars, workVars,
                     got, sleeping, pc, batch>>
  BY DEF LoadDoesNotFit
<1>2. PICK o \in Outcomes(s, Matched(s, k), Missing(s, k)) : GaveRoom(o)
  BY DEF LoadDoesNotFit
<1>3. s \in Seqs /\ pc = "pick" /\ s \in todo /\ status[s] = "WAITING" /\ Len(text[s]) \in Nat
      /\ hist[s] \in Nat /\ hist[s] < Len(text[s]) /\ ~IsLoading(s)
  BY <1>1, CandidateFacts
<1>4. k \in Nat
  BY <1>3, MatchFacts
<1>5. /\ Remote(s, k) \in Nat /\ Remote(s, k) < Len(text[s])
      /\ lookup' \in [Seqs -> Int] /\ lookup'[s] = NoLookup
      /\ \A v \in Seqs \ {s} : lookup'[v] = lookup[v]
  BY <1>1, <1>4, RemoteFacts
<1>6. Frame'
  BY <1>1, <1>2, <1>5, GaveRoomFrame DEF Base, Frame, workVars
<1>7. ASSUME NEW v \in Seqs PROVE RecordOf(v)'
  <2>1. CASE v # s
    <3>1. GoneOrSame(v, o)
      BY <1>1, <1>2, <1>5, <2>1 DEF GoneOrSame, GaveRoom, Without, Base, Frame
    <3> QED
      BY <3>1, GoneOrSameRecord
  <2>2. CASE v = s
    <3>1. s \notin o.gone
      BY GoneFacts
    <3>2. table'[s] = table[s] /\ hist'[s] = hist[s] /\ plan'[s] = Remote(s, k)
      BY <1>1, <1>2, <1>3, <3>1 DEF GaveRoom, Without, Base, Frame
    <3>3. RecordOf(s)
      BY <1>3 DEF Base, Records
    <3> QED
      BY <1>1, <1>3, <1>5, <2>2, <3>2, <3>3 DEF RecordOf, IsLoading, RemoteReady, Target
  <2> QED
    BY <2>1, <2>2
<1>8. Control'
  BY <1>1, <1>3 DEF Base, Control, WithStatus, Waiting
<1> QED
  BY <1>6, <1>7, <1>8 DEF Base, Records

\* What is prefilled here leaves the lookup and the plan in order.
LEMMA LocalOnlyFacts ==
    ASSUME Base, NEW s, NEW k \in Nat, LocalOnly(s, k)
    PROVE  /\ Candidate(s)
           /\ lookup' \in [Seqs -> Int] /\ plan' \in [Seqs -> Nat] /\ nextSave' \in [Seqs -> Nat]
           /\ \A v \in Seqs \ {s} : lookup'[v] = lookup[v] /\ plan'[v] = plan[v] /\ nextSave'[v] = nextSave[v]
           /\ \/ lookup'[s] = lookup[s] /\ plan'[s] = plan[s]
              \/ lookup'[s] = NoLookup /\ plan'[s] = 0
<1>1. Candidate(s) /\ s \in Seqs
  BY CandidateFacts DEF LocalOnly
<1>2. CASE NoExternal(s, k)
  <2>1. lookup' = lookup /\ plan' = plan /\ nextSave' = nextSave
    BY <1>2 DEF LocalOnly
  <2>2. lookup \in [Seqs -> Int] /\ plan \in [Seqs -> Nat] /\ nextSave \in [Seqs -> Nat]
    BY DEF Base, Frame
  <2> QED
    BY <1>1, <2>1, <2>2
<1>3. CASE ~NoExternal(s, k)
  <2>1. /\ Answered(s, k) /\ Polled(s, k) /\ plan' = [plan EXCEPT ![s] = 0]
        /\ nextSave' = [nextSave EXCEPT ![s] = IF Producer THEN Remote(s, k) ELSE @]
    BY <1>3 DEF LocalOnly
  <2>2. Remote(s, k) \in Nat /\ lookup' \in [Seqs -> Int] /\ lookup'[s] = NoLookup
        /\ \A v \in Seqs \ {s} : lookup'[v] = lookup[v]
    BY <1>1, <2>1, RemoteFacts
  <2>3. plan \in [Seqs -> Nat] /\ nextSave \in [Seqs -> Nat]
    BY DEF Base, Frame
  <2>4. plan' \in [Seqs -> Nat] /\ plan'[s] = 0 /\ \A v \in Seqs \ {s} : plan'[v] = plan[v]
    BY <1>1, <2>1, <2>3
  <2>5. nextSave' \in [Seqs -> Nat] /\ \A v \in Seqs \ {s} : nextSave'[v] = nextSave[v]
    BY <1>1, <2>1, <2>2, <2>3
  <2> QED
    BY <1>1, <2>2, <2>4, <2>5
<1> QED
  BY <1>2, <1>3

LEMMA LocalDoesNotFitBase ==
    ASSUME Base, NEW s, NEW k \in Matches(s), LocalDoesNotFit(s, k)
    PROVE  Base'
<1>1. LocalOnly(s, k) /\ todo' = {}
      /\ UNCHANGED <<status, text, load, lease, pending, inflight, failed, stepVars, workVars, got,
                     sleeping, pc, batch>>
  BY DEF LocalDoesNotFit
<1>2. PICK o \in Outcomes(s, Matched(s, k), Missing(s, k)) : GaveRoom(o)
  BY DEF LocalDoesNotFit
<1>3. Candidate(s)
  BY <1>1 DEF LocalOnly
<1>4. s \in Seqs /\ pc = "pick" /\ s \in todo /\ status[s] = "WAITING" /\ Len(text[s]) \in Nat
      /\ hist[s] \in Nat /\ hist[s] < Len(text[s]) /\ ~IsLoading(s)
  BY <1>3, CandidateFacts
<1>5. k \in Nat
  BY <1>4, MatchFacts
<1>6. /\ lookup' \in [Seqs -> Int] /\ plan' \in [Seqs -> Nat] /\ nextSave' \in [Seqs -> Nat]
      /\ \A v \in Seqs \ {s} : lookup'[v] = lookup[v] /\ plan'[v] = plan[v] /\ nextSave'[v] = nextSave[v]
      /\ \/ lookup'[s] = lookup[s] /\ plan'[s] = plan[s]
         \/ lookup'[s] = NoLookup /\ plan'[s] = 0
  BY <1>1, <1>5, LocalOnlyFacts
<1>7. Frame'
  BY <1>1, <1>2, <1>6, GaveRoomFrame DEF Base, Frame, workVars
<1>8. ASSUME NEW v \in Seqs PROVE RecordOf(v)'
  <2>1. CASE v # s
    <3>1. GoneOrSame(v, o)
      BY <1>1, <1>2, <1>6, <2>1 DEF GoneOrSame, GaveRoom, Without, Base, Frame
    <3> QED
      BY <3>1, GoneOrSameRecord
  <2>2. CASE v = s
    <3>1. s \notin o.gone
      BY GoneFacts
    <3>2. table'[s] = table[s] /\ hist'[s] = hist[s]
      BY <1>1, <1>2, <1>4, <3>1 DEF GaveRoom, Without, Base, Frame
    <3>3. RecordOf(s)
      BY <1>4 DEF Base, Records
    <3> QED
      BY <1>1, <1>4, <1>6, <2>2, <3>2, <3>3 DEF RecordOf, IsLoading, RemoteReady, Target
  <2> QED
    BY <2>1, <2>2
<1>9. Control'
  BY <1>1, <1>4 DEF Base, Control, WithStatus, Waiting
<1> QED
  BY <1>7, <1>8, <1>9 DEF Base, Records

---------------------------------------------------------------------------
(* A load starts. *)

NewRequest(s, k, q) == [seq |-> s, first |-> k, blocks |-> q, text |-> Path(text[s], Remote(s, k))]

\* The blocks of a load are free ones, in place behind the local match.
LoadStarts(s, k, o, q) ==
    LET n == Remote(s, k) IN
    /\ InTable(q) \subseteq FreeWith(Without(Matched(s, k), o.gone), Minus(cache, o.out))
    /\ \A i, j \in DOMAIN q : q[i] = q[j] => i = j
    /\ Len(q) = n - k /\ n \in Nat /\ k < n /\ n < Len(text[s])
    /\ table' = [Without(table, o.gone) EXCEPT ![s] = MatchedTable(s, k) \o q]
    /\ MatchedTable(s, k) \in Seq(Blocks) /\ Len(MatchedTable(s, k)) = k
    /\ MatchedTable(s, k) \o q \in Seq(Blocks) /\ Len(MatchedTable(s, k) \o q) = n
    /\ \A i \in 1..k : (MatchedTable(s, k) \o q)[i] = MatchedTable(s, k)[i]
    /\ \A i \in DOMAIN q : (MatchedTable(s, k) \o q)[k + i] = q[i]
    /\ pending' = pending \cup {NewRequest(s, k, q)} /\ NewRequest(s, k, q) \in Requests
    /\ cache' = Minus(cache, o.out)
    /\ hist' = [v \in Seqs |-> IF v = s THEN k ELSE IF v \in o.gone THEN 0 ELSE hist[v]]
    /\ target' = [v \in Seqs |-> IF v = s THEN Target(s) ELSE IF v \in o.gone THEN 0 ELSE target[v]]

LEMMA StartLoadFacts ==
    ASSUME ConstantsAssumption, Base, NEW s, NEW k \in Matches(s), StartLoad(s, k)
    PROVE  /\ s \in Seqs /\ k \in Nat /\ hist[s] <= k
           /\ \E o \in Outcomes(s, Matched(s, k), Missing(s, k)) : \E q \in Seq(Blocks) :
                LoadStarts(s, k, o, q)
<1> DEFINE n == Remote(s, k)
           m == MatchedTable(s, k)
<1>1. Candidate(s) /\ Answered(s, k) /\ n > k
  BY DEF StartLoad
<1>2. /\ s \in Seqs /\ Len(text[s]) \in Nat /\ hist[s] \in Nat /\ hist[s] < Len(text[s])
      /\ hist[s] = Len(table[s]) /\ text[s] \in Seq(Tok) /\ table[s] \in Seq(Blocks)
  BY <1>1, CandidateFacts
<1>3. /\ k \in Nat /\ hist[s] <= k
      /\ \A i \in (hist[s] + 1)..k : Path(text[s], i) \in DOMAIN cache
  BY <1>2, MatchFacts
<1>4. n \in Nat /\ n < Len(text[s]) /\ n - k \in Nat
  BY <1>1, <1>3, RemoteFacts
<1>5. cache \in [DOMAIN cache -> Blocks]
  BY DEF Base, Frame
<1>6. m \in Seq(Blocks) /\ Len(m) = k
  BY <1>2, <1>3, <1>5, MatchedFacts
<1>7. PICK o \in Outcomes(s, Matched(s, k), Missing(s, k)) :
        /\ \E q \in Picks(FreeWith(Without(Matched(s, k), o.gone), Minus(cache, o.out)), n - k) :
             /\ table' = [Without(table, o.gone) EXCEPT ![s] = m \o q]
             /\ pending' = pending \cup {NewRequest(s, k, q)}
        /\ cache' = Minus(cache, o.out)
        /\ hist' = [v \in Seqs |-> IF v = s THEN k ELSE IF v \in o.gone THEN 0 ELSE hist[v]]
        /\ target' = [v \in Seqs |-> IF v = s THEN Target(s) ELSE IF v \in o.gone THEN 0 ELSE target[v]]
  BY DEF StartLoad, NewRequest
<1> DEFINE F == FreeWith(Without(Matched(s, k), o.gone), Minus(cache, o.out))
<1>8. PICK q \in Picks(F, n - k) :
             /\ table' = [Without(table, o.gone) EXCEPT ![s] = m \o q]
             /\ pending' = pending \cup {NewRequest(s, k, q)}
  BY <1>7
<1>9. F \in SUBSET Blocks
  BY DEF FreeWith
<1> HIDE DEF F
<1>10. /\ q \in Seq(Blocks) /\ Len(q) = n - k /\ DOMAIN q = 1..(n - k) /\ InTable(q) \subseteq F
       /\ \A i, j \in 1..(n - k) : q[i] = q[j] => i = j
  <2> HIDE DEF n
  <2> DEFINE d == n - k
  <2>1. d \in Nat /\ q \in Picks(F, d)
    BY <1>4, <1>8
  <2> HIDE DEF d
  <2>2. /\ q \in Seq(Blocks) /\ Len(q) = d /\ DOMAIN q = 1..d /\ InTable(q) \subseteq F
        /\ \A i, j \in 1..d : q[i] = q[j] => i = j
    BY <1>9, <2>1, PickFacts
  <2> QED
    BY <2>2 DEF d
<1>11. /\ m \o q \in Seq(Blocks) /\ Len(m \o q) = k + (n - k)
       /\ \A i \in DOMAIN m : (m \o q)[i] = m[i]
       /\ \A i \in DOMAIN q : (m \o q)[k + i] = q[i]
  <2> HIDE DEF m, n
  <2>1. m \in Seq(Blocks) /\ q \in Seq(Blocks) /\ Len(m) = k /\ Len(q) = n - k
    BY <1>6, <1>10
  <2> QED
    BY <2>1, JoinAt
<1>12. DOMAIN m = 1..k
  BY <1>6
<1>13. NewRequest(s, k, q) \in Requests
  <2>1. Path(text[s], n) \in Seq(Tok)
    BY <1>2, <1>4, PathOf
  <2> QED
    BY <1>2, <1>3, <1>10, <2>1 DEF NewRequest, Requests
<1>14. k + (n - k) = n /\ k < n
  BY <1>1, <1>3, <1>4
<1>15. LoadStarts(s, k, o, q)
  BY <1>4, <1>6, <1>7, <1>8, <1>10, <1>11, <1>12, <1>13, <1>14 DEF LoadStarts, F
<1> QED
  BY <1>2, <1>3, <1>10, <1>15

LEMMA StartLoadBase ==
    ASSUME ConstantsAssumption, Base, NEW s, NEW k \in Matches(s), StartLoad(s, k)
    PROVE  Base'
<1> DEFINE n == Remote(s, k)
           rec == [phase |-> "LOADING", start |-> k, remote |-> n, cleanup |-> "none"]
<1>1. s \in Seqs /\ k \in Nat /\ hist[s] <= k
  BY StartLoadFacts
<1>2. PICK o \in Outcomes(s, Matched(s, k), Missing(s, k)) : \E q \in Seq(Blocks) : LoadStarts(s, k, o, q)
  BY StartLoadFacts
<1>3. PICK q \in Seq(Blocks) : LoadStarts(s, k, o, q)
  BY <1>2
<1>4. /\ load' = [load EXCEPT ![s] = rec] /\ status' = [status EXCEPT ![s] = "LOADING"]
      /\ plan' = [plan EXCEPT ![s] = 0] /\ Polled(s, k) /\ todo' = todo \ {s}
      /\ Candidate(s) /\ Answered(s, k)
      /\ UNCHANGED <<text, lease, inflight, failed, nextSave, stepVars, workVars, got, sleeping, pc, batch>>
  BY DEF StartLoad
<1>5. n \in Nat /\ n < Len(text[s]) /\ k < n
  BY <1>3 DEF LoadStarts
<1>6. pc = "pick" /\ s \in todo /\ status[s] = "WAITING" /\ Len(text[s]) \in Nat /\ ~IsLoading(s)
  BY <1>4, CandidateFacts
<1>7. /\ lookup' \in [Seqs -> Int] /\ lookup'[s] = NoLookup
      /\ \A v \in Seqs \ {s} : lookup'[v] = lookup[v]
  BY <1>1, <1>4, RemoteFacts
<1>8. /\ table' = [Without(table, o.gone) EXCEPT ![s] = MatchedTable(s, k) \o q]
      /\ MatchedTable(s, k) \o q \in Seq(Blocks) /\ Len(MatchedTable(s, k) \o q) = n
      /\ pending' = pending \cup {NewRequest(s, k, q)} /\ NewRequest(s, k, q) \in Requests
      /\ cache' = Minus(cache, o.out)
      /\ hist' = [v \in Seqs |-> IF v = s THEN k ELSE IF v \in o.gone THEN 0 ELSE hist[v]]
      /\ target' = [v \in Seqs |-> IF v = s THEN Target(s) ELSE IF v \in o.gone THEN 0 ELSE target[v]]
  BY <1>3 DEF LoadStarts
<1>9. Without(table, o.gone) \in [Seqs -> Seq(Blocks)]
  <2>1. <<>> \in Seq(Blocks)
    BY EmptyOf
  <2> QED
    BY <2>1 DEF Without, Base, Frame
<1> HIDE DEF n
<1>10. Frame'
  <2>1. table' \in [Seqs -> Seq(Blocks)] /\ hist' \in [Seqs -> Nat]
    BY <1>1, <1>8, <1>9 DEF Base, Frame
  <2>2. target' \in [Seqs -> Nat]
    BY <1>1, <1>6, <1>8 DEF Base, Frame, Target
  <2>3. cache' \in [DOMAIN cache' -> Blocks]
    BY <1>8 DEF Minus, Base, Frame
  <2>4. load' \in [Seqs -> Loads]
    <3>1. rec \in Loads
      BY <1>1, <1>5 DEF Loads
    <3> QED
      BY <1>4, <3>1 DEF Base, Frame
  <2>5. status' \in [Seqs -> Statuses] /\ plan' \in [Seqs -> Nat]
    BY <1>4 DEF Base, Frame, Statuses
  <2>6. pending' \subseteq Requests
    BY <1>8 DEF Base, Frame
  <2> QED
    BY <1>4, <1>7, <2>1, <2>2, <2>3, <2>4, <2>5, <2>6 DEF Base, Frame, workVars
<1>11. ASSUME NEW v \in Seqs PROVE RecordOf(v)'
  <2>1. CASE v # s
    <3>1. GoneOrSame(v, o)
      BY <1>1, <1>4, <1>7, <1>8, <2>1 DEF GoneOrSame, Without, Base, Frame
    <3> QED
      BY <3>1, GoneOrSameRecord
  <2>2. CASE v = s
    <3>1. /\ table'[s] = MatchedTable(s, k) \o q /\ hist'[s] = k /\ plan'[s] = 0 /\ text' = text
          /\ load'[s] = rec /\ status'[s] = "LOADING"
      BY <1>1, <1>4, <1>8, <1>9 DEF Base, Frame
    <3>2. Len(table'[s]) = n
      BY <1>8, <3>1
    <3>3. load'[s].phase = "LOADING" /\ load'[s].start = k /\ load'[s].remote = n
      BY <3>1
    <3>4. k <= n /\ k <= Len(text[s]) /\ Len(text[s]) >= 1
      BY <1>1, <1>5, <1>6
    <3> QED
      BY <1>1, <1>5, <1>7, <2>2, <3>1, <3>2, <3>3, <3>4 DEF RecordOf, IsLoading, RemoteReady, Target, LoadingShape
  <2> QED
    BY <2>1, <2>2
<1>12. Control'
  BY <1>4, <1>6 DEF Base, Control, WithStatus, Waiting, Frame
<1> QED
  BY <1>10, <1>11, <1>12 DEF Base, Records

---------------------------------------------------------------------------
(* A sequence is admitted to a prefill, or one pass ends. *)

\* What joins the trie are blocks of the table.
LEMMA PublishedFacts ==
    ASSUME NEW s \in Seqs, text[s] \in Seq(Tok), NEW c, c \in [DOMAIN c -> Blocks], NEW tbl \in Seq(Blocks),
           NEW d \in Nat, d <= Len(tbl), d <= Len(text[s])
    PROVE  /\ Published(s, c, tbl, d) \in [DOMAIN Published(s, c, tbl, d) -> Blocks]
           /\ \A p \in DOMAIN Published(s, c, tbl, d) :
                 IF p \in DOMAIN c THEN Published(s, c, tbl, d)[p] = c[p]
                 ELSE \E i \in 1..d : p = Path(text[s], i) /\ Published(s, c, tbl, d)[p] = tbl[i]
           /\ Cached(Published(s, c, tbl, d)) \subseteq Cached(c) \cup {tbl[i] : i \in 1..d}
<1> DEFINE D == DOMAIN c \cup {Path(text[s], i) : i \in 1..d}
           f == [p \in D |-> IF p \in DOMAIN c THEN c[p] ELSE tbl[Len(p)]]
<1>1. Published(s, c, tbl, d) = f
  BY DEF Published
<1>2. Len(tbl) \in Nat /\ Len(text[s]) \in Nat /\ \A i \in 1..Len(tbl) : tbl[i] \in Blocks
  OBVIOUS
<1>3. \A i \in 1..d : i \in Nat /\ i <= Len(text[s]) /\ i \in 1..Len(tbl)
  BY <1>2
<1>4. \A i \in 1..d : Len(Path(text[s], i)) = i
  BY <1>3, PathOf
<1>5. ASSUME NEW p \in D
      PROVE  /\ f[p] \in Blocks
             /\ IF p \in DOMAIN c THEN f[p] = c[p] ELSE \E i \in 1..d : p = Path(text[s], i) /\ f[p] = tbl[i]
  <2>1. CASE p \in DOMAIN c
    BY <2>1
  <2>2. CASE p \notin DOMAIN c
    <3>1. PICK i \in 1..d : p = Path(text[s], i)
      BY <2>2
    <3>2. Len(p) = i /\ tbl[i] \in Blocks
      BY <1>2, <1>3, <1>4, <3>1
    <3> QED
      BY <2>2, <3>1, <3>2
  <2> QED
    BY <2>1, <2>2
<1>6. f \in [DOMAIN f -> Blocks] /\ DOMAIN f = D
  BY <1>5
<1>7. Cached(f) \subseteq Cached(c) \cup {tbl[i] : i \in 1..d}
  BY <1>5, <1>6 DEF Cached
<1> HIDE DEF f
<1> QED
  BY <1>1, <1>5, <1>6, <1>7

\* How an admission leaves the tables and the trie.
AdmitStarts(s, k, o, q) ==
    LET c   == Minus(cache, o.out)
        tbl == Filled(s, k, c, q)
    IN /\ InTable(q) \subseteq FreeWith(Without(Matched(s, k), o.gone), c)
       /\ q \in Seq(Blocks) /\ DOMAIN q = 1..NumNew(s, k, c)
       /\ \A i, j \in DOMAIN q : q[i] = q[j] => i = j
       /\ c \in [DOMAIN c -> Blocks] /\ Cached(c) \subseteq Cached(cache)
       /\ MatchedTable(s, k) \in Seq(Blocks) /\ Len(MatchedTable(s, k)) = k
       /\ InTable(MatchedTable(s, k)) \subseteq InTable(table[s]) \cup Cached(cache)
       /\ tbl \in Seq(Blocks) /\ Len(tbl) = Target(s)
       /\ InTable(tbl) \subseteq InTable(q) \cup Cached(cache) \cup InTable(table[s])
       /\ table' = [Without(table, o.gone) EXCEPT ![s] = tbl]
       /\ cache' = Published(s, c, tbl, Len(text[s]))
       /\ cache' \in [DOMAIN cache' -> Blocks]
       /\ Cached(cache') \subseteq Cached(cache) \cup InTable(tbl)
       /\ hist' = [v \in Seqs |-> IF v = s THEN k ELSE IF v \in o.gone THEN 0 ELSE hist[v]]
       /\ target' = [v \in Seqs |-> IF v = s /\ Consumer THEN Target(s)
                                    ELSE IF v \in o.gone THEN 0 ELSE target[v]]

LEMMA AdmitLocalFacts ==
    ASSUME Base, NEW s, NEW k \in Matches(s), AdmitLocal(s, k)
    PROVE  /\ s \in Seqs /\ k \in Nat /\ hist[s] <= k /\ k < Len(text[s])
           /\ \E o \in Outcomes(s, Matched(s, k), Missing(s, k)) : \E q \in Seq(Blocks) :
                AdmitStarts(s, k, o, q)
<1> DEFINE m == MatchedTable(s, k)
<1>1. Candidate(s)
  BY DEF AdmitLocal, LocalOnly
<1>2. /\ s \in Seqs /\ Len(text[s]) \in Nat /\ hist[s] \in Nat /\ hist[s] < Len(text[s])
      /\ hist[s] = Len(table[s]) /\ text[s] \in Seq(Tok) /\ table[s] \in Seq(Blocks)
  BY <1>1, CandidateFacts
<1>3. /\ k \in Nat /\ hist[s] <= k /\ k < Len(text[s])
      /\ \A i \in (hist[s] + 1)..k : Path(text[s], i) \in DOMAIN cache
  BY <1>2, MatchFacts
<1>4. cache \in [DOMAIN cache -> Blocks]
  BY DEF Base, Frame
<1>5. m \in Seq(Blocks) /\ Len(m) = k /\ InTable(m) \subseteq InTable(table[s]) \cup Cached(cache)
  BY <1>2, <1>3, <1>4, MatchedFacts
<1>6. PICK o \in Outcomes(s, Matched(s, k), Missing(s, k)) :
         /\ \E q \in Picks(FreeWith(Without(Matched(s, k), o.gone), Minus(cache, o.out)),
                           NumNew(s, k, Minus(cache, o.out))) :
              /\ table' = [Without(table, o.gone) EXCEPT ![s] = Filled(s, k, Minus(cache, o.out), q)]
              /\ cache' = Published(s, Minus(cache, o.out), Filled(s, k, Minus(cache, o.out), q), Len(text[s]))
         /\ hist' = [v \in Seqs |-> IF v = s THEN k ELSE IF v \in o.gone THEN 0 ELSE hist[v]]
         /\ target' = [v \in Seqs |-> IF v = s /\ Consumer THEN Target(s)
                                      ELSE IF v \in o.gone THEN 0 ELSE target[v]]
  BY DEF AdmitLocal
<1> DEFINE c == Minus(cache, o.out)
           F == FreeWith(Without(Matched(s, k), o.gone), c)
           n == NumNew(s, k, c)
<1>7. PICK q \in Picks(F, n) :
              /\ table' = [Without(table, o.gone) EXCEPT ![s] = Filled(s, k, c, q)]
              /\ cache' = Published(s, c, Filled(s, k, c, q), Len(text[s]))
  BY <1>6
<1>8. c \in [DOMAIN c -> Blocks] /\ Cached(c) \subseteq Cached(cache)
  BY <1>4 DEF Minus, Cached
<1>9. F \in SUBSET Blocks
  BY DEF FreeWith
<1>10. /\ q \in Seq(Blocks) /\ DOMAIN q = 1..n /\ InTable(q) \subseteq F
       /\ \A i, j \in DOMAIN q : q[i] = q[j] => i = j
  <2>1. n \in Nat
    BY <1>2, <1>3, NumNewIs
  <2> HIDE DEF n, F
  <2>2. /\ q \in Seq(Blocks) /\ DOMAIN q = 1..n /\ InTable(q) \subseteq F
        /\ \A i, j \in 1..n : q[i] = q[j] => i = j
    BY <1>7, <1>9, <2>1, PickFacts
  <2> QED
    BY <2>2
<1> DEFINE tbl == Filled(s, k, c, q)
<1> HIDE DEF c
<1>11. /\ tbl \in Seq(Blocks) /\ Len(tbl) = Target(s)
       /\ InTable(tbl) \subseteq InTable(q) \cup Cached(c) \cup InTable(m)
  <2>1. q \in Seq(Blocks) /\ DOMAIN q = 1..NumNew(s, k, c) /\ \A i, j \in DOMAIN q : q[i] = q[j] => i = j
    BY <1>10
  <2>2. MatchedTable(s, k) \in Seq(Blocks) /\ Len(MatchedTable(s, k)) = k
    BY <1>5
  <2>3. s \in Seqs /\ text[s] \in Seq(Tok) /\ k \in Nat /\ k < Len(text[s]) /\ c \in [DOMAIN c -> Blocks]
    BY <1>2, <1>3, <1>8
  <2>4. FillInput(s, k, c, q)
    BY <2>1, <2>2, <2>3 DEF FillInput
  <2> QED
    BY <2>4, FilledFacts
<1>12. InTable(tbl) \subseteq InTable(q) \cup Cached(cache) \cup InTable(table[s])
  BY <1>5, <1>8, <1>11
<1>13. /\ cache' \in [DOMAIN cache' -> Blocks]
       /\ Cached(cache') \subseteq Cached(cache) \cup InTable(tbl)
  <2>1. cache' = Published(s, c, tbl, Len(text[s]))
    BY <1>7
  <2>2. Len(text[s]) <= Len(tbl)
    BY <1>2, <1>11 DEF Target
  <2> HIDE DEF tbl
  <2>3. /\ cache' \in [DOMAIN cache' -> Blocks]
        /\ Cached(cache') \subseteq Cached(c) \cup {tbl[i] : i \in 1..Len(text[s])}
    BY <1>2, <1>8, <1>11, <2>1, <2>2, PublishedFacts, SMTT(30)
  <2>4. {tbl[i] : i \in 1..Len(text[s])} \subseteq InTable(tbl)
    <3>1. DOMAIN tbl = 1..Len(tbl) /\ Len(tbl) \in Nat
      BY <1>11
    <3> QED
      BY <1>2, <2>2, <3>1 DEF InTable
  <2> QED
    BY <1>8, <2>3, <2>4
<1>14. AdmitStarts(s, k, o, q)
  <2>1. /\ InTable(q) \subseteq FreeWith(Without(Matched(s, k), o.gone), Minus(cache, o.out))
        /\ DOMAIN q = 1..NumNew(s, k, Minus(cache, o.out))
        /\ \A i, j \in DOMAIN q : q[i] = q[j] => i = j
    BY <1>10 DEF c
  <2>2. c \in [DOMAIN c -> Blocks] /\ Cached(c) \subseteq Cached(cache)
    BY <1>8
  <2> QED
    BY <1>5, <1>6, <1>7, <1>10, <1>11, <1>12, <1>13, <2>1, <2>2 DEF AdmitStarts, c
<1> QED
  BY <1>2, <1>3, <1>10, <1>14

LEMMA AdmitLocalBase ==
    ASSUME Base, NEW s, NEW k \in Matches(s), AdmitLocal(s, k)
    PROVE  Base'
<1>1. s \in Seqs /\ k \in Nat /\ hist[s] <= k /\ k < Len(text[s])
  BY AdmitLocalFacts
<1>2. PICK o \in Outcomes(s, Matched(s, k), Missing(s, k)) : \E q \in Seq(Blocks) : AdmitStarts(s, k, o, q)
  BY AdmitLocalFacts
<1>3. PICK q \in Seq(Blocks) : AdmitStarts(s, k, o, q)
  BY <1>2
<1> DEFINE tbl == Filled(s, k, Minus(cache, o.out), q)
<1>4. /\ tbl \in Seq(Blocks) /\ Len(tbl) = Target(s)
      /\ table' = [Without(table, o.gone) EXCEPT ![s] = tbl]
      /\ cache' \in [DOMAIN cache' -> Blocks]
      /\ hist' = [v \in Seqs |-> IF v = s THEN k ELSE IF v \in o.gone THEN 0 ELSE hist[v]]
      /\ target' = [v \in Seqs |-> IF v = s /\ Consumer THEN Target(s)
                                   ELSE IF v \in o.gone THEN 0 ELSE target[v]]
  BY <1>3 DEF AdmitStarts
<1> HIDE DEF tbl
<1>5. /\ status' = [status EXCEPT ![s] = "RUNNING"]
      /\ load' = IF RemoteReady(s) THEN [load EXCEPT ![s].phase = "PREFILLING"] ELSE load
      /\ todo' = todo \ {s} /\ batch' = batch \cup {s} /\ LocalOnly(s, k)
      /\ UNCHANGED <<text, lease, pending, inflight, failed, stepVars, workVars, got, sleeping, pc>>
  BY DEF AdmitLocal
<1>6. Candidate(s)
  BY <1>5 DEF LocalOnly
<1>7. /\ pc = "pick" /\ s \in todo /\ status[s] = "WAITING" /\ Len(text[s]) \in Nat /\ ~IsLoading(s)
      /\ text[s] \in Seq(Tok)
  BY <1>6, CandidateFacts
<1>8. /\ lookup' \in [Seqs -> Int] /\ plan' \in [Seqs -> Nat] /\ nextSave' \in [Seqs -> Nat]
      /\ \A v \in Seqs \ {s} : lookup'[v] = lookup[v] /\ plan'[v] = plan[v] /\ nextSave'[v] = nextSave[v]
      /\ \/ lookup'[s] = lookup[s] /\ plan'[s] = plan[s]
         \/ lookup'[s] = NoLookup /\ plan'[s] = 0
  BY <1>1, <1>5, LocalOnlyFacts
<1>9. Without(table, o.gone) \in [Seqs -> Seq(Blocks)]
  <2>1. <<>> \in Seq(Blocks)
    BY EmptyOf
  <2> QED
    BY <2>1 DEF Without, Base, Frame
<1>10. load' \in [Seqs -> Loads] /\ (\A v \in Seqs \ {s} : load'[v] = load[v])
       /\ load'[s].phase \in {load[s].phase, "PREFILLING"} /\ load'[s].phase # "READY"
       /\ (load'[s].phase = "none" => load'[s] = load[s])
  <2>1. load \in [Seqs -> Loads] /\ load[s] \in Loads
    BY <1>1 DEF Base, Frame
  <2>2. CASE RemoteReady(s)
    <3>1. [load[s] EXCEPT !.phase = "PREFILLING"] \in Loads
          /\ [load[s] EXCEPT !.phase = "PREFILLING"].phase = "PREFILLING"
      BY <2>1 DEF Loads
    <3>2. load' = [load EXCEPT ![s] = [load[s] EXCEPT !.phase = "PREFILLING"]]
      BY <1>5, <2>2
    <3>3. load' \in [Seqs -> Loads]
      BY <2>1, <3>1, <3>2
    <3>4. load'[s].phase = "PREFILLING" /\ (\A v \in Seqs \ {s} : load'[v] = load[v])
      BY <1>1, <2>1, <3>1, <3>2
    <3> QED
      BY <3>3, <3>4
  <2>3. CASE ~RemoteReady(s)
    BY <1>5, <2>1, <2>3 DEF RemoteReady
  <2> QED
    BY <2>2, <2>3
<1>11. Frame'
  <2>1. table' \in [Seqs -> Seq(Blocks)]
    BY <1>4, <1>9
  <2>2. target' \in [Seqs -> Nat] /\ hist' \in [Seqs -> Nat]
    BY <1>1, <1>4, <1>7 DEF Base, Frame, Target
  <2>3. status' \in [Seqs -> Statuses]
    BY <1>5 DEF Base, Frame, Statuses
  <2> QED
    BY <1>1, <1>4, <1>5, <1>8, <1>10, <2>1, <2>2, <2>3 DEF Base, Frame, workVars
<1>12. ASSUME NEW v \in Seqs PROVE RecordOf(v)'
  <2>1. CASE v # s
    <3>1. status'[v] = status[v] /\ load'[v] = load[v]
      BY <1>1, <1>5, <1>10, <2>1 DEF Base, Frame
    <3>2. table'[v] = IF v \in o.gone THEN <<>> ELSE table[v]
      BY <1>1, <1>4, <2>1 DEF Without, Base, Frame
    <3>3. GoneOrSame(v, o)
      BY <1>4, <1>5, <1>8, <2>1, <3>1, <3>2 DEF GoneOrSame
    <3> QED
      BY <3>3, GoneOrSameRecord
  <2>2. CASE v = s
    <3>1. table'[s] = tbl /\ hist'[s] = k /\ text' = text /\ status'[s] = "RUNNING"
      BY <1>1, <1>4, <1>5, <1>9 DEF Base, Frame
    <3>2. RecordOf(s)
      BY <1>1 DEF Base, Records
    <3>3. Len(table'[s]) = Len(text'[s]) + 1 /\ hist'[s] <= Len(table'[s]) /\ Len(text'[s]) >= 1
      BY <1>1, <1>4, <1>7, <3>1 DEF Target
    <3>4. load'[s].phase # "LOADING" /\ load'[s].phase # "READY" /\ (load'[s].phase = "none" => load'[s] = NoLoad)
      BY <1>7, <1>10, <3>2 DEF RecordOf, IsLoading
    <3> QED
      BY <1>1, <1>8, <2>2, <3>1, <3>2, <3>3, <3>4 DEF RecordOf, IsLoading, RemoteReady, Target, NoLookup
  <2> QED
    BY <2>1, <2>2
<1>13. Control'
  BY <1>5, <1>7 DEF Base, Control, WithStatus, Waiting, Frame
<1> QED
  BY <1>11, <1>12, <1>13 DEF Base, Records

LEMMA EndPassBase ==
    ASSUME Base, EndPass
    PROVE  Base'
<1>1. PICK savers \in SUBSET Seqs :
        nextSave' = [s \in Seqs |-> IF s \in savers THEN Len(text[s]) ELSE nextSave[s]]
  <2>1. PICK skipped \in SUBSET (IF Hybrid THEN ToSave ELSE {}) :
          nextSave' = [s \in Seqs |-> IF s \in ToSave \ skipped THEN Len(text[s]) ELSE nextSave[s]]
    BY DEF EndPass
  <2>2. ToSave \ skipped \in SUBSET Seqs
    BY DEF ToSave, Base, Frame
  <2> QED
    BY <2>1, <2>2
<1>2. /\ inflight' = inflight \cup pending /\ pending' = {} /\ todo' = {} /\ batch' = {}
      /\ UNCHANGED <<seqVars, load, target, lookup, plan, failed, launched, gpu, workVars, got, kv, sleeping>>
      /\ pc' \in {"wait", "sent", "send"} /\ pc = "pick"
  BY DEF EndPass, AfterPass
<1>3. Frame'
  <2>1. nextSave' \in [Seqs -> Nat]
    BY <1>1 DEF Base, Frame
  <2> QED
    BY <1>2, <2>1 DEF Base, Frame, Pcs, seqVars, workVars
<1>4. ASSUME NEW v \in Seqs PROVE RecordOf(v)'
  <2>1. FieldsSame(v)
    BY <1>2 DEF FieldsSame, seqVars
  <2>2. status[v] = "none" => target'[v] = target[v] /\ nextSave'[v] = nextSave[v]
    <3>1. status[v] = "none" => text[v] = <<>> /\ nextSave[v] = 0
      BY DEF Base, Records, RecordOf, Forgotten
    <3>2. Len(<<>>) = 0
      BY EmptyOf
    <3> QED
      BY <1>1, <1>2, <3>1, <3>2
  <2> QED
    BY <1>2, <2>1, <2>2, SequencesSame DEF Base
<1>5. Control'
  BY <1>2 DEF Base, Control
<1> QED
  BY <1>3, <1>4, <1>5 DEF Base, Records

---------------------------------------------------------------------------
(* Results are collected and applied. *)

LEMMA CollectBase ==
    ASSUME Base, OneEach, Collect
    PROVE  Base'
<1>1. /\ pc = "wait" /\ pc' = "apply" /\ failed' = FailedSoFar /\ inflight' = inflight \ EndedLoads
      /\ todo' = {w.seq : w \in EndedLoads}
      /\ nextSave' = [s \in Seqs |->
                      IF Producer /\ \E w \in EndedLoads : w.seq = s
                        THEN SaveFrom(CHOOSE w \in EndedLoads : w.seq = s, FailedSoFar)
                        ELSE nextSave[s]]
      /\ UNCHANGED <<seqVars, load, target, lookup, plan, pending, stepVars, workVars, sleeping, batch>>
  BY DEF Collect
<1>2. EndedLoads \subseteq inflight /\ inflight \subseteq Requests
  BY DEF EndedLoads, Base, Frame
<1>3. \A w \in inflight : w.seq \in Seqs /\ IsLoading(w.seq) /\ status[w.seq] = "LOADING"
  <2>1. \A w \in inflight : w.seq \in Seqs
    BY <1>2 DEF Requests
  <2> QED
    BY <2>1 DEF OneEach, RequestShape, Base, Records, RecordOf, LoadingShape
<1>4. ASSUME NEW w \in Requests PROVE SaveFrom(w, FailedSoFar) \in Nat
  <2>1. w.first \in Nat /\ w.text \in Seq(Tok)
    BY <1>4 DEF Requests
  <2>2. Len(w.text) \in Nat
    BY <2>1
  <2> QED
    BY <2>1, <2>2 DEF SaveFrom
<1>5. nextSave' \in [Seqs -> Nat]
  <2>1. ASSUME NEW s \in Seqs, \E w \in EndedLoads : w.seq = s
        PROVE  (CHOOSE w \in EndedLoads : w.seq = s) \in Requests
    BY <1>2, <2>1
  <2>2. \A s \in Seqs : nextSave[s] \in Nat
    BY DEF Base, Frame
  <2> QED
    BY <1>1, <1>4, <2>1, <2>2
<1>6. failed' \subseteq Seqs /\ \A s \in failed' : s \in failed \/ status[s] = "LOADING"
  <2>1. failed \subseteq Seqs
    BY DEF Base, Frame
  <2> QED
    BY <1>1, <1>3, <2>1 DEF FailedSoFar
<1>7. Frame'
  <2>1. todo' \subseteq Seqs
    BY <1>1, <1>2, <1>3
  <2> QED
    BY <1>1, <1>2, <1>5, <1>6, <2>1 DEF Base, Frame, Pcs, seqVars, workVars
<1>8. ASSUME NEW v \in Seqs PROVE RecordOf(v)'
  <2>1. FieldsSame(v)
    BY <1>1 DEF FieldsSame, seqVars
  <2>2. status[v] = "none" => target'[v] = target[v] /\ nextSave'[v] = nextSave[v] /\ (v \in failed' => v \in failed)
    BY <1>1, <1>2, <1>3, <1>6
  <2> QED
    BY <2>1, <2>2, SequencesSame DEF Base
<1>9. Control'
  <2>1. \A v \in todo' : IsLoading(v)
    BY <1>1, <1>2, <1>3
  <2> QED
    BY <1>1, <2>1 DEF Base, Control, IsLoading
<1> QED
  BY <1>7, <1>8, <1>9 DEF Base, Records

\* The loads whose results are applied.
LEMMA ApplyFacts ==
    ASSUME Base, pc = "apply", NEW s \in todo
    PROVE  /\ s \in Seqs /\ IsLoading(s) /\ LoadingShape(s) /\ RecordOf(s)
           /\ text[s] \in Seq(Tok) /\ table[s] \in Seq(Blocks) /\ hist[s] \in Nat
           /\ load[s] \in Loads /\ load[s].remote \in Nat /\ load[s].start \in Nat
<1>1. s \in Seqs /\ IsLoading(s)
  BY DEF Base, Frame, Control
<1>2. load[s] \in Loads /\ text[s] \in Seq(Tok) /\ table[s] \in Seq(Blocks) /\ hist[s] \in Nat
  BY <1>1 DEF Base, Frame
<1>3. load[s].remote \in Nat /\ load[s].start \in Nat
  BY <1>2 DEF Loads
<1> QED
  BY <1>1, <1>2, <1>3 DEF Base, Records, RecordOf

\* What a published load leaves.
PublishTable(s) ==
    [i \in 1..load[s].remote |-> IF Path(text[s], i) \in DOMAIN cache
                                   THEN cache[Path(text[s], i)] ELSE table[s][i]]

LEMMA PublishFacts ==
    ASSUME Base, NEW s \in todo, Publish(s)
    PROVE  LET tbl == PublishTable(s)
               n   == load[s].remote
           IN /\ tbl \in Seq(Blocks) /\ Len(tbl) = n
              /\ table' = [table EXCEPT ![s] = tbl]
              /\ cache' = Published(s, cache, tbl, n)
              /\ cache' \in [DOMAIN cache' -> Blocks]
              /\ InTable(tbl) \subseteq Cached(cache) \cup InTable(table[s])
              /\ Cached(cache') \subseteq Cached(cache) \cup InTable(table[s])
<1> DEFINE tbl == PublishTable(s)
           n == load[s].remote
<1>1. pc = "apply" /\ table' = [table EXCEPT ![s] = tbl] /\ cache' = Published(s, cache, tbl, n)
  BY DEF Publish, PublishTable
<1>2. /\ s \in Seqs /\ text[s] \in Seq(Tok) /\ table[s] \in Seq(Blocks) /\ n \in Nat
      /\ n = Len(table[s]) /\ n < Len(text[s])
  BY <1>1, ApplyFacts DEF LoadingShape
<1>3. cache \in [DOMAIN cache -> Blocks]
  BY DEF Base, Frame
<1>4. /\ DOMAIN table[s] = 1..n
      /\ \A i \in 1..n : table[s][i] \in Blocks /\ table[s][i] \in InTable(table[s])
  BY <1>2, ElementOf DEF InTable
<1>5. tbl \in [1..n -> Blocks] /\ InTable(tbl) \subseteq Cached(cache) \cup InTable(table[s])
  BY <1>3, <1>4 DEF PublishTable, InTable, Cached
<1> HIDE DEF tbl, n
<1>6. tbl \in Seq(Blocks) /\ Len(tbl) = n /\ DOMAIN tbl = 1..n
  BY <1>2, <1>5, TableOf
<1>7. /\ cache' \in [DOMAIN cache' -> Blocks]
      /\ Cached(cache') \subseteq Cached(cache) \cup {tbl[i] : i \in 1..n}
  <2>1. n <= Len(tbl) /\ n <= Len(text[s])
    <3>1. Len(text[s]) \in Nat
      BY <1>2
    <3> QED
      BY <1>2, <1>6, <3>1
  <2> QED
    BY <1>1, <1>2, <1>3, <1>6, <2>1, PublishedFacts
<1>8. Cached(cache') \subseteq Cached(cache) \cup InTable(table[s])
  BY <1>5, <1>6, <1>7 DEF InTable
<1> QED
  BY <1>1, <1>5, <1>6, <1>7, <1>8 DEF tbl, n

LEMMA PublishBase ==
    ASSUME Base, NEW s \in todo, Publish(s)
    PROVE  Base'
<1> DEFINE tbl == PublishTable(s)
           n == load[s].remote
<1>1. /\ pc = "apply" /\ hist' = [hist EXCEPT ![s] = n] /\ status' = [status EXCEPT ![s] = "WAITING"]
      /\ load' = [load EXCEPT ![s].phase = "READY"] /\ todo' = todo \ {s}
      /\ UNCHANGED <<text, target, lease, conVars, stepVars, workVars, got, sleeping, pc, batch>>
  BY DEF Publish
<1>2. /\ s \in Seqs /\ IsLoading(s) /\ LoadingShape(s) /\ RecordOf(s) /\ n \in Nat /\ load[s] \in Loads
      /\ text[s] \in Seq(Tok)
  BY <1>1, ApplyFacts
<1>3. /\ tbl \in Seq(Blocks) /\ Len(tbl) = n /\ table' = [table EXCEPT ![s] = tbl]
      /\ cache' \in [DOMAIN cache' -> Blocks]
  BY PublishFacts
<1> HIDE DEF tbl
<1>4. /\ [load[s] EXCEPT !.phase = "READY"] \in Loads
      /\ [load[s] EXCEPT !.phase = "READY"].phase = "READY"
  BY <1>2 DEF Loads
<1>5. load' = [load EXCEPT ![s] = [load[s] EXCEPT !.phase = "READY"]]
  BY <1>1
<1>6. load' \in [Seqs -> Loads] /\ load'[s].phase = "READY" /\ \A v \in Seqs \ {s} : load'[v] = load[v]
  <2>1. load \in [Seqs -> Loads]
    BY DEF Base, Frame
  <2> QED
    BY <1>2, <1>4, <1>5, <2>1
<1>7. Frame'
  <2>1. table' \in [Seqs -> Seq(Blocks)] /\ hist' \in [Seqs -> Nat]
    BY <1>1, <1>2, <1>3 DEF Base, Frame
  <2>2. status' \in [Seqs -> Statuses]
    BY <1>1 DEF Base, Frame, Statuses
  <2> QED
    BY <1>1, <1>3, <1>6, <2>1, <2>2 DEF Base, Frame, conVars, workVars
<1>8. ASSUME NEW v \in Seqs PROVE RecordOf(v)'
  <2>1. CASE v # s
    <3>1. FieldsSame(v)
      BY <1>1, <1>3, <1>6, <2>1 DEF FieldsSame, conVars, Base, Frame
    <3> QED
      BY <1>1, <3>1, SequencesSame DEF Base, conVars
  <2>2. CASE v = s
    <3>1. table'[s] = tbl /\ hist'[s] = n /\ text' = text /\ plan' = plan /\ lookup' = lookup /\ status'[s] = "WAITING"
      BY <1>1, <1>2, <1>3 DEF Base, Frame, conVars
    <3>2. plan[s] = 0 /\ lookup[s] = NoLookup /\ n < Len(text[s]) /\ Len(text[s]) >= 1 /\ n <= Len(text[s])
      BY <1>2 DEF LoadingShape, RecordOf
    <3> QED
      BY <1>2, <1>3, <1>6, <2>2, <3>1, <3>2 DEF RecordOf, IsLoading, RemoteReady, Target
  <2> QED
    BY <2>1, <2>2
<1>9. Control'
  <2>1. \A v \in todo' : IsLoading(v)'
    BY <1>1, <1>6 DEF Base, Control, Frame, IsLoading
  <2> QED
    BY <1>1, <2>1 DEF Base, Control, conVars
<1> QED
  BY <1>7, <1>8, <1>9 DEF Base, Records

\* How a load that is given up leaves a request that has not ended.
GivenBack(s) ==
    /\ status' = [status EXCEPT ![s] = IF load[s].cleanup = "STOP" THEN "STOPPED" ELSE "WAITING"]
    /\ table' = [table EXCEPT ![s] = Path(@, Depth(s))]
    /\ hist' = [hist EXCEPT ![s] = Depth(s)]
    /\ load' = [load EXCEPT ![s] = NoLoad]
    /\ target' = [target EXCEPT ![s] = 0]
    /\ UNCHANGED <<text, cache, plan, inflight, failed, nextSave>>

LEMMA GiveUpBase ==
    ASSUME Base, NEW s \in todo, GiveUp(s)
    PROVE  Base'
<1>1. /\ pc = "apply" /\ todo' = todo \ {s}
      /\ UNCHANGED <<lease, lookup, pending, stepVars, workVars, got, sleeping, pc, batch>>
  BY DEF GiveUp
<1>2. \/ load[s].cleanup = "END" /\ Remove({s}, table, load) /\ cache' = cache
      \/ GivenBack(s)
  BY DEF GiveUp, GivenBack
<1>3. /\ s \in Seqs /\ LoadingShape(s) /\ RecordOf(s) /\ load[s].start \in Nat
      /\ text[s] \in Seq(Tok) /\ table[s] \in Seq(Blocks) /\ hist[s] \in Nat
  BY <1>1, ApplyFacts
<1>4. lookup[s] = NoLookup /\ plan[s] = 0 /\ load[s].start = hist[s] /\ hist[s] < Len(table[s])
      /\ Len(table[s]) < Len(text[s]) /\ Len(text[s]) \in Nat /\ Len(table[s]) \in Nat
  BY <1>3 DEF LoadingShape
<1>5. Frame' /\ \A v \in Seqs : RecordOf(v)'
  <2>1. CASE Remove({s}, table, load) /\ cache' = cache
    <3>1. Defer({}, "END") = load /\ load \in [Seqs -> Loads] /\ table \in [Seqs -> Seq(Blocks)]
      BY DEF Defer, Base, Frame
    <3>2. Remove({s}, table, Defer({}, "END"))
      BY <2>1, <3>1
    <3>3. \A v \in Seqs : RecordOf(v)'
      <4>1. \A v \in Seqs : lookup'[v] \in {lookup[v], NoLookup}
        BY <1>1
      <4>2. \A v \in {s} : lookup'[v] = NoLookup
        BY <1>1, <1>4
      <4> QED
        BY <1>3, <3>2, <4>1, <4>2, RemoveRecords
    <3>4. Frame'
      BY <1>1, <1>3, <2>1, <3>1, RemoveFrame DEF Base, Frame, stepVars, workVars
    <3> QED
      BY <3>3, <3>4
  <2>2. CASE GivenBack(s)
    <3>1. Depth(s) \in Nat /\ Depth(s) <= Len(table[s]) /\ Depth(s) < Len(text[s])
      BY <1>3, <1>4 DEF Depth
    <3>2. Path(table[s], Depth(s)) \in Seq(Blocks) /\ Len(Path(table[s], Depth(s))) = Depth(s)
      BY <1>3, <3>1, PathOf
    <3>3. /\ table'[s] = Path(table[s], Depth(s)) /\ hist'[s] = Depth(s) /\ load'[s] = NoLoad
          /\ status'[s] \in {"STOPPED", "WAITING"} /\ text' = text /\ plan' = plan
          /\ \A v \in Seqs \ {s} : /\ status'[v] = status[v] /\ table'[v] = table[v] /\ hist'[v] = hist[v]
                                   /\ load'[v] = load[v] /\ target'[v] = target[v]
      BY <1>3, <2>2 DEF GivenBack, Base, Frame
    <3>4. Frame'
      <4>1. NoLoad \in Loads
        BY DEF NoLoad, Loads
      <4>2. load' \in [Seqs -> Loads] /\ status' \in [Seqs -> Statuses]
        BY <2>2, <4>1 DEF GivenBack, Base, Frame, Statuses
      <4>3. table' \in [Seqs -> Seq(Blocks)] /\ hist' \in [Seqs -> Nat] /\ target' \in [Seqs -> Nat]
        BY <2>2, <3>1, <3>2 DEF GivenBack, Base, Frame
      <4> QED
        BY <1>1, <2>2, <4>2, <4>3 DEF GivenBack, Base, Frame, workVars
    <3>5. ASSUME NEW v \in Seqs PROVE RecordOf(v)'
      <4>1. CASE v # s
        <5>1. FieldsSame(v)
          BY <1>1, <3>3, <4>1 DEF FieldsSame
        <5> QED
          BY <2>2, <3>3, <4>1, <5>1, SequencesSame DEF GivenBack, Base
      <4>2. CASE v = s
        BY <1>1, <1>3, <1>4, <3>1, <3>2, <3>3, <4>2 DEF RecordOf, IsLoading, RemoteReady, Target, NoLoad
      <4> QED
        BY <4>1, <4>2
    <3> QED
      BY <3>4, <3>5
  <2> QED
    BY <1>2, <2>1, <2>2
<1>6. Control'
  <2>1. \A v \in todo' : IsLoading(v)'
    <3>1. \A v \in todo \ {s} : load'[v] = load[v]
      BY <1>2, <1>3 DEF GivenBack, Remove, Base, Frame
    <3> QED
      BY <1>1, <3>1 DEF Base, Control, IsLoading
  <2> QED
    BY <1>1, <2>1 DEF Base, Control
<1> QED
  BY <1>5, <1>6 DEF Base, Records

LEMMA OutputsBase ==
    ASSUME Base, NEW finished, Outputs(finished)
    PROVE  Base'
<1> DEFINE alive == {s \in DOMAIN Head1.rows : status[s] = "RUNNING"}
<1>1. /\ pc = "apply" /\ todo = {} /\ finished \subseteq alive
      /\ hist' = [s \in Seqs |-> IF s \in alive THEN Len(text[s]) ELSE hist[s]]
      /\ status' = [s \in Seqs |-> IF s \in finished THEN "STOPPED" ELSE status[s]]
      /\ target' = [s \in Seqs |-> IF s \in alive THEN 0 ELSE target[s]]
      /\ load' = [s \in Seqs |-> IF s \in alive THEN NoLoad ELSE load[s]]
      /\ pc' \in {"prefetch", "send"}
      /\ UNCHANGED <<text, table, cache, lease, conVars, done, setup, got, sleeping, todo, batch>>
  BY DEF Outputs
<1>2. \A s \in alive : status[s] = "RUNNING"
  OBVIOUS
<1> HIDE DEF alive
<1>3. NoLoad \in Loads /\ \A s \in Seqs : Len(text[s]) \in Nat
  BY DEF NoLoad, Loads, Base, Frame
<1>4. Frame'
  BY <1>1, <1>3 DEF Base, Frame, Statuses, Pcs, conVars
<1>5. ASSUME NEW v \in Seqs PROVE RecordOf(v)'
  <2>1. CASE v \notin alive
    <3>1. FieldsSame(v)
      BY <1>1, <2>1 DEF FieldsSame, conVars
    <3> QED
      BY <1>1, <2>1, <3>1, SequencesSame DEF Base, conVars
  <2>2. CASE v \in alive
    <3>1. /\ hist'[v] = Len(text[v]) /\ status'[v] \in {"RUNNING", "STOPPED"} /\ load'[v] = NoLoad
          /\ text' = text /\ table' = table /\ plan' = plan /\ lookup' = lookup
      BY <1>1, <1>2, <2>2 DEF conVars
    <3>2. RecordOf(v) /\ status[v] = "RUNNING" /\ Len(text[v]) \in Nat
      BY <1>2, <1>3, <2>2 DEF Base, Records
    <3>3. Len(table[v]) = Len(text[v]) + 1
      BY <3>2 DEF RecordOf, Target
    <3> QED
      BY <3>1, <3>2, <3>3 DEF RecordOf, IsLoading, RemoteReady, Target, NoLoad
  <2> QED
    BY <2>1, <2>2
<1>6. Control'
  BY <1>1 DEF Base, Control, conVars
<1> QED
  BY <1>4, <1>5, <1>6 DEF Base, Records

LEMMA FinishSleepBase ==
    ASSUME Base, FinishSleep
    PROVE  Base'
<1> DEFINE E == EndedWhileLoading
<1>1. /\ pc = "drained" /\ pc' = "asleep" /\ Remove(E, table, load)
      /\ lease' = <<>> /\ cache' = <<>> /\ queue' = <<>> /\ got' = {}
      /\ done' = [r \in Ranks |-> {}] /\ \A r \in Ranks : loading[r] = {} /\ saving[r] = {}
      /\ UNCHANGED <<lookup, pending, loading, saving, setup, sleeping, todo, batch>>
  BY DEF FinishSleep
<1>2. E \in SUBSET Seqs /\ \A s \in E : IsLoading(s) /\ load[s].cleanup = "END"
  BY DEF EndedWhileLoading
<1>3. \A s \in Seqs : s \in E \/ status[s] = "none"
  BY <1>1 DEF Base, Control, EndedWhileLoading
<1>4. Defer({}, "END") = load /\ load \in [Seqs -> Loads] /\ table \in [Seqs -> Seq(Blocks)]
  BY DEF Defer, Base, Frame
<1>5. \A s \in E : lookup[s] = NoLookup
  BY <1>2 DEF Base, Records, RecordOf, LoadingShape
<1> HIDE DEF E
<1>6. \A v \in Seqs : RecordOf(v)'
  <2>1. Remove(E, table, Defer({}, "END"))
    BY <1>1, <1>4
  <2>2. \A v \in Seqs : lookup'[v] \in {lookup[v], NoLookup}
    BY <1>1
  <2>3. \A v \in E : lookup'[v] = NoLookup
    BY <1>1, <1>5
  <2> QED
    BY <1>2, <2>1, <2>2, <2>3, RemoveRecords
<1>7. Frame'
  <2>1. cache' \in [DOMAIN cache' -> Blocks]
    BY <1>1
  <2> QED
    BY <1>1, <1>2, <1>4, <2>1, RemoveFrame DEF Base, Frame, Pcs
<1>8. Control'
  <2>1. \A s \in Seqs : status'[s] = "none"
    BY <1>1, <1>3 DEF Remove
  <2>2. Ranks' = Ranks
    BY <1>1 DEF Ranks
  <2>3. pc # "pick" /\ pc # "apply"
    BY <1>1
  <2> QED
    BY <1>1, <2>1, <2>2, <2>3 DEF Base, Control, WithStatus
<1> QED
  BY <1>6, <1>7, <1>8 DEF Base, Records

---------------------------------------------------------------------------
(* The results of loads, seen from one place to the next. *)

Inv == Base /\ Pipe /\ OneEach /\ Flying /\ Once /\ Private

\* A request's destinations are in its sequence's table.
LEMMA RequestFacts ==
    ASSUME Base, OneEach, NEW w \in pending \cup inflight
    PROVE  /\ w \in Requests /\ w.seq \in Seqs /\ IsLoading(w.seq) /\ status[w.seq] = "LOADING"
           /\ w.first \in Nat /\ w.blocks \in Seq(Blocks) /\ ~Applying(w.seq)
           /\ w.first + Len(w.blocks) = Len(table[w.seq])
           /\ table[w.seq] \in Seq(Blocks)
           /\ \A i \in DOMAIN w.blocks : w.first + i \in DOMAIN table[w.seq]
                                          /\ table[w.seq][w.first + i] = w.blocks[i]
           /\ InTable(w.blocks) \subseteq InTable(table[w.seq])
<1>1. w \in Requests /\ w.seq \in Seqs /\ w.first \in Nat /\ w.blocks \in Seq(Blocks)
  <2>1. w \in Requests
    BY DEF Base, Frame
  <2> QED
    BY <2>1 DEF Requests
<1>2. RequestShape(w)
  BY DEF OneEach
<1>3. LoadingShape(w.seq) /\ table[w.seq] \in Seq(Blocks)
  BY <1>1, <1>2 DEF RequestShape, Base, Records, RecordOf, Frame
<1>4. w.first + Len(w.blocks) = Len(table[w.seq])
  BY <1>2, <1>3 DEF RequestShape, LoadingShape
<1>5. Len(w.blocks) \in Nat /\ DOMAIN w.blocks = 1..Len(w.blocks)
      /\ Len(table[w.seq]) \in Nat /\ DOMAIN table[w.seq] = 1..Len(table[w.seq])
  BY <1>1, <1>3, ElementOf
<1>6. \A i \in DOMAIN w.blocks : w.first + i \in DOMAIN table[w.seq]
  BY <1>1, <1>4, <1>5
<1>7. \A i \in DOMAIN w.blocks : table[w.seq][w.first + i] = w.blocks[i]
  BY <1>2 DEF RequestShape
<1>8. InTable(w.blocks) \subseteq InTable(table[w.seq])
  BY <1>6, <1>7 DEF InTable
<1> QED
  BY <1>1, <1>2, <1>3, <1>4, <1>6, <1>7, <1>8 DEF RequestShape, LoadingShape

---------------------------------------------------------------------------
(* Steps after which the same loads wait for the same results. *)

SameLoad(s) ==
    /\ load'[s].phase = load[s].phase /\ load'[s].start = load[s].start
    /\ load'[s].remote = load[s].remote /\ table'[s] = table[s] /\ text'[s] = text[s]

\* No load begins or ends.
SameLoads ==
    /\ \A s \in Seqs : IF IsLoading(s) THEN SameLoad(s) ELSE ~IsLoading(s)'
    /\ pending' = pending /\ inflight' = inflight
    /\ \A s \in Seqs : Applying(s)' <=> Applying(s)

LEMMA SameOneEach ==
    ASSUME Base, OneEach, SameLoads
    PROVE  OneEach'
<1>1. \A s \in Seqs : IsLoading(s)' <=> IsLoading(s)
  BY DEF SameLoads, SameLoad, IsLoading
<1>2. ASSUME NEW w \in pending \cup inflight PROVE RequestShape(w)'
  <2>1. RequestShape(w) /\ w.seq \in Seqs
    BY RequestFacts DEF OneEach
  <2>2. SameLoad(w.seq) /\ (Applying(w.seq)' <=> Applying(w.seq))
    BY <2>1 DEF SameLoads, RequestShape
  <2> QED
    BY <1>1, <2>1, <2>2 DEF RequestShape, SameLoad
<1>3. pending' = pending /\ inflight' = inflight
  BY DEF SameLoads
<1>4. \A s \in Seqs : Applying(s)' <=> Applying(s)
  BY DEF SameLoads
<1> QED
  BY <1>1, <1>2, <1>3, <1>4 DEF OneEach

\* The engine and its clients act while the workers rest.
WorkersRest == UNCHANGED <<stepVars, workVars, got>>

LEMMA RestPipe ==
    ASSUME Pipe, WorkersRest, pc' = "apply" => pc = "apply"
    PROVE  Pipe'
<1>1. /\ queue' = queue /\ launched' = launched /\ gpu' = gpu /\ loading' = loading /\ done' = done
      /\ setup' = setup /\ got' = got
  BY DEF WorkersRest, stepVars, workVars
<1>2. Ranks' = Ranks
  BY <1>1 DEF Ranks
<1>3. \A e : IsStep(e)' <=> IsStep(e)
  BY <1>2 DEF IsStep
<1>4. \A w : IsReport(w)' <=> IsReport(w)
  BY <1>2 DEF IsReport
<1> QED
  BY <1>1, <1>2, <1>3, <1>4 DEF Pipe

LEMMA RestFlying ==
    ASSUME Flying, WorkersRest,
           \A w \in inflight : w \in inflight'
    PROVE  Flying'
<1>1. /\ queue' = queue /\ launched' = launched /\ loading' = loading /\ setup' = setup
  BY DEF WorkersRest, stepVars, workVars
<1>2. Ranks' = Ranks
  BY <1>1 DEF Ranks
<1> QED
  BY <1>1, <1>2 DEF Flying

\* Where a result is, workers resting, depends on what the host has of it.
WithWorkers(s, r) == InStep(s, r) \cup InThread(s, r) \cup AsEvent(s, r) \cup InOutput(s, r) \cup Counted(s, r)

LEMMA ResultIs ==
    ASSUME NEW s, NEW r
    PROVE  ResultAt(s, r) = WithWorkers(s, r) \cup Applied(s) \cup New(s)
  BY DEF ResultAt, WithWorkers

LEMMA RestResult ==
    ASSUME WorkersRest, NEW s, NEW r, (pc' = "apply") <=> (pc = "apply")
    PROVE  /\ WithWorkers(s, r)' = WithWorkers(s, r)
           /\ Applied(s)' = Applied(s) /\ New(s)' = New(s) => ResultAt(s, r)' = ResultAt(s, r)
           /\ ResultAt(s, r)' = WithWorkers(s, r) \cup Applied(s)' \cup New(s)'
<1>1. /\ queue' = queue /\ launched' = launched /\ loading' = loading /\ done' = done /\ got' = got
  BY DEF WorkersRest, stepVars, workVars
<1>2. InStep(s, r)' = InStep(s, r) /\ InThread(s, r)' = InThread(s, r)
  BY <1>1 DEF InStep, InThread
<1>3. AsEvent(s, r)' = AsEvent(s, r) /\ Counted(s, r)' = Counted(s, r)
  BY <1>1 DEF AsEvent, Counted, Ended
<1>4. InOutput(s, r)' = InOutput(s, r)
  BY <1>1 DEF InOutput, Ended
<1>5. WithWorkers(s, r)' = WithWorkers(s, r)
  BY <1>2, <1>3, <1>4 DEF WithWorkers
<1>6. ResultAt(s, r)' = WithWorkers(s, r)' \cup Applied(s)' \cup New(s)'
  BY DEF ResultAt, WithWorkers
<1> QED
  BY <1>5, <1>6, ResultIs

LEMMA SameResults ==
    ASSUME Once, pc # "asleep", Ranks' = Ranks, \A s \in Seqs : IsLoading(s)' <=> IsLoading(s),
           \A s \in Seqs : \A r \in Ranks : ResultAt(s, r)' = ResultAt(s, r)
    PROVE  Once'
<1>1. ASSUME NEW s \in Seqs, NEW r \in Ranks
      PROVE  IF IsLoading(s)' THEN \E p : ResultAt(s, r)' = {p} ELSE ResultAt(s, r)' = {}
  <2>1. IF IsLoading(s) THEN \E p : ResultAt(s, r) = {p} ELSE ResultAt(s, r) = {}
    BY DEF Once
  <2>2. ResultAt(s, r)' = ResultAt(s, r) /\ (IsLoading(s)' <=> IsLoading(s))
    OBVIOUS
  <2> QED
    BY <2>1, <2>2
<1> QED
  BY <1>1 DEF Once

LEMMA SameOnce ==
    ASSUME Base, Once, SameLoads, WorkersRest, pc # "asleep",
           (pc' = "apply") <=> (pc = "apply")
    PROVE  Once'
<1>1. Ranks' = Ranks
  BY DEF WorkersRest, workVars, Ranks
<1>2. ASSUME NEW s \in Seqs, NEW r \in Ranks PROVE ResultAt(s, r)' = ResultAt(s, r)
  <2>1. New(s)' = New(s)
    BY DEF New, SameLoads
  <2>2. Applied(s)' = Applied(s)
    BY DEF Applied, SameLoads, Applying
  <2> QED
    BY <2>1, <2>2, RestResult
<1>3. \A s \in Seqs : IsLoading(s)' <=> IsLoading(s)
  BY DEF SameLoads, SameLoad, IsLoading
<1> QED
  BY <1>1, <1>2, <1>3, SameResults

\* Blocks outside X and of no load come to tables, trie and leases from each other.
TakenFrom(X) ==
    /\ pending' \cup inflight' \subseteq pending \cup inflight
    /\ \A w \in pending \cup inflight : InTable(w.blocks) \cap X = {}
    /\ \A w \in pending \cup inflight : \A v \in Seqs \ {w.seq} :
          InTable(table'[v]) \subseteq X \cup Cached(cache) \cup InTable(table[v])
    /\ Cached(cache') \subseteq X \cup Cached(cache)
    /\ Leased(lease') \subseteq X \cup Leased(lease)

LEMMA StillPrivate ==
    ASSUME Private, NEW X, TakenFrom(X)
    PROVE  Private'
<1> SUFFICES ASSUME NEW w \in pending \cup inflight, NEW b \in InTable(w.blocks)
             PROVE  /\ b \notin Cached(cache') \cup Leased(lease')
                    /\ \A s \in Seqs \ {w.seq} : b \notin InTable(table'[s])
  BY DEF Private, Mine, TakenFrom
<1>1. /\ b \notin Cached(cache) \cup Leased(lease)
      /\ \A s \in Seqs \ {w.seq} : b \notin InTable(table[s])
  BY DEF Private, Mine
<1>2. b \notin X
  BY DEF TakenFrom
<1> QED
  BY <1>1, <1>2 DEF TakenFrom

\* Nothing moves between tables and the trie.
LEMMA TablesSamePrivate ==
    ASSUME Private, UNCHANGED <<table, cache, lease, pending, inflight>>
    PROVE  Private'
<1>1. TakenFrom({})
  BY DEF TakenFrom
<1> QED
  BY <1>1, StillPrivate

\* A step of the engine or a client that leaves the loads as they were.
Rested ==
    /\ WorkersRest /\ SameLoads /\ pc # "asleep" /\ ((pc' = "apply") <=> (pc = "apply"))

LEMMA RestedInv ==
    ASSUME Inv, Base', Rested, Private'
    PROVE  Inv'
<1>1. Pipe'
  BY RestPipe DEF Inv, Rested
<1>2. OneEach'
  BY SameOneEach DEF Inv, Rested
<1>3. Flying'
  BY RestFlying DEF Inv, Rested, SameLoads
<1>4. Once'
  BY SameOnce DEF Inv, Rested
<1> QED
  BY <1>1, <1>2, <1>3, <1>4 DEF Inv

---------------------------------------------------------------------------
(* Clients and the scheduling passes. *)

\* Sequences that end or wait to end keep the others' loads.
LEMMA EndAllSame ==
    ASSUME Inv, NEW S \in SUBSET Seqs, EndAll(S), todo' = todo, pc # "apply", pc' # "apply", pc # "asleep"
    PROVE  Rested /\ Private'
<1> DEFINE W == {s \in S : Deferred(s)}
<1>1. /\ Remove(S \ W, table, Defer(W, "END"))
      /\ UNCHANGED <<cache, lease, pending, stepVars, workVars, got>>
  BY DEF EndAll
<1>2. W \subseteq Seqs /\ Base
  BY DEF Inv
<1>3. ASSUME NEW s \in Seqs
      PROVE  IF IsLoading(s) THEN SameLoad(s) ELSE ~IsLoading(s)'
  <2>1. CASE s \in S \ W
    <3>1. load'[s] = NoLoad /\ ~IsLoading(s)
      BY <1>1, <2>1 DEF Remove, Deferred
    <3> QED
      BY <3>1 DEF IsLoading, NoLoad
  <2>2. CASE s \notin S \ W
    <3>1. load'[s] = Defer(W, "END")[s] /\ table'[s] = table[s] /\ text'[s] = text[s]
      BY <1>1, <2>2 DEF Remove, Without
    <3>2. /\ load'[s].phase = load[s].phase /\ load'[s].start = load[s].start
          /\ load'[s].remote = load[s].remote
      BY <1>2, <3>1, DeferFacts
    <3> QED
      BY <3>1, <3>2 DEF SameLoad, IsLoading
  <2> QED
    BY <2>1, <2>2
<1>4. inflight' = inflight
  <2>1. \A w \in inflight : IsLoading(w.seq) /\ w.seq \in Seqs
    BY RequestFacts DEF Inv
  <2> QED
    BY <1>1, <2>1 DEF Remove, Deferred
<1>5. SameLoads
  BY <1>1, <1>3, <1>4 DEF SameLoads, Applying
<1>6. Rested
  BY <1>1, <1>5 DEF Rested, WorkersRest
<1>7. Private'
  <2>1. \A v \in Seqs : InTable(table'[v]) \subseteq InTable(table[v])
    <3>1. \A v \in Seqs : table'[v] = table[v] \/ table'[v] = <<>>
      BY <1>1 DEF Remove, Without
    <3> QED
      BY <3>1, EmptyOf DEF InTable
  <2>2. TakenFrom({})
    BY <1>1, <1>4, <2>1 DEF TakenFrom
  <2> QED
    BY <2>2, StillPrivate DEF Inv
<1> QED
  BY <1>6, <1>7

LEMMA AddMessageInv ==
    ASSUME ConstantsAssumption, Inv, NEW s \in Seqs, NEW p \in Texts, AddMessage(s, p)
    PROVE  Inv'
<1>1. Base'
  BY AddMessageBase DEF Inv
<1>2. /\ status[s] = "none" /\ text' = [text EXCEPT ![s] = p] /\ pc \in Await
      /\ UNCHANGED <<table, hist, cache, coVars, conVars, stepVars, workVars, got, kv, sleeping, pc, todo, batch>>
  BY DEF AddMessage
<1>3. SameLoads
  <2>1. ~IsLoading(s)
    BY <1>2 DEF Inv, Base, Records, RecordOf, LoadingShape
  <2>2. \A v \in Seqs \ {s} : text'[v] = text[v]
    BY <1>2 DEF Inv, Base, Frame
  <2> QED
    BY <1>2, <2>1, <2>2 DEF SameLoads, SameLoad, IsLoading, Applying, coVars, conVars
<1>4. Rested
  BY <1>2, <1>3 DEF Rested, WorkersRest, Await
<1>5. Private'
  BY <1>2, TablesSamePrivate DEF Inv, coVars, conVars
<1> QED
  BY <1>1, <1>4, <1>5, RestedInv

LEMMA StopSessionInv ==
    ASSUME Inv, NEW s \in Seqs, StopSession(s)
    PROVE  Inv'
<1>1. Base'
  BY StopSessionBase DEF Inv
<1>2. /\ pc \in Await
      /\ UNCHANGED <<text, table, hist, cache, lease, plan, pending, inflight, failed, nextSave,
                     stepVars, workVars, got, kv, sleeping, pc, todo, batch>>
      /\ \/ load' = Defer({s}, "STOP") /\ Deferred(s)
         \/ ~Deferred(s) /\ load' = [load EXCEPT ![s] = NoLoad]
  BY DEF StopSession
<1>3. ASSUME NEW v \in Seqs PROVE IF IsLoading(v) THEN SameLoad(v) ELSE ~IsLoading(v)'
  <2>1. CASE load' = Defer({s}, "STOP")
    <3>1. /\ load'[v].phase = load[v].phase /\ load'[v].start = load[v].start
          /\ load'[v].remote = load[v].remote
      BY <2>1, DeferFacts DEF Inv
    <3> QED
      BY <1>2, <3>1 DEF SameLoad, IsLoading
  <2>2. CASE ~Deferred(s) /\ load' = [load EXCEPT ![s] = NoLoad]
    <3>1. load'[v] = IF v = s THEN NoLoad ELSE load[v]
      BY <2>2 DEF Inv, Base, Frame
    <3> QED
      BY <1>2, <2>2, <3>1 DEF SameLoad, IsLoading, NoLoad, Deferred
  <2> QED
    BY <1>2, <2>1, <2>2
<1>4. Rested
  BY <1>2, <1>3 DEF Rested, WorkersRest, Await, SameLoads, Applying
<1>5. Private'
  BY <1>2, TablesSamePrivate DEF Inv
<1> QED
  BY <1>1, <1>4, <1>5, RestedInv

LEMMA EndSessionInv ==
    ASSUME Inv, NEW s \in Seqs, EndSession(s)
    PROVE  Inv'
<1>1. Base'
  BY EndSessionBase DEF Inv
<1>2. Rested /\ Private'
  BY EndAllSame DEF EndSession, Await
<1> QED
  BY <1>1, <1>2, RestedInv

LEMMA DrainInv ==
    ASSUME Inv, Drain
    PROVE  Inv'
<1>1. Base'
  BY DrainBase DEF Inv
<1>2. Rested /\ Private'
  BY EndAllSame DEF Drain
<1> QED
  BY <1>1, <1>2, RestedInv

\* Steps of the loop that only move its control.
LEMMA ControlInv ==
    ASSUME Inv, Base', WorkersRest, pc # "asleep", (pc' = "apply") <=> (pc = "apply"),
           UNCHANGED <<text, table, cache, load, lease, pending, inflight>>, pc = "apply" => todo' = todo
    PROVE  Inv'
<1>1. SameLoads
  BY DEF SameLoads, SameLoad, IsLoading, Applying
<1>2. Rested
  BY <1>1 DEF Rested
<1>3. Private'
  BY TablesSamePrivate DEF Inv
<1> QED
  BY <1>2, <1>3, RestedInv

LEMMA BeginPassInv ==
    ASSUME Inv, NEW C \in SUBSET Waiting, BeginPass(C)
    PROVE  Inv'
<1>1. Base'
  BY BeginPassBase DEF Inv
<1> QED
  BY <1>1, ControlInv DEF BeginPass, WorkersRest, seqVars, coVars, conVars

LEMMA LookupDoneInv ==
    ASSUME Inv, NEW s \in Seqs, NEW n \in 0..Reusable(s), LookupDone(s, n)
    PROVE  Inv'
<1>1. Base'
  BY LookupDoneBase DEF Inv
<1>2. pc # "asleep"
  <2>1. lookup[s] = Pending
    BY DEF LookupDone
  <2>2. status[s] # "none"
    BY <2>1 DEF Inv, Base, Records, RecordOf, Forgotten, NoLookup, Pending
  <2> QED
    BY <2>2 DEF Inv, Base, Control, WithStatus
<1> QED
  BY <1>1, <1>2, ControlInv DEF LookupDone, WorkersRest, seqVars, coVars

LEMMA PutOffInv ==
    ASSUME Inv, NEW s, SkipPendingLookup(s) \/ \E k \in Matches(s) : SubmitLookup(s, k)
    PROVE  Inv'
<1>1. CASE SkipPendingLookup(s)
  <2>1. Base'
    BY <1>1, PutOffBase DEF Inv, SkipPendingLookup, workVars, conVars
  <2> QED
    BY <1>1, <2>1, ControlInv DEF SkipPendingLookup, Candidate, WorkersRest, seqVars, coVars, conVars
<1>2. ASSUME NEW k \in Matches(s), SubmitLookup(s, k) PROVE Inv'
  <2>1. Base'
    BY <1>2, PutOffBase DEF Inv, SubmitLookup, workVars
  <2> QED
    BY <1>2, <2>1, ControlInv DEF SubmitLookup, Candidate, WorkersRest, seqVars, coVars
<1> QED
  BY <1>1, <1>2

\* Requesting to sleep, the prefetch not made, waking up.
LEMMA SleepInv ==
    ASSUME Inv, RequestSleep \/ NoPrefetch
    PROVE  Inv'
<1>1. /\ UNCHANGED <<seqVars, coVars, conVars, stepVars, workVars, got, kv, todo, batch>>
      /\ pc \in Await /\ pc' \in Await /\ (pc' = pc \/ pc' = "wait") /\ sleeping' \in BOOLEAN
  BY DEF RequestSleep, NoPrefetch, Await, Inv, Base, Frame
<1>2. Base'
  BY <1>1, QuietBase DEF Inv, Await, conVars, workVars
<1> QED
  BY <1>1, <1>2, ControlInv DEF Await, WorkersRest, seqVars, coVars, conVars

LEMMA WakeInv ==
    ASSUME Inv, Wake
    PROVE  Inv'
<1>1. /\ UNCHANGED <<seqVars, coVars, conVars, stepVars, workVars, got, kv, todo, batch>>
      /\ pc = "asleep" /\ pc' = "send" /\ sleeping' = FALSE
  BY DEF Wake
<1>2. Base'
  BY <1>1, QuietBase DEF Inv, conVars, workVars
<1>3. SameLoads
  BY <1>1 DEF SameLoads, SameLoad, IsLoading, Applying, seqVars, coVars, conVars
<1>4. Pipe' /\ OneEach' /\ Flying' /\ Private'
  <2>1. WorkersRest
    BY <1>1 DEF WorkersRest
  <2>2. Pipe'
    BY <1>1, <2>1, RestPipe DEF Inv
  <2>3. OneEach'
    BY <1>3, SameOneEach DEF Inv
  <2>4. Flying'
    BY <1>3, <2>1, RestFlying DEF Inv, SameLoads
  <2>5. Private'
    BY <1>1, TablesSamePrivate DEF Inv, seqVars, coVars, conVars
  <2> QED
    BY <2>2, <2>3, <2>4, <2>5
<1>5. Once'
  <2>1. /\ \A s \in Seqs : status'[s] = "none"
        /\ queue' = <<>> /\ got' = {} /\ \A r \in Ranks' : loading'[r] = {} /\ done'[r] = {}
    BY <1>1 DEF Inv, Base, Control, WithStatus, seqVars, stepVars, workVars, Ranks
  <2>2. pending' = {} /\ todo' = {}
    BY <1>1 DEF Inv, Base, Control, conVars
  <2>3. \A s \in Seqs : ~IsLoading(s)'
    <3>1. \A s \in Seqs : RecordOf(s)'
      BY <1>2 DEF Base, Records
    <3> QED
      BY <2>1, <3>1 DEF RecordOf, LoadingShape
  <2>4. ASSUME NEW s \in Seqs, NEW r \in Ranks' PROVE ResultAt(s, r)' = {}
    <3>1. InStep(s, r)' = {} /\ InOutput(s, r)' = {}
      BY <2>1, EmptyOf DEF InStep, InOutput
    <3>2. InThread(s, r)' = {} /\ AsEvent(s, r)' = {} /\ Counted(s, r)' = {}
      BY <2>1 DEF InThread, AsEvent, Counted
    <3>3. Applied(s)' = {} /\ New(s)' = {}
      BY <2>2 DEF Applied, New
    <3> QED
      BY <3>1, <3>2, <3>3 DEF ResultAt
  <2> QED
    BY <2>3, <2>4 DEF Once
<1> QED
  BY <1>2, <1>4, <1>5 DEF Inv

---------------------------------------------------------------------------
(* Candidates are admitted or wait for room. *)

\* Who gives blocks up holds no load.
LEMMA GoneIdle ==
    ASSUME Base, NEW s, NEW tables, NEW need, NEW o \in Outcomes(s, tables, need)
    PROVE  /\ s \notin o.gone
           /\ \A v \in o.gone : v \in Seqs /\ ~IsLoading(v)
<1>1. \A v \in o.gone : v \in Seqs /\ v # s /\ status[v] \in {"WAITING", "STOPPED"}
  BY GoneFacts
<1>2. \A v \in o.gone : RecordOf(v)
  BY <1>1 DEF Base, Records
<1> QED
  BY <1>1, <1>2 DEF RecordOf, LoadingShape

LEMMA NoRoomInv ==
    ASSUME Inv, NEW s, NEW k \in Matches(s), LoadDoesNotFit(s, k) \/ LocalDoesNotFit(s, k)
    PROVE  Inv'
<1>1. Base'
  BY LoadDoesNotFitBase, LocalDoesNotFitBase DEF Inv
<1>2. /\ UNCHANGED <<text, load, lease, pending, inflight, stepVars, workVars, got, pc>>
      /\ Candidate(s)
  BY DEF LoadDoesNotFit, LocalDoesNotFit, LocalOnly
<1>3. PICK o \in Outcomes(s, Matched(s, k), Missing(s, k)) : GaveRoom(o)
  BY DEF LoadDoesNotFit, LocalDoesNotFit
<1>4. /\ s \notin o.gone
      /\ \A v \in o.gone : v \in Seqs /\ ~IsLoading(v)
  BY GoneIdle DEF Inv
<1>5. /\ \A v \in Seqs : table'[v] = IF v \in o.gone THEN <<>> ELSE table[v]
      /\ cache' = Minus(cache, o.out)
  BY <1>3 DEF GaveRoom, Without
<1>6. pc = "pick"
  BY <1>2 DEF Candidate
<1>7. SameLoads
  BY <1>2, <1>4, <1>5, <1>6 DEF SameLoads, SameLoad, IsLoading, Applying
<1>8. Rested
  BY <1>2, <1>6, <1>7 DEF Rested, WorkersRest
<1>9. TakenFrom({})
  <2>1. \A v \in Seqs : InTable(table'[v]) \subseteq InTable(table[v])
    BY <1>5, EmptyOf DEF InTable
  <2>2. Cached(cache') \subseteq Cached(cache)
    BY <1>5 DEF Minus, Cached
  <2> QED
    BY <1>2, <2>1, <2>2 DEF TakenFrom
<1>10. Private'
  BY <1>9, StillPrivate DEF Inv
<1> QED
  BY <1>1, <1>8, <1>10, RestedInv

\* What is free is in no load's hands.
LEMMA FreeApart ==
    ASSUME Base, OneEach, NEW s \in Seqs, ~IsLoading(s), NEW gone, \A v \in gone : v \in Seqs /\ ~IsLoading(v),
           NEW k, NEW c, NEW w \in pending \cup inflight
    PROVE  InTable(w.blocks) \cap FreeWith(Without(Matched(s, k), gone), c) = {}
<1>1. w.seq \in Seqs /\ IsLoading(w.seq) /\ InTable(w.blocks) \subseteq InTable(table[w.seq])
  BY RequestFacts
<1>2. w.seq # s /\ w.seq \notin gone
  BY <1>1
<1>3. Without(Matched(s, k), gone)[w.seq] = table[w.seq]
  BY <1>1, <1>2 DEF Without, Matched, Base, Frame
<1>4. InTable(table[w.seq]) \subseteq Held(Without(Matched(s, k), gone))
  BY <1>1, <1>3 DEF Held
<1> QED
  BY <1>1, <1>4 DEF FreeWith

LEMMA AdmitLocalInv ==
    ASSUME Inv, NEW s, NEW k \in Matches(s), AdmitLocal(s, k)
    PROVE  Inv'
<1>1. Base'
  BY AdmitLocalBase DEF Inv
<1>2. /\ load' = IF RemoteReady(s) THEN [load EXCEPT ![s].phase = "PREFILLING"] ELSE load
      /\ Candidate(s)
      /\ UNCHANGED <<text, lease, pending, inflight, failed, stepVars, workVars, got, sleeping, pc>>
  BY DEF AdmitLocal, LocalOnly
<1>3. s \in Seqs /\ ~IsLoading(s) /\ pc = "pick"
  BY <1>2, CandidateFacts DEF Inv
<1>4. PICK o \in Outcomes(s, Matched(s, k), Missing(s, k)) : \E q \in Seq(Blocks) : AdmitStarts(s, k, o, q)
  BY AdmitLocalFacts DEF Inv
<1>5. PICK q \in Seq(Blocks) : AdmitStarts(s, k, o, q)
  BY <1>4
<1> DEFINE tbl == Filled(s, k, Minus(cache, o.out), q)
           F == FreeWith(Without(Matched(s, k), o.gone), Minus(cache, o.out))
<1>6. /\ table' = [Without(table, o.gone) EXCEPT ![s] = tbl]
      /\ InTable(q) \subseteq F
      /\ InTable(tbl) \subseteq InTable(q) \cup Cached(cache) \cup InTable(table[s])
      /\ Cached(cache') \subseteq Cached(cache) \cup InTable(tbl)
  BY <1>5 DEF AdmitStarts
<1> HIDE DEF tbl
<1>7. s \notin o.gone /\ \A v \in o.gone : v \in Seqs /\ ~IsLoading(v)
  BY GoneIdle DEF Inv
<1>8. /\ \A v \in Seqs \ {s} : table'[v] = IF v \in o.gone THEN <<>> ELSE table[v]
      /\ table'[s] = tbl
  BY <1>3, <1>6 DEF Without
<1>9. SameLoads
  <2>1. \A v \in Seqs \ {s} : load'[v] = load[v]
    BY <1>2, <1>3 DEF Inv, Base, Frame
  <2>2. ~IsLoading(s)'
    <3>1. status' = [status EXCEPT ![s] = "RUNNING"]
      BY DEF AdmitLocal
    <3>2. status'[s] = "RUNNING"
      BY <1>3, <3>1 DEF Inv, Base, Frame
    <3>3. RecordOf(s)'
      BY <1>1, <1>3 DEF Base, Records
    <3> QED
      BY <3>2, <3>3 DEF RecordOf, LoadingShape
  <2>3. ASSUME NEW v \in Seqs, v # s PROVE IF IsLoading(v) THEN SameLoad(v) ELSE ~IsLoading(v)'
    <3>1. load'[v] = load[v] /\ text'[v] = text[v] /\ (IsLoading(v) => table'[v] = table[v])
      BY <1>2, <1>7, <1>8, <2>1, <2>3
    <3> QED
      BY <3>1 DEF SameLoad, IsLoading
  <2>4. \A v \in Seqs : IF IsLoading(v) THEN SameLoad(v) ELSE ~IsLoading(v)'
    BY <1>3, <2>2, <2>3
  <2> QED
    BY <1>2, <1>3, <2>4 DEF SameLoads, Applying
<1>10. Rested
  BY <1>2, <1>3, <1>9 DEF Rested, WorkersRest
<1>11. TakenFrom(F \cup InTable(table[s]))
  <2>1. ASSUME NEW w \in pending \cup inflight PROVE InTable(w.blocks) \cap (F \cup InTable(table[s])) = {}
    <3>1. InTable(w.blocks) \cap F = {}
      BY <1>3, <1>7, FreeApart DEF Inv
    <3>2. w.seq # s
      BY <1>3, RequestFacts DEF Inv
    <3>3. InTable(w.blocks) \cap InTable(table[s]) = {}
      BY <1>3, <3>2 DEF Inv, Private, Mine
    <3> QED
      BY <3>1, <3>3
  <2>2. ASSUME NEW v \in Seqs
        PROVE  InTable(table'[v]) \subseteq (F \cup InTable(table[s])) \cup Cached(cache) \cup InTable(table[v])
    <3>1. CASE v = s
      BY <1>6, <1>8, <3>1
    <3>2. CASE v # s
      BY <1>8, <3>2, EmptyOf DEF InTable
    <3> QED
      BY <3>1, <3>2
  <2>3. Cached(cache') \subseteq (F \cup InTable(table[s])) \cup Cached(cache)
    BY <1>6
  <2> HIDE DEF F
  <2> QED
    BY <1>2, <2>1, <2>2, <2>3 DEF TakenFrom
<1>12. Private'
  BY <1>11, StillPrivate DEF Inv
<1> QED
  BY <1>1, <1>10, <1>12, RestedInv

---------------------------------------------------------------------------
(* A load starts: its result is expected from every rank. *)

LEMMA StartLoadInv ==
    ASSUME ConstantsAssumption, Inv, NEW s, NEW k \in Matches(s), StartLoad(s, k)
    PROVE  Inv'
<1> DEFINE n == Remote(s, k)
<1>1. Base'
  BY StartLoadBase DEF Inv
<1>2. s \in Seqs /\ k \in Nat
  BY StartLoadFacts DEF Inv
<1>3. PICK o \in Outcomes(s, Matched(s, k), Missing(s, k)) : \E q \in Seq(Blocks) : LoadStarts(s, k, o, q)
  BY StartLoadFacts DEF Inv
<1>4. PICK q \in Seq(Blocks) : LoadStarts(s, k, o, q)
  BY <1>3
<1> DEFINE F == FreeWith(Without(Matched(s, k), o.gone), Minus(cache, o.out))
           m == MatchedTable(s, k)
<1>5. /\ load' = [load EXCEPT ![s] = [phase |-> "LOADING", start |-> k, remote |-> n, cleanup |-> "none"]]
      /\ Candidate(s)
      /\ UNCHANGED <<text, lease, inflight, stepVars, workVars, got, pc>>
  BY DEF StartLoad
<1>6. /\ ~IsLoading(s) /\ pc = "pick" /\ hist[s] \in Nat /\ hist[s] < Len(text[s]) /\ Len(text[s]) \in Nat
      /\ hist[s] = Len(table[s]) /\ table[s] \in Seq(Blocks)
  BY <1>5, CandidateFacts DEF Inv
<1>7. s \notin o.gone /\ \A v \in o.gone : v \in Seqs /\ ~IsLoading(v)
  BY GoneIdle DEF Inv
<1>8. /\ InTable(q) \subseteq F /\ Len(q) = n - k
      /\ table' = [Without(table, o.gone) EXCEPT ![s] = m \o q]
      /\ m \in Seq(Blocks) /\ Len(m) = k
      /\ m \o q \in Seq(Blocks) /\ Len(m \o q) = n
      /\ \A i \in 1..k : (m \o q)[i] = m[i]
      /\ \A i \in DOMAIN q : (m \o q)[k + i] = q[i]
      /\ pending' = pending \cup {NewRequest(s, k, q)} /\ cache' = Minus(cache, o.out)
      /\ n \in Nat /\ k < n /\ n < Len(text[s])
  BY <1>4 DEF LoadStarts
<1>9. InTable(m) \subseteq InTable(table[s]) \cup Cached(cache)
  <2>1. \A i \in (hist[s] + 1)..k : Path(text[s], i) \in DOMAIN cache
    BY <1>2, <1>6, MatchFacts
  <2>2. cache \in [DOMAIN cache -> Blocks] /\ hist[s] <= Len(table[s])
    BY <1>6 DEF Inv, Base, Frame
  <2> QED
    BY <1>2, <1>6, <2>1, <2>2, MatchedFacts
<1>10. InTable(m \o q) \subseteq InTable(m) \cup InTable(q)
  <2> HIDE DEF m
  <2>1. /\ Len(m) \in Nat /\ DOMAIN (m \o q) = 1..Len(m \o q) /\ Len(m \o q) = Len(m) + Len(q)
        /\ DOMAIN m = 1..Len(m) /\ DOMAIN q = 1..Len(q) /\ Len(q) \in Nat
    BY <1>2, <1>8, ElementOf
  <2>2. ASSUME NEW i \in DOMAIN (m \o q) PROVE (m \o q)[i] \in InTable(m) \cup InTable(q)
    <3>1. CASE i <= Len(m)
      <4>1. i \in DOMAIN m /\ i \in 1..k
        BY <1>8, <2>1, <3>1
      <4> QED
        BY <1>8, <4>1 DEF InTable
    <3>2. CASE ~(i <= Len(m))
      <4>0. i \in Nat /\ k \in Nat /\ Len(q) \in Nat /\ k < i /\ i <= k + Len(q)
        BY <1>2, <1>8, <2>1, <3>2
      <4>1. i - k \in DOMAIN q /\ k + (i - k) = i
        BY <2>1, <4>0
      <4>2. (m \o q)[k + (i - k)] = q[i - k]
        BY <1>8, <4>1
      <4> QED
        BY <4>1, <4>2 DEF InTable
    <3> QED
      BY <3>1, <3>2
  <2> QED
    BY <2>2 DEF InTable
<1> HIDE DEF m, n
<1>11. /\ \A v \in Seqs \ {s} : table'[v] = IF v \in o.gone THEN <<>> ELSE table[v]
       /\ table'[s] = m \o q
       /\ \A v \in Seqs \ {s} : load'[v] = load[v]
       /\ load'[s] = [phase |-> "LOADING", start |-> k, remote |-> n, cleanup |-> "none"]
  BY <1>2, <1>5, <1>8 DEF Without, Inv, Base, Frame
<1>12. \A v \in Seqs : IsLoading(v)' <=> IsLoading(v) \/ v = s
  BY <1>2, <1>11 DEF IsLoading
<1>13. PICK new : /\ new.seq = s /\ new.first = k /\ new.blocks = q /\ new.text = Path(text[s], n)
                 /\ pending' = pending \cup {new}
  BY <1>8 DEF NewRequest, n
<1>14. Pipe'
  BY <1>5, <1>6, RestPipe DEF Inv, WorkersRest
<1>15. Flying'
  BY <1>5, RestFlying DEF Inv, WorkersRest
<1>16. \A w \in pending \cup inflight : w.seq \in Seqs /\ w.seq # s /\ w.seq \notin o.gone
  BY <1>6, <1>7, RequestFacts DEF Inv
<1>17. OneEach'
  <2>1. ASSUME NEW w \in pending \cup inflight PROVE RequestShape(w)'
    <3>1. RequestShape(w)
      BY DEF Inv, OneEach
    <3>2. /\ load'[w.seq] = load[w.seq] /\ table'[w.seq] = table[w.seq] /\ text' = text /\ pc' = "pick"
      BY <1>5, <1>6, <1>11, <1>16
    <3> QED
      BY <3>1, <3>2 DEF RequestShape, IsLoading, Applying
  <2>2. RequestShape(new)'
    <3>1. load'[s].phase = "LOADING" /\ load'[s].start = k /\ load'[s].remote = n
      BY <1>11
    <3>2. k + Len(q) = n
      BY <1>2, <1>8
    <3>3. \A i \in DOMAIN q : table'[s][k + i] = q[i]
      BY <1>8, <1>11
    <3>4. text' = text /\ pc' = "pick"
      BY <1>5, <1>6
    <3> QED
      BY <1>13, <3>1, <3>2, <3>3, <3>4 DEF RequestShape, IsLoading, Applying
  <2>3. pending' \cup inflight' = (pending \cup inflight) \cup {new}
    BY <1>5, <1>13
  <2>4. \A v, w \in (pending \cup inflight) \cup {new} : v.seq = w.seq => v = w
    BY <1>13, <1>16 DEF Inv, OneEach
  <2>5. ASSUME NEW v \in Seqs, IsLoading(v)'
        PROVE  Applying(v)' \/ \E w \in (pending \cup inflight) \cup {new} : w.seq = v
    <3>1. CASE v = s
      BY <1>13, <3>1
    <3>2. CASE v # s
      BY <1>6, <1>12, <2>5, <3>2 DEF Inv, OneEach, Applying
    <3> QED
      BY <3>1, <3>2
  <2> QED
    BY <2>1, <2>2, <2>3, <2>4, <2>5 DEF OneEach
<1>18. Once'
  <2>1. Ranks' = Ranks
    BY <1>5 DEF Ranks, workVars
  <2>2. ASSUME NEW v \in Seqs, NEW r \in Ranks
        PROVE  IF IsLoading(v)' THEN \E p : ResultAt(v, r)' = {p} ELSE ResultAt(v, r)' = {}
    <3>1. IF IsLoading(v) THEN \E p : ResultAt(v, r) = {p} ELSE ResultAt(v, r) = {}
      BY <1>6 DEF Inv, Once
    <3>2. Applied(v)' = {} /\ Applied(v) = {}
      BY <1>5, <1>6 DEF Applied
    <3>3. WorkersRest
      BY <1>5 DEF WorkersRest
    <3>4. CASE v # s
      <4>1. New(v)' = New(v)
        BY <1>13, <3>4 DEF New
      <4>2. ResultAt(v, r)' = ResultAt(v, r)
        BY <1>5, <1>6, <3>2, <3>3, <4>1, RestResult
      <4>3. IsLoading(v)' <=> IsLoading(v)
        BY <1>12, <3>4
      <4> QED
        BY <3>1, <4>2, <4>3
    <3>5. CASE v = s
      <4>1. ResultAt(s, r) = {}
        BY <1>6, <3>1, <3>5
      <4>2. New(s)' = {<<"new", 0>>}
        BY <1>13 DEF New
      <4>3. ResultAt(s, r)' = WithWorkers(s, r) \cup Applied(s)' \cup New(s)'
        BY <1>5, <1>6, <3>3, RestResult
      <4>4. WithWorkers(s, r) = {}
        BY <4>1, ResultIs
      <4>5. ResultAt(s, r)' = {<<"new", 0>>}
        BY <3>2, <3>5, <4>2, <4>3, <4>4
      <4> QED
        BY <1>12, <3>5, <4>5
    <3> QED
      BY <3>4, <3>5
  <2> QED
    BY <2>1, <2>2 DEF Once
<1>19. Private'
  <2>1. ASSUME NEW w \in pending \cup inflight PROVE Mine(w)'
    <3>1. Mine(w) /\ w.seq # s
      BY <1>16 DEF Inv, Private
    <3>2. InTable(w.blocks) \cap F = {}
      BY <1>2, <1>6, <1>7, FreeApart DEF Inv
    <3> HIDE DEF F
    <3>3. ASSUME NEW b \in InTable(w.blocks), NEW v \in Seqs \ {w.seq} PROVE b \notin InTable(table'[v])
      <4>1. CASE v = s
        <5>1. b \notin InTable(table[s]) /\ b \notin Cached(cache)
          BY <1>2, <3>1 DEF Mine
        <5> QED
          BY <1>8, <1>9, <1>10, <1>11, <3>2, <4>1, <5>1
      <4>2. CASE v # s
        <5>1. b \notin InTable(table[v])
          BY <3>1 DEF Mine
        <5> QED
          BY <1>11, <4>2, <5>1, EmptyOf DEF InTable
      <4> QED
        BY <4>1, <4>2
    <3>4. Cached(cache') \subseteq Cached(cache) /\ lease' = lease
      BY <1>5, <1>8 DEF Minus, Cached
    <3> QED
      BY <3>1, <3>3, <3>4 DEF Mine
  <2>2. Mine(new)'
    <3>1. ASSUME NEW b \in InTable(q), NEW v \in Seqs \ {s} PROVE b \notin InTable(table'[v])
      <4>1. b \notin Held(Without(Matched(s, k), o.gone))
        BY <1>8 DEF FreeWith
      <4>2. Without(Matched(s, k), o.gone)[v] = table'[v]
        BY <1>2, <1>11 DEF Without, Matched, Inv, Base, Frame
      <4> QED
        BY <4>1, <4>2 DEF Held
    <3>2. \A b \in InTable(q) : b \notin Cached(cache') \cup Leased(lease')
      BY <1>5, <1>8 DEF FreeWith
    <3> QED
      BY <1>13, <3>1, <3>2 DEF Mine
  <2> QED
    BY <1>5, <1>13, <2>1, <2>2 DEF Private
<1> QED
  BY <1>1, <1>14, <1>15, <1>17, <1>18, <1>19 DEF Inv

---------------------------------------------------------------------------
(* A pass ends: what it started goes to the workers. *)

LEMMA SelfSeq ==
    ASSUME NEW S, NEW q \in Seq(S)
    PROVE  q \in Seq({q[i] : i \in 1..Len(q)}) /\ DOMAIN q = 1..Len(q) /\ Len(q) \in Nat
  OBVIOUS

\* The blocks of running sequences.
Running == UNION {InTable(table[s]) : s \in WithStatus("RUNNING")}

\* What a step adds to the queue, and what it pins.
SentStep(e) ==
    /\ IsStep(e) /\ e.loads = pending /\ \A r \in Ranks : e.out[r] = {}
    /\ queue' = Append(queue, e) \/ (queue' = queue /\ pending = {})
    /\ Leased(lease') \subseteq Running \cup Leased(lease)

LEMMA EndPassFacts ==
    ASSUME Inv, EndPass
    PROVE  \E e : SentStep(e)
<1>1. PICK skipped \in SUBSET (IF Hybrid THEN ToSave ELSE {}) :
         LET savers == ToSave \ skipped
             saves  == SaveRequests(savers)
             step   == Step(saves)
             sent   == step.kind # "poll" \/ step.meta
         IN /\ queue' = IF sent THEN Append(queue, step) ELSE queue
            /\ lease' = [i \in DOMAIN lease \cup {w.id : w \in saves} |->
                           IF i \in DOMAIN lease THEN lease[i]
                           ELSE Pinned(CHOOSE w \in saves : w.id = i)]
  BY DEF EndPass
<1> DEFINE saves == SaveRequests(ToSave \ skipped)
           step == Step(saves)
<1>2. /\ IsStep(step) /\ step.loads = pending /\ step.meta = NeedsMeta(saves)
      /\ \A r \in Ranks : step.out[r] = {}
  BY DEF Step, IsStep
<1>3. queue' = Append(queue, step) \/ (queue' = queue /\ pending = {})
  <2>1. pending # {} => step.meta
    BY <1>2 DEF NeedsMeta
  <2> HIDE DEF step
  <2> QED
    BY <1>1, <2>1 DEF step
<1>4. ASSUME NEW w \in saves PROVE Pinned(w) \subseteq Running
  <2>1. PICK s \in ToSave : w.cells = Cells(s)
    BY DEF SaveRequests
  <2>2. s \in Seqs /\ status[s] = "RUNNING"
    BY DEF ToSave, EndPass, Inv, Base, Frame, Control, WithStatus
  <2>3. Len(table[s]) = Len(text[s]) + 1 /\ nextSave[s] \in Nat /\ Len(text[s]) \in Nat /\ table[s] \in Seq(Blocks)
    BY <2>2 DEF Inv, Base, Records, RecordOf, Frame, Target
  <2>4. \A i \in (nextSave[s] + 1)..Len(text[s]) : i \in DOMAIN table[s]
    <3>1. DOMAIN table[s] = 1..Len(table[s])
      BY <2>3
    <3> QED
      BY <2>3, <3>1
  <2>5. \A c \in Cells(s) : c[1] \in InTable(table[s])
    BY <2>4 DEF Cells, InTable
  <2> QED
    BY <2>1, <2>2, <2>5 DEF Pinned, Running, WithStatus
<1>5. Leased(lease') \subseteq Running \cup Leased(lease)
  <2> HIDE DEF saves
  <2>1. \A i \in DOMAIN lease' : i \in DOMAIN lease \/ \E w \in saves : w.id = i
    BY <1>1 DEF saves
  <2>2. \A i \in DOMAIN lease' : lease'[i] = IF i \in DOMAIN lease THEN lease[i]
                                             ELSE Pinned(CHOOSE w \in saves : w.id = i)
    BY <1>1 DEF saves
  <2>3. ASSUME NEW i \in DOMAIN lease', i \notin DOMAIN lease PROVE lease'[i] \subseteq Running
    <3>1. (CHOOSE w \in saves : w.id = i) \in saves
      BY <2>1, <2>3
    <3> QED
      BY <1>4, <2>2, <2>3, <3>1
  <2> QED
    BY <2>2, <2>3 DEF Leased
<1> QED
  BY <1>2, <1>3, <1>5 DEF SentStep

LEMMA EndPassInv ==
    ASSUME Inv, EndPass
    PROVE  Inv'
<1>1. Base'
  BY EndPassBase DEF Inv
<1>2. PICK e : SentStep(e)
  BY EndPassFacts
<1>3. /\ inflight' = inflight \cup pending /\ pending' = {} /\ pc = "pick" /\ pc' # "apply"
      /\ status' = status /\ text' = text /\ table' = table /\ hist' = hist /\ cache' = cache /\ load' = load
      /\ launched' = launched /\ gpu' = gpu /\ loading' = loading /\ done' = done /\ got' = got /\ setup' = setup
  BY DEF EndPass, AfterPass, seqVars, workVars, Await
<1>4. Ranks' = Ranks
  BY <1>3 DEF Ranks
<1>5. IsStep(e) /\ e.loads = pending /\ pending \subseteq Requests /\ \A r \in Ranks : e.out[r] = {}
  BY <1>2 DEF SentStep, Inv, Base, Frame
<1>6. /\ queue \in Seq({queue[i] : i \in 1..Len(queue)}) /\ Len(queue) \in Nat
      /\ DOMAIN queue = 1..Len(queue) /\ launched \in [Ranks -> Nat]
      /\ \A r \in Ranks : launched[r] <= Len(queue)
  BY SelfSeq DEF Inv, Pipe
<1> DEFINE L == Len(queue)
<1>7. /\ queue' \in Seq({queue'[i] : i \in 1..Len(queue')}) /\ Len(queue') \in Nat /\ Len(queue') >= L
      /\ DOMAIN queue' = 1..Len(queue')
      /\ \A i \in 1..L : queue'[i] = queue[i]
      /\ \A i \in 1..Len(queue') : i \in 1..L \/ (i = L + 1 /\ queue'[i] = e)
      /\ pending = {} \/ (Len(queue') = L + 1 /\ queue'[L + 1] = e)
  <2>1. CASE queue' = Append(queue, e)
    <3> DEFINE S == {queue[i] : i \in 1..Len(queue)} \cup {e}
    <3>1. queue \in Seq(S) /\ e \in S
      BY <1>6
    <3> HIDE DEF S
    <3>2. /\ queue' \in Seq(S) /\ Len(queue') = L + 1
          /\ DOMAIN queue' = DOMAIN queue \cup {L + 1}
          /\ \A i \in DOMAIN queue : queue'[i] = queue[i]
          /\ queue'[L + 1] = e
      BY <2>1, <3>1, AppendOf
    <3>3. /\ queue' \in Seq({queue'[i] : i \in 1..Len(queue')}) /\ DOMAIN queue' = 1..Len(queue')
          /\ Len(queue') \in Nat
      BY <3>2, SelfSeq
    <3> QED
      BY <1>6, <3>2, <3>3
  <2>2. CASE queue' = queue /\ pending = {}
    BY <1>6, <2>2
  <2> QED
    BY <1>2, <2>1, <2>2 DEF SentStep
<1>13. /\ L \in Nat /\ Len(queue') \in Nat /\ L <= Len(queue') /\ 1..L \subseteq 1..Len(queue')
       /\ \A r \in Ranks : launched[r] \in Nat /\ launched[r] <= L
  <2>1. L \in Nat /\ \A r \in Ranks : launched[r] \in Nat /\ launched[r] <= L
    BY <1>6
  <2>2. Len(queue') \in Nat /\ Len(queue') >= L
    BY <1>7
  <2> HIDE DEF L
  <2> QED
    BY <2>1, <2>2
<1> HIDE DEF L
<1>8. Pipe'
  <2>1. ASSUME NEW i \in 1..Len(queue') PROVE IsStep(queue[i])' /\ queue'[i].loads \subseteq Requests
    <3>1. IsStep(queue'[i]) /\ queue'[i].loads \subseteq Requests
      BY <1>5, <1>7 DEF Inv, Pipe, L
    <3> QED
      BY <1>4, <3>1 DEF IsStep
  <2>2. ASSUME NEW r \in Ranks PROVE gpu <= launched[r] /\ launched[r] <= Len(queue') /\ launched[r] \in Nat /\ gpu \in Nat
    <3>1. gpu <= launched[r] /\ gpu \in Nat
      BY DEF Inv, Pipe
    <3> QED
      BY <1>13, <3>1
  <2>3. ASSUME NEW r \in Ranks, NEW i \in 1..Len(queue'), launched[r] < i PROVE queue'[i].out[r] = {}
    BY <1>5, <1>7, <2>3 DEF Inv, Pipe, L
  <2>4. \A w \in got : IsReport(w)'
    BY <1>4 DEF Inv, Pipe, IsReport
  <2> QED
    BY <1>3, <1>4, <1>7, <2>1, <2>2, <2>3, <2>4 DEF Inv, Pipe
<1>9. OneEach'
  <2>1. ASSUME NEW w \in pending \cup inflight PROVE RequestShape(w)'
    BY <1>3 DEF Inv, OneEach, RequestShape, IsLoading, Applying
  <2>2. pending' \cup inflight' = pending \cup inflight
    BY <1>3
  <2>3. \A v \in Seqs : ~Applying(v) /\ ~Applying(v)' /\ (IsLoading(v)' <=> IsLoading(v))
    BY <1>3 DEF Applying, IsLoading
  <2> QED
    BY <2>1, <2>2, <2>3 DEF Inv, OneEach
<1>10. Flying'
  <2>1. ASSUME NEW r \in Ranks, NEW i \in 1..Len(queue'), launched[r] < i PROVE queue'[i].loads \subseteq inflight'
    BY <1>3, <1>5, <1>7, <2>1 DEF Inv, Flying, L
  <2> QED
    BY <1>3, <1>4, <2>1 DEF Inv, Flying
<1>11. Once'
  <2>1. ASSUME NEW s \in Seqs, NEW r \in Ranks
        PROVE  IF IsLoading(s)' THEN \E p : ResultAt(s, r)' = {p} ELSE ResultAt(s, r)' = {}
    <3> DEFINE Rest == InThread(s, r) \cup AsEvent(s, r) \cup InOutput(s, r) \cup Counted(s, r)
    <3>1. IF IsLoading(s) THEN \E p : ResultAt(s, r) = {p} ELSE ResultAt(s, r) = {}
      BY <1>3 DEF Inv, Once
    <3>2. ResultAt(s, r) = InStep(s, r) \cup Rest \cup New(s)
      BY <1>3 DEF ResultAt, Applied
    <3>3. Rest' = Rest
      <4>1. InThread(s, r)' = InThread(s, r) /\ AsEvent(s, r)' = AsEvent(s, r) /\ Counted(s, r)' = Counted(s, r)
        BY <1>3 DEF InThread, AsEvent, Counted, Ended
      <4>2. \A i \in 1..Len(queue') : i \notin 1..L => queue'[i].out[r] = {}
        BY <1>5, <1>7
      <4>3. InOutput(s, r)' = InOutput(s, r)
        <5>1. InOutput(s, r) = {<<"output", i>> : i \in {k \in 1..L : \E x \in queue[k].out[r] : Ended(x, s)}}
          BY <1>3, <1>6 DEF InOutput, L
        <5>2. InOutput(s, r)' = {<<"output", i>> : i \in {k \in 1..Len(queue') : \E x \in queue'[k].out[r] : Ended(x, s)}}
          BY <1>3, <1>7 DEF InOutput, Ended
        <5>3. {k \in 1..Len(queue') : \E x \in queue'[k].out[r] : Ended(x, s)}
                = {k \in 1..L : \E x \in queue[k].out[r] : Ended(x, s)}
          BY <1>7, <1>13, <4>2
        <5> QED
          BY <5>1, <5>2, <5>3
      <4> QED
        BY <4>1, <4>3
    <3>4. ResultAt(s, r)' = InStep(s, r)' \cup Rest'
      BY <1>3 DEF ResultAt, Applied, New
    <3>5. InStep(s, r) = {<<"queue", i>> : i \in {k \in 1..L : launched[r] < k /\ \E w \in queue[k].loads : w.seq = s}}
      BY <1>6 DEF InStep, L
    <3>6. InStep(s, r)' = {<<"queue", i>> : i \in {k \in 1..Len(queue') : launched[r] < k /\ \E w \in queue'[k].loads : w.seq = s}}
      BY <1>3, <1>7 DEF InStep
    <3>7. 1..L \subseteq 1..Len(queue') /\ launched[r] < L + 1 /\ L + 1 \notin 1..L
      BY <1>13
    <3> HIDE DEF Rest
    <3>8. CASE \E w \in pending : w.seq = s
      <4>1. New(s) = {<<"new", 0>>} /\ Len(queue') = L + 1 /\ queue'[L + 1] = e
        BY <1>7, <3>8 DEF New
      <4>2. InStep(s, r) = {} /\ Rest = {}
        <5>1. ResultAt(s, r) = {<<"new", 0>>}
          BY <3>1, <3>2, <4>1
        <5>2. \A p \in InStep(s, r) : p # <<"new", 0>>
          BY DEF InStep
        <5>3. \A p \in Rest : p # <<"new", 0>>
          BY DEF Rest, InThread, AsEvent, InOutput, Counted
        <5> QED
          BY <3>2, <5>1, <5>2, <5>3
      <4>3. \A k \in 1..L : ~(launched[r] < k /\ \E w \in queue[k].loads : w.seq = s)
        BY <3>5, <4>2
      <4>4. {k \in 1..Len(queue') : launched[r] < k /\ \E w \in queue'[k].loads : w.seq = s} = {L + 1}
        <5>1. L + 1 \in 1..Len(queue')
          BY <1>13, <4>1
        <5> QED
          BY <1>5, <1>7, <3>7, <3>8, <4>1, <4>3, <5>1
      <4>5. InStep(s, r)' = {<<"queue", L + 1>>}
        BY <3>6, <4>4
      <4>6. ResultAt(s, r)' = {<<"queue", L + 1>>}
        BY <3>3, <3>4, <4>2, <4>5
      <4>7. IsLoading(s)'
        <5>1. IsLoading(s)
          BY <3>8 DEF Inv, OneEach, RequestShape
        <5> QED
          BY <1>3, <5>1 DEF IsLoading
      <4> QED
        BY <4>6, <4>7
    <3>9. CASE ~\E w \in pending : w.seq = s
      <4>1. New(s) = {}
        BY <3>9 DEF New
      <4>2. {k \in 1..Len(queue') : launched[r] < k /\ \E w \in queue'[k].loads : w.seq = s}
              = {k \in 1..L : launched[r] < k /\ \E w \in queue[k].loads : w.seq = s}
        BY <1>5, <1>7, <3>7, <3>9
      <4>3. InStep(s, r)' = InStep(s, r)
        BY <3>5, <3>6, <4>2
      <4>4. ResultAt(s, r)' = ResultAt(s, r)
        BY <3>2, <3>3, <3>4, <4>1, <4>3
      <4>5. IsLoading(s)' <=> IsLoading(s)
        BY <1>3 DEF IsLoading
      <4> QED
        BY <3>1, <4>4, <4>5
    <3> QED
      BY <3>8, <3>9
  <2> QED
    BY <1>4, <2>1 DEF Once
<1>12. Private'
  <2>1. ASSUME NEW w \in pending \cup inflight PROVE InTable(w.blocks) \cap Running = {}
    <3>1. status[w.seq] = "LOADING" /\ Mine(w)
      BY RequestFacts DEF Inv, Private
    <3> QED
      BY <3>1 DEF Running, WithStatus, Mine
  <2>2. TakenFrom(Running)
    BY <1>2, <1>3, <2>1 DEF TakenFrom, SentStep
  <2> QED
    BY <2>2, StillPrivate DEF Inv
<1> QED
  BY <1>1, <1>8, <1>9, <1>10, <1>11, <1>12 DEF Inv

---------------------------------------------------------------------------
(* The workers take steps up, and end transfers. *)

\* The host rests.
HostRests == UNCHANGED <<seqVars, coVars, conVars, setup, got, sleeping, pc, todo, batch>>

LEMMA HostRestsInv ==
    ASSUME Inv, HostRests, pc # "asleep"
    PROVE  /\ Base' /\ OneEach' /\ Private'
           /\ Ranks' = Ranks
           /\ \A s \in Seqs : IsLoading(s)' <=> IsLoading(s)
           /\ \A s : Applied(s)' = Applied(s) /\ New(s)' = New(s)
           /\ \A s, r : Counted(s, r)' = Counted(s, r)
<1>1. /\ setup' = setup /\ pc' = pc /\ todo' = todo /\ got' = got /\ load' = load /\ pending' = pending
      /\ inflight' = inflight /\ table' = table /\ text' = text /\ cache' = cache /\ lease' = lease
  BY DEF HostRests, seqVars, coVars, conVars
<1>2. Base'
  <2>1. sleeping' \in BOOLEAN
    BY DEF HostRests, Inv, Base, Frame
  <2> QED
    BY <1>1, <2>1, QuietBase DEF HostRests, conVars, Inv
<1>3. SameLoads
  BY <1>1 DEF SameLoads, SameLoad, IsLoading, Applying
<1>4. OneEach'
  BY <1>3, SameOneEach DEF Inv
<1>5. Private'
  BY <1>1, TablesSamePrivate DEF Inv
<1>6. Ranks' = Ranks
  BY <1>1 DEF Ranks
<1>7. \A s \in Seqs : IsLoading(s)' <=> IsLoading(s)
  BY <1>1 DEF IsLoading
<1>8. \A s : Applied(s)' = Applied(s) /\ New(s)' = New(s)
  BY <1>1 DEF Applied, New
<1>9. \A s, r : Counted(s, r)' = Counted(s, r)
  BY <1>1 DEF Counted, Ended
<1> QED
  BY <1>2, <1>4, <1>5, <1>6, <1>7, <1>8, <1>9

\* An output is a step's last field to be filled in.
FillsIn(d, e, r, x) == IsStep(e) /\ r \in Ranks /\ d = [e EXCEPT !.out[r] = x]

LEMMA FilledStep ==
    ASSUME NEW d, NEW e, NEW r, NEW x, FillsIn(d, e, r, x)
    PROVE  /\ IsStep(d) /\ d.loads = e.loads /\ d.meta = e.meta
           /\ d.out[r] = x /\ \A p \in Ranks \ {r} : d.out[p] = e.out[p]
<1> DEFINE o == [[p \in Ranks |-> e.out[p]] EXCEPT ![r] = x]
<1>1. d = [kind |-> e.kind, rows |-> e.rows, meta |-> e.meta, loads |-> e.loads, saves |-> e.saves,
           out |-> [e.out EXCEPT ![r] = x]]
  BY DEF FillsIn, IsStep
<1>2. e.out = [p \in Ranks |-> e.out[p]]
  BY DEF FillsIn, IsStep
<1>3. [e.out EXCEPT ![r] = x] = o
  BY <1>2
<1>4. o = [p \in Ranks |-> o[p]] /\ o[r] = x /\ \A p \in Ranks \ {r} : o[p] = e.out[p]
  BY DEF FillsIn
<1> HIDE DEF o
<1>5. d = [kind |-> e.kind, rows |-> e.rows, meta |-> e.meta, loads |-> e.loads, saves |-> e.saves, out |-> o]
  BY <1>1, <1>3
<1>6. /\ d.kind = e.kind /\ d.rows = e.rows /\ d.meta = e.meta /\ d.loads = e.loads /\ d.saves = e.saves
      /\ d.out = o
  BY <1>5
<1>7. IsStep(d)
  BY <1>4, <1>5, <1>6 DEF IsStep
<1> QED
  BY <1>4, <1>6, <1>7

\* What a launch leaves of the queue.
LaunchStarts(r) ==
    LET i == launched[r] + 1
        x == IF queue[i].meta THEN done[r] ELSE {}
    IN /\ i \in 1..Len(queue) /\ i \in Nat /\ (i > 1 \/ pc # "apply")
       /\ Len(queue') = Len(queue) /\ DOMAIN queue' = 1..Len(queue)
       /\ queue' \in Seq({queue'[k] : k \in 1..Len(queue')})
       /\ \A k \in 1..Len(queue) : IsStep(queue'[k]) /\ queue'[k].loads = queue[k].loads
       /\ \A k \in 1..Len(queue) : \A p \in Ranks :
             queue'[k].out[p] = IF k = i /\ p = r THEN x ELSE queue[k].out[p]
       /\ launched' = [launched EXCEPT ![r] = i]
       /\ loading' = [loading EXCEPT ![r] = @ \cup {[req |-> w, after |-> LoadAfter(i)] : w \in queue[i].loads}]
       /\ done' = [done EXCEPT ![r] = IF queue[i].meta THEN {} ELSE done[r]]
       /\ HostRests /\ gpu' = gpu

LEMMA LaunchFacts ==
    ASSUME Inv, NEW r \in Ranks, Launch(r)
    PROVE  LaunchStarts(r) /\ pc # "asleep"
<1> DEFINE i == launched[r] + 1
           x == IF queue[i].meta THEN done[r] ELSE {}
<1>1. /\ launched[r] < Len(queue) /\ queue' = [queue EXCEPT ![i].out[r] = x]
      /\ launched' = [launched EXCEPT ![r] = i]
      /\ loading' = [loading EXCEPT ![r] = @ \cup {[req |-> w, after |-> LoadAfter(i)] : w \in queue[i].loads}]
      /\ done' = [done EXCEPT ![r] = IF queue[i].meta THEN {} ELSE done[r]]
      /\ UNCHANGED <<seqVars, coVars, conVars, gpu, setup, got, kv, sleeping, pc, todo, batch>>
  BY DEF Launch, LeftEvents
<1>2. /\ queue \in Seq({queue[k] : k \in 1..Len(queue)}) /\ DOMAIN queue = 1..Len(queue) /\ Len(queue) \in Nat
      /\ launched[r] \in Nat /\ gpu \in Nat /\ gpu <= launched[r]
  BY SelfSeq DEF Inv, Pipe
<1>3. i \in 1..Len(queue) /\ i \in Nat
  BY <1>1, <1>2
<1>4. i > 1 \/ pc # "apply"
  BY <1>2 DEF Inv, Pipe
<1>5. queue' = [k \in 1..Len(queue) |-> IF k = i THEN [queue[k] EXCEPT !.out[r] = x] ELSE queue[k]]
  BY <1>1, <1>2, <1>3
<1> HIDE DEF i, x
<1>6. queue' \in Seq({queue'[k] : k \in 1..Len(queue')}) /\ Len(queue') = Len(queue) /\ DOMAIN queue' = 1..Len(queue)
  <2> DEFINE n == Len(queue)
             S == {queue'[k] : k \in 1..n}
  <2>1. n \in Nat /\ queue' \in [1..n -> S]
    BY <1>2, <1>5
  <2> HIDE DEF n, S
  <2>2. queue' \in Seq(S) /\ Len(queue') = n /\ DOMAIN queue' = 1..n
    BY <2>1, TableOf
  <2>3. queue' \in Seq({queue'[k] : k \in 1..Len(queue')})
    BY <2>2, SelfSeq
  <2> QED
    BY <2>2, <2>3 DEF n
<1>7. ASSUME NEW k \in 1..Len(queue)
      PROVE  /\ IsStep(queue'[k]) /\ queue'[k].loads = queue[k].loads
             /\ \A p \in Ranks : queue'[k].out[p] = IF k = i /\ p = r THEN x ELSE queue[k].out[p]
  <2>1. IsStep(queue[k])
    BY DEF Inv, Pipe
  <2>2. CASE k = i
    <3>1. FillsIn(queue'[k], queue[k], r, x)
      BY <1>5, <2>1, <2>2 DEF FillsIn
    <3>2. /\ IsStep(queue'[k]) /\ queue'[k].loads = queue[k].loads /\ queue'[k].out[r] = x
          /\ \A p \in Ranks \ {r} : queue'[k].out[p] = queue[k].out[p]
      BY <3>1, FilledStep
    <3> QED
      BY <2>2, <3>2
  <2>3. CASE k # i
    BY <1>5, <2>1, <2>3
  <2> QED
    BY <2>2, <2>3
<1>8. pc # "asleep"
  <2>1. queue # <<>>
    BY <1>2, <1>3
  <2> QED
    BY <2>1 DEF Inv, Base, Control
<1>9. HostRests
  BY <1>1 DEF HostRests
<1> QED
  BY <1>1, <1>3, <1>4, <1>6, <1>7, <1>8, <1>9 DEF LaunchStarts, i, x

LEMMA LaunchInv ==
    ASSUME Inv, NEW r \in Ranks, Launch(r)
    PROVE  Inv'
<1> DEFINE i == launched[r] + 1
           x == IF queue[i].meta THEN done[r] ELSE {}
           jobs == {[req |-> w, after |-> LoadAfter(i)] : w \in queue[i].loads}
<1>1. /\ i \in 1..Len(queue) /\ i \in Nat /\ (i > 1 \/ pc # "apply") /\ pc # "asleep"
      /\ Len(queue') = Len(queue) /\ DOMAIN queue' = 1..Len(queue)
      /\ queue' \in Seq({queue'[k] : k \in 1..Len(queue')})
      /\ \A k \in 1..Len(queue) : IsStep(queue'[k]) /\ queue'[k].loads = queue[k].loads
      /\ \A k \in 1..Len(queue) : \A p \in Ranks :
            queue'[k].out[p] = IF k = i /\ p = r THEN x ELSE queue[k].out[p]
      /\ launched' = [launched EXCEPT ![r] = i]
      /\ loading' = [loading EXCEPT ![r] = @ \cup jobs]
      /\ done' = [done EXCEPT ![r] = IF queue[i].meta THEN {} ELSE done[r]]
      /\ HostRests /\ gpu' = gpu
  BY LaunchFacts DEF LaunchStarts
<1>2. /\ Base' /\ OneEach' /\ Private' /\ Ranks' = Ranks
      /\ \A s \in Seqs : IsLoading(s)' <=> IsLoading(s)
      /\ \A s : Applied(s)' = Applied(s) /\ New(s)' = New(s)
      /\ \A s, p : Counted(s, p)' = Counted(s, p)
      /\ pc' = pc /\ inflight' = inflight /\ pending' = pending /\ got' = got
  BY <1>1, HostRestsInv DEF HostRests, conVars
<1>3. /\ launched \in [Ranks -> Nat] /\ gpu \in Nat /\ Len(queue) \in Nat /\ launched[r] < i
      /\ DOMAIN queue = 1..Len(queue) /\ loading \in [Ranks -> SUBSET Jobs] /\ done = [p \in Ranks |-> done[p]]
  <2>1. /\ launched \in [Ranks -> Nat] /\ loading \in [Ranks -> SUBSET Jobs] /\ gpu \in Nat
        /\ done = [p \in Ranks |-> done[p]]
    BY DEF Inv, Pipe
  <2>2. DOMAIN queue = 1..Len(queue) /\ Len(queue) \in Nat
    BY SelfSeq DEF Inv, Pipe
  <2> QED
    BY <2>1, <2>2
<1>4. queue[i].loads \subseteq inflight /\ queue[i].loads \subseteq Requests /\ queue[i].out[r] = {}
  BY <1>1, <1>3 DEF Inv, Flying, Pipe
<1>5. /\ loading'[r] = loading[r] \cup jobs /\ launched'[r] = i
      /\ done'[r] = IF queue[i].meta THEN {} ELSE done[r]
      /\ \A p \in Ranks \ {r} : loading'[p] = loading[p] /\ launched'[p] = launched[p] /\ done'[p] = done[p]
  BY <1>1, <1>3
<1>6. jobs \in SUBSET Jobs
  <2>1. LoadAfter(i) \in Nat
    BY <1>1 DEF LoadAfter
  <2> QED
    BY <1>4, <2>1 DEF Jobs
<1>7. \A j \in jobs : j.req \in queue[i].loads /\ j = [req |-> j.req, after |-> LoadAfter(i)]
  OBVIOUS
<1>8. \A w \in queue[i].loads : \E j \in jobs : j.req = w
  <2>1. \A w \in queue[i].loads : [req |-> w, after |-> LoadAfter(i)] \in jobs /\ [req |-> w, after |-> LoadAfter(i)].req = w
    OBVIOUS
  <2> QED
    BY <2>1
<1> HIDE DEF jobs, x
<1>9. Pipe'
  <2>1. /\ loading' \in [Ranks -> SUBSET Jobs] /\ launched' \in [Ranks -> Nat]
    BY <1>1, <1>3, <1>6
  <2>2. done' = [p \in Ranks |-> done'[p]]
    BY <1>1, <1>3
  <2>3. ASSUME NEW k \in 1..Len(queue) PROVE IsStep(queue[k])' /\ queue'[k].loads \subseteq Requests
    <3>1. IsStep(queue'[k]) /\ queue'[k].loads = queue[k].loads /\ queue[k].loads \subseteq Requests
      BY <1>1 DEF Inv, Pipe
    <3> QED
      BY <1>2, <3>1 DEF IsStep
  <2>4. ASSUME NEW p \in Ranks PROVE gpu <= launched'[p] /\ launched'[p] <= Len(queue)
    <3>1. gpu <= launched[p] /\ launched[p] <= Len(queue) /\ launched[p] \in Nat
      BY <1>3 DEF Inv, Pipe
    <3> QED
      BY <1>1, <1>3, <1>5, <3>1
  <2>5. ASSUME NEW p \in Ranks, NEW k \in 1..Len(queue), launched'[p] < k PROVE queue'[k].out[p] = {}
    <3>1. launched[p] \in Nat /\ launched[p] < k /\ (p = r => k # i)
      BY <1>1, <1>3, <1>5, <2>5
    <3>2. queue[k].out[p] = {}
      BY <3>1 DEF Inv, Pipe
    <3> QED
      BY <1>1, <3>1, <3>2
  <2>6. \A w \in got : IsReport(w)'
    BY <1>2 DEF Inv, Pipe, IsReport
  <2>7. pc' = "apply" => gpu >= 1
    BY <1>2 DEF Inv, Pipe
  <2> QED
    BY <1>1, <1>2, <1>3, <2>1, <2>2, <2>3, <2>4, <2>5, <2>6, <2>7 DEF Pipe
<1>10. ASSUME NEW s \in Seqs
       PROVE  /\ IF IsLoading(s) THEN \E p : ResultAt(s, r) = {p} ELSE ResultAt(s, r) = {}
              /\ (\E w \in queue[i].loads : w.seq = s) => <<"queue", i>> \in ResultAt(s, r)
              /\ (\E e \in done[r] : Ended(e, s)) => <<"event", 0>> \in ResultAt(s, r)
              /\ (\E j \in loading[r] : j.req.seq = s) => <<"thread", 0>> \in ResultAt(s, r)
  <2>1. IF IsLoading(s) THEN \E p : ResultAt(s, r) = {p} ELSE ResultAt(s, r) = {}
    BY <1>1 DEF Inv, Once
  <2>2. (\E w \in queue[i].loads : w.seq = s) => <<"queue", i>> \in InStep(s, r)
    BY <1>1, <1>3 DEF InStep
  <2>3. (\E e \in done[r] : Ended(e, s)) => <<"event", 0>> \in AsEvent(s, r)
    BY DEF AsEvent
  <2>4. (\E j \in loading[r] : j.req.seq = s) => <<"thread", 0>> \in InThread(s, r)
    BY DEF InThread
  <2> QED
    BY <2>1, <2>2, <2>3, <2>4 DEF ResultAt
<1>11. Flying'
  <2>1. ASSUME NEW p \in Ranks, NEW j \in loading'[p] PROVE j.req \in inflight'
    <3>1. j \in loading[p] \/ (p = r /\ j \in jobs)
      BY <1>5
    <3> QED
      BY <1>2, <1>4, <1>7, <3>1 DEF Inv, Flying
  <2>2. ASSUME NEW p \in Ranks, NEW j \in loading'[p], NEW h \in loading'[p], j.req.seq = h.req.seq PROVE j = h
    <3>1. CASE j \in loading[p] /\ h \in loading[p]
      BY <2>2, <3>1 DEF Inv, Flying
    <3>2. CASE j \in jobs /\ h \in jobs
      <4>1. j.req \in inflight /\ h.req \in inflight
        BY <1>4, <1>7, <3>2
      <4>2. j.req = h.req
        BY <2>2, <4>1 DEF Inv, OneEach
      <4> QED
        BY <1>7, <3>2, <4>2
    <3>3. ASSUME NEW y \in loading[r], NEW z \in jobs, y.req.seq = z.req.seq PROVE FALSE
      <4>1. z.req \in queue[i].loads /\ z.req.seq \in Seqs
        BY <1>4, <1>7 DEF Requests
      <4>2. <<"queue", i>> \in ResultAt(z.req.seq, r) /\ <<"thread", 0>> \in ResultAt(z.req.seq, r)
        BY <1>10, <3>3, <4>1
      <4> QED
        BY <1>10, <4>1, <4>2
    <3>4. (j \in loading[p] \/ (p = r /\ j \in jobs)) /\ (h \in loading[p] \/ (p = r /\ h \in jobs))
      BY <1>5
    <3> QED
      BY <2>2, <3>1, <3>2, <3>3, <3>4
  <2>3. ASSUME NEW p \in Ranks, NEW k \in 1..Len(queue), launched'[p] < k PROVE queue'[k].loads \subseteq inflight'
    <3>1. launched[p] < k
      BY <1>1, <1>3, <1>5, <2>3
    <3> QED
      BY <1>1, <1>2, <3>1 DEF Inv, Flying
  <2> QED
    BY <1>1, <1>2, <2>1, <2>2, <2>3 DEF Flying
<1>12. ASSUME NEW s \in Seqs, NEW p \in Ranks
       PROVE  /\ InStep(s, p) = {<<"queue", k>> : k \in {l \in 1..Len(queue) :
                                    launched[p] < l /\ \E w \in queue[l].loads : w.seq = s}}
              /\ InStep(s, p)' = {<<"queue", k>> : k \in {l \in 1..Len(queue) :
                                    launched'[p] < l /\ \E w \in queue[l].loads : w.seq = s}}
              /\ InOutput(s, p) = {<<"output", k>> : k \in {l \in 1..Len(queue) :
                                    (l > 1 \/ pc # "apply") /\ \E e \in queue[l].out[p] : Ended(e, s)}}
              /\ InOutput(s, p)' = {<<"output", k>> : k \in {l \in 1..Len(queue) :
                                    (l > 1 \/ pc # "apply") /\ \E e \in queue'[l].out[p] : Ended(e, s)}}
  <2>1. InStep(s, p)' = {<<"queue", k>> : k \in {l \in 1..Len(queue) :
                                    launched'[p] < l /\ \E w \in queue'[l].loads : w.seq = s}}
    BY <1>1 DEF InStep
  <2>2. \A l \in 1..Len(queue) : queue'[l].loads = queue[l].loads
    BY <1>1
  <2>3. InOutput(s, p)' = {<<"output", k>> : k \in {l \in 1..Len(queue) :
                                    (l > 1 \/ pc # "apply") /\ \E e \in queue'[l].out[p] : Ended(e, s)}}
    BY <1>1, <1>2 DEF InOutput, Ended
  <2> QED
    BY <1>3, <2>1, <2>2, <2>3 DEF InStep, InOutput
<1>13. ASSUME NEW s \in Seqs, NEW p \in Ranks, p # r PROVE ResultAt(s, p)' = ResultAt(s, p)
  <2>1. InStep(s, p)' = InStep(s, p)
    <3>1. launched'[p] = launched[p]
      BY <1>5, <1>13
    <3>2. InStep(s, p) = {<<"queue", k>> : k \in {l \in 1..Len(queue) :
                            launched[p] < l /\ \E w \in queue[l].loads : w.seq = s}}
      BY <1>12
    <3>3. InStep(s, p)' = {<<"queue", k>> : k \in {l \in 1..Len(queue) :
                            launched'[p] < l /\ \E w \in queue[l].loads : w.seq = s}}
      BY <1>12
    <3> QED
      BY <3>1, <3>2, <3>3, Zenon
  <2>2. InOutput(s, p)' = InOutput(s, p)
    <3>1. \A l \in 1..Len(queue) : queue'[l].out[p] = queue[l].out[p]
      BY <1>1, <1>13
    <3>2. InOutput(s, p) = {<<"output", k>> : k \in {l \in 1..Len(queue) :
                            (l > 1 \/ pc # "apply") /\ \E e \in queue[l].out[p] : Ended(e, s)}}
      BY <1>12
    <3>3. InOutput(s, p)' = {<<"output", k>> : k \in {l \in 1..Len(queue) :
                            (l > 1 \/ pc # "apply") /\ \E e \in queue'[l].out[p] : Ended(e, s)}}
      BY <1>12
    <3>4. {l \in 1..Len(queue) : (l > 1 \/ pc # "apply") /\ \E e \in queue'[l].out[p] : Ended(e, s)}
            = {l \in 1..Len(queue) : (l > 1 \/ pc # "apply") /\ \E e \in queue[l].out[p] : Ended(e, s)}
      BY <3>1
    <3> QED
      BY <3>2, <3>3, <3>4
  <2>3. InThread(s, p)' = InThread(s, p) /\ AsEvent(s, p)' = AsEvent(s, p)
    BY <1>5, <1>13 DEF InThread, AsEvent, Ended
  <2> QED
    BY <1>2, <2>1, <2>2, <2>3 DEF ResultAt

<1>14. ASSUME NEW s \in Seqs
       PROVE  IF IsLoading(s) THEN \E p : ResultAt(s, r)' = {p} ELSE ResultAt(s, r)' = {}
  <2> DEFINE A == \E w \in queue[i].loads : w.seq = s
             B == \E e \in done[r] : Ended(e, s)
             K == {l \in 1..Len(queue) : launched[r] < l /\ \E w \in queue[l].loads : w.seq = s}
             O == {l \in 1..Len(queue) : (l > 1 \/ pc # "apply") /\ \E e \in queue[l].out[r] : Ended(e, s)}
  <2>1. InStep(s, r)' = {<<"queue", k>> : k \in K \ {i}} /\ InStep(s, r) = {<<"queue", k>> : k \in K}
        /\ (A <=> i \in K)
    <3>1. \A l \in 1..Len(queue) : i < l <=> launched[r] < l /\ l # i
      BY <1>1, <1>3
    <3>2. {l \in 1..Len(queue) : launched'[r] < l /\ \E w \in queue[l].loads : w.seq = s} = K \ {i}
      BY <1>5, <3>1
    <3>3. A <=> i \in K
      BY <1>1, <1>3
    <3> QED
      BY <1>12, <3>2, <3>3
  <2>2. /\ InOutput(s, r) = {<<"output", k>> : k \in O} /\ i \notin O
        /\ InOutput(s, r)' = {<<"output", k>> : k \in O \cup (IF queue[i].meta /\ B THEN {i} ELSE {})}
    <3>1. i \notin O
      BY <1>4
    <3>2. \A l \in 1..Len(queue) : queue'[l].out[r] = IF l = i THEN x ELSE queue[l].out[r]
      BY <1>1
    <3>3. (\E e \in x : Ended(e, s)) <=> queue[i].meta /\ B
      BY DEF x
    <3>4. {l \in 1..Len(queue) : (l > 1 \/ pc # "apply") /\ \E e \in queue'[l].out[r] : Ended(e, s)}
            = O \cup (IF queue[i].meta /\ B THEN {i} ELSE {})
      BY <1>1, <3>1, <3>2, <3>3
    <3> QED
      BY <1>12, <3>1, <3>4
  <2>3. InThread(s, r)' = InThread(s, r) \cup (IF A THEN {<<"thread", 0>>} ELSE {})
    <3>1. (\E j \in loading'[r] : j.req.seq = s) <=> (\E j \in loading[r] : j.req.seq = s) \/ A
      BY <1>5, <1>7, <1>8
    <3> QED
      BY <3>1 DEF InThread
  <2>4. AsEvent(s, r)' = IF queue[i].meta THEN {} ELSE AsEvent(s, r)
    BY <1>5 DEF AsEvent, Ended
  <2>5. AsEvent(s, r) = IF B THEN {<<"event", 0>>} ELSE {}
    BY DEF AsEvent
  <2> DEFINE Rest == Counted(s, r) \cup Applied(s) \cup New(s)
  <2>6. /\ ResultAt(s, r) = InStep(s, r) \cup InThread(s, r) \cup AsEvent(s, r) \cup InOutput(s, r) \cup Rest
        /\ ResultAt(s, r)' = InStep(s, r)' \cup InThread(s, r)' \cup AsEvent(s, r)' \cup InOutput(s, r)' \cup Rest
    BY <1>2 DEF ResultAt
  <2>7. /\ \A p \in Rest : p # <<"queue", i>> /\ p # <<"event", 0>>
        /\ \A p \in InThread(s, r) : p # <<"queue", i>> /\ p # <<"event", 0>>
        /\ \A p \in InOutput(s, r) : p # <<"queue", i>> /\ p # <<"event", 0>>
        /\ \A p \in InStep(s, r) : p # <<"event", 0>>
    BY DEF Counted, Applied, New, InThread, InOutput, InStep
  <2> HIDE DEF Rest, A, B, K, O
  <2>8. IF IsLoading(s) THEN \E p : ResultAt(s, r) = {p} ELSE ResultAt(s, r) = {}
    BY <1>10
  <2>9. CASE A
    <3>1. <<"queue", i>> \in InStep(s, r)
      BY <2>1, <2>9
    <3>2. ResultAt(s, r) = {<<"queue", i>>} /\ IsLoading(s)
      BY <2>6, <2>8, <3>1
    <3>3. InThread(s, r) = {} /\ AsEvent(s, r) = {} /\ InOutput(s, r) = {} /\ Rest = {}
      <4>1. \A p \in AsEvent(s, r) : p # <<"queue", i>>
        BY <2>5
      <4> QED
        BY <2>6, <2>7, <3>2, <4>1
    <3>4. ~B /\ O = {} /\ K = {i}
      <4>1. \A k \in K : <<"queue", k>> = <<"queue", i>>
        BY <2>1, <2>6, <3>2
      <4>2. K = {i}
        BY <2>1, <2>9, <4>1
      <4>3. ~B
        BY <2>5, <3>3
      <4>4. O = {}
        BY <2>2, <3>3
      <4> QED
        BY <4>2, <4>3, <4>4
    <3>5. ResultAt(s, r)' = {<<"thread", 0>>}
      BY <2>1, <2>2, <2>3, <2>4, <2>6, <2>9, <3>3, <3>4
    <3> QED
      BY <3>2, <3>5
  <2>10. CASE ~A /\ B /\ queue[i].meta
    <3>1. ResultAt(s, r) = {<<"event", 0>>} /\ IsLoading(s)
      BY <2>5, <2>6, <2>8, <2>10
    <3>2. InThread(s, r) = {} /\ InOutput(s, r) = {} /\ Rest = {} /\ InStep(s, r) = {}
      BY <2>6, <2>7, <3>1
    <3>3. O = {} /\ K = {}
      BY <2>1, <2>2, <3>2
    <3>4. ResultAt(s, r)' = {<<"output", i>>}
      BY <2>1, <2>2, <2>3, <2>4, <2>6, <2>10, <3>2, <3>3
    <3> QED
      BY <3>1, <3>4
  <2>11. CASE ~A /\ ~(B /\ queue[i].meta)
    <3>1. InStep(s, r)' = InStep(s, r) /\ InThread(s, r)' = InThread(s, r) /\ InOutput(s, r)' = InOutput(s, r)
      BY <2>1, <2>2, <2>3, <2>11
    <3>2. AsEvent(s, r)' = AsEvent(s, r)
      BY <2>4, <2>5, <2>11
    <3>3. ResultAt(s, r)' = ResultAt(s, r)
      BY <2>6, <3>1, <3>2
    <3> QED
      BY <2>8, <3>3
  <2> QED
    BY <2>9, <2>10, <2>11
<1>15. Once'
  <2>1. ASSUME NEW s \in Seqs, NEW p \in Ranks
        PROVE  IF IsLoading(s)' THEN \E z : ResultAt(s, p)' = {z} ELSE ResultAt(s, p)' = {}
    <3>1. CASE p = r
      BY <1>2, <1>14, <3>1
    <3>2. CASE p # r
      <4>1. IF IsLoading(s) THEN \E z : ResultAt(s, p) = {z} ELSE ResultAt(s, p) = {}
        BY <1>1 DEF Inv, Once
      <4>2. ResultAt(s, p)' = ResultAt(s, p) /\ (IsLoading(s)' <=> IsLoading(s))
        BY <1>2, <1>13, <3>2
      <4> QED
        BY <4>1, <4>2
    <3> QED
      BY <3>1, <3>2
  <2> QED
    BY <1>2, <2>1 DEF Once
<1> QED
  BY <1>2, <1>9, <1>11, <1>15 DEF Inv

\* Steps and launches as they were, what the threads hold changes.
QueueRests == queue' = queue /\ launched' = launched /\ HostRests

LEMMA QueueRestsResult ==
    ASSUME Inv, QueueRests, pc # "asleep", NEW s \in Seqs, NEW r \in Ranks
    PROVE  ResultAt(s, r)' = InStep(s, r) \cup InThread(s, r)' \cup AsEvent(s, r)' \cup InOutput(s, r)
                               \cup Counted(s, r) \cup Applied(s) \cup New(s)
<1>1. Applied(s)' = Applied(s) /\ New(s)' = New(s) /\ Counted(s, r)' = Counted(s, r)
  BY HostRestsInv DEF QueueRests
<1>2. InStep(s, r)' = InStep(s, r)
  BY DEF QueueRests, InStep
<1>3. InOutput(s, r)' = InOutput(s, r)
  BY DEF QueueRests, InOutput, Ended, HostRests
<1> QED
  BY <1>1, <1>2, <1>3 DEF ResultAt

\* Threads that hold less of what is in flight, streams that go on.
LEMMA QueueRestsInv ==
    ASSUME Inv, QueueRests, pc # "asleep",
           gpu' \in Nat, gpu' >= gpu, \A r \in Ranks : gpu' <= launched[r],
           loading' = [r \in Ranks |-> loading'[r]], \A r \in Ranks : loading'[r] \subseteq loading[r],
           done' = [r \in Ranks |-> done'[r]]
    PROVE  Base' /\ Pipe' /\ OneEach' /\ Flying' /\ Private'
<1>1. /\ Base' /\ OneEach' /\ Private' /\ Ranks' = Ranks
      /\ pc' = pc /\ inflight' = inflight /\ got' = got /\ queue' = queue /\ launched' = launched
  BY HostRestsInv DEF HostRests, QueueRests, conVars
<1>2. Pipe'
  <2>1. loading' \in [Ranks -> SUBSET Jobs]
    <3>1. \A r \in Ranks : loading'[r] \in SUBSET Jobs
      BY DEF Inv, Pipe
    <3> QED
      BY <3>1
  <2>2. \A i \in 1..Len(queue) : IsStep(queue[i])' /\ (queue[i].loads \subseteq Requests)'
    BY <1>1 DEF Inv, Pipe, IsStep
  <2>3. \A w \in got : IsReport(w)'
    BY <1>1 DEF Inv, Pipe, IsReport
  <2>4. pc' = "apply" => gpu' >= 1
    BY <1>1 DEF Inv, Pipe
  <2> QED
    BY <1>1, <2>1, <2>2, <2>3, <2>4 DEF Inv, Pipe
<1>3. Flying'
  BY <1>1 DEF Inv, Flying
<1> QED
  BY <1>1, <1>2, <1>3

LEMMA GpuRunInv ==
    ASSUME Inv, GpuRun
    PROVE  Inv'
<1>1. /\ gpu < Len(queue) /\ (\A r \in Ranks : launched[r] > gpu) /\ gpu' = gpu + 1
      /\ UNCHANGED <<seqVars, coVars, conVars, queue, launched, workVars, got, sleeping, pc, todo, batch>>
  BY DEF GpuRun
<1>2. gpu \in Nat /\ (\A r \in Ranks : launched[r] \in Nat) /\ loading = [r \in Ranks |-> loading[r]]
      /\ done = [r \in Ranks |-> done[r]]
  BY DEF Inv, Pipe
<1>3. QueueRests /\ loading' = loading /\ done' = done
  BY <1>1 DEF QueueRests, HostRests, workVars
<1>4. pc # "asleep"
  <2>1. pc = "asleep" => Len(queue) = 0
    BY EmptyOf DEF Inv, Base, Control
  <2> QED
    BY <1>1, <1>2, <2>1
<1>5. Base' /\ Pipe' /\ OneEach' /\ Flying' /\ Private'
  BY <1>1, <1>2, <1>3, <1>4, QueueRestsInv
<1>6. Once'
  <2>1. ASSUME NEW s \in Seqs, NEW r \in Ranks PROVE ResultAt(s, r)' = ResultAt(s, r)
    <3>1. InThread(s, r)' = InThread(s, r) /\ AsEvent(s, r)' = AsEvent(s, r)
      BY <1>3 DEF InThread, AsEvent, Ended
    <3> QED
      BY <1>3, <1>4, <3>1, QueueRestsResult DEF ResultAt
  <2>2. Ranks' = Ranks /\ \A s \in Seqs : IsLoading(s)' <=> IsLoading(s)
    BY <1>3, <1>4, HostRestsInv DEF QueueRests
  <2> QED
    BY <1>4, <2>1, <2>2, SameResults DEF Inv
<1> QED
  BY <1>5, <1>6 DEF Inv

LEMMA LoadRunInv ==
    ASSUME Inv, NEW r \in Ranks, NEW job \in loading[r], NEW ok \in BOOLEAN, LoadRun(r, job, ok)
    PROVE  Inv'
<1> DEFINE e == [kind |-> "load", of |-> job.req.seq, ok |-> ok]
<1>1. /\ loading' = [loading EXCEPT ![r] = @ \ {job}] /\ done' = [done EXCEPT ![r] = @ \cup {e}]
      /\ UNCHANGED <<seqVars, coVars, conVars, stepVars, saving, setup, got, sleeping, pc, todo, batch>>
  BY DEF LoadRun
<1>2. gpu \in Nat /\ (\A p \in Ranks : gpu <= launched[p]) /\ loading \in [Ranks -> SUBSET Jobs]
      /\ done = [p \in Ranks |-> done[p]]
  BY DEF Inv, Pipe
<1>3. QueueRests /\ gpu' = gpu
  BY <1>1 DEF QueueRests, HostRests, stepVars
<1>4. pc # "asleep"
  BY DEF Inv, Base, Control
<1>5. /\ loading'[r] = loading[r] \ {job} /\ done'[r] = done[r] \cup {e}
      /\ \A p \in Ranks \ {r} : loading'[p] = loading[p] /\ done'[p] = done[p]
      /\ loading' = [p \in Ranks |-> loading'[p]] /\ done' = [p \in Ranks |-> done'[p]]
  BY <1>1, <1>2
<1>6. Base' /\ Pipe' /\ OneEach' /\ Flying' /\ Private'
  <2>1. \A p \in Ranks : loading'[p] \subseteq loading[p]
    BY <1>5
  <2> QED
    BY <1>2, <1>3, <1>4, <1>5, <2>1, QueueRestsInv
<1>7. \A s : Ended(e, s) <=> s = job.req.seq
  BY DEF Ended
<1> HIDE DEF e
<1>8. Ranks' = Ranks /\ \A s \in Seqs : IsLoading(s)' <=> IsLoading(s)
  BY <1>3, <1>4, HostRestsInv DEF QueueRests
<1>9. ASSUME NEW s \in Seqs, NEW p \in Ranks
      PROVE  IF IsLoading(s) THEN \E z : ResultAt(s, p)' = {z} ELSE ResultAt(s, p)' = {}
  <2>1. IF IsLoading(s) THEN \E z : ResultAt(s, p) = {z} ELSE ResultAt(s, p) = {}
    BY <1>4 DEF Inv, Once
  <2>2. ResultAt(s, p)' = InStep(s, p) \cup InThread(s, p)' \cup AsEvent(s, p)' \cup InOutput(s, p)
                             \cup Counted(s, p) \cup Applied(s) \cup New(s)
    BY <1>3, <1>4, QueueRestsResult
  <2>3. CASE p # r \/ s # job.req.seq
    <3>1. (\E j \in loading'[p] : j.req.seq = s) <=> (\E j \in loading[p] : j.req.seq = s)
      BY <1>5, <2>3
    <3>2. (\E x \in done'[p] : Ended(x, s)) <=> (\E x \in done[p] : Ended(x, s))
      BY <1>5, <1>7, <2>3
    <3>3. InThread(s, p)' = InThread(s, p)
      BY <3>1 DEF InThread
    <3>4. AsEvent(s, p)' = AsEvent(s, p)
      BY <3>2 DEF AsEvent, Ended
    <3>5. ResultAt(s, p)' = ResultAt(s, p)
      BY <2>2, <3>3, <3>4 DEF ResultAt
    <3> QED
      BY <2>1, <3>5
  <2>4. CASE p = r /\ s = job.req.seq
    <3>1. <<"thread", 0>> \in InThread(s, p)
      BY <2>4 DEF InThread
    <3>2. ResultAt(s, p) = {<<"thread", 0>>} /\ IsLoading(s)
      BY <2>1, <3>1 DEF ResultAt
    <3>3. /\ InStep(s, p) = {} /\ InOutput(s, p) = {} /\ Counted(s, p) = {} /\ Applied(s) = {} /\ New(s) = {}
      <4>1. \A z \in InStep(s, p) \cup InOutput(s, p) \cup Counted(s, p) \cup Applied(s) \cup New(s) : z = <<"thread", 0>>
        BY <3>2 DEF ResultAt
      <4>2. \A z \in InStep(s, p) \cup InOutput(s, p) \cup Counted(s, p) \cup Applied(s) \cup New(s) : z # <<"thread", 0>>
        BY DEF InStep, InOutput, Counted, Applied, New
      <4> QED
        BY <4>1, <4>2
    <3>4. InThread(s, p)' = {}
      <4>1. \A j \in loading'[r] : j.req.seq # s
        BY <1>5, <2>4 DEF Inv, Flying
      <4> QED
        BY <2>4, <4>1 DEF InThread
    <3>5. AsEvent(s, p)' = {<<"event", 0>>}
      <4>1. \E x \in done'[p] : Ended(x, s)
        BY <1>5, <1>7, <2>4
      <4> QED
        BY <4>1 DEF AsEvent, Ended
    <3> QED
      BY <2>2, <3>2, <3>3, <3>4, <3>5
  <2> QED
    BY <2>3, <2>4
<1>10. Once'
  BY <1>8, <1>9 DEF Once
<1> QED
  BY <1>6, <1>10 DEF Inv

LEMMA SaveRunInv ==
    ASSUME Inv, NEW r \in Ranks, NEW job \in saving[r], SaveRun(r, job)
    PROVE  Inv'
<1> DEFINE e == [kind |-> "save", of |-> job.req.id, ok |-> TRUE]
<1>1. /\ loading' = loading /\ done' = [done EXCEPT ![r] = @ \cup {e}]
      /\ UNCHANGED <<seqVars, coVars, conVars, stepVars, loading, setup, got, kv, sleeping, pc, todo, batch>>
  BY DEF SaveRun
<1>2. gpu \in Nat /\ (\A p \in Ranks : gpu <= launched[p]) /\ loading \in [Ranks -> SUBSET Jobs]
      /\ done = [p \in Ranks |-> done[p]]
  BY DEF Inv, Pipe
<1>3. QueueRests /\ gpu' = gpu
  BY <1>1 DEF QueueRests, HostRests, stepVars
<1>4. pc # "asleep"
  BY DEF Inv, Base, Control
<1>5. /\ done'[r] = done[r] \cup {e} /\ \A p \in Ranks \ {r} : done'[p] = done[p]
      /\ loading' = [p \in Ranks |-> loading'[p]] /\ done' = [p \in Ranks |-> done'[p]]
  BY <1>1, <1>2
<1>6. Base' /\ Pipe' /\ OneEach' /\ Flying' /\ Private'
  BY <1>1, <1>2, <1>3, <1>4, <1>5, QueueRestsInv
<1>7. \A s : ~Ended(e, s)
  BY DEF Ended
<1> HIDE DEF e
<1>8. Ranks' = Ranks /\ \A s \in Seqs : IsLoading(s)' <=> IsLoading(s)
  BY <1>3, <1>4, HostRestsInv DEF QueueRests
<1>9. ASSUME NEW s \in Seqs, NEW p \in Ranks PROVE ResultAt(s, p)' = ResultAt(s, p)
  <2>1. (\E x \in done'[p] : Ended(x, s)) <=> (\E x \in done[p] : Ended(x, s))
    BY <1>5, <1>7
  <2>2. AsEvent(s, p)' = AsEvent(s, p)
    BY <2>1 DEF AsEvent, Ended
  <2>3. InThread(s, p)' = InThread(s, p)
    BY <1>1 DEF InThread
  <2> QED
    BY <1>3, <1>4, <2>2, <2>3, QueueRestsResult DEF ResultAt
<1>10. Once'
  BY <1>4, <1>8, <1>9, SameResults DEF Inv
<1> QED
  BY <1>6, <1>10 DEF Inv

---------------------------------------------------------------------------
(* The results of a step are collected. *)

KeyOf(s) == [kind |-> "load", of |-> s]
Reported(s, r) == (\E e \in Head1.out[r] : Ended(e, s)) \/ (\E w \in got : Ended(w[1], s) /\ w[2] = r)
AllDone(s) == KeyOf(s) \in Complete

LEMMA ReportFacts ==
    ASSUME Pipe
    PROVE  /\ \A w \in Reports : IsReport(w)
           /\ \A w \in Reports : \A s : Ended(w[1], s) <=> w = <<KeyOf(s), w[2]>>
           /\ \A s : \A r \in Ranks : <<KeyOf(s), r>> \in Reports <=> Reported(s, r)
<1>1. ASSUME NEW w \in Reports PROVE IsReport(w)
  <2>1. CASE w \in got
    BY <2>1 DEF Pipe
  <2>2. CASE w \notin got
    <3>1. PICK r \in Ranks : w \in {<<[kind |-> e.kind, of |-> e.of], r>> : e \in Head1.out[r]}
      BY <2>2 DEF Reports
    <3>2. PICK e \in Head1.out[r] : w = <<[kind |-> e.kind, of |-> e.of], r>>
      BY <3>1
    <3>3. w[1] = [kind |-> e.kind, of |-> e.of] /\ w[2] = r
      BY <3>2
    <3> QED
      BY <3>2, <3>3 DEF IsReport
  <2> QED
    BY <2>1, <2>2
<1>2. ASSUME NEW w \in Reports, NEW s PROVE Ended(w[1], s) <=> w = <<KeyOf(s), w[2]>>
  <2>1. w = <<[kind |-> w[1].kind, of |-> w[1].of], w[2]>>
    BY <1>1 DEF IsReport
  <2>2. w[1] = [kind |-> w[1].kind, of |-> w[1].of]
    BY <2>1
  <2>3. Ended(w[1], s) => w[1] = KeyOf(s)
    BY <2>2 DEF Ended, KeyOf
  <2>4. w = <<w[1], w[2]>>
    BY <2>1, <2>2
  <2>5. w = <<KeyOf(s), w[2]>> => w[1] = KeyOf(s)
    OBVIOUS
  <2>6. w[1] = KeyOf(s) => Ended(w[1], s)
    BY DEF Ended, KeyOf
  <2> QED
    BY <2>3, <2>4, <2>5, <2>6
<1>3. ASSUME NEW s, NEW r \in Ranks PROVE <<KeyOf(s), r>> \in Reports <=> Reported(s, r)
  <2> DEFINE y == <<KeyOf(s), r>>
  <2>1. y[1] = KeyOf(s) /\ y[2] = r /\ Ended(KeyOf(s), s)
    BY DEF Ended, KeyOf
  <2>2. y \in got => \E w \in got : Ended(w[1], s) /\ w[2] = r
    BY <2>1
  <2>3. ASSUME NEW w \in got, Ended(w[1], s), w[2] = r PROVE y \in Reports
    <3>1. w \in Reports
      BY DEF Reports
    <3> QED
      BY <1>2, <2>3, <3>1
  <2>4. ASSUME NEW p \in Ranks, NEW e \in Head1.out[p], y = <<[kind |-> e.kind, of |-> e.of], p>>
        PROVE  p = r /\ Ended(e, s)
    <3>1. p = r /\ KeyOf(s) = [kind |-> e.kind, of |-> e.of]
      BY <2>4
    <3> QED
      BY <3>1 DEF KeyOf, Ended
  <2>5. ASSUME NEW e \in Head1.out[r], Ended(e, s) PROVE y \in Reports
    <3>1. y = <<[kind |-> e.kind, of |-> e.of], r>>
      BY <2>5 DEF Ended, KeyOf
    <3> QED
      BY <3>1 DEF Reports
  <2>6. y \in Reports => Reported(s, r)
    <3>1. CASE y \in got
      BY <2>2, <3>1 DEF Reported
    <3>2. CASE y \in Reports /\ y \notin got
      <4>1. PICK p \in Ranks : y \in {<<[kind |-> e.kind, of |-> e.of], p>> : e \in Head1.out[p]}
        BY <3>2 DEF Reports
      <4>2. PICK e \in Head1.out[p] : y = <<[kind |-> e.kind, of |-> e.of], p>>
        BY <4>1
      <4> QED
        BY <2>4, <4>2 DEF Reported
    <3> QED
      BY <3>1, <3>2
  <2> QED
    BY <2>3, <2>5, <2>6 DEF Reported
<1> QED
  BY <1>1, <1>2, <1>3

\* The results that Collect finds, and those complete.
LEMMA DoneFacts ==
    ASSUME ConstantsAssumption, Inv, pc = "wait", gpu >= 1
    PROVE  /\ \A s \in Seqs : AllDone(s) <=> \A r \in Ranks : Reported(s, r)
           /\ \A s \in Seqs : \A r \in Ranks : Reported(s, r) =>
                 IsLoading(s) /\ (ResultAt(s, r) = {<<"output", 1>>} \/ ResultAt(s, r) = {<<"counted", 0>>})
           /\ EndedLoads \subseteq inflight /\ \A w \in inflight : w \in EndedLoads <=> AllDone(w.seq)
           /\ \A s \in Seqs : (\E w \in EndedLoads : w.seq = s) <=> AllDone(s)
<1>1. Ranks # {}
  BY SetupFacts DEF Inv, Base, Frame
<1>2. ASSUME NEW s \in Seqs PROVE AllDone(s) <=> \A r \in Ranks : Reported(s, r)
  <2>1. \A r \in Ranks : <<KeyOf(s), r>> \in Reports <=> Reported(s, r)
    BY ReportFacts DEF Inv
  <2>2. AllDone(s) => \A r \in Ranks : <<KeyOf(s), r>> \in Reports
    BY DEF AllDone, Complete, OnAllRanks
  <2>3. (\A r \in Ranks : <<KeyOf(s), r>> \in Reports) => AllDone(s)
    <3>1. ASSUME NEW r \in Ranks, <<KeyOf(s), r>> \in Reports PROVE KeyOf(s) \in {w[1] : w \in Reports}
      <4>1. <<KeyOf(s), r>>[1] = KeyOf(s)
        OBVIOUS
      <4> QED
        BY <3>1, <4>1
    <3> QED
      BY <1>1, <3>1 DEF AllDone, Complete, OnAllRanks
  <2> QED
    BY <2>1, <2>2, <2>3
<1>3. ASSUME NEW s \in Seqs, NEW r \in Ranks, Reported(s, r)
      PROVE  IsLoading(s) /\ (ResultAt(s, r) = {<<"output", 1>>} \/ ResultAt(s, r) = {<<"counted", 0>>})
  <2>1. IF IsLoading(s) THEN \E p : ResultAt(s, r) = {p} ELSE ResultAt(s, r) = {}
    BY DEF Inv, Once
  <2>2. CASE \E e \in Head1.out[r] : Ended(e, s)
    <3>1. 1 \in DOMAIN queue
      <4>1. DOMAIN queue = 1..Len(queue) /\ Len(queue) \in Nat
        BY SelfSeq DEF Inv, Pipe
      <4>2. gpu <= launched[r] /\ launched[r] <= Len(queue) /\ gpu \in Nat /\ launched[r] \in Nat
        BY DEF Inv, Pipe
      <4> QED
        BY <4>1, <4>2
    <3>2. <<"output", 1>> \in InOutput(s, r)
      BY <2>2, <3>1 DEF InOutput, Head1
    <3> QED
      BY <2>1, <3>2 DEF ResultAt
  <2>3. CASE \E w \in got : Ended(w[1], s) /\ w[2] = r
    <3>1. <<"counted", 0>> \in Counted(s, r)
      BY <2>3 DEF Counted
    <3> QED
      BY <2>1, <3>1 DEF ResultAt
  <2> QED
    BY <1>3, <2>2, <2>3 DEF Reported
<1>4. EndedLoads \subseteq inflight /\ \A w \in inflight : w \in EndedLoads <=> AllDone(w.seq)
  BY DEF EndedLoads, AllDone, KeyOf
<1>5. ASSUME NEW s \in Seqs PROVE (\E w \in EndedLoads : w.seq = s) <=> AllDone(s)
  <2>1. ASSUME AllDone(s) PROVE \E w \in EndedLoads : w.seq = s
    <3>1. IsLoading(s)
      BY <1>1, <1>2, <1>3, <2>1
    <3>2. pending = {} /\ ~Applying(s)
      BY DEF Inv, Base, Control, Applying
    <3>3. PICK w \in inflight : w.seq = s
      BY <3>1, <3>2 DEF Inv, OneEach
    <3> QED
      BY <1>4, <2>1, <3>3
  <2> QED
    BY <1>4, <2>1
<1> QED
  BY <1>2, <1>3, <1>4, <1>5

\* Collected results are on their way to be applied, or wait for other ranks'.
LEMMA CollectRequests ==
    ASSUME ConstantsAssumption, Inv, Collect
    PROVE  Base' /\ Pipe' /\ OneEach' /\ Flying' /\ Private'
<1>1. /\ pc = "wait" /\ gpu >= 1 /\ pc' = "apply"
      /\ got' = {w \in Reports : w[1] \notin Complete}
      /\ inflight' = inflight \ EndedLoads
      /\ lease' = [i \in {x \in DOMAIN lease : [kind |-> "save", of |-> x] \notin Complete} |-> lease[i]]
      /\ todo' = {w.seq : w \in EndedLoads}
      /\ UNCHANGED <<status, text, table, cache, load, pending, queue, launched, gpu, loading, done, setup>>
  BY DEF Collect, seqVars, stepVars, workVars
<1>2. Base'
  BY CollectBase DEF Inv
<1>3. /\ \A s \in Seqs : AllDone(s) <=> \A r \in Ranks : Reported(s, r)
      /\ \A s \in Seqs : \A r \in Ranks : Reported(s, r) =>
            IsLoading(s) /\ (ResultAt(s, r) = {<<"output", 1>>} \/ ResultAt(s, r) = {<<"counted", 0>>})
      /\ EndedLoads \subseteq inflight /\ \A w \in inflight : w \in EndedLoads <=> AllDone(w.seq)
      /\ \A s \in Seqs : (\E w \in EndedLoads : w.seq = s) <=> AllDone(s)
  BY <1>1, DoneFacts
<1>4. pending = {} /\ (\A s : ~Applying(s)) /\ Ranks' = Ranks
  BY <1>1 DEF Inv, Base, Control, Applying, Ranks
<1>5. Pipe'
  <2>1. \A w \in got' : IsReport(w)'
    <3>1. \A w \in Reports : IsReport(w)
      BY ReportFacts DEF Inv
    <3> QED
      BY <1>1, <1>4, <3>1 DEF IsReport
  <2>2. \A i \in 1..Len(queue) : IsStep(queue[i])'
    BY <1>1, <1>4 DEF Inv, Pipe, IsStep
  <2> QED
    BY <1>1, <1>4, <2>1, <2>2 DEF Inv, Pipe
<1>6. OneEach'
  <2>1. ASSUME NEW w \in inflight, w \notin EndedLoads PROVE RequestShape(w)'
    <3>1. RequestShape(w) /\ w.seq \in Seqs
      BY RequestFacts DEF Inv, OneEach
    <3>2. w.seq \notin todo'
      BY <1>1, <1>3, <2>1 DEF Inv, OneEach
    <3> QED
      BY <1>1, <3>1, <3>2 DEF RequestShape, Applying, IsLoading
  <2>2. ASSUME NEW s \in Seqs, IsLoading(s)
        PROVE  Applying(s)' \/ \E w \in inflight' : w.seq = s
    <3>1. PICK w \in inflight : w.seq = s
      BY <1>4, <2>2 DEF Inv, OneEach
    <3> QED
      BY <1>1, <3>1 DEF Applying
  <2> QED
    BY <1>1, <1>4, <2>1, <2>2 DEF Inv, OneEach, IsLoading
<1>7. Flying'
  <2>1. ASSUME NEW w \in inflight, NEW r \in Ranks,
               <<"thread", 0>> \in ResultAt(w.seq, r) \/ \E i : <<"queue", i>> \in ResultAt(w.seq, r)
        PROVE  w \in inflight'
    <3>1. w.seq \in Seqs
      BY RequestFacts DEF Inv
    <3>2. ~Reported(w.seq, r)
      <4>1. /\ <<"thread", 0>> # <<"output", 1>> /\ <<"thread", 0>> # <<"counted", 0>>
            /\ \A i : <<"queue", i>> # <<"output", 1>> /\ <<"queue", i>> # <<"counted", 0>>
        OBVIOUS
      <4>2. Reported(w.seq, r) => \/ ResultAt(w.seq, r) = {<<"output", 1>>}
                                  \/ ResultAt(w.seq, r) = {<<"counted", 0>>}
        BY <1>3, <3>1
      <4>3. \E p \in ResultAt(w.seq, r) : p # <<"output", 1>> /\ p # <<"counted", 0>>
        BY <2>1, <4>1
      <4> QED
        BY <4>2, <4>3
    <3> QED
      BY <1>1, <1>3, <3>1, <3>2
  <2>2. ASSUME NEW r \in Ranks, NEW j \in loading[r] PROVE j.req \in inflight'
    <3>1. j.req \in inflight
      BY DEF Inv, Flying
    <3>2. <<"thread", 0>> \in ResultAt(j.req.seq, r)
      BY DEF ResultAt, InThread
    <3> QED
      BY <2>1, <3>1, <3>2
  <2>3. ASSUME NEW r \in Ranks, NEW i \in 1..Len(queue), launched[r] < i, NEW w \in queue[i].loads
        PROVE  w \in inflight'
    <3>1. w \in inflight /\ i \in DOMAIN queue
      BY <2>3, SelfSeq DEF Inv, Flying, Pipe
    <3>2. <<"queue", i>> \in ResultAt(w.seq, r)
      BY <2>3, <3>1 DEF ResultAt, InStep
    <3> QED
      BY <2>1, <3>1, <3>2
  <2> QED
    BY <1>1, <1>4, <2>2, <2>3 DEF Inv, Flying
<1>8. Private'
  <2>1. Leased(lease') \subseteq Leased(lease)
    BY <1>1 DEF Leased
  <2>2. TakenFrom({})
    BY <1>1, <2>1 DEF TakenFrom
  <2> QED
    BY <2>2, StillPrivate DEF Inv
<1> QED
  BY <1>2, <1>5, <1>6, <1>7, <1>8

LEMMA CollectInv ==
    ASSUME ConstantsAssumption, Inv, Collect
    PROVE  Inv'
<1>1. /\ pc = "wait" /\ gpu >= 1 /\ pc' = "apply"
      /\ got' = {w \in Reports : w[1] \notin Complete}
      /\ todo' = {w.seq : w \in EndedLoads}
      /\ UNCHANGED <<load, pending, queue, launched, loading, done, setup>>
  BY DEF Collect, seqVars, stepVars, workVars
<1>2. /\ \A s \in Seqs : AllDone(s) <=> \A r \in Ranks : Reported(s, r)
      /\ \A s \in Seqs : \A r \in Ranks : Reported(s, r) =>
            IsLoading(s) /\ (ResultAt(s, r) = {<<"output", 1>>} \/ ResultAt(s, r) = {<<"counted", 0>>})
      /\ \A s \in Seqs : (\E w \in EndedLoads : w.seq = s) <=> AllDone(s)
  BY <1>1, DoneFacts
<1>3. pending = {} /\ Ranks' = Ranks
  BY <1>1 DEF Inv, Base, Control, Ranks
<1>4. ASSUME NEW s \in Seqs, NEW r \in Ranks
      PROVE  IF IsLoading(s) THEN \E p : ResultAt(s, r)' = {p} ELSE ResultAt(s, r)' = {}
  <2>1. IF IsLoading(s) THEN \E p : ResultAt(s, r) = {p} ELSE ResultAt(s, r) = {}
    BY <1>1 DEF Inv, Once
  <2>2. /\ InStep(s, r)' = InStep(s, r) /\ InThread(s, r)' = InThread(s, r)
        /\ AsEvent(s, r)' = AsEvent(s, r) /\ New(s)' = New(s) /\ New(s) = {} /\ Applied(s) = {}
    BY <1>1, <1>3 DEF InStep, InThread, AsEvent, Ended, New, Applied
  <2>3. Applied(s)' = IF AllDone(s) THEN {<<"applied", 0>>} ELSE {}
    BY <1>1, <1>2 DEF Applied
  <2>4. <<KeyOf(s), r>> \in Reports <=> Reported(s, r)
    BY ReportFacts DEF Inv
  <2>5. Counted(s, r)' = IF Reported(s, r) /\ ~AllDone(s) THEN {<<"counted", 0>>} ELSE {}
    <3>1. ASSUME NEW w \in got', Ended(w[1], s), w[2] = r PROVE Reported(s, r) /\ ~AllDone(s)
      <4>1. w \in Reports /\ w[1] \notin Complete
        BY <1>1
      <4>2. w = <<KeyOf(s), w[2]>>
        BY <3>1, <4>1, ReportFacts DEF Inv
      <4>3. w[1] = KeyOf(s)
        BY <4>2
      <4> QED
        BY <2>4, <3>1, <4>1, <4>2, <4>3 DEF AllDone
    <3>2. ASSUME Reported(s, r), ~AllDone(s) PROVE \E w \in got' : Ended(w[1], s) /\ w[2] = r
      <4>1. <<KeyOf(s), r>>[1] = KeyOf(s) /\ <<KeyOf(s), r>>[2] = r /\ Ended(KeyOf(s), s)
        BY DEF KeyOf, Ended
      <4>2. <<KeyOf(s), r>> \in got'
        BY <1>1, <2>4, <3>2, <4>1 DEF AllDone
      <4> QED
        BY <4>1, <4>2
    <3> QED
      BY <3>1, <3>2 DEF Counted, Ended
  <2>6. /\ \A k \in DOMAIN queue : <<"output", k>> \in InOutput(s, r)' <=>
               k > 1 /\ \E e \in queue[k].out[r] : Ended(e, s)
        /\ \A p \in InOutput(s, r)' : p \in InOutput(s, r) /\ p # <<"output", 1>>
    BY <1>1 DEF InOutput, Ended
  <2>7. CASE Reported(s, r)
    <3>1. ResultAt(s, r) = {<<"output", 1>>} \/ ResultAt(s, r) = {<<"counted", 0>>}
      BY <1>2, <2>7
    <3>2. InStep(s, r) = {} /\ InThread(s, r) = {} /\ AsEvent(s, r) = {} /\ InOutput(s, r)' = {}
      <4>1. \A p \in InStep(s, r) \cup InThread(s, r) \cup AsEvent(s, r) \cup InOutput(s, r)' :
               p \in ResultAt(s, r) /\ p # <<"output", 1>> /\ p # <<"counted", 0>>
        <5>1. \A p \in InStep(s, r) \cup InThread(s, r) \cup AsEvent(s, r) :
                 p # <<"output", 1>> /\ p # <<"counted", 0>>
          BY DEF InStep, InThread, AsEvent
        <5>2. \A p \in InOutput(s, r) : p # <<"counted", 0>>
          BY DEF InOutput
        <5> QED
          BY <2>6, <5>1, <5>2 DEF ResultAt
      <4> QED
        BY <3>1, <4>1
    <3>3. ResultAt(s, r)' = Counted(s, r)' \cup Applied(s)'
      BY <2>2, <3>2 DEF ResultAt
    <3>4. IsLoading(s)
      BY <1>2, <2>7
    <3> QED
      BY <2>3, <2>5, <2>7, <3>3, <3>4
  <2>8. CASE ~Reported(s, r)
    <3>1. ~AllDone(s)
      BY <1>2, <2>8
    <3>2. Counted(s, r) = {} /\ \A e \in queue[1].out[r] : ~Ended(e, s)
      BY <2>8 DEF Reported, Counted, Head1
    <3>3. InOutput(s, r)' = InOutput(s, r)
      <4>1. {k \in DOMAIN queue : k > 1 /\ \E e \in queue[k].out[r] : Ended(e, s)}
              = {k \in DOMAIN queue : \E e \in queue[k].out[r] : Ended(e, s)}
        <5>1. \A k \in DOMAIN queue : k = 1 \/ k > 1
          <6>1. DOMAIN queue = 1..Len(queue) /\ Len(queue) \in Nat
            BY SelfSeq DEF Inv, Pipe
          <6> QED
            BY <6>1
        <5> QED
          BY <3>2, <5>1
      <4> QED
        BY <1>1, <4>1 DEF InOutput, Ended
    <3>4. ResultAt(s, r)' = ResultAt(s, r)
      BY <2>2, <2>3, <2>5, <2>8, <3>1, <3>2, <3>3 DEF ResultAt
    <3> QED
      BY <2>1, <3>4
  <2> QED
    BY <2>7, <2>8
<1>5. Once'
  BY <1>1, <1>3, <1>4 DEF Once, IsLoading
<1> QED
  BY <1>5, CollectRequests DEF Inv

---------------------------------------------------------------------------
(* The results of loads are applied. *)

\* The load of s is over; its blocks may join the trie, or be given up.
LoadOver(s) ==
    /\ pc = "apply" /\ pc' = "apply" /\ s \in todo /\ todo' = todo \ {s}
    /\ WorkersRest /\ UNCHANGED <<lease, pending, inflight>>
    /\ ~IsLoading(s)' /\ \A v \in Seqs \ {s} : SameLoad(v)
    /\ Cached(cache') \subseteq InTable(table[s]) \cup Cached(cache)
    /\ InTable(table'[s]) \subseteq InTable(table[s]) \cup Cached(cache)

LEMMA LoadOverInv ==
    ASSUME Inv, Base', NEW s, LoadOver(s)
    PROVE  Inv'
<1>1. /\ pc = "apply" /\ pc' = "apply" /\ s \in todo /\ todo' = todo \ {s} /\ WorkersRest
      /\ lease' = lease /\ pending' = pending /\ inflight' = inflight
      /\ ~IsLoading(s)' /\ \A v \in Seqs \ {s} : SameLoad(v)
  BY DEF LoadOver
<1>2. s \in Seqs /\ IsLoading(s) /\ Applying(s) /\ Ranks' = Ranks
  BY <1>1 DEF Inv, Base, Frame, Control, Applying, WorkersRest, workVars, Ranks
<1>3. \A v \in Seqs \ {s} : (IsLoading(v)' <=> IsLoading(v)) /\ (Applying(v)' <=> Applying(v))
  BY <1>1 DEF SameLoad, IsLoading, Applying
<1>4. \A w \in pending \cup inflight : w.seq \in Seqs \ {s}
  BY <1>2, RequestFacts DEF Inv
<1>5. OneEach'
  <2>1. ASSUME NEW w \in pending \cup inflight PROVE RequestShape(w)'
    <3>1. RequestShape(w) /\ SameLoad(w.seq)
      BY <1>1, <1>4 DEF Inv, OneEach
    <3> QED
      BY <1>3, <1>4, <3>1 DEF RequestShape, SameLoad
  <2>2. ASSUME NEW v \in Seqs, IsLoading(v)' PROVE Applying(v)' \/ \E w \in pending \cup inflight : w.seq = v
    <3>1. v \in Seqs \ {s}
      BY <1>1, <2>2
    <3> QED
      BY <1>3, <2>2, <3>1 DEF Inv, OneEach
  <2> QED
    BY <1>1, <2>1, <2>2 DEF Inv, OneEach
<1>6. Once'
  <2>1. ASSUME NEW v \in Seqs, NEW r \in Ranks
        PROVE  IF IsLoading(v)' THEN \E p : ResultAt(v, r)' = {p} ELSE ResultAt(v, r)' = {}
    <3>1. IF IsLoading(v) THEN \E p : ResultAt(v, r) = {p} ELSE ResultAt(v, r) = {}
      BY <1>1 DEF Inv, Once
    <3>2. New(v)' = New(v)
      BY <1>1 DEF New
    <3>3. CASE v # s
      <4>1. Applied(v)' = Applied(v)
        BY <1>1, <3>3 DEF Applied
      <4>2. ResultAt(v, r)' = ResultAt(v, r)
        BY <1>1, <3>2, <4>1, RestResult
      <4> QED
        BY <1>3, <3>1, <3>3, <4>2
    <3>4. CASE v = s
      <4>1. Applied(s) = {<<"applied", 0>>} /\ Applied(s)' = {}
        BY <1>1 DEF Applied
      <4>2. ResultAt(s, r) = WithWorkers(s, r) \cup Applied(s) \cup New(s)
        BY ResultIs
      <4>3. WithWorkers(s, r) \cup New(s) = {}
        <5>1. \A p \in WithWorkers(s, r) \cup New(s) : p # <<"applied", 0>>
          BY DEF WithWorkers, InStep, InThread, AsEvent, InOutput, Counted, New
        <5> QED
          BY <1>2, <3>1, <3>4, <4>1, <4>2, <5>1
      <4>4. ResultAt(s, r)' = WithWorkers(s, r) \cup Applied(s)' \cup New(s)'
        BY <1>1, RestResult
      <4> QED
        BY <1>1, <3>2, <3>4, <4>1, <4>3, <4>4
    <3> QED
      BY <3>3, <3>4
  <2> QED
    BY <1>2, <2>1 DEF Once
<1>7. Private'
  <2>1. TakenFrom(InTable(table[s]))
    <3>1. \A w \in pending \cup inflight : InTable(w.blocks) \cap InTable(table[s]) = {}
      BY <1>2, <1>4 DEF Inv, Private, Mine
    <3>2. \A v \in Seqs : InTable(table'[v]) \subseteq InTable(table[s]) \cup Cached(cache) \cup InTable(table[v])
      BY <1>1 DEF LoadOver, SameLoad
    <3> QED
      BY <1>1, <3>1, <3>2 DEF TakenFrom, LoadOver
  <2> QED
    BY <2>1, StillPrivate DEF Inv
<1>8. Pipe' /\ Flying'
  BY <1>1, RestPipe, RestFlying DEF Inv
<1> QED
  BY <1>5, <1>6, <1>7, <1>8 DEF Inv

LEMMA PublishInv ==
    ASSUME Inv, NEW s \in todo, Publish(s)
    PROVE  Inv'
<1>1. Base'
  BY PublishBase DEF Inv
<1>2. /\ pc = "apply" /\ load' = [load EXCEPT ![s].phase = "READY"] /\ todo' = todo \ {s}
      /\ UNCHANGED <<text, target, lease, conVars, stepVars, workVars, got, sleeping, pc, batch>>
  BY DEF Publish
<1>3. /\ table' = [table EXCEPT ![s] = PublishTable(s)]
      /\ InTable(PublishTable(s)) \subseteq Cached(cache) \cup InTable(table[s])
      /\ Cached(cache') \subseteq Cached(cache) \cup InTable(table[s])
  BY PublishFacts DEF Inv
<1>4. s \in Seqs /\ table \in [Seqs -> Seq(Blocks)] /\ load \in [Seqs -> Loads] /\ load[s] \in Loads
  BY <1>2, ApplyFacts DEF Inv, Base, Frame
<1>5. load'[s].phase = "READY"
  BY <1>2, <1>4 DEF Loads
<1>6. \A v \in Seqs \ {s} : SameLoad(v)
  BY <1>2, <1>3, <1>4 DEF SameLoad
<1>7. LoadOver(s)
  BY <1>2, <1>3, <1>4, <1>5, <1>6 DEF LoadOver, WorkersRest, IsLoading, conVars
<1> QED
  BY <1>1, <1>7, LoadOverInv

LEMMA GiveUpInv ==
    ASSUME Inv, NEW s \in todo, GiveUp(s)
    PROVE  Inv'
<1>1. Base'
  BY GiveUpBase DEF Inv
<1>2. /\ pc = "apply" /\ todo' = todo \ {s}
      /\ UNCHANGED <<lease, lookup, pending, stepVars, workVars, got, sleeping, pc, batch>>
  BY DEF GiveUp
<1>3. \/ Remove({s}, table, load) /\ cache' = cache
      \/ GivenBack(s)
  BY DEF GiveUp, GivenBack
<1>4. /\ s \in Seqs /\ LoadingShape(s) /\ table[s] \in Seq(Blocks) /\ table \in [Seqs -> Seq(Blocks)]
      /\ load \in [Seqs -> Loads] /\ hist[s] \in Nat /\ load[s].start \in Nat
  BY <1>2, ApplyFacts DEF Inv, Base, Frame
<1>5. /\ inflight' = inflight /\ load'[s] = NoLoad /\ cache' = cache
      /\ (\A v \in Seqs \ {s} : SameLoad(v)) /\ InTable(table'[s]) \subseteq InTable(table[s])
  <2>1. CASE Remove({s}, table, load) /\ cache' = cache
    <3>1. inflight' = inflight
      <4>1. \A w \in inflight : w.seq # s
        BY <1>2, RequestFacts DEF Inv, Applying
      <4> QED
        BY <2>1, <4>1 DEF Remove
    <3>2. load'[s] = NoLoad /\ table'[s] = <<>> /\ \A v \in Seqs \ {s} : SameLoad(v)
      BY <1>4, <2>1 DEF Remove, Without, SameLoad
    <3>3. InTable(table'[s]) = {}
      BY <3>2, EmptyOf DEF InTable
    <3> QED
      BY <2>1, <3>1, <3>2, <3>3
  <2>2. CASE GivenBack(s)
    <3>1. /\ inflight' = inflight /\ load'[s] = NoLoad /\ table'[s] = Path(table[s], Depth(s))
          /\ cache' = cache /\ \A v \in Seqs \ {s} : SameLoad(v)
      BY <1>4, <2>2 DEF GivenBack, SameLoad
    <3>2. InTable(Path(table[s], Depth(s))) \subseteq InTable(table[s])
      <4>1. Depth(s) \in Nat /\ Depth(s) <= Len(table[s]) /\ Len(table[s]) \in Nat /\ DOMAIN table[s] = 1..Len(table[s])
        <5>1. Len(table[s]) \in Nat /\ DOMAIN table[s] = 1..Len(table[s])
          BY <1>4, ElementOf
        <5>2. load[s].start = hist[s] /\ hist[s] < Len(table[s])
          BY <1>4 DEF LoadingShape
        <5> QED
          BY <1>4, <5>1, <5>2 DEF Depth
      <4>2. /\ Path(table[s], Depth(s)) \in Seq(Blocks) /\ Len(Path(table[s], Depth(s))) = Depth(s)
            /\ \A i \in 1..Depth(s) : Path(table[s], Depth(s))[i] = table[s][i]
        BY <1>4, <4>1, PathOf
      <4>3. DOMAIN Path(table[s], Depth(s)) = 1..Depth(s)
        BY <4>2, ElementOf
      <4> QED
        BY <4>1, <4>2, <4>3 DEF InTable
    <3> QED
      BY <3>1, <3>2
  <2> QED
    BY <1>3, <2>1, <2>2
<1>6. LoadOver(s)
  BY <1>2, <1>5 DEF LoadOver, WorkersRest, IsLoading, NoLoad
<1> QED
  BY <1>1, <1>6, LoadOverInv

\* A step leaves the queue: places in it shift by one.
Shifted ==
    /\ pc = "apply" /\ pc' # "apply" /\ pc' # "asleep" /\ todo = {} /\ todo' = {}
    /\ queue' = Tail(queue) /\ launched' = [r \in Ranks |-> launched[r] - 1] /\ gpu' = gpu - 1
    /\ loading' = Sooner(loading)
    /\ UNCHANGED <<text, table, cache, lease, pending, inflight, done, setup, got>>
    /\ \A s \in Seqs : IF IsLoading(s) THEN load'[s] = load[s] ELSE ~IsLoading(s)'

Earlier(p) == IF p[1] \in {"queue", "output"} THEN <<p[1], p[2] - 1>> ELSE p

LEMMA ShiftedFacts ==
    ASSUME ConstantsAssumption, Inv, Shifted
    PROVE  /\ Ranks' = Ranks
           /\ Len(queue) \in Nat /\ DOMAIN queue = 1..Len(queue)
           /\ Len(queue') = Len(queue) - 1 /\ DOMAIN queue' = 1..(Len(queue) - 1)
           /\ queue' \in Seq({queue'[i] : i \in 1..Len(queue')})
           /\ \A i \in 1..(Len(queue) - 1) : i + 1 \in 1..Len(queue) /\ queue'[i] = queue[i + 1]
           /\ \A i \in 1..Len(queue) : i # 1 => i - 1 \in 1..(Len(queue) - 1) /\ queue'[i - 1] = queue[i]
           /\ gpu \in Nat /\ gpu >= 1
           /\ \A r \in Ranks : /\ launched[r] \in Nat /\ launched[r] >= 1 /\ launched[r] <= Len(queue)
                               /\ gpu <= launched[r] /\ launched'[r] = launched[r] - 1
<1>1. /\ queue \in Seq({queue[i] : i \in 1..Len(queue)}) /\ gpu \in Nat /\ gpu >= 1
      /\ \A r \in Ranks : gpu <= launched[r] /\ launched[r] <= Len(queue) /\ launched[r] \in Nat
  BY DEF Inv, Pipe, Shifted
<1>2. Len(queue) \in Nat /\ DOMAIN queue = 1..Len(queue)
  BY <1>1, ElementOf
<1>3. Ranks' = Ranks
  BY DEF Shifted, Ranks
<1>4. queue # <<>>
  <2>1. pc = "apply" /\ setup \in Setups
    BY DEF Shifted, Inv, Base, Frame
  <2>4. Ranks # {}
    BY <2>1, SetupFacts
  <2>2. queue = <<>> => Len(queue) = 0
    BY EmptyOf
  <2>3. \E r \in Ranks : launched[r] <= Len(queue)
    BY <1>1, <2>4
  <2> QED
    BY <1>1, <1>2, <2>2, <2>3
<1> DEFINE S == {queue[i] : i \in 1..Len(queue)}
<1> HIDE DEF S
<1>5. /\ Tail(queue) \in Seq(S) /\ Len(Tail(queue)) = Len(queue) - 1
      /\ \A i \in DOMAIN Tail(queue) : i + 1 \in DOMAIN queue /\ Tail(queue)[i] = queue[i + 1]
      /\ \A i \in DOMAIN queue : i # 1 => i - 1 \in DOMAIN Tail(queue) /\ Tail(queue)[i - 1] = queue[i]
  <2>1. queue \in Seq(S)
    BY <1>1 DEF S
  <2> QED
    BY <1>4, <2>1, TailOf
<1>6. DOMAIN Tail(queue) = 1..(Len(queue) - 1)
  BY <1>5, ElementOf
<1>7. Tail(queue) \in Seq({Tail(queue)[i] : i \in 1..Len(Tail(queue))})
  <2> DEFINE t == Tail(queue)
  <2>1. t \in Seq(S)
    BY <1>5
  <2> HIDE DEF t
  <2>2. t \in Seq({t[i] : i \in 1..Len(t)})
    BY <2>1, SelfSeq
  <2> QED
    BY <2>2 DEF t
<1>8. queue' = Tail(queue) /\ \A r \in Ranks : launched'[r] = launched[r] - 1
  BY DEF Shifted
<1>9. \A r \in Ranks : launched[r] >= 1
  BY <1>1
<1> QED
  BY <1>1, <1>2, <1>3, <1>5, <1>6, <1>7, <1>8, <1>9

LEMMA ShiftedResult ==
    ASSUME ConstantsAssumption, Inv, Shifted, NEW s \in Seqs, NEW r \in Ranks
    PROVE  ResultAt(s, r)' = {Earlier(p) : p \in ResultAt(s, r)}
<1>1. /\ Len(queue) \in Nat /\ DOMAIN queue = 1..Len(queue) /\ DOMAIN queue' = 1..(Len(queue) - 1)
      /\ \A i \in 1..(Len(queue) - 1) : i + 1 \in 1..Len(queue) /\ queue'[i] = queue[i + 1]
      /\ \A i \in 1..Len(queue) : i # 1 => i - 1 \in 1..(Len(queue) - 1) /\ queue'[i - 1] = queue[i]
      /\ launched[r] \in Nat /\ launched[r] >= 1 /\ launched'[r] = launched[r] - 1
  BY ShiftedFacts
<1>2. /\ pc = "apply" /\ pc' # "apply" /\ todo = {} /\ todo' = {} /\ loading' = Sooner(loading)
      /\ pending' = pending /\ done' = done /\ got' = got
  BY DEF Shifted
<1>3. \A k \in 1..Len(queue) : /\ Earlier(<<"queue", k>>) = <<"queue", k - 1>>
                               /\ Earlier(<<"output", k>>) = <<"output", k - 1>>
  BY DEF Earlier
<1>4. InStep(s, r)' = {Earlier(p) : p \in InStep(s, r)}
  <2> DEFINE K == {k \in DOMAIN queue : launched[r] < k /\ \E w \in queue[k].loads : w.seq = s}
             L == {k \in DOMAIN queue' : launched'[r] < k /\ \E w \in queue'[k].loads : w.seq = s}
  <2>1. \A k \in K : k \in 1..Len(queue) /\ k - 1 \in L
    <3>1. \A k \in K : k \in 1..Len(queue) /\ k # 1 /\ launched[r] - 1 < k - 1
      BY <1>1
    <3> QED
      BY <1>1, <3>1
  <2>2. \A k \in L : k + 1 \in K /\ (k + 1) - 1 = k
    <3>1. \A k \in L : k \in 1..(Len(queue) - 1) /\ launched[r] < k + 1
      BY <1>1
    <3> QED
      BY <1>1, <3>1
  <2>3. InStep(s, r) = {<<"queue", k>> : k \in K} /\ InStep(s, r)' = {<<"queue", k>> : k \in L}
    BY DEF InStep
  <2> HIDE DEF K, L
  <2>4. ASSUME NEW k \in L PROVE <<"queue", k>> \in {Earlier(p) : p \in InStep(s, r)}
    <3>1. Earlier(<<"queue", k + 1>>) = <<"queue", (k + 1) - 1>>
      BY <1>3, <2>1, <2>2
    <3> QED
      BY <2>2, <2>3, <3>1
  <2>5. ASSUME NEW k \in K PROVE Earlier(<<"queue", k>>) \in InStep(s, r)'
    BY <1>3, <2>1, <2>3
  <2> QED
    BY <2>3, <2>4, <2>5
<1>5. InOutput(s, r)' = {Earlier(p) : p \in InOutput(s, r)}
  <2> DEFINE K == {k \in DOMAIN queue : (k > 1 \/ pc # "apply") /\ \E e \in queue[k].out[r] : Ended(e, s)}
             L == {k \in DOMAIN queue' : (k > 1 \/ pc' # "apply") /\ \E e \in queue'[k].out[r] : Ended(e, s)}
  <2>1. \A k \in K : k \in 1..Len(queue) /\ k - 1 \in L
    <3>1. \A k \in K : k \in 1..Len(queue) /\ k # 1
      BY <1>1, <1>2
    <3> QED
      BY <1>1, <1>2, <3>1
  <2>2. \A k \in L : k + 1 \in K /\ (k + 1) - 1 = k
    <3>1. \A k \in L : k \in 1..(Len(queue) - 1) /\ k + 1 > 1 /\ (k + 1) - 1 = k
      BY <1>1
    <3> QED
      BY <1>1, <3>1
  <2>3. InOutput(s, r) = {<<"output", k>> : k \in K} /\ InOutput(s, r)' = {<<"output", k>> : k \in L}
    BY DEF InOutput, Ended
  <2> HIDE DEF K, L
  <2>4. ASSUME NEW k \in L PROVE <<"output", k>> \in {Earlier(p) : p \in InOutput(s, r)}
    <3>1. Earlier(<<"output", k + 1>>) = <<"output", (k + 1) - 1>>
      BY <1>3, <2>1, <2>2
    <3> QED
      BY <2>2, <2>3, <3>1
  <2>5. ASSUME NEW k \in K PROVE Earlier(<<"output", k>>) \in InOutput(s, r)'
    BY <1>3, <2>1, <2>3
  <2> QED
    BY <2>3, <2>4, <2>5
<1>6. InThread(s, r)' = InThread(s, r)
  <2>1. (\E j \in loading'[r] : j.req.seq = s) <=> (\E j \in loading[r] : j.req.seq = s)
    <3>1. loading'[r] = {[j EXCEPT !.after = IF @ > 0 THEN @ - 1 ELSE 0] : j \in loading[r]}
      BY <1>2 DEF Sooner
    <3>2. \A j \in loading[r] : [j EXCEPT !.after = IF @ > 0 THEN @ - 1 ELSE 0].req = j.req
      BY DEF Inv, Pipe, Jobs
    <3> QED
      BY <3>1, <3>2
  <2> QED
    BY <2>1 DEF InThread
<1>7. /\ AsEvent(s, r)' = AsEvent(s, r) /\ Counted(s, r)' = Counted(s, r) /\ New(s)' = New(s)
      /\ Applied(s) = {} /\ Applied(s)' = {}
  BY <1>2 DEF AsEvent, Ended, Counted, New, Applied
<1>8. \A p \in InThread(s, r) \cup AsEvent(s, r) \cup Counted(s, r) \cup New(s) : Earlier(p) = p
  BY DEF InThread, AsEvent, Counted, New, Earlier
<1> DEFINE A == InThread(s, r) \cup AsEvent(s, r) \cup Counted(s, r) \cup New(s)
<1>9. ResultAt(s, r) = InStep(s, r) \cup InOutput(s, r) \cup A
  BY <1>7 DEF ResultAt
<1>10. ResultAt(s, r)' = InStep(s, r)' \cup InOutput(s, r)' \cup A
  BY <1>6, <1>7 DEF ResultAt
<1> HIDE DEF A
<1>11. \A p \in A : Earlier(p) = p
  BY <1>8 DEF A
<1> QED
  BY <1>4, <1>5, <1>9, <1>10, <1>11

LEMMA ShiftedInv ==
    ASSUME ConstantsAssumption, Inv, Base', Shifted
    PROVE  Inv'
<1>1. /\ pc = "apply" /\ pc' # "apply" /\ pc' # "asleep" /\ todo = {} /\ todo' = {}
      /\ gpu' = gpu - 1 /\ loading' = Sooner(loading)
      /\ launched' = [r \in Ranks |-> launched[r] - 1]
      /\ UNCHANGED <<text, table, cache, lease, pending, inflight, done, setup, got>>
      /\ \A s \in Seqs : IF IsLoading(s) THEN load'[s] = load[s] ELSE ~IsLoading(s)'
  BY DEF Shifted
<1>2. /\ Ranks' = Ranks
      /\ Len(queue) \in Nat
      /\ Len(queue') = Len(queue) - 1
      /\ queue' \in Seq({queue'[i] : i \in 1..Len(queue')})
      /\ \A i \in 1..(Len(queue) - 1) : i + 1 \in 1..Len(queue) /\ queue'[i] = queue[i + 1]
      /\ gpu \in Nat /\ gpu >= 1
      /\ \A r \in Ranks : /\ launched[r] \in Nat /\ launched[r] >= 1 /\ launched[r] <= Len(queue)
                          /\ gpu <= launched[r] /\ launched'[r] = launched[r] - 1
  BY ShiftedFacts
<1>3. ASSUME NEW r \in Ranks
      PROVE  /\ loading'[r] \in SUBSET Jobs
             /\ \A j \in loading'[r] : \E i \in loading[r] : j.req = i.req
             /\ \A i, j \in loading'[r] : i.req.seq = j.req.seq => i = j
  <2> DEFINE Next1(j) == [j EXCEPT !.after = IF @ > 0 THEN @ - 1 ELSE 0]
  <2>1. loading'[r] = {Next1(j) : j \in loading[r]}
    BY <1>1 DEF Sooner
  <2>2. loading[r] \subseteq Jobs
    BY DEF Inv, Pipe
  <2>3. ASSUME NEW j \in loading[r] PROVE Next1(j) \in Jobs /\ Next1(j).req = j.req
    <3>1. j \in Jobs
      BY <2>2
    <3>2. Next1(j) = [req |-> j.req, after |-> IF j.after > 0 THEN j.after - 1 ELSE 0]
      BY <3>1 DEF Jobs
    <3>3. j.req \in Requests /\ (IF j.after > 0 THEN j.after - 1 ELSE 0) \in Nat
      BY <3>1 DEF Jobs
    <3> QED
      BY <3>2, <3>3 DEF Jobs
  <2> HIDE DEF Next1
  <2>4. \A i, j \in loading[r] : i.req.seq = j.req.seq => i = j
    BY DEF Inv, Flying
  <2> QED
    BY <2>1, <2>3, <2>4
<1>4. Pipe'
  <2>1. loading' \in [Ranks -> SUBSET Jobs]
    <3>1. loading' = [r \in Ranks |-> loading'[r]]
      BY <1>1 DEF Sooner
    <3> QED
      BY <1>3, <3>1
  <2>2. ASSUME NEW i \in 1..Len(queue')
        PROVE  /\ IsStep(queue[i])' /\ queue'[i].loads \subseteq Requests
               /\ \A r \in Ranks : launched'[r] < i => queue'[i].out[r] = {}
    <3>0. i \in 1..(Len(queue) - 1) /\ i \in Int
      BY <1>2
    <3>1. i + 1 \in 1..Len(queue) /\ queue'[i] = queue[i + 1]
      BY <1>2, <3>0
    <3>2. IsStep(queue[i + 1]) /\ queue[i + 1].loads \subseteq Requests
      BY <3>1 DEF Inv, Pipe
    <3>3. \A r \in Ranks : launched'[r] < i => queue[i + 1].out[r] = {}
      <4>1. ASSUME NEW r \in Ranks, launched'[r] < i PROVE launched[r] < i + 1
        <5>1. launched[r] \in Nat /\ launched[r] - 1 < i
          BY <1>2, <4>1
        <5> QED
          BY <3>0, <5>1
      <4> QED
        BY <3>1, <4>1 DEF Inv, Pipe
    <3> QED
      BY <1>2, <3>1, <3>2, <3>3 DEF IsStep
  <2>3. \A w \in got' : IsReport(w)'
    BY <1>1, <1>2 DEF Inv, Pipe, IsReport
  <2>4. launched' \in [Ranks -> Nat] /\ gpu' \in Nat
        /\ \A r \in Ranks : gpu' <= launched'[r] /\ launched'[r] <= Len(queue')
    <3>1. \A r \in Ranks : launched[r] - 1 \in Nat /\ gpu - 1 <= launched[r] - 1 /\ launched[r] - 1 <= Len(queue) - 1
      BY <1>2
    <3> QED
      BY <1>1, <1>2, <3>1
  <2>5. done' = [r \in Ranks |-> done'[r]]
    BY <1>1 DEF Inv, Pipe
  <2> QED
    BY <1>1, <1>2, <2>1, <2>2, <2>3, <2>4, <2>5 DEF Pipe
<1>5. Flying'
  <2>1. \A r \in Ranks : \A j \in loading'[r] : j.req \in inflight
    BY <1>3 DEF Inv, Flying
  <2>2. ASSUME NEW r \in Ranks, NEW i \in 1..Len(queue'), launched'[r] < i
        PROVE  queue'[i].loads \subseteq inflight
    <3>0. i \in 1..(Len(queue) - 1) /\ i \in Int /\ launched[r] \in Nat /\ launched[r] - 1 < i
      BY <1>2, <2>2
    <3>1. i + 1 \in 1..Len(queue) /\ queue'[i] = queue[i + 1] /\ launched[r] < i + 1
      BY <1>2, <3>0
    <3> QED
      BY <3>1 DEF Inv, Flying
  <2> QED
    BY <1>1, <1>2, <1>3, <2>1, <2>2 DEF Flying
<1>6. OneEach'
  <2>1. SameLoads
    BY <1>1 DEF SameLoads, SameLoad, Applying
  <2> QED
    BY <2>1, SameOneEach DEF Inv
<1>7. Once'
  <2>1. ASSUME NEW s \in Seqs, NEW r \in Ranks
        PROVE  IF IsLoading(s)' THEN \E p : ResultAt(s, r)' = {p} ELSE ResultAt(s, r)' = {}
    <3>1. IF IsLoading(s) THEN \E p : ResultAt(s, r) = {p} ELSE ResultAt(s, r) = {}
      BY <1>1 DEF Inv, Once
    <3>2. ResultAt(s, r)' = {Earlier(p) : p \in ResultAt(s, r)}
      BY ShiftedResult
    <3>3. IsLoading(s)' <=> IsLoading(s)
      BY <1>1 DEF IsLoading
    <3>4. CASE IsLoading(s)
      <4>1. PICK p : ResultAt(s, r) = {p}
        BY <3>1, <3>4
      <4>2. ResultAt(s, r)' = {Earlier(p)}
        BY <3>2, <4>1
      <4> QED
        BY <3>3, <3>4, <4>2
    <3>5. CASE ~IsLoading(s)
      BY <3>1, <3>2, <3>3, <3>5
    <3> QED
      BY <3>4, <3>5
  <2> QED
    BY <1>2, <2>1 DEF Once
<1>8. Private'
  BY <1>1, TablesSamePrivate DEF Inv
<1> QED
  BY <1>4, <1>5, <1>6, <1>7, <1>8 DEF Inv

LEMMA OutputsInv ==
    ASSUME ConstantsAssumption, Inv, NEW finished, Outputs(finished)
    PROVE  Inv'
<1> DEFINE alive == {s \in DOMAIN Head1.rows : status[s] = "RUNNING"}
<1>1. Base'
  BY OutputsBase DEF Inv
<1>2. /\ pc = "apply" /\ todo = {}
      /\ load' = [s \in Seqs |-> IF s \in alive THEN NoLoad ELSE load[s]]
      /\ queue' = Tail(queue)
      /\ launched' = [r \in Ranks |-> launched[r] - 1] /\ gpu' = gpu - 1
      /\ loading' = Sooner(loading)
      /\ pc' \in {"prefetch", "send"}
      /\ UNCHANGED <<text, table, cache, lease, conVars, done, setup, got, sleeping, todo, batch>>
  BY DEF Outputs
<1>3. \A s \in Seqs : IF IsLoading(s) THEN load'[s] = load[s] ELSE ~IsLoading(s)'
  <2>1. \A s \in Seqs : IsLoading(s) => status[s] = "LOADING"
    BY DEF Inv, Base, Records, RecordOf, LoadingShape
  <2> QED
    BY <1>2, <2>1 DEF IsLoading, NoLoad
<1>4. Shifted
  BY <1>2, <1>3 DEF Shifted, conVars
<1> QED
  BY <1>1, <1>4, ShiftedInv

\* Asleep, no load is left.
LEMMA FinishSleepInv ==
    ASSUME Inv, FinishSleep
    PROVE  Inv'
<1>1. Base'
  BY FinishSleepBase DEF Inv
<1>2. /\ pc = "drained" /\ pc' = "asleep" /\ Remove(EndedWhileLoading, table, load)
      /\ \A r \in Ranks : loading[r] = {}
      /\ queue' = <<>> /\ launched' = [r \in Ranks |-> 0] /\ gpu' = 0
      /\ done' = [r \in Ranks |-> {}] /\ got' = {}
      /\ UNCHANGED <<pending, loading, setup>>
  BY DEF FinishSleep
<1>3. Ranks' = Ranks /\ Len(queue') = 0 /\ queue' \in Seq({queue'[i] : i \in 1..Len(queue')})
  <2>1. Len(<<>>) = 0 /\ <<>> \in Seq({queue'[i] : i \in 1..Len(queue')})
    BY EmptyOf
  <2> QED
    BY <1>2, <2>1 DEF Ranks
<1>4. pending' = {} /\ inflight' = {}
  <2>1. \A w \in inflight : w.seq \in Seqs /\ IsLoading(w.seq) /\ status[w.seq] = "LOADING"
    BY RequestFacts DEF Inv
  <2>2. \A w \in inflight : w.seq \in EndedWhileLoading
    BY <1>2, <2>1 DEF Inv, Base, Control, EndedWhileLoading
  <2> QED
    BY <1>2, <2>2 DEF Remove, Inv, Base, Control
<1>5. \A s \in Seqs : ~IsLoading(s)'
  <2>1. \A s \in Seqs : status'[s] = "none"
    BY <1>1, <1>2 DEF Base, Control, WithStatus
  <2> QED
    BY <1>1, <2>1 DEF Base, Records, RecordOf, LoadingShape
<1>6. OneEach' /\ Private'
  BY <1>4, <1>5 DEF OneEach, Private
<1>7. Pipe' /\ Flying'
  BY <1>2, <1>3 DEF Inv, Pipe, Flying
<1>8. Once'
  BY <1>2 DEF Once
<1> QED
  BY <1>1, <1>6, <1>7, <1>8 DEF Inv

---------------------------------------------------------------------------
(* The invariant holds. *)

LEMMA InitBase ==
    ASSUME Init
    PROVE  Base
<1>1. <<>> \in Seq(Tok) /\ <<>> \in Seq(Blocks) /\ Len(<<>>) = 0 /\ DOMAIN <<>> = {}
  BY EmptyOf
<1>2. NoLoad \in Loads /\ NoLoad.phase = "none"
  BY DEF NoLoad, Loads
<1>3. Frame
  <2>1. /\ setup \in Setups
        /\ status = [s \in Seqs |-> "none"] /\ text = [s \in Seqs |-> <<>>]
        /\ table = [s \in Seqs |-> <<>>] /\ hist = [s \in Seqs |-> 0]
        /\ cache = <<>>
        /\ load = [s \in Seqs |-> NoLoad] /\ target = [s \in Seqs |-> 0]
        /\ lookup = [s \in Seqs |-> NoLookup] /\ plan = [s \in Seqs |-> 0]
        /\ pending = {} /\ inflight = {} /\ failed = {}
        /\ nextSave = [s \in Seqs |-> 0]
        /\ sleeping = FALSE /\ pc = "send" /\ todo = {} /\ batch = {}
    BY DEF Init
  <2>2. cache \in [DOMAIN cache -> Blocks]
    BY <1>1, <2>1
  <2>3. NoLookup \in Int
    BY DEF NoLookup
  <2>4. status \in [Seqs -> Statuses] /\ text \in [Seqs -> Seq(Tok)] /\ table \in [Seqs -> Seq(Blocks)]
        /\ hist \in [Seqs -> Nat] /\ load \in [Seqs -> Loads] /\ target \in [Seqs -> Nat]
        /\ lookup \in [Seqs -> Int] /\ plan \in [Seqs -> Nat] /\ nextSave \in [Seqs -> Nat]
    BY <1>1, <1>2, <2>1, <2>3 DEF Statuses
  <2> QED
    BY <2>1, <2>2, <2>4 DEF Frame, Pcs
<1>4. ASSUME NEW s \in Seqs PROVE RecordOf(s)
  <2>1. /\ status[s] = "none" /\ text[s] = <<>> /\ table[s] = <<>> /\ hist[s] = 0
        /\ load[s] = NoLoad /\ target[s] = 0 /\ plan[s] = 0 /\ lookup[s] = NoLookup
        /\ nextSave[s] = 0 /\ failed = {}
    BY DEF Init
  <2> QED
    BY <1>1, <1>2, <2>1 DEF RecordOf, Forgotten, IsLoading, RemoteReady
<1>5. Control
  BY DEF Init, Control
<1> QED
  BY <1>3, <1>4, <1>5 DEF Base, Records

LEMMA InitInv ==
    ASSUME Init
    PROVE  Inv
<1>1. Base
  BY InitBase
<1>2. /\ queue = <<>> /\ launched = [r \in Ranks |-> 0] /\ gpu = 0
      /\ loading = [r \in Ranks |-> {}] /\ done = [r \in Ranks |-> {}] /\ got = {}
      /\ pending = {} /\ inflight = {} /\ todo = {} /\ pc = "send"
      /\ \A s \in Seqs : ~IsLoading(s)
  BY DEF Init, IsLoading, NoLoad
<1>3. Len(queue) = 0 /\ DOMAIN queue = {} /\ queue \in Seq({queue[i] : i \in 1..Len(queue)})
  BY <1>2, EmptyOf
<1>4. Pipe
  <2>1. loading \in [Ranks -> SUBSET Jobs] /\ launched \in [Ranks -> Nat] /\ done = [r \in Ranks |-> done[r]]
    BY <1>2
  <2>2. \A r \in Ranks : gpu <= launched[r] /\ launched[r] <= Len(queue)
    BY <1>2, <1>3
  <2>3. 1..Len(queue) = {}
    BY <1>3
  <2> QED
    BY <1>2, <1>3, <2>1, <2>2, <2>3 DEF Pipe
<1>5. OneEach /\ Private
  BY <1>2 DEF OneEach, Private
<1>6. Flying
  <2>1. 1..Len(queue) = {}
    BY <1>3
  <2> QED
    BY <1>2, <2>1 DEF Flying
<1>7. \A s \in Seqs : \A r \in Ranks : ResultAt(s, r) = {}
  BY <1>2, <1>3 DEF ResultAt, InStep, InThread, AsEvent, InOutput, Counted, Applied, New
<1>8. Once
  BY <1>2, <1>7 DEF Once
<1> QED
  BY <1>1, <1>4, <1>5, <1>6, <1>8 DEF Inv

LEMMA StutterInv ==
    ASSUME Inv, UNCHANGED vars
    PROVE  Inv'
<1>1. /\ UNCHANGED <<status, text, table, hist, cache>> /\ UNCHANGED <<load, target, lease>>
      /\ UNCHANGED <<lookup, plan, pending, inflight, failed, nextSave>>
      /\ UNCHANGED <<queue, launched, gpu>> /\ UNCHANGED <<loading, saving, done, setup>>
      /\ UNCHANGED <<got, sleeping, pc, todo, batch>>
  BY DEF vars, seqVars, coVars, conVars, stepVars, workVars
<1>2. Ranks' = Ranks /\ \A s \in Seqs : IsLoading(s)' <=> IsLoading(s)
  BY <1>1 DEF Ranks, IsLoading
<1>3. Frame'
  BY <1>1 DEF Inv, Base, Frame
<1>4. Records'
  BY <1>1 DEF Inv, Base, Records, RecordOf, Forgotten, LoadingShape, IsLoading, RemoteReady, Target
<1>5. Control'
  BY <1>1, <1>2 DEF Inv, Base, Control, Waiting, WithStatus, IsLoading
<1>6. Pipe'
  BY <1>1, <1>2 DEF Inv, Pipe, IsStep, IsReport
<1>7. OneEach'
  BY <1>1 DEF Inv, OneEach, RequestShape, IsLoading, Applying
<1>8. Flying' /\ Private'
  BY <1>1, <1>2 DEF Inv, Flying, Private, Mine
<1>9. Once'
  <2>1. ASSUME NEW s \in Seqs, NEW r \in Ranks PROVE ResultAt(s, r)' = ResultAt(s, r)
    BY <1>1 DEF ResultAt, InStep, InThread, AsEvent, InOutput, Ended, Counted, Applied, New
  <2>2. CASE pc # "asleep"
    BY <1>2, <2>1, <2>2, SameResults DEF Inv
  <2>3. CASE pc = "asleep"
    BY <1>1, <2>3 DEF Once
  <2> QED
    BY <2>2, <2>3
<1> QED
  BY <1>3, <1>4, <1>5, <1>6, <1>7, <1>8, <1>9 DEF Inv, Base

LEMMA AdmitInv ==
    ASSUME ConstantsAssumption, Inv, NEW s \in todo, Admit(s)
    PROVE  Inv'
<1>1. CASE SkipPendingLookup(s)
  BY <1>1, PutOffInv
<1>2. ASSUME NEW k \in Matches(s),
             \/ SubmitLookup(s, k) \/ StartLoad(s, k) \/ LoadDoesNotFit(s, k)
             \/ AdmitLocal(s, k) \/ LocalDoesNotFit(s, k)
      PROVE  Inv'
  <2>1. CASE SubmitLookup(s, k)
    BY <2>1, PutOffInv
  <2>2. CASE StartLoad(s, k)
    BY <2>2, StartLoadInv
  <2>3. CASE LoadDoesNotFit(s, k) \/ LocalDoesNotFit(s, k)
    BY <2>3, NoRoomInv
  <2>4. CASE AdmitLocal(s, k)
    BY <2>4, AdmitLocalInv
  <2> QED
    BY <1>2, <2>1, <2>2, <2>3, <2>4
<1> QED
  BY <1>1, <1>2 DEF Admit

LEMMA NextInv ==
    ASSUME ConstantsAssumption, Inv, [Next]_vars
    PROVE  Inv'
<1>1. CASE Client
  <2>1. ASSUME NEW s \in Seqs, NEW p \in Texts, AddMessage(s, p) PROVE Inv'
    BY <2>1, AddMessageInv
  <2>2. ASSUME NEW s \in Seqs, StopSession(s) \/ EndSession(s) PROVE Inv'
    BY <2>2, StopSessionInv, EndSessionInv
  <2> QED
    BY <1>1, <2>1, <2>2, SleepInv, WakeInv DEF Client
<1>2. CASE Workers
  <2>1. ASSUME NEW r \in Ranks, Launch(r) PROVE Inv'
    BY <2>1, LaunchInv
  <2>2. ASSUME NEW r \in Ranks, NEW job \in loading[r], NEW ok \in BOOLEAN, LoadRun(r, job, ok) PROVE Inv'
    BY <2>2, LoadRunInv
  <2>3. ASSUME NEW r \in Ranks, NEW job \in saving[r], SaveRun(r, job) PROVE Inv'
    BY <2>3, SaveRunInv
  <2>4. ASSUME NEW s \in Seqs, NEW n \in 0..Reusable(s), LookupDone(s, n) PROVE Inv'
    BY <2>4, LookupDoneInv
  <2> QED
    BY <1>2, <2>1, <2>2, <2>3, <2>4, GpuRunInv DEF Workers
<1>3. CASE Scheduling
  <2>1. ASSUME BeginPrefill \/ BeginDecode PROVE Inv'
    <3>1. Waiting \in SUBSET Waiting /\ {} \in SUBSET Waiting
      OBVIOUS
    <3>2. BeginPass(Waiting) \/ BeginPass({})
      BY <2>1 DEF BeginPrefill, BeginDecode
    <3> QED
      BY <3>1, <3>2, BeginPassInv
  <2>2. ASSUME NEW s \in todo, Admit(s) PROVE Inv'
    BY <2>2, AdmitInv
  <2> QED
    BY <1>3, <2>1, <2>2, EndPassInv DEF Scheduling
<1>4. CASE Engine /\ ~Scheduling
  <2>1. ASSUME NEW s \in todo, Publish(s) \/ GiveUp(s) PROVE Inv'
    BY <2>1, PublishInv, GiveUpInv
  <2>2. ASSUME NEW finished \in SUBSET Seqs, Outputs(finished) PROVE Inv'
    BY <2>2, OutputsInv
  <2> QED
    BY <1>4, <2>1, <2>2, CollectInv, SleepInv, DrainInv, FinishSleepInv DEF Engine
<1>5. CASE UNCHANGED vars
  BY <1>5, StutterInv
<1> QED
  BY <1>1, <1>2, <1>3, <1>4, <1>5 DEF Next, Engine

LEMMA InvAlways == Spec => []Inv
<1>1. Init => Inv
  BY InitInv
<1>2. Inv /\ [Next]_vars => Inv'
  BY ConstantsAssumption, NextInv
<1> QED
  BY <1>1, <1>2, PTL DEF Spec

---------------------------------------------------------------------------
(* What follows. *)

\* The result of a load is at exactly one place on every rank until it has
\* been applied, whatever is stopped, ended or evicted meanwhile
\* (get_finished, KVOutputAggregator.aggregate, update_connector_output).
THEOREM ResultsOnce == Spec => []EachResultOnce
<1>1. Inv => EachResultOnce
  <2> SUFFICES ASSUME Inv, NEW s \in Seqs, NEW r \in Ranks, pc # "asleep"
               PROVE  Cardinality(ResultAt(s, r)) = IF IsLoading(s) THEN 1 ELSE 0
    BY DEF EachResultOnce
  <2>1. IF IsLoading(s) THEN \E p : ResultAt(s, r) = {p} ELSE ResultAt(s, r) = {}
    BY DEF Inv, Once
  <2> QED
    BY <2>1, FS_Singleton, FS_EmptySet
<1> QED
  BY <1>1, InvAlways, PTL

\* A request's destinations follow what its table holds before them.
LEMMA DestinationsFollow ==
    ASSUME Base, OneEach, NEW w \in pending \cup inflight
    PROVE  Path(table[w.seq], w.first + Len(w.blocks)) = Path(table[w.seq], w.first) \o w.blocks
<1> DEFINE t == table[w.seq]
           b == w.blocks
           d == w.first
<1>1. /\ d \in Nat /\ b \in Seq(Blocks) /\ t \in Seq(Blocks) /\ d + Len(b) = Len(t)
      /\ \A i \in DOMAIN b : t[d + i] = b[i]
  BY RequestFacts
<1> HIDE DEF t, b, d
<1>2. Len(b) \in Nat /\ DOMAIN b = 1..Len(b) /\ Len(t) \in Nat
  BY <1>1, ElementOf
<1>3. d + Len(b) \in Nat /\ d + Len(b) <= Len(t) /\ d <= Len(t)
  BY <1>1, <1>2
<1>4. /\ Path(t, d) \in Seq(Blocks) /\ Len(Path(t, d)) = d
      /\ \A i \in 1..d : Path(t, d)[i] = t[i]
  BY <1>1, <1>3, PathOf
<1>5. /\ Path(t, d + Len(b)) \in Seq(Blocks) /\ Len(Path(t, d + Len(b))) = d + Len(b)
      /\ \A i \in 1..(d + Len(b)) : Path(t, d + Len(b))[i] = t[i]
  BY <1>1, <1>3, PathOf
<1> DEFINE p == Path(t, d)
           q == Path(t, d + Len(b))
<1> HIDE DEF p, q
<1>6. /\ p \o b \in Seq(Blocks) /\ Len(p \o b) = d + Len(b)
      /\ \A i \in DOMAIN p : (p \o b)[i] = p[i]
      /\ \A i \in DOMAIN b : (p \o b)[d + i] = b[i]
  <2>1. p \in Seq(Blocks) /\ Len(p) = d /\ b \in Seq(Blocks)
    BY <1>1, <1>4 DEF p
  <2> QED
    BY <2>1, JoinAt
<1>7. DOMAIN p = 1..d
  BY <1>4, ElementOf DEF p
<1>8. ASSUME NEW i \in 1..(d + Len(b)) PROVE q[i] = (p \o b)[i]
  <2>1. q[i] = t[i]
    BY <1>5 DEF q
  <2>2. CASE i \in 1..d
    BY <1>4, <1>6, <1>7, <2>1, <2>2 DEF p
  <2>3. CASE i \notin 1..d
    <3>1. i - d \in DOMAIN b /\ d + (i - d) = i
      BY <1>1, <1>2, <2>3
    <3> QED
      BY <1>1, <1>6, <2>1, <3>1
  <2> QED
    BY <2>2, <2>3
<1>9. q \in Seq(Blocks) /\ Len(q) = d + Len(b)
  BY <1>5 DEF q
<1>10. q = p \o b
  BY <1>6, <1>8, <1>9, SeqEqual
<1> QED
  BY <1>10 DEF p, q, t, b, d

\* As long as a worker of some rank may write the destinations of a load, they
\* are its loading request's, behind the history, and of nobody else: no table,
\* trie node or save lease has them (KVLoadCoordinator._loads,
\* defer_stop_if_loading, defer_end_if_loading).
THEOREM DestinationsPrivate == Spec => []LoadsPrivate
<1>1. Inv => LoadsPrivate
  <2> SUFFICES ASSUME Inv, NEW w \in Outstanding
               PROVE  /\ IsLoading(w.seq)
                      /\ Path(table[w.seq], w.first + Len(w.blocks)) = Path(table[w.seq], w.first) \o w.blocks
                      /\ \A b \in InTable(w.blocks) :
                           /\ b \notin Cached(cache) \cup Leased(lease)
                           /\ \A s \in Seqs \ {w.seq} : b \notin InTable(table[s])
    BY DEF LoadsPrivate
  <2>1. w \in pending \cup inflight
    <3>1. CASE \E r \in Ranks : \E j \in loading[r] : w = j.req
      BY <3>1 DEF Inv, Flying
    <3>2. ASSUME NEW i \in DOMAIN queue, NEW r \in Ranks, launched[r] < i, w \in queue[i].loads
          PROVE  w \in inflight
      <4>1. i \in 1..Len(queue)
        BY SelfSeq DEF Inv, Pipe
      <4> QED
        BY <3>2, <4>1 DEF Inv, Flying
    <3>3. \/ w \in UNION {{j.req : j \in loading[r]} : r \in Ranks}
          \/ w \in UNION {queue[i].loads : i \in {k \in DOMAIN queue : \E r \in Ranks : launched[r] < k}}
          \/ w \in pending
      BY DEF Outstanding
    <3>4. ASSUME w \in UNION {{j.req : j \in loading[r]} : r \in Ranks}
          PROVE  \E r \in Ranks : \E j \in loading[r] : w = j.req
      BY <3>4
    <3>5. ASSUME w \in UNION {queue[i].loads : i \in {k \in DOMAIN queue : \E r \in Ranks : launched[r] < k}}
          PROVE  \E i \in DOMAIN queue : \E r \in Ranks : launched[r] < i /\ w \in queue[i].loads
      BY <3>5
    <3> QED
      BY <3>1, <3>2, <3>3, <3>4, <3>5
  <2> QED
    BY <2>1, RequestFacts, DestinationsFollow DEF Inv, Private, Mine
<1> QED
  BY <1>1, InvAlways, PTL

\* An engine that sleeps has no session, lease, record or promise left, and
\* every block is free (finish_kv_transfers_after_worker_drain,
\* reset_cache_after_worker_drain).
THEOREM SleepIsClean == Spec => []SleepLeavesNothing
<1>1. Inv => SleepLeavesNothing
  <2> SUFFICES ASSUME Inv, pc = "asleep"
               PROVE  /\ WithStatus("none") = Seqs
                      /\ Free = Blocks /\ DOMAIN lease = {}
                      /\ pending \cup inflight = {} /\ failed = {}
                      /\ \A s \in Seqs : load[s] = NoLoad /\ target[s] = 0 /\ plan[s] = 0
    BY DEF SleepLeavesNothing
  <2>1. /\ WithStatus("none") = Seqs /\ lease = <<>> /\ cache = <<>> /\ pending = {}
        /\ failed \subseteq Seqs
    BY DEF Inv, Base, Control, Frame
  <2>2. \A s \in Seqs : status[s] = "none" /\ Forgotten(s)
    BY <2>1 DEF WithStatus, Inv, Base, Records, RecordOf
  <2>3. DOMAIN <<>> = {}
    BY EmptyOf
  <2>4. Held(table) = {} /\ Cached(cache) = {} /\ Leased(lease) = {} /\ DOMAIN lease = {}
    <3>1. \A s \in Seqs : InTable(table[s]) = {}
      BY <2>2, <2>3 DEF Forgotten, InTable
    <3> QED
      BY <2>1, <2>3, <3>1 DEF Held, Cached, Leased
  <2>5. inflight = {}
    <3>1. \A w \in inflight : w.seq \in Seqs /\ status[w.seq] = "LOADING"
      BY RequestFacts DEF Inv
    <3> QED
      BY <2>2, <3>1
  <2> QED
    BY <2>1, <2>2, <2>4, <2>5 DEF Free, FreeWith, Forgotten
<1> QED
  BY <1>1, InvAlways, PTL

---------------------------------------------------------------------------
(* An ended request stays ended. *)

Ending(s) == status[s] = "LOADING" /\ load[s].cleanup = "END"
StaysEnded(s) ==
    status'[s] \in {"LOADING", "none"} /\ (status'[s] = "LOADING" => load'[s].cleanup = "END")
Untouched(s) == status'[s] = status[s] /\ load'[s] = load[s]

\* Ends that wait for a load keep those that waited before.
LEMMA EndAllKeeps ==
    ASSUME Base, NEW S \in SUBSET Seqs, EndAll(S), NEW s \in Seqs, Ending(s)
    PROVE  StaysEnded(s)
<1> DEFINE W == {v \in S : Deferred(v)}
<1>1. Remove(S \ W, table, Defer(W, "END")) /\ W \in SUBSET Seqs
  BY DEF EndAll
<1>2. Defer(W, "END")[s] = load[s] \/ Defer(W, "END")[s].cleanup = Cleanup(s, "END")
  BY <1>1, DeferFacts
<1>3. Defer(W, "END")[s].cleanup = "END"
  BY <1>2 DEF Ending, Cleanup
<1> HIDE DEF W
<1> QED
  BY <1>1, <1>3 DEF Remove, Ending, StaysEnded

LEMMA ClientKeeps ==
    ASSUME Base, NEW s \in Seqs, Ending(s), Client
    PROVE  StaysEnded(s)
<1>1. ASSUME NEW v \in Seqs, NEW p, AddMessage(v, p) PROVE Untouched(s)
  BY <1>1 DEF AddMessage, Untouched, Ending, coVars, Base, Frame
<1>2. ASSUME NEW v \in Seqs, StopSession(v) PROVE StaysEnded(s)
  <2>1. CASE Deferred(v) /\ load' = Defer({v}, "STOP") /\ status' = status
    <3>1. Defer({v}, "STOP")[s] = load[s] \/ Defer({v}, "STOP")[s].cleanup = Cleanup(s, "STOP")
      BY DeferFacts
    <3> QED
      BY <2>1, <3>1 DEF Ending, Cleanup, StaysEnded
  <2>2. CASE ~Deferred(v) /\ status' = [status EXCEPT ![v] = "STOPPED"] /\ load' = [load EXCEPT ![v] = NoLoad]
    <3>1. v # s
      BY <2>2 DEF Deferred, Ending, Base, Records, RecordOf
    <3> QED
      BY <2>2, <3>1 DEF Base, Frame, Ending, StaysEnded
  <2> QED
    BY <1>2, <2>1, <2>2 DEF StopSession
<1>3. ASSUME NEW v \in Seqs, EndSession(v) PROVE StaysEnded(s)
  BY <1>3, EndAllKeeps DEF EndSession
<1>4. CASE RequestSleep \/ Wake
  BY <1>4 DEF RequestSleep, Wake, seqVars, coVars, Ending, StaysEnded
<1> QED
  BY <1>1, <1>2, <1>3, <1>4 DEF Client, Untouched, Ending, StaysEnded

LEMMA AdmitKeeps ==
    ASSUME Base, NEW s \in Seqs, Ending(s), NEW v \in todo, Admit(v)
    PROVE  Untouched(s)
<1>1. ASSUME Candidate(v) PROVE v # s
  BY <1>1, CandidateFacts DEF Ending
<1>2. CASE SkipPendingLookup(v)
  BY <1>2 DEF SkipPendingLookup, Untouched, seqVars, coVars
<1>3. ASSUME NEW k \in Matches(v), SubmitLookup(v, k) \/ LoadDoesNotFit(v, k) \/ LocalDoesNotFit(v, k)
      PROVE  Untouched(s)
  BY <1>3 DEF SubmitLookup, LoadDoesNotFit, LocalDoesNotFit, Untouched, seqVars, coVars
<1>4. ASSUME NEW k \in Matches(v), StartLoad(v, k) PROVE Untouched(s)
  <2>1. /\ Candidate(v) /\ status' = [status EXCEPT ![v] = "LOADING"]
        /\ load' = [load EXCEPT ![v] = [phase |-> "LOADING", start |-> k, remote |-> Remote(v, k),
                                        cleanup |-> "none"]]
    BY <1>4 DEF StartLoad
  <2> QED
    BY <1>1, <2>1 DEF Untouched, Base, Frame
<1>5. ASSUME NEW k \in Matches(v), AdmitLocal(v, k) PROVE Untouched(s)
  <2>1. /\ Candidate(v) /\ status' = [status EXCEPT ![v] = "RUNNING"]
        /\ load' = IF RemoteReady(v) THEN [load EXCEPT ![v].phase = "PREFILLING"] ELSE load
    BY <1>5 DEF AdmitLocal, LocalOnly
  <2> QED
    BY <1>1, <2>1 DEF Untouched, Base, Frame
<1> QED
  BY <1>2, <1>3, <1>4, <1>5 DEF Admit

LEMMA EngineKeeps ==
    ASSUME Base, NEW s \in Seqs, Ending(s), Engine
    PROVE  StaysEnded(s)
<1>1. ASSUME Untouched(s) PROVE StaysEnded(s)
  BY <1>1 DEF Untouched, Ending, StaysEnded
<1>2. CASE Scheduling
  <2>1. CASE BeginPrefill \/ BeginDecode \/ EndPass
    BY <2>1 DEF BeginPrefill, BeginDecode, BeginPass, EndPass, seqVars, coVars, Untouched, Ending, StaysEnded
  <2> QED
    BY <1>1, <1>2, <2>1, AdmitKeeps DEF Scheduling
<1>3. CASE Collect \/ NoPrefetch
  BY <1>1, <1>3 DEF Collect, NoPrefetch, seqVars, coVars, Untouched
<1>4. ASSUME NEW v \in todo, Publish(v) PROVE StaysEnded(s)
  <2>1. /\ load[v].cleanup = "none" /\ status' = [status EXCEPT ![v] = "WAITING"]
        /\ load' = [load EXCEPT ![v].phase = "READY"]
    BY <1>4 DEF Publish
  <2>2. v # s
    BY <2>1 DEF Ending
  <2> QED
    BY <1>1, <2>1, <2>2 DEF Untouched, Base, Frame
<1>5. ASSUME NEW v \in todo, GiveUp(v) PROVE StaysEnded(s)
  <2>1. CASE load[v].cleanup = "END" /\ Remove({v}, table, load)
    BY <2>1 DEF Remove, Ending, StaysEnded
  <2>2. CASE load[v].cleanup # "END" /\ GivenBack(v)
    <3>1. v # s
      BY <2>2 DEF Ending
    <3> QED
      BY <1>1, <2>2, <3>1 DEF GivenBack, Untouched, Base, Frame
  <2> QED
    BY <1>5, <2>1, <2>2 DEF GiveUp, GivenBack
<1>6. ASSUME NEW finished, Outputs(finished) PROVE StaysEnded(s)
  <2> DEFINE alive == {v \in DOMAIN Head1.rows : status[v] = "RUNNING"}
  <2>1. /\ finished \subseteq alive
        /\ status' = [v \in Seqs |-> IF v \in finished THEN "STOPPED" ELSE status[v]]
        /\ load' = [v \in Seqs |-> IF v \in alive THEN NoLoad ELSE load[v]]
    BY <1>6 DEF Outputs
  <2>2. s \notin alive
    BY DEF Ending
  <2> HIDE DEF alive
  <2> QED
    BY <1>1, <2>1, <2>2 DEF Untouched
<1>7. CASE Drain
  <2>1. {v \in Seqs : status[v] # "none"} \in SUBSET Seqs
    OBVIOUS
  <2> QED
    BY <1>7, <2>1, EndAllKeeps DEF Drain
<1>8. CASE FinishSleep
  BY <1>8 DEF FinishSleep, Remove, Ending, StaysEnded
<1> QED
  BY <1>2, <1>3, <1>4, <1>5, <1>6, <1>7, <1>8 DEF Engine

LEMMA WorkersKeep ==
    ASSUME Workers, NEW s
    PROVE  Untouched(s)
  BY DEF Workers, Launch, LoadRun, SaveRun, GpuRun, LookupDone, seqVars, coVars, Untouched

\* Once a client has ended a request whose load is under way, nothing but its
\* removal can follow: a later stop, a failure or a late result does not bring
\* it back (_DeferredLoadCleanup, _finish_deferred_cleanup).
THEOREM EndIsFinal == Spec => EndWins
<1>1. Base /\ [Next]_vars =>
        [\A s \in Seqs : status[s] = "LOADING" /\ load[s].cleanup = "END"
           => status'[s] \in {"LOADING", "none"} /\ (status'[s] = "LOADING" => load'[s].cleanup = "END")]_vars
  <2> SUFFICES ASSUME Base, Next, NEW s \in Seqs, Ending(s) PROVE StaysEnded(s)
    BY DEF Ending, StaysEnded
  <2>1. CASE Workers
    BY <2>1, WorkersKeep DEF Untouched, Ending, StaysEnded
  <2> QED
    BY <2>1, ClientKeeps, EngineKeeps DEF Next
<1>2. Inv => Base
  BY DEF Inv
<1> QED
  BY <1>1, <1>2, InvAlways, PTL DEF Spec, EndWins

=============================================================================
