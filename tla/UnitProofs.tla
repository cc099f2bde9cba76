----------------------------- MODULE UnitProofs -----------------------------
(***************************************************************************)
(* Six units that work by themselves, for every value of their             *)
(* constants.                                                              *)
(*                                                                         *)
(* The int8 product: how long a row may be for its 32-bit accumulator to   *)
(* be precise (K * 127^2 <= 2^31 - 1, that is K <= 133144).  A mixture of  *)
(* experts: every token is given what its experts made of it.  Rotary      *)
(* embedding and ALiBi: chunks make the whole, and scores depend on the    *)
(* distance alone.  Tensors: blocks have one owner, live tensors never     *)
(* overlap, and so a tensor keeps its contents.  The tracer and the        *)
(* profiler: the trace nests, and the statistics are possible ones.  The   *)
(* blocked matrix product: it is the reference's, whatever its tile.       *)
(***************************************************************************)
EXTENDS Accumulator, MoE, Positional, Tensors, Profiling, FiniteSetTheorems, SequenceTheorems, TLAPS

---------------------------------------------------------------------------
(* The accumulator of the int8 product *)

\* The inductive invariant: the total is bounded by the blocks it is of, and
\* the accumulator has not wrapped.
AccumulatorInv ==
  /\ k \in 0 .. Blocks
  /\ total \in Int
  /\ -(k * MaxProduct) <= total /\ total <= k * MaxProduct
  /\ acc = Run * total

\* A product of bounded factors is bounded.
LEMMA ScaledBound ==
  ASSUME NEW r \in Nat, NEW t \in Int, NEW b \in Nat, -b <= t, t <= b
  PROVE  -(r * b) <= r * t /\ r * t <= r * b
<1>1. r * t <= r * b
  <2>1. b - t \in Nat
    OBVIOUS
  <2>2. r * (b - t) >= 0
    BY <2>1, SMT
  <2>3. r * (b - t) = r * b - r * t
    BY SMT
  <2> QED
    BY <2>2, <2>3
<1>2. -(r * b) <= r * t
  <2>1. b + t \in Nat
    OBVIOUS
  <2>2. r * (b + t) >= 0
    BY <2>1, SMT
  <2>3. r * (b + t) = r * b + r * t
    BY SMT
  <2> QED
    BY <2>2, <2>3
<1> QED
  BY <1>1, <1>2

\* Sums in range are not wrapped.
LEMMA WrappedInRange ==
  ASSUME NEW a \in Int, NEW p \in Int, AccMin <= a + p, a + p <= AccMax
  PROVE  Wrapped(a, p) = a + p
BY SMT DEF Wrapped, AccMin, AccMax

\* Within a bound that is in range nothing wraps.
LEMMA NoWrap ==
  ASSUME NEW a \in Int, NEW p \in Int, NEW n \in Nat, n <= AccMax, -n <= a + p, a + p <= n
  PROVE  Wrapped(a, p) = a + p
<1>1. AccMin <= a + p /\ a + p <= AccMax
  BY SMT DEF AccMin, AccMax
<1> QED
  BY <1>1, WrappedInRange

\* What the constants of the product are.
LEMMA MaxProductValue == MaxProduct = 16129
BY DEF MaxProduct

\* They are numbers.
LEMMA AccumulatorTypes == MaxProduct \in Nat /\ Blocks \in Nat /\ Run \in Nat
<1>1. MaxProduct \in Nat
  BY MaxProductValue
<1>2. Blocks \in Nat /\ Run \in Nat
  BY AccumulatorAssumption, Zenon
<1> QED
  BY <1>1, <1>2

\* More factors of one size are at least as much.
LEMMA MoreIsMore ==
  ASSUME NEW b \in Nat, NEW c \in Nat, NEW m \in Nat, b <= c
  PROVE  b * m <= c * m /\ b * m \in Nat /\ c * m \in Nat
<1>1. (c - b) * m >= 0
  OBVIOUS
<1>2. (c - b) * m = c * m - b * m
  OBVIOUS
<1> QED
  BY <1>1, <1>2

\* A step keeps the invariant as long as the row is short enough.
LEMMA AccumulatorStep ==
  ASSUME Blocks * (Run * MaxProduct) <= AccMax, AccumulatorInv, [AccumulatorNext]_accumulatorVars
  PROVE  AccumulatorInv'
<1>1. CASE UNCHANGED accumulatorVars
  BY <1>1 DEF accumulatorVars, AccumulatorInv
<1>2. ASSUME NEW p \in Products, Mac(p) PROVE AccumulatorInv'
  <2> DEFINE n == Run * (Blocks * MaxProduct)
             t == total + p
  <2>1. MaxProduct \in Nat /\ Blocks \in Nat /\ Run \in Nat
    BY AccumulatorTypes
  <2>2. p \in Int /\ -MaxProduct <= p /\ p <= MaxProduct
    BY AccumulatorAssumption, <2>1
  <2>3. k \in Nat /\ k + 1 <= Blocks /\ total \in Int /\ acc = Run * total
    BY <1>2, AccumulatorAssumption DEF Mac, AccumulatorInv
  <2>4. k' = k + 1 /\ total' = t /\ acc' = Wrapped(Run * total, Run * p)
    BY <1>2, <2>3 DEF Mac
  <2>5. -((k + 1) * MaxProduct) <= t /\ t <= (k + 1) * MaxProduct
    <3>1. (k + 1) * MaxProduct = k * MaxProduct + MaxProduct /\ k * MaxProduct \in Nat
      BY <2>1, <2>3
    <3>2. -(k * MaxProduct) <= total /\ total <= k * MaxProduct
      BY DEF AccumulatorInv
    <3> QED
      BY <3>1, <3>2, <2>1, <2>2, <2>3
  <2>6. -(Blocks * MaxProduct) <= t /\ t <= Blocks * MaxProduct /\ Blocks * MaxProduct \in Nat
    <3>1. /\ (k + 1) * MaxProduct <= Blocks * MaxProduct
          /\ (k + 1) * MaxProduct \in Nat /\ Blocks * MaxProduct \in Nat
      BY <2>1, <2>3, MoreIsMore
    <3> QED
      BY <3>1, <2>2, <2>3, <2>5
  <2>7. t \in Int
    BY <2>2, <2>3
  <2>8. -n <= Run * t /\ Run * t <= n
    BY <2>1, <2>6, <2>7, ScaledBound
  <2>9. n = Blocks * (Run * MaxProduct) /\ n \in Nat
    BY <2>1
  <2>10. /\ Run * t = Run * total + Run * p
         /\ Run * total \in Int /\ Run * p \in Int
    BY <2>1, <2>2, <2>3
  <2>11. acc' = Run * t
    <3> DEFINE a == Run * total
               b == Run * p
    <3>1. n \in Nat /\ n <= AccMax
      BY <2>9
    <3>2. -n <= a + b /\ a + b <= n
      BY <2>8, <2>10
    <3>3. a \in Int /\ b \in Int /\ acc' = Wrapped(a, b) /\ Run * t = a + b
      BY <2>4, <2>10
    <3> HIDE DEF n, a, b, t
    <3> QED
      BY <3>1, <3>2, <3>3, NoWrap
  <2> QED
    BY <2>1, <2>3, <2>4, <2>5, <2>7, <2>11 DEF AccumulatorInv
<1> QED
  BY <1>1, <1>2 DEF AccumulatorNext

\* The remainder and the quotient of a multiple.
LEMMA MultipleOf ==
  ASSUME NEW r \in Nat \ {0}, NEW t \in Int
  PROVE  (r * t) % r = 0 /\ (r * t) \div r = t
OBVIOUS

\* The accumulator of gemm_w8a8 is precise for every row of at most 133144
\* entries, whatever their products; the run shows 131072 entries of five of
\* them.
THEOREM PreciseUpToLimit ==
  ASSUME Blocks * (Run * MaxProduct) <= AccMax
  PROVE  AccumulatorSpec => []AccumulatorPrecise
<1>1. AccumulatorInit => AccumulatorInv
  <2>1. Run \in Nat /\ Blocks \in Nat /\ MaxProduct \in Nat
    BY AccumulatorTypes
  <2>2. Run * 0 = 0 /\ 0 * MaxProduct = 0 /\ 0 <= Blocks
    BY <2>1
  <2> QED
    BY <2>1, <2>2 DEF AccumulatorInit, AccumulatorInv
<1>2. AccumulatorInv /\ [AccumulatorNext]_accumulatorVars => AccumulatorInv'
  BY AccumulatorStep
<1>3. AccumulatorInv => AccumulatorPrecise
  BY MultipleOf, AccumulatorAssumption DEF AccumulatorInv, AccumulatorPrecise
<1> QED
  BY <1>1, <1>2, <1>3, PTL DEF AccumulatorSpec


---------------------------------------------------------------------------
(* Where dispatch puts the slots: their rank by expert and position *)

\* There is something to route.
Routable == Tokens \in Nat \ {0} /\ Experts \in Nat \ {0} /\ Chosen \in Nat \ {0}

\* The experts of a token are distinct.
Routed(ids) ==
  /\ ids \in [Slots -> E]
  /\ \A s1, s2 \in Slots : s1 # s2 /\ s1 \div Chosen = s2 \div Chosen => ids[s1] # ids[s2]

\* The slots in the lanes before that of e, those of expert e below n, and
\* those that go before slot r; and how many they are.
Lower(ids, e) == {s \in Slots : ids[s] < e}
Lane(ids, e, n) == {s \in Slots : ids[s] = e /\ s < n}
Ahead(ids, r) == {s \in Slots : ids[s] < ids[r] \/ (ids[s] = ids[r] /\ s < r)}
Off(ids, e) == Cardinality(Lower(ids, e))
Cnt(ids, e, n) == Cardinality(Lane(ids, e, n))
Rank(ids, r) == Cardinality(Ahead(ids, r))

\* A slot is a token and one of its choices.
LEMMA SlotParts ==
  ASSUME Routable
  PROVE  /\ Tokens * Chosen \in Nat \ {0}
         /\ \A r \in Slots : /\ r \in Nat /\ r < Tokens * Chosen
                             /\ r \div Chosen \in T /\ r % Chosen \in 0 .. Chosen - 1
                             /\ (r \div Chosen) * Chosen + (r % Chosen) = r
<1>1. Tokens * Chosen \in Nat \ {0}
  BY SMT DEF Routable
<1>2. ASSUME NEW r \in Slots
      PROVE  /\ r \in Nat /\ r < Tokens * Chosen
             /\ r \div Chosen \in T /\ r % Chosen \in 0 .. Chosen - 1
             /\ (r \div Chosen) * Chosen + (r % Chosen) = r
  <2>1. r \in Nat /\ r < Tokens * Chosen /\ Chosen \in Nat \ {0} /\ Tokens \in Nat
    BY <1>1 DEF Slots, Routable
  <2> DEFINE u == r \div Chosen
             v == r % Chosen
  <2>2. u \in Nat /\ v \in 0 .. Chosen - 1 /\ u * Chosen + v = r
    BY <2>1
  <2> HIDE DEF u, v
  <2>3. u < Tokens
    <3>1. SUFFICES ASSUME Tokens <= u PROVE FALSE
      BY <2>1, <2>2
    <3>2. Tokens * Chosen <= u * Chosen /\ u * Chosen \in Nat
      BY <2>1, <2>2, <3>1, MoreIsMore
    <3> QED
      BY <1>1, <2>1, <2>2, <3>2
  <2> QED
    BY <2>1, <2>2, <2>3 DEF T, u, v
<1> QED
  BY <1>1, <1>2

\* All of these are finite sets of slots.
LEMMA SlotSets ==
  ASSUME Routable
  PROVE  /\ IsFiniteSet(Slots) /\ Cardinality(Slots) = Tokens * Chosen
         /\ \A A \in SUBSET Slots : IsFiniteSet(A) /\ Cardinality(A) \in Nat
         /\ \A A, B \in SUBSET Slots : A \subseteq B => Cardinality(A) <= Cardinality(B)
         /\ \A A \in SUBSET Slots : \A r \in Slots :
              r \notin A => Cardinality(A \cup {r}) = Cardinality(A) + 1
<1>1. IsFiniteSet(Slots) /\ Cardinality(Slots) = Tokens * Chosen
  <2> DEFINE n == Tokens * Chosen
  <2>1. n \in Nat \ {0}
    BY SlotParts
  <2> HIDE DEF n
  <2>2. IsFiniteSet(0 .. n - 1) /\ Cardinality(0 .. n - 1) = n
    BY <2>1, FS_Interval
  <2> QED
    BY <2>2 DEF Slots, n
<1>2. \A A \in SUBSET Slots : IsFiniteSet(A) /\ Cardinality(A) \in Nat
  BY <1>1, FS_Subset, FS_CardinalityType
<1>3. \A A, B \in SUBSET Slots : A \subseteq B => Cardinality(A) <= Cardinality(B)
  BY <1>2, FS_Subset
<1>4. \A A \in SUBSET Slots : \A r \in Slots :
        r \notin A => Cardinality(A \cup {r}) = Cardinality(A) + 1
  BY <1>2, FS_AddElement
<1> QED
  BY <1>1, <1>2, <1>3, <1>4

\* Sets of slots that have none in common have as many as both together.
LEMMA DisjointSlots ==
  ASSUME Routable, NEW A \in SUBSET Slots, NEW B \in SUBSET Slots, A \cap B = {}
  PROVE  Cardinality(A \cup B) = Cardinality(A) + Cardinality(B)
<1>1. /\ IsFiniteSet(A) /\ IsFiniteSet(B)
      /\ Cardinality(A) \in Nat /\ Cardinality(B) \in Nat
  BY SlotSets
<1>2. Cardinality(A \cup B) = Cardinality(A) + Cardinality(B) - Cardinality(A \cap B)
  BY <1>1, FS_Union
<1>3. Cardinality(A \cap B) = 0
  BY FS_EmptySet
<1> QED
  BY <1>1, <1>2, <1>3

\* Ranks are in the order of experts, and of positions within an expert.
LEMMA RankOrder ==
  ASSUME Routable, NEW ids, Routed(ids), NEW r1 \in Slots, NEW r2 \in Slots,
         ids[r1] < ids[r2] \/ (ids[r1] = ids[r2] /\ r1 < r2)
  PROVE  Rank(ids, r1) \in Nat /\ Rank(ids, r2) \in Nat /\ Rank(ids, r1) < Rank(ids, r2)
<1>1. \A s \in Slots : s \in Int /\ ids[s] \in Int
  BY SlotParts DEF Routed, E, Routable
<1>2. Ahead(ids, r1) \in SUBSET Slots /\ Ahead(ids, r2) \in SUBSET Slots
  BY DEF Ahead
<1>3. r1 \notin Ahead(ids, r1)
  BY <1>1 DEF Ahead
<1>4. Ahead(ids, r1) \cup {r1} \subseteq Ahead(ids, r2)
  BY <1>1 DEF Ahead
<1>5. Cardinality(Ahead(ids, r1) \cup {r1}) = Cardinality(Ahead(ids, r1)) + 1
  BY <1>2, <1>3, SlotSets
<1>6. Cardinality(Ahead(ids, r1) \cup {r1}) <= Cardinality(Ahead(ids, r2))
  BY <1>2, <1>4, SlotSets
<1>7. Cardinality(Ahead(ids, r1)) \in Nat /\ Cardinality(Ahead(ids, r2)) \in Nat
  BY <1>2, SlotSets
<1> QED
  BY <1>5, <1>6, <1>7 DEF Rank

\* Dispatch is a permutation of the slots.
LEMMA RankBijective ==
  ASSUME Routable, NEW ids, Routed(ids)
  PROVE  /\ \A r \in Slots : Rank(ids, r) \in Slots
         /\ \A r1, r2 \in Slots : Rank(ids, r1) = Rank(ids, r2) => r1 = r2
         /\ \A p \in Slots : \E r \in Slots : Rank(ids, r) = p
<1>1. \A s \in Slots : s \in Int /\ ids[s] \in Int
  BY SlotParts DEF Routed, E, Routable
<1>2. ASSUME NEW r \in Slots PROVE Rank(ids, r) \in Slots
  <2>1. Ahead(ids, r) \in SUBSET Slots /\ r \notin Ahead(ids, r)
    BY <1>1 DEF Ahead
  <2>2. Cardinality(Ahead(ids, r) \cup {r}) = Cardinality(Ahead(ids, r)) + 1
    BY <2>1, SlotSets
  <2>3. Cardinality(Ahead(ids, r) \cup {r}) <= Cardinality(Slots)
    <3>1. Ahead(ids, r) \cup {r} \in SUBSET Slots
      BY <2>1
    <3> QED
      BY <3>1, SlotSets
  <2>4. Cardinality(Ahead(ids, r)) \in Nat /\ Cardinality(Slots) = Tokens * Chosen
    BY <2>1, SlotSets
  <2> QED
    BY <2>2, <2>3, <2>4, SlotParts DEF Slots, Rank
<1>3. ASSUME NEW r1 \in Slots, NEW r2 \in Slots, Rank(ids, r1) = Rank(ids, r2)
      PROVE  r1 = r2
  <2>1. \/ r1 = r2
        \/ ids[r1] < ids[r2] \/ (ids[r1] = ids[r2] /\ r1 < r2)
        \/ ids[r2] < ids[r1] \/ (ids[r2] = ids[r1] /\ r2 < r1)
    BY <1>1
  <2> QED
    BY <1>3, <2>1, RankOrder
<1>4. ASSUME NEW p \in Slots PROVE \E r \in Slots : Rank(ids, r) = p
  <2> DEFINE f == [r \in Slots |-> Rank(ids, r)]
  <2>1. f \in Injection(Slots, Slots)
    BY <1>2, <1>3 DEF Injection, IsInjective
  <2>2. f \in Surjection(Slots, Slots)
    BY <2>1, SlotSets, FS_Injection
  <2> QED
    BY <2>2 DEF Surjection
<1> QED
  BY <1>2, <1>3, <1>4

\* The rank of a slot is its place in the lane of its expert.
LEMMA RankInLane ==
  ASSUME Routable, NEW ids, Routed(ids), NEW r \in Slots
  PROVE  Rank(ids, r) = Off(ids, ids[r]) + Cnt(ids, ids[r], r)
<1>1. \A s \in Slots : s \in Int /\ ids[s] \in Int
  BY SlotParts DEF Routed, E, Routable
<1> DEFINE A == Lower(ids, ids[r])
           B == Lane(ids, ids[r], r)
<1>2. A \in SUBSET Slots /\ B \in SUBSET Slots
  BY DEF Lower, Lane
<1>3. A \cap B = {} /\ Ahead(ids, r) = A \cup B
  BY <1>1 DEF Lower, Lane, Ahead
<1>4. Cardinality(A \cup B) = Cardinality(A) + Cardinality(B)
  <2>1. A \cap B = {}
    BY <1>3
  <2> HIDE DEF A, B
  <2> QED
    BY <1>2, <2>1, DisjointSlots
<1> QED
  BY <1>3, <1>4 DEF Rank, Off, Cnt

\* The lanes follow each other, from the first slot to the last.
LEMMA OffSteps ==
  ASSUME Routable, NEW ids, Routed(ids)
  PROVE  /\ Off(ids, 0) = 0 /\ Off(ids, Experts) = Tokens * Chosen
         /\ \A e \in 0 .. Experts : Off(ids, e) \in Nat
         /\ \A e \in E : Off(ids, e + 1) = Off(ids, e) + Cnt(ids, e, Tokens * Chosen)
<1>1. \A s \in Slots : s \in Int /\ s < Tokens * Chosen /\ ids[s] \in Nat /\ ids[s] < Experts
  BY SlotParts DEF Routed, E, Routable
<1>2. \A e : Lower(ids, e) \in SUBSET Slots
  BY DEF Lower
<1>3. Lower(ids, 0) = {} /\ Lower(ids, Experts) = Slots
  BY <1>1 DEF Lower
<1>4. ASSUME NEW e \in E PROVE Off(ids, e + 1) = Off(ids, e) + Cnt(ids, e, Tokens * Chosen)
  <2> DEFINE A == Lower(ids, e)
             B == Lane(ids, e, Tokens * Chosen)
  <2>1. e \in Int
    BY DEF E, Routable
  <2>2. A \cap B = {} /\ Lower(ids, e + 1) = A \cup B
    BY <1>1, <2>1 DEF Lower, Lane
  <2>3. A \in SUBSET Slots /\ B \in SUBSET Slots
    BY DEF Lower, Lane
  <2>4. Cardinality(A \cup B) = Cardinality(A) + Cardinality(B)
    <3>1. A \cap B = {}
      BY <2>2
    <3> HIDE DEF A, B
    <3> QED
      BY <2>3, <3>1, DisjointSlots
  <2> QED
    BY <2>2, <2>4 DEF Off, Cnt
<1> QED
  BY <1>2, <1>3, <1>4, SlotSets, FS_EmptySet DEF Off

\* A lane grows by the slots that are its own.
LEMMA CntSteps ==
  ASSUME Routable, NEW ids, Routed(ids), NEW n \in Slots
  PROVE  \A e \in E : /\ Cnt(ids, e, 0) = 0 /\ Cnt(ids, e, n) \in Nat
                      /\ Cnt(ids, e, n + 1) = IF ids[n] = e THEN Cnt(ids, e, n) + 1
                                                            ELSE Cnt(ids, e, n)
<1>1. \A s \in Slots : s \in Nat
  BY SlotParts
<1> SUFFICES ASSUME NEW e \in E
             PROVE  /\ Cnt(ids, e, 0) = 0 /\ Cnt(ids, e, n) \in Nat
                    /\ Cnt(ids, e, n + 1) = IF ids[n] = e THEN Cnt(ids, e, n) + 1
                                                          ELSE Cnt(ids, e, n)
  OBVIOUS
<1>2. Lane(ids, e, 0) = {} /\ Lane(ids, e, n) \in SUBSET Slots /\ n \notin Lane(ids, e, n)
  BY <1>1 DEF Lane
<1>3. Lane(ids, e, n + 1) = IF ids[n] = e THEN Lane(ids, e, n) \cup {n} ELSE Lane(ids, e, n)
  BY <1>1 DEF Lane
<1>4. Cardinality(Lane(ids, e, n) \cup {n}) = Cardinality(Lane(ids, e, n)) + 1
  BY <1>2, SlotSets
<1> QED
  BY <1>2, <1>3, <1>4, SlotSets, FS_EmptySet DEF Cnt

\* Between the offsets of an expert lie the ranks of its slots.
LEMMA RankOfLane ==
  ASSUME Routable, NEW ids, Routed(ids), NEW r \in Slots, NEW e \in E
  PROVE  Rank(ids, r) \in Off(ids, e) .. Off(ids, e + 1) - 1 <=> ids[r] = e
<1>1. \A s \in Slots : s \in Int /\ ids[s] \in Int
  BY SlotParts DEF Routed, E, Routable
<1>2. e \in Int
  BY DEF E, Routable
<1>3. /\ Ahead(ids, r) \in SUBSET Slots /\ r \notin Ahead(ids, r)
      /\ Lower(ids, e) \in SUBSET Slots /\ Lower(ids, e + 1) \in SUBSET Slots
  BY <1>1 DEF Ahead, Lower
<1>4. /\ Rank(ids, r) \in Nat /\ Off(ids, e) \in Nat /\ Off(ids, e + 1) \in Nat
      /\ Cardinality(Ahead(ids, r) \cup {r}) = Rank(ids, r) + 1
  BY <1>3, SlotSets DEF Rank, Off
<1>5. ids[r] < e => Rank(ids, r) + 1 <= Off(ids, e)
  <2>1. ids[r] < e => Ahead(ids, r) \cup {r} \subseteq Lower(ids, e)
    BY <1>1, <1>2 DEF Ahead, Lower
  <2> QED
    BY <1>3, <1>4, <2>1, SlotSets DEF Off
<1>6. ids[r] > e => Off(ids, e + 1) <= Rank(ids, r)
  <2>1. ids[r] > e => Lower(ids, e + 1) \subseteq Ahead(ids, r)
    BY <1>1, <1>2 DEF Ahead, Lower
  <2> QED
    BY <1>3, <2>1, SlotSets DEF Off, Rank
<1>7. ids[r] = e => Off(ids, e) <= Rank(ids, r) /\ Rank(ids, r) + 1 <= Off(ids, e + 1)
  <2>1. ids[r] = e => /\ Lower(ids, e) \subseteq Ahead(ids, r)
                      /\ Ahead(ids, r) \cup {r} \subseteq Lower(ids, e + 1)
    BY <1>1, <1>2 DEF Ahead, Lower
  <2> QED
    BY <1>3, <1>4, <2>1, SlotSets DEF Off, Rank
<1> QED
  BY <1>1, <1>2, <1>4, <1>5, <1>6, <1>7

---------------------------------------------------------------------------
(* The invariant of the block *)

\* What combine adds for a slot, and the slots of a token it has come to.
Term(ids, r) == <<r, <<ids[r], <<r \div Chosen>>>>>>
Terms(ids) == {Term(ids, r) : r \in Slots}
Taken(ids, t, n) == {r \in Slots : r \div Chosen = t /\ Rank(ids, r) < n}

\* The first n slots are in their places.
Placed(n) ==
  \A r \in Slots : r < n =>
    /\ token_idx[Rank(expert_ids, r)] = r \div Chosen
    /\ slot_idx[Rank(expert_ids, r)] = r % Chosen
    /\ inputs[Rank(expert_ids, r)] = <<r \div Chosen>>

\* The experts below e have computed their lanes.
Computed(e) ==
  \A r \in Slots : expert_ids[r] < e =>
    outputs[Rank(expert_ids, r)] = <<expert_ids[r], <<r \div Chosen>>>>

\* The sequence consists of the terms of the slots in S, one each, by experts.
SumOf(ids, out, S) ==
  /\ out \in Seq(Terms(ids))
  /\ Len(out) = Cardinality(S)
  /\ Range(out) = {Term(ids, r) : r \in S}
  /\ \A i, j \in 1 .. Len(out) : i < j => out[i][2][1] < out[j][2][1]

\* The first n rows have been added to the outputs of their tokens.
Added(n) == \A t \in T : SumOf(expert_ids, output[t], Taken(expert_ids, t, n))

MoETypeOK ==
  /\ pc \in {"count", "prefix", "place", "mlp", "combine", "done"}
  /\ at \in Nat
  /\ pc \in {"count", "place", "combine"} => at < Tokens * Chosen
  /\ pc \in {"prefix", "mlp"} => at < Experts
  /\ counts \in [E -> Nat] /\ offsets \in [0 .. Experts -> Nat]
  /\ token_idx \in [Slots -> Int] /\ slot_idx \in [Slots -> Int]
  /\ inputs = [s \in Slots |-> inputs[s]] /\ outputs = [s \in Slots |-> outputs[s]]
  /\ output = [t \in T |-> output[t]]

\* Counting and then placing, each lane has as many slots as were seen of it;
\* the offsets are those of the lanes; rows are placed, computed and added in
\* the places dispatch gave them.
MoEInv ==
  /\ Routed(expert_ids)
  /\ MoETypeOK
  /\ pc = "count" => offsets = [e \in 0 .. Experts |-> 0]
  /\ pc \in {"count", "place"} => \A e \in E : counts[e] = Cnt(expert_ids, e, at)
  /\ pc = "prefix" => /\ \A e \in E : counts[e] = Cnt(expert_ids, e, Tokens * Chosen)
                      /\ \A e \in 0 .. at : offsets[e] = Off(expert_ids, e)
  /\ pc \in {"place", "mlp", "combine", "done"} =>
       \A e \in 0 .. Experts : offsets[e] = Off(expert_ids, e)
  /\ pc = "place" => Placed(at)
  /\ pc \in {"mlp", "combine", "done"} => Placed(Tokens * Chosen)
  /\ pc = "mlp" => Computed(at)
  /\ pc \in {"combine", "done"} => Computed(Experts)
  /\ pc \in {"count", "prefix", "place", "mlp"} => Added(0)
  /\ pc = "combine" => Added(at)
  /\ pc = "done" => Added(Tokens * Chosen)

\* The invariant holds at first.
LEMMA MoEStart == Routable /\ MoEInit => MoEInv
<1> SUFFICES ASSUME Routable, MoEInit PROVE MoEInv
  OBVIOUS
<1>1. Routed(expert_ids)
  BY DEF MoEInit, Routed
<1>2. MoETypeOK
  BY SlotParts DEF MoEInit, MoETypeOK, Routable, Unset
<1>3. \A e \in E : Cnt(expert_ids, e, 0) = 0
  <2>1. 0 \in Slots
    BY SlotParts DEF Slots
  <2> QED
    BY <1>1, <2>1, CntSteps
<1>4. \A e \in E : counts[e] = Cnt(expert_ids, e, at)
  BY <1>3 DEF MoEInit
<1>5. Added(0)
  <2> SUFFICES ASSUME NEW t \in T
               PROVE  SumOf(expert_ids, output[t], Taken(expert_ids, t, 0))
    BY DEF Added
  <2>1. \A r \in Slots : Rank(expert_ids, r) \in Nat
    BY <1>1, RankBijective, SlotParts
  <2>2. Taken(expert_ids, t, 0) = {}
    BY <2>1 DEF Taken
  <2>3. output[t] = <<>>
    BY DEF MoEInit
  <2> QED
    BY <2>2, <2>3, FS_EmptySet DEF SumOf, Range
<1> QED
  BY <1>1, <1>2, <1>4, <1>5 DEF MoEInit, MoEInv

\* Counting.
LEMMA CountStep ==
  ASSUME Routable, MoEInv, Count
  PROVE  MoEInv'
<1> DEFINE N == Tokens * Chosen
<1>1. /\ expert_ids' = expert_ids /\ offsets' = offsets /\ token_idx' = token_idx
      /\ slot_idx' = slot_idx /\ inputs' = inputs /\ outputs' = outputs /\ output' = output
      /\ pc = "count"
  BY DEF Count, dispatched
<1>2. at \in Slots /\ at \in Nat /\ at < N /\ N \in Nat \ {0} /\ 0 \in 0 .. Experts
  BY <1>1, SlotParts DEF MoEInv, MoETypeOK, Slots, Routable
<1>3. Routed(expert_ids) /\ expert_ids[at] \in E
  BY <1>2 DEF MoEInv, Routed
<1>4. \A e \in E : counts'[e] = Cnt(expert_ids, e, at + 1)
  <2>1. \A e \in E : counts[e] = Cnt(expert_ids, e, at)
    BY <1>1 DEF MoEInv
  <2>2. counts' = [counts EXCEPT ![expert_ids[at]] = @ + 1] /\ counts \in [E -> Nat]
    BY DEF Count, MoEInv, MoETypeOK
  <2> QED
    BY <1>2, <1>3, <2>1, <2>2, CntSteps
<1>5. counts' \in [E -> Nat]
  BY <1>3 DEF Count, MoEInv, MoETypeOK
<1>6. \/ at + 1 < N /\ pc' = "count" /\ at' = at + 1
      \/ at + 1 = N /\ pc' = "prefix" /\ at' = 0
  BY <1>1, <1>2 DEF Count, Turn
<1> HIDE DEF N
<1>7. MoETypeOK'
  BY <1>1, <1>2, <1>5, <1>6 DEF MoEInv, MoETypeOK, Routable, N
<1>8. \A t \in T : SumOf(expert_ids, output[t], Taken(expert_ids, t, 0))
  BY <1>1 DEF MoEInv, Added
<1>9. Added(0)'
  BY <1>1, <1>8 DEF Added
<1>10. offsets = [e \in 0 .. Experts |-> 0]
  BY <1>1 DEF MoEInv
<1>11. Off(expert_ids, 0) = 0
  BY <1>3, OffSteps
<1>12. CASE pc' = "count"
  <2>1. at' = at + 1
    BY <1>6, <1>12
  <2> QED
    BY <1>1, <1>3, <1>4, <1>7, <1>9, <1>10, <1>12, <2>1 DEF MoEInv
<1>13. CASE pc' = "prefix"
  <2>1. at' = 0 /\ at + 1 = N
    BY <1>6, <1>13
  <2>2. \A e \in 0 .. 0 : offsets[e] = Off(expert_ids, e)
    BY <1>2, <1>10, <1>11
  <2> QED
    BY <1>1, <1>3, <1>4, <1>7, <1>9, <1>13, <2>1, <2>2 DEF MoEInv, N
<1> QED
  BY <1>6, <1>12, <1>13

\* Adding up.
LEMMA PrefixStep ==
  ASSUME Routable, MoEInv, Prefix
  PROVE  MoEInv'
<1>1. /\ expert_ids' = expert_ids /\ token_idx' = token_idx
      /\ slot_idx' = slot_idx /\ inputs' = inputs /\ outputs' = outputs /\ output' = output
      /\ pc = "prefix"
  BY DEF Prefix, dispatched
<1>2. /\ at \in E /\ at \in Nat /\ at + 1 \in 0 .. Experts /\ at \in 0 .. at
      /\ Experts \in Nat \ {0} /\ Tokens * Chosen \in Nat \ {0} /\ 0 \in Slots
  BY <1>1, SlotParts DEF MoEInv, MoETypeOK, E, Routable, Slots
<1>3. Routed(expert_ids)
  BY DEF MoEInv
<1>4. offsets[at] = Off(expert_ids, at) /\ counts[at] = Cnt(expert_ids, at, Tokens * Chosen)
  BY <1>1, <1>2 DEF MoEInv
<1>5. offsets' = [offsets EXCEPT ![at + 1] = Off(expert_ids, at + 1)]
  BY <1>2, <1>3, <1>4, OffSteps DEF Prefix, Offset
<1>6. offsets' \in [0 .. Experts -> Nat]
  BY <1>2, <1>3, <1>5, OffSteps DEF MoEInv, MoETypeOK
<1>7. \A e \in 0 .. at + 1 : offsets'[e] = Off(expert_ids, e)
  <2>1. \A e \in 0 .. at : offsets[e] = Off(expert_ids, e)
    BY <1>1 DEF MoEInv
  <2>2. offsets \in [0 .. Experts -> Nat]
    BY DEF MoEInv, MoETypeOK
  <2> QED
    BY <1>2, <1>5, <2>1, <2>2
<1>8. \/ at + 1 < Experts /\ pc' = "prefix" /\ at' = at + 1 /\ counts' = counts
      \/ at + 1 = Experts /\ pc' = "place" /\ at' = 0 /\ counts' = [e \in E |-> 0]
  BY <1>1, <1>2 DEF Prefix, Turn
<1>9. counts' \in [E -> Nat]
  BY <1>8 DEF MoEInv, MoETypeOK
<1>10. MoETypeOK'
  <2>1. /\ token_idx' \in [Slots -> Int] /\ slot_idx' \in [Slots -> Int]
        /\ inputs' = [s \in Slots |-> inputs'[s]] /\ outputs' = [s \in Slots |-> outputs'[s]]
        /\ output' = [t \in T |-> output'[t]]
    BY <1>1 DEF MoEInv, MoETypeOK
  <2>2. /\ pc' \in {"prefix", "place"} /\ at' \in Nat
        /\ pc' = "prefix" => at' < Experts
        /\ pc' = "place" => at' < Tokens * Chosen
    BY <1>2, <1>8
  <2> QED
    BY <1>6, <1>9, <2>1, <2>2 DEF MoETypeOK
<1>11. Added(0)'
  <2>1. \A t \in T : SumOf(expert_ids, output[t], Taken(expert_ids, t, 0))
    BY <1>1 DEF MoEInv, Added
  <2> QED
    BY <1>1, <2>1 DEF Added
<1>12. CASE pc' = "prefix"
  <2>1. at' = at + 1 /\ counts' = counts
    BY <1>8, <1>12
  <2>2. \A e \in E : counts[e] = Cnt(expert_ids, e, Tokens * Chosen)
    BY <1>1 DEF MoEInv
  <2> QED
    BY <1>1, <1>3, <1>7, <1>10, <1>11, <1>12, <2>1, <2>2 DEF MoEInv
<1>13. CASE pc' = "place"
  <2>1. at' = 0 /\ at + 1 = Experts /\ counts' = [e \in E |-> 0]
    BY <1>8, <1>13
  <2>2. \A e \in E : counts'[e] = Cnt(expert_ids, e, 0)
    BY <1>2, <1>3, <2>1, CntSteps
  <2>3. \A r \in Slots : ~ (r < 0)
    BY SlotParts
  <2>4. Placed(0)'
    BY <2>3 DEF Placed
  <2>5. Placed(at)'
    BY <2>1, <2>4 DEF Placed
  <2> QED
    BY <1>1, <1>3, <1>7, <1>10, <1>11, <1>13, <2>1, <2>2, <2>5 DEF MoEInv
<1> QED
  BY <1>8, <1>12, <1>13

\* Placing: the cursor of the lane is at the rank of the slot.
LEMMA PlaceStep ==
  ASSUME Routable, MoEInv, Place
  PROVE  MoEInv'
<1> DEFINE N == Tokens * Chosen
           p == Rank(expert_ids, at)
<1>1. /\ expert_ids' = expert_ids /\ offsets' = offsets
      /\ outputs' = outputs /\ output' = output /\ pc = "place"
  BY DEF Place
<1>2. at \in Slots /\ at \in Nat /\ at < N /\ N \in Nat \ {0} /\ Experts \in Nat \ {0}
  BY <1>1, SlotParts DEF MoEInv, MoETypeOK, Slots, Routable
<1>3. Routed(expert_ids) /\ expert_ids[at] \in E /\ expert_ids[at] \in 0 .. Experts
  BY <1>2 DEF MoEInv, Routed, E
<1>4. LanePos(expert_ids[at]) = p /\ p \in Slots
  <2>1. \A e \in E : counts[e] = Cnt(expert_ids, e, at)
    BY <1>1 DEF MoEInv
  <2>2. \A e \in 0 .. Experts : offsets[e] = Off(expert_ids, e)
    BY <1>1 DEF MoEInv
  <2> QED
    BY <1>2, <1>3, <2>1, <2>2, RankInLane, RankBijective DEF LanePos
<1>5. /\ token_idx' = [token_idx EXCEPT ![p] = at \div Chosen]
      /\ slot_idx' = [slot_idx EXCEPT ![p] = at % Chosen]
      /\ inputs' = [inputs EXCEPT ![p] = <<at \div Chosen>>]
      /\ counts' = [counts EXCEPT ![expert_ids[at]] = @ + 1]
  BY <1>4 DEF Place
<1>6. \/ at + 1 < N /\ pc' = "place" /\ at' = at + 1
      \/ at + 1 = N /\ pc' = "mlp" /\ at' = 0
  BY <1>1, <1>2 DEF Place, Turn
<1>7. at \div Chosen \in Int /\ at % Chosen \in Int
  BY <1>2, SlotParts DEF T, Routable
<1>8. /\ token_idx \in [Slots -> Int] /\ slot_idx \in [Slots -> Int]
      /\ inputs = [s \in Slots |-> inputs[s]] /\ counts \in [E -> Nat]
  BY DEF MoEInv, MoETypeOK
<1> HIDE DEF N, p
<1>9. /\ token_idx' \in [Slots -> Int] /\ slot_idx' \in [Slots -> Int]
      /\ inputs' = [s \in Slots |-> inputs'[s]] /\ counts' \in [E -> Nat]
  <2>1. token_idx' \in [Slots -> Int] /\ slot_idx' \in [Slots -> Int]
    BY <1>5, <1>7, <1>8
  <2>2. counts' \in [E -> Nat]
    BY <1>3, <1>5, <1>8
  <2>3. inputs' = [s \in Slots |-> inputs'[s]]
    BY <1>5, <1>8
  <2> QED
    BY <2>1, <2>2, <2>3
<1>10. MoETypeOK'
  BY <1>1, <1>2, <1>6, <1>9 DEF MoEInv, MoETypeOK, N
<1>11. \A r \in Slots : r < at + 1 =>
         /\ token_idx'[Rank(expert_ids, r)] = r \div Chosen
         /\ slot_idx'[Rank(expert_ids, r)] = r % Chosen
         /\ inputs'[Rank(expert_ids, r)] = <<r \div Chosen>>
  <2> SUFFICES ASSUME NEW r \in Slots, r < at + 1
               PROVE  /\ token_idx'[Rank(expert_ids, r)] = r \div Chosen
                      /\ slot_idx'[Rank(expert_ids, r)] = r % Chosen
                      /\ inputs'[Rank(expert_ids, r)] = <<r \div Chosen>>
    OBVIOUS
  <2>1. Rank(expert_ids, r) \in Slots /\ (Rank(expert_ids, r) = p => r = at)
    BY <1>2, <1>3, RankBijective DEF p
  <2>2. CASE r = at
    BY <2>1, <2>2, <1>5, <1>8 DEF p
  <2>3. CASE r # at
    <3>1. r < at
      BY <2>3, <1>2, SlotParts
    <3>2. /\ token_idx[Rank(expert_ids, r)] = r \div Chosen
          /\ slot_idx[Rank(expert_ids, r)] = r % Chosen
          /\ inputs[Rank(expert_ids, r)] = <<r \div Chosen>>
      BY <1>1, <3>1 DEF MoEInv, Placed
    <3> QED
      BY <2>1, <2>3, <3>2, <1>5, <1>8
  <2> QED
    BY <2>2, <2>3
<1>12. Added(0)'
  <2>1. \A t \in T : SumOf(expert_ids, output[t], Taken(expert_ids, t, 0))
    BY <1>1 DEF MoEInv, Added
  <2> QED
    BY <1>1, <2>1 DEF Added
<1>13. \A e \in 0 .. Experts : offsets[e] = Off(expert_ids, e)
  BY <1>1 DEF MoEInv
<1>14. CASE pc' = "place"
  <2>1. at' = at + 1
    BY <1>6, <1>14
  <2>2. Placed(at)'
    BY <1>1, <1>11, <2>1 DEF Placed
  <2>3. \A e \in E : counts'[e] = Cnt(expert_ids, e, at + 1)
    <3>1. \A e \in E : counts[e] = Cnt(expert_ids, e, at)
      BY <1>1 DEF MoEInv
    <3> QED
      BY <1>2, <1>3, <1>5, <1>8, <3>1, CntSteps
  <2> QED
    BY <1>1, <1>3, <1>10, <1>12, <1>13, <1>14, <2>1, <2>2, <2>3 DEF MoEInv
<1>15. CASE pc' = "mlp"
  <2>1. at' = 0 /\ at + 1 = N
    BY <1>6, <1>15
  <2>2. Placed(Tokens * Chosen)'
    BY <1>1, <1>11, <2>1 DEF Placed, N
  <2>3. \A r \in Slots : ~ (expert_ids[r] < 0)
    BY <1>2, <1>3 DEF Routed, E
  <2>4. Computed(at)'
    BY <1>1, <2>1, <2>3 DEF Computed
  <2> QED
    BY <1>1, <1>3, <1>10, <1>12, <1>13, <1>15, <2>1, <2>2, <2>4 DEF MoEInv
<1> QED
  BY <1>6, <1>14, <1>15

\* Computing: a lane is between its offsets.
LEMMA MlpStep ==
  ASSUME Routable, MoEInv, ExpertMlp
  PROVE  MoEInv'
<1>1. /\ expert_ids' = expert_ids /\ counts' = counts /\ offsets' = offsets
      /\ token_idx' = token_idx /\ slot_idx' = slot_idx /\ inputs' = inputs
      /\ output' = output /\ pc = "mlp"
  BY DEF ExpertMlp, dispatched
<1>2. /\ at \in E /\ at \in Nat /\ at \in 0 .. Experts /\ at + 1 \in 0 .. Experts
      /\ Experts \in Nat \ {0} /\ Tokens * Chosen \in Nat \ {0}
  BY <1>1, SlotParts DEF MoEInv, MoETypeOK, E, Routable
<1>3. Routed(expert_ids)
  BY DEF MoEInv
<1>4. \A e \in 0 .. Experts : offsets[e] = Off(expert_ids, e)
  BY <1>1 DEF MoEInv
<1>5. outputs' = [s \in Slots |->
        IF s \in Off(expert_ids, at) .. Off(expert_ids, at + 1) - 1
        THEN <<at, inputs[s]>> ELSE outputs[s]]
  BY <1>2, <1>4 DEF ExpertMlp
<1>6. \A r \in Slots : expert_ids[r] < at + 1 =>
        outputs'[Rank(expert_ids, r)] = <<expert_ids[r], <<r \div Chosen>>>>
  <2> SUFFICES ASSUME NEW r \in Slots, expert_ids[r] < at + 1
               PROVE  outputs'[Rank(expert_ids, r)] = <<expert_ids[r], <<r \div Chosen>>>>
    OBVIOUS
  <2>1. /\ Rank(expert_ids, r) \in Slots
        /\ Rank(expert_ids, r) \in Off(expert_ids, at) .. Off(expert_ids, at + 1) - 1
             <=> expert_ids[r] = at
    BY <1>2, <1>3, RankBijective, RankOfLane
  <2>2. inputs[Rank(expert_ids, r)] = <<r \div Chosen>>
    BY <1>1, SlotParts DEF MoEInv, Placed
  <2>3. CASE expert_ids[r] = at
    BY <1>5, <2>1, <2>2, <2>3
  <2>4. CASE expert_ids[r] # at
    <3>1. expert_ids[r] < at
      BY <1>2, <1>3, <2>4 DEF Routed, E
    <3>2. outputs[Rank(expert_ids, r)] = <<expert_ids[r], <<r \div Chosen>>>>
      BY <1>1, <3>1 DEF MoEInv, Computed
    <3> QED
      BY <1>5, <2>1, <2>4, <3>2
  <2> QED
    BY <2>3, <2>4
<1>7. \/ at + 1 < Experts /\ pc' = "mlp" /\ at' = at + 1
      \/ at + 1 = Experts /\ pc' = "combine" /\ at' = 0
  BY <1>1, <1>2 DEF ExpertMlp, Turn
<1>8. outputs' = [s \in Slots |-> outputs'[s]]
  BY <1>5
<1>9. MoETypeOK'
  BY <1>1, <1>2, <1>7, <1>8 DEF MoEInv, MoETypeOK
<1>10. \A t \in T : SumOf(expert_ids, output[t], Taken(expert_ids, t, 0))
  BY <1>1 DEF MoEInv, Added
<1>11. Placed(Tokens * Chosen)'
  <2>1. Placed(Tokens * Chosen)
    BY <1>1 DEF MoEInv
  <2> QED
    BY <1>1, <2>1 DEF Placed
<1>12. CASE pc' = "mlp"
  <2>1. at' = at + 1
    BY <1>7, <1>12
  <2>2. Computed(at)'
    BY <1>1, <1>6, <2>1 DEF Computed
  <2>3. Added(0)'
    BY <1>1, <1>10 DEF Added
  <2> QED
    BY <1>1, <1>3, <1>4, <1>9, <1>11, <1>12, <2>1, <2>2, <2>3 DEF MoEInv
<1>13. CASE pc' = "combine"
  <2>1. at' = 0 /\ at + 1 = Experts
    BY <1>7, <1>13
  <2>2. Computed(Experts)'
    BY <1>1, <1>6, <2>1 DEF Computed
  <2>3. Added(at)'
    BY <1>1, <1>10, <2>1 DEF Added
  <2> QED
    BY <1>1, <1>3, <1>4, <1>9, <1>11, <1>13, <2>1, <2>2, <2>3 DEF MoEInv
<1> QED
  BY <1>7, <1>12, <1>13

\* A term of a later expert may be added to a sum.
LEMMA SumGrows ==
  ASSUME Routable, NEW ids, Routed(ids), NEW S \in SUBSET Slots, NEW out, SumOf(ids, out, S),
         NEW r \in Slots, \A s \in S : ids[s] < ids[r]
  PROVE  SumOf(ids, Append(out, Term(ids, r)), S \cup {r})
<1> DEFINE new == Append(out, Term(ids, r))
<1>1. \A s \in Slots : ids[s] \in Nat
  BY DEF Routed, E, Routable
<1>2. r \notin S
  BY <1>1
<1>3. out \in Seq(Terms(ids)) /\ Term(ids, r) \in Terms(ids)
  BY DEF SumOf, Terms
<1>4. /\ new \in Seq(Terms(ids)) /\ Len(new) = Len(out) + 1 /\ Len(out) \in Nat
      /\ new[Len(out) + 1] = Term(ids, r)
      /\ \A i \in 1 .. Len(out) : new[i] = out[i]
  BY <1>3
<1>5. DOMAIN new = 1 .. Len(out) + 1 /\ DOMAIN out = 1 .. Len(out)
  BY <1>3, <1>4
<1>6. Len(out) = Cardinality(S) /\ Range(out) = {Term(ids, s) : s \in S}
      /\ \A i, j \in 1 .. Len(out) : i < j => out[i][2][1] < out[j][2][1]
  BY DEF SumOf
<1> HIDE DEF new
<1>7. Len(new) = Cardinality(S \cup {r})
  BY <1>2, <1>4, <1>6, SlotSets
<1>8. Range(new) = Range(out) \cup {Term(ids, r)}
  BY <1>4, <1>5 DEF Range
<1>9. Range(new) = {Term(ids, s) : s \in S \cup {r}}
  BY <1>6, <1>8
<1>10. \A i \in 1 .. Len(out) : out[i][2][1] < ids[r]
  <2> SUFFICES ASSUME NEW i \in 1 .. Len(out) PROVE out[i][2][1] < ids[r]
    OBVIOUS
  <2>1. PICK s \in S : out[i] = Term(ids, s)
    BY <1>5, <1>6 DEF Range
  <2>2. out[i][2][1] = ids[s]
    BY <2>1 DEF Term
  <2> QED
    BY <2>2
<1>11. ASSUME NEW i \in 1 .. Len(new), NEW j \in 1 .. Len(new), i < j
       PROVE  new[i][2][1] < new[j][2][1]
  <2>1. i \in 1 .. Len(out)
    BY <1>4, <1>11
  <2>2. CASE j \in 1 .. Len(out)
    BY <1>4, <1>6, <1>11, <2>1, <2>2
  <2>3. CASE j = Len(out) + 1
    <3>1. new[j][2][1] = ids[r]
      BY <1>4, <2>3 DEF Term
    <3> QED
      BY <1>4, <1>10, <2>1, <3>1
  <2> QED
    BY <1>4, <2>2, <2>3
<1> QED
  BY <1>4, <1>7, <1>9, <1>11 DEF SumOf, new

\* Combining: the row of a slot goes to the token of the slot.
LEMMA CombineStep ==
  ASSUME Routable, MoEInv, Combine
  PROVE  MoEInv'
<1> DEFINE N == Tokens * Chosen
<1>1. /\ expert_ids' = expert_ids /\ counts' = counts /\ offsets' = offsets
      /\ token_idx' = token_idx /\ slot_idx' = slot_idx /\ inputs' = inputs
      /\ outputs' = outputs /\ pc = "combine"
  BY DEF Combine, dispatched
<1>2. at \in Slots /\ at \in Nat /\ at < N /\ N \in Nat \ {0}
  BY <1>1, SlotParts DEF MoEInv, MoETypeOK, Slots
<1>3. Routed(expert_ids)
  BY DEF MoEInv
<1>4. PICK r \in Slots : Rank(expert_ids, r) = at
  BY <1>2, <1>3, RankBijective
<1>5. token_idx[at] = r \div Chosen /\ slot_idx[at] = r % Chosen /\ r \div Chosen \in T
      /\ (r \div Chosen) * Chosen + (r % Chosen) = r
  BY <1>1, <1>4, SlotParts DEF MoEInv, Placed
<1>6. outputs[at] = <<expert_ids[r], <<r \div Chosen>>>>
  <2>1. expert_ids[r] < Experts
    BY <1>3 DEF Routed, E, Routable
  <2> QED
    BY <1>1, <1>4, <2>1 DEF MoEInv, Computed
<1>7. output' = [output EXCEPT ![r \div Chosen] = Append(@, Term(expert_ids, r))]
  <2>1. GateOf(at) = r
    BY <1>5 DEF GateOf
  <2> QED
    BY <1>5, <1>6, <2>1 DEF Combine, Term
<1>8. output = [t \in T |-> output[t]]
  BY DEF MoEInv, MoETypeOK
<1>9. \A t \in T : SumOf(expert_ids, output'[t], Taken(expert_ids, t, at + 1))
  <2> SUFFICES ASSUME NEW t \in T
               PROVE  SumOf(expert_ids, output'[t], Taken(expert_ids, t, at + 1))
    OBVIOUS
  <2>1. SumOf(expert_ids, output[t], Taken(expert_ids, t, at))
    BY <1>1 DEF MoEInv, Added
  <2>2. \A s \in Slots : Rank(expert_ids, s) \in Nat /\ (Rank(expert_ids, s) = at => s = r)
    BY <1>3, <1>4, RankBijective, SlotParts
  <2>3. \A s \in Slots : Rank(expert_ids, s) < at + 1 <=> Rank(expert_ids, s) < at \/ s = r
    BY <1>2, <1>4, <2>2
  <2>4. CASE t = r \div Chosen
    <3>1. Taken(expert_ids, t, at + 1) = Taken(expert_ids, t, at) \cup {r}
      BY <2>4, <2>3 DEF Taken
    <3>2. \A s \in Taken(expert_ids, t, at) : expert_ids[s] < expert_ids[r]
      <4> SUFFICES ASSUME NEW s \in Taken(expert_ids, t, at)
                   PROVE  expert_ids[s] < expert_ids[r]
        OBVIOUS
      <4>1. s \in Slots /\ s \div Chosen = r \div Chosen /\ Rank(expert_ids, s) < Rank(expert_ids, r)
        BY <1>4, <2>4 DEF Taken
      <4>2. s # r
        BY <2>2, <4>1
      <4>3. expert_ids[s] # expert_ids[r]
        BY <1>3, <4>1, <4>2 DEF Routed
      <4>4. ~ (expert_ids[r] < expert_ids[s])
        <5>1. SUFFICES ASSUME expert_ids[r] < expert_ids[s] PROVE FALSE
          OBVIOUS
        <5>2. Rank(expert_ids, r) < Rank(expert_ids, s)
          BY <1>3, <4>1, <5>1, RankOrder
        <5> QED
          BY <2>2, <4>1, <5>2
      <4> QED
        BY <1>3, <4>1, <4>3, <4>4 DEF Routed, E, Routable
    <3>3. output'[t] = Append(output[t], Term(expert_ids, r))
      BY <1>7, <1>8, <2>4
    <3>4. Taken(expert_ids, t, at) \in SUBSET Slots
      BY DEF Taken
    <3>5. SumOf(expert_ids, Append(output[t], Term(expert_ids, r)),
                Taken(expert_ids, t, at) \cup {r})
      BY <1>3, <2>1, <3>2, <3>4, SumGrows
    <3> QED
      BY <3>1, <3>3, <3>5
  <2>5. CASE t # r \div Chosen
    <3>1. Taken(expert_ids, t, at + 1) = Taken(expert_ids, t, at)
      BY <2>5, <2>3 DEF Taken
    <3>2. output'[t] = output[t]
      BY <1>7, <1>8, <2>5
    <3> QED
      BY <2>1, <3>1, <3>2
  <2> QED
    BY <2>4, <2>5
<1>10. \/ at + 1 < N /\ pc' = "combine" /\ at' = at + 1
       \/ at + 1 = N /\ pc' = "done" /\ at' = 0
  BY <1>1, <1>2 DEF Combine, Turn
<1> HIDE DEF N
<1>11. output' = [t \in T |-> output'[t]]
  BY <1>7, <1>8
<1>12. MoETypeOK'
  BY <1>1, <1>2, <1>10, <1>11 DEF MoEInv, MoETypeOK, N
<1>13. Placed(Tokens * Chosen)' /\ Computed(Experts)'
  <2>1. Placed(Tokens * Chosen) /\ Computed(Experts)
    BY <1>1 DEF MoEInv
  <2> QED
    BY <1>1, <2>1 DEF Placed, Computed
<1>14. \A e \in 0 .. Experts : offsets[e] = Off(expert_ids, e)
  BY <1>1 DEF MoEInv
<1>15. CASE pc' = "combine"
  <2>1. at' = at + 1
    BY <1>10, <1>15
  <2>2. Added(at)'
    BY <1>1, <1>9, <2>1 DEF Added
  <2> QED
    BY <1>1, <1>3, <1>12, <1>13, <1>14, <1>15, <2>2 DEF MoEInv
<1>16. CASE pc' = "done"
  <2>1. at + 1 = N
    BY <1>10, <1>16
  <2>2. Added(Tokens * Chosen)'
    BY <1>1, <1>9, <2>1 DEF Added, N
  <2> QED
    BY <1>1, <1>3, <1>12, <1>13, <1>14, <1>16, <2>2 DEF MoEInv
<1> QED
  BY <1>10, <1>15, <1>16

\* The slots of a token.
LEMMA SlotsOfToken ==
  ASSUME Routable, NEW t \in T
  PROVE  /\ \A r \in Slots : r \div Chosen = t <=> r \in t * Chosen .. t * Chosen + (Chosen - 1)
         /\ t * Chosen .. t * Chosen + (Chosen - 1) \subseteq Slots
<1>1. t \in Nat /\ t + 1 <= Tokens /\ Chosen \in Nat \ {0} /\ Tokens \in Nat
  BY DEF T, Routable
<1>2. t * Chosen \in Nat /\ (t + 1) * Chosen <= Tokens * Chosen /\ (t + 1) * Chosen = t * Chosen + Chosen
  BY <1>1, MoreIsMore
<1>3. t * Chosen .. t * Chosen + (Chosen - 1) \subseteq Slots
  <2> DEFINE a == t * Chosen
             N == Tokens * Chosen
  <2>1. a \in Nat /\ a + Chosen <= N /\ N \in Nat
    BY <1>1, <1>2, SlotParts
  <2> HIDE DEF a, N
  <2>2. a .. a + (Chosen - 1) \subseteq 0 .. N - 1
    BY <1>1, <2>1
  <2> QED
    BY <2>2 DEF a, N, Slots
<1>4. ASSUME NEW r \in Slots
      PROVE  r \div Chosen = t <=> r \in t * Chosen .. t * Chosen + (Chosen - 1)
  <2> DEFINE u == r \div Chosen
             v == r % Chosen
  <2>1. u \in Nat /\ v \in 0 .. Chosen - 1 /\ u * Chosen + v = r /\ r \in Nat
    BY <1>1, SlotParts DEF T
  <2> HIDE DEF u, v
  <2>2. u * Chosen \in Nat
    BY <1>1, <2>1
  <2>3. u < t => u * Chosen + Chosen <= t * Chosen
    <3>1. u < t => (u + 1) * Chosen <= t * Chosen
      BY <1>1, <2>1, MoreIsMore
    <3>2. (u + 1) * Chosen = u * Chosen + Chosen
      BY <1>1, <2>1
    <3> QED
      BY <3>1, <3>2
  <2>4. t < u => t * Chosen + Chosen <= u * Chosen
    <3>1. t < u => (t + 1) * Chosen <= u * Chosen
      BY <1>1, <2>1, MoreIsMore
    <3> QED
      BY <1>2, <3>1
  <2> DEFINE a == t * Chosen
             b == u * Chosen
  <2>5. u = t => b = a
    OBVIOUS
  <2>6. a \in Nat /\ b \in Nat /\ (u < t => b + Chosen <= a) /\ (t < u => a + Chosen <= b) /\ b + v = r
    BY <1>2, <2>1, <2>2, <2>3, <2>4
  <2> HIDE DEF a, b
  <2>7. u = t <=> r \in a .. a + (Chosen - 1)
    BY <1>1, <2>1, <2>5, <2>6
  <2> QED
    BY <2>7 DEF u, a
<1> QED
  BY <1>3, <1>4

\* What the lanes look like once all slots are in their places.
LEMMA LanesFollow ==
  ASSUME Routable, MoEInv
  PROVE  LanesOrdered
<1> SUFFICES ASSUME pc \in {"mlp", "combine"}
             PROVE  /\ offsets[Experts] = Tokens * Chosen
                    /\ \A e \in E : \A s \in offsets[e] .. offsets[e + 1] - 1 :
                         /\ expert_ids[GateOf(s)] = e
                         /\ inputs[s] = <<token_idx[s]>>
                         /\ s > offsets[e] => token_idx[s - 1] < token_idx[s]
  BY DEF LanesOrdered
<1>1. Routed(expert_ids)
  BY DEF MoEInv
<1>2. \A e \in 0 .. Experts : offsets[e] = Off(expert_ids, e) /\ offsets[e] \in Nat
  BY <1>1, OffSteps DEF MoEInv
<1>3. offsets[Experts] = Tokens * Chosen
  BY <1>1, <1>2, OffSteps DEF Routable
<1>4. \A r \in Slots :
        /\ token_idx[Rank(expert_ids, r)] = r \div Chosen
        /\ slot_idx[Rank(expert_ids, r)] = r % Chosen
        /\ inputs[Rank(expert_ids, r)] = <<r \div Chosen>>
  BY SlotParts DEF MoEInv, Placed
<1>5. ASSUME NEW e \in E, NEW s \in offsets[e] .. offsets[e + 1] - 1
      PROVE  \E r \in Slots : Rank(expert_ids, r) = s /\ expert_ids[r] = e
  <2>1. e \in 0 .. Experts /\ e + 1 \in 0 .. Experts /\ e \in Nat
    BY DEF E, Routable
  <2>2. offsets[e + 1] <= Tokens * Chosen
    <3>1. Lower(expert_ids, e + 1) \in SUBSET Slots
      BY DEF Lower
    <3>2. Cardinality(Lower(expert_ids, e + 1)) <= Cardinality(Slots)
      BY <3>1, SlotSets
    <3> QED
      BY <1>2, <2>1, <3>2, SlotSets DEF Off
  <2>3. s \in Slots
    BY <1>2, <2>1, <2>2, SlotParts DEF Slots
  <2>4. PICK r \in Slots : Rank(expert_ids, r) = s
    BY <1>1, <2>3, RankBijective
  <2>5. s \in Off(expert_ids, e) .. Off(expert_ids, e + 1) - 1
    BY <1>2, <2>1
  <2> QED
    BY <1>1, <2>4, <2>5, RankOfLane
<1>6. ASSUME NEW e \in E, NEW s \in offsets[e] .. offsets[e + 1] - 1
      PROVE  /\ expert_ids[GateOf(s)] = e
             /\ inputs[s] = <<token_idx[s]>>
             /\ s > offsets[e] => token_idx[s - 1] < token_idx[s]
  <2>1. PICK r \in Slots : Rank(expert_ids, r) = s /\ expert_ids[r] = e
    BY <1>5
  <2>2. GateOf(s) = r
    BY <1>4, <2>1, SlotParts DEF GateOf
  <2>3. ASSUME s > offsets[e] PROVE token_idx[s - 1] < token_idx[s]
    <3>1. s - 1 \in offsets[e] .. offsets[e + 1] - 1 /\ s \in Int
      <4>1. offsets[e] \in Nat /\ offsets[e + 1] \in Nat
        BY <1>2 DEF E, Routable
      <4> QED
        BY <2>3, <4>1
    <3>2. PICK q \in Slots : Rank(expert_ids, q) = s - 1 /\ expert_ids[q] = e
      BY <1>5, <3>1
    <3>3. q < r
      <4>1. q \in Int /\ r \in Int
        BY SlotParts
      <4>2. q # r
        BY <2>1, <3>1, <3>2
      <4>3. ~ (r < q)
        <5>1. SUFFICES ASSUME r < q PROVE FALSE
          OBVIOUS
        <5>2. Rank(expert_ids, r) < Rank(expert_ids, q)
          BY <1>1, <2>1, <3>2, <5>1, RankOrder
        <5> QED
          BY <2>1, <3>1, <3>2, <5>2
      <4> QED
        BY <4>1, <4>2, <4>3
    <3>4. q \div Chosen # r \div Chosen
      BY <1>1, <2>1, <3>2, <3>3, SlotParts DEF Routed
    <3>5. ~ (r \div Chosen < q \div Chosen)
      <4> DEFINE u == q \div Chosen
                 v == r \div Chosen
      <4>1. /\ u \in T /\ v \in T /\ u * Chosen + (q % Chosen) = q /\ v * Chosen + (r % Chosen) = r
            /\ q % Chosen \in 0 .. Chosen - 1 /\ r % Chosen \in 0 .. Chosen - 1
        BY SlotParts
      <4>2. u \in Nat /\ v \in Nat /\ Chosen \in Nat \ {0}
        BY <4>1 DEF T, Routable
      <4> HIDE DEF u, v
      <4>3. SUFFICES ASSUME v < u PROVE FALSE
        BY DEF u, v
      <4>4. (v + 1) * Chosen <= u * Chosen /\ (v + 1) * Chosen = v * Chosen + Chosen
        BY <4>2, <4>3, MoreIsMore
      <4>5. u * Chosen \in Nat /\ v * Chosen \in Nat /\ q \in Nat /\ r \in Nat
        BY <4>2, SlotParts
      <4> QED
        BY <3>3, <4>1, <4>2, <4>4, <4>5
    <3>6. token_idx[s - 1] = q \div Chosen /\ token_idx[s] = r \div Chosen
      BY <1>4, <2>1, <3>2
    <3> QED
      BY <3>4, <3>5, <3>6, SlotParts DEF T, Routable
  <2> QED
    BY <1>4, <2>1, <2>2, <2>3
<1> QED
  BY <1>3, <1>6

\* What the outputs are once all rows have been added.
LEMMA CombineFollows ==
  ASSUME Routable, MoEInv
  PROVE  EveryTermOnce
<1> SUFFICES ASSUME pc = "done", NEW t \in T
             PROVE  /\ Len(output[t]) = Chosen
                    /\ Range(output[t]) =
                         {<<t * Chosen + j, <<expert_ids[t * Chosen + j], <<t>>>>>> : j \in 0 .. Chosen - 1}
                    /\ \A j \in 2 .. Chosen : output[t][j - 1][2][1] < output[t][j][2][1]
  BY DEF EveryTermOnce
<1>1. Routed(expert_ids)
  BY DEF MoEInv
<1> DEFINE S == t * Chosen .. t * Chosen + (Chosen - 1)
<1>2. t * Chosen \in Nat /\ Chosen \in Nat \ {0}
  BY DEF T, Routable
<1>3. Taken(expert_ids, t, Tokens * Chosen) = S
  <2>1. \A r \in Slots : Rank(expert_ids, r) < Tokens * Chosen
    BY <1>1, RankBijective, SlotParts
  <2> QED
    BY <2>1, SlotsOfToken DEF Taken
<1>4. SumOf(expert_ids, output[t], S)
  BY <1>3 DEF MoEInv, Added
<1>5. Cardinality(S) = Chosen
  BY <1>2, FS_Interval
<1>6. {Term(expert_ids, r) : r \in S}
        = {<<t * Chosen + j, <<expert_ids[t * Chosen + j], <<t>>>>>> : j \in 0 .. Chosen - 1}
  <2>1. \A r \in S : r \div Chosen = t
    BY SlotsOfToken
  <2> DEFINE a == t * Chosen
  <2>2. \A r \in S : r - a \in 0 .. Chosen - 1 /\ a + (r - a) = r
    BY <1>2
  <2>3. \A j \in 0 .. Chosen - 1 : a + j \in S
    BY <1>2
  <2> HIDE DEF S, a
  <2>4. \A r \in S : Term(expert_ids, r) = <<r, <<expert_ids[r], <<t>>>>>>
    BY <2>1 DEF Term
  <2>5. {Term(expert_ids, r) : r \in S} = {<<a + j, <<expert_ids[a + j], <<t>>>>>> : j \in 0 .. Chosen - 1}
    BY <2>2, <2>3, <2>4
  <2> QED
    BY <2>5 DEF a
<1>7. \A j \in 2 .. Chosen : output[t][j - 1][2][1] < output[t][j][2][1]
  <2>1. \A i, j \in 1 .. Chosen : i < j => output[t][i][2][1] < output[t][j][2][1]
    BY <1>4, <1>5 DEF SumOf
  <2>2. \A j \in 2 .. Chosen : j \in 1 .. Chosen /\ j - 1 \in 1 .. Chosen /\ j - 1 < j
    BY <1>2
  <2> QED
    BY <2>1, <2>2
<1> QED
  BY <1>4, <1>5, <1>6, <1>7 DEF SumOf

\* The invariant of the block is preserved by its steps.
LEMMA MoESteps == Routable /\ MoEInv /\ [MoENext]_moeVars => MoEInv'
<1> SUFFICES ASSUME Routable, MoEInv, [MoENext]_moeVars PROVE MoEInv'
  OBVIOUS
<1>1. CASE UNCHANGED moeVars
  BY <1>1 DEF moeVars, dispatched, MoEInv, MoETypeOK, Placed, Computed, Added
<1>2. CASE MoENext
  BY <1>2, CountStep, PrefixStep, PlaceStep, MlpStep, CombineStep DEF MoENext
<1> QED
  BY <1>1, <1>2

\* For any numbers of tokens, experts and choices: the experts compute on
\* lanes that follow each other, hold each slot of their own and no other, and
\* keep the order of the tokens (moe.hpp:71-74); and every token comes back
\* with one term for each of its choices, by its own gate and from its own
\* row, added in the order of the experts (moe.cpp, moe_combine).
THEOREM ExpertsCombined ==
  ASSUME Tokens \in Nat \ {0}, Experts \in Nat \ {0}, Chosen \in Nat \ {0}
  PROVE  MoESpec => []CombineExact
<1>1. Routable
  BY DEF Routable
<1>2. MoEInit => MoEInv
  BY <1>1, MoEStart
<1>3. MoEInv /\ [MoENext]_moeVars => MoEInv'
  BY <1>1, MoESteps
<1>4. MoEInv => CombineExact
  BY <1>1, LanesFollow, CombineFollows DEF CombineExact
<1> QED
  BY <1>2, <1>3, <1>4, PTL DEF MoESpec

---------------------------------------------------------------------------
(* Rotary embedding and ALiBi *)

\* Two pairs to rotate, by integers of quarter turns.
Rotatable ==
  /\ MaxLen \in Nat /\ FreqScales \subseteq Int
  /\ \A f \in Freqs : f \in Seq(Int) /\ Len(f) = 2

\* A row at its position.
RowAt(v, pos) == Rotated(v, [i \in DOMAIN freq |-> (pos * freq_scale) * freq[i]])

\* The inductive invariant: each cached row is the row of its position, and
\* each bias the distance to a position that is cached.
RotaryInv ==
  /\ freq \in Freqs /\ freq_scale \in FreqScales /\ interleaved \in BOOLEAN
  /\ Len(ks) \in Nat /\ Len(ks) <= MaxLen
  /\ ks = [i \in 1 .. Len(ks) |-> RowAt(Key(i - 1), i - 1)]
  /\ qs = [i \in 1 .. Len(ks) |-> RowAt(Query(i - 1), i - 1)]
  /\ bias = [i \in 1 .. Len(ks) |-> bias[i]]
  /\ \A i \in 1 .. Len(ks) : \A j \in DOMAIN bias[i] :
       j \in 0 .. Len(ks) - 1 /\ bias[i][j] = Clamp((i - 1) - j)

---------------------------------------------------------------------------
(* Rotations *)

\* Quarter turns one after the other.
LEMMA TurnsAdd ==
  ASSUME NEW a \in Int, NEW b \in Int
  PROVE  /\ Cos(a - b) = Cos(a) * Cos(b) + Sin(a) * Sin(b)
         /\ Sin(a - b) = Sin(a) * Cos(b) - Cos(a) * Sin(b)
         /\ Cos(a) \in {-1, 0, 1} /\ Sin(a) \in {-1, 0, 1}
<1> DEFINE c == a - b
<1>1. /\ a % 4 \in 0 .. 3 /\ b % 4 \in 0 .. 3
      /\ c % 4 = (IF a % 4 >= b % 4 THEN (a % 4) - (b % 4) ELSE (a % 4) - (b % 4) + 4)
  OBVIOUS
<1>2. /\ (a - 1) % 4 = (IF a % 4 = 0 THEN 3 ELSE (a % 4) - 1)
      /\ (b - 1) % 4 = (IF b % 4 = 0 THEN 3 ELSE (b % 4) - 1)
      /\ (c - 1) % 4 = (IF c % 4 = 0 THEN 3 ELSE (c % 4) - 1)
  OBVIOUS
<1>3. \A n \in Int : /\ n % 4 = 0 => Cos(n) = 1
                     /\ n % 4 = 1 => Cos(n) = 0
                     /\ n % 4 = 2 => Cos(n) = -1
                     /\ n % 4 = 3 => Cos(n) = 0
  BY DEF Cos
<1>4. \A n \in Int : Sin(n) = Cos(n - 1)
  BY DEF Sin
<1>5. c \in Int /\ a - 1 \in Int /\ b - 1 \in Int /\ c - 1 \in Int
  OBVIOUS
<1> HIDE DEF c
<1>6. CASE a % 4 = 0
  BY <1>1, <1>2, <1>3, <1>4, <1>5, <1>6 DEF c
<1>7. CASE a % 4 = 1
  BY <1>1, <1>2, <1>3, <1>4, <1>5, <1>7 DEF c
<1>8. CASE a % 4 = 2
  BY <1>1, <1>2, <1>3, <1>4, <1>5, <1>8 DEF c
<1>9. CASE a % 4 = 3
  BY <1>1, <1>2, <1>3, <1>4, <1>5, <1>9 DEF c
<1> QED
  BY <1>1, <1>6, <1>7, <1>8, <1>9

\* A pair turned.
TurnedLo(x, y, a) == x * Cos(a) - y * Sin(a)
TurnedHi(x, y, a) == x * Sin(a) + y * Cos(a)

\* The product of two rotated pairs is that of the second with the first
\* rotated by the difference.
PairTurns(a, b, x, y, u, w) ==
  TurnedLo(x, y, a) * TurnedLo(u, w, b) + TurnedHi(x, y, a) * TurnedHi(u, w, b)
    = TurnedLo(x, y, a - b) * u + TurnedHi(x, y, a - b) * w

\* Every pair does, and stays a pair of integers.
LEMMA PairRelative ==
  \A a, b, x, y, u, w \in Int :
    PairTurns(a, b, x, y, u, w) /\ TurnedLo(x, y, a) \in Int /\ TurnedHi(x, y, a) \in Int
<1> SUFFICES ASSUME NEW a \in Int, NEW b \in Int, NEW x \in Int, NEW y \in Int,
                    NEW u \in Int, NEW w \in Int
             PROVE  /\ PairTurns(a, b, x, y, u, w)
                    /\ TurnedLo(x, y, a) \in Int /\ TurnedHi(x, y, a) \in Int
  OBVIOUS
<1> DEFINE ca == Cos(a)
           sa == Sin(a)
           cb == Cos(b)
           sb == Sin(b)
<1>1. /\ Cos(a - b) = ca * cb + sa * sb /\ Sin(a - b) = sa * cb - ca * sb
      /\ ca \in {-1, 0, 1} /\ sa \in {-1, 0, 1} /\ cb \in {-1, 0, 1} /\ sb \in {-1, 0, 1}
  BY TurnsAdd
<1> HIDE DEF ca, sa, cb, sb
<1>2. \A s, t \in {-1, 0, 1} :
        (x * ca - y * sa) * (u * s - w * t) + (x * sa + y * ca) * (u * t + w * s)
          = (x * (ca * s + sa * t) - y * (sa * s - ca * t)) * u
              + (x * (sa * s - ca * t) + y * (ca * s + sa * t)) * w
  BY <1>1
<1>3. x * ca - y * sa \in Int /\ x * sa + y * ca \in Int
  BY <1>1
<1> QED
  BY <1>1, <1>2, <1>3 DEF ca, sa, cb, sb, PairTurns, TurnedLo, TurnedHi

\* Two pairs rotated, one after the other.
LEMMA RotatedTwice ==
  ASSUME NEW v, NEW angles \in Seq(Int), Len(angles) = 2
  PROVE  Rotated(v, angles)
           = RotatedPair(RotatedPair(v, PairLo(0, 4), PairHi(0, 4), angles[1]),
                         PairLo(1, 4), PairHi(1, 4), angles[2])
<1> DEFINE Step(w, n) == RotatedPair(w, PairLo(n, 4), PairHi(n, 4), angles[n + 1])
           F(f) == [n \in 0 .. 2 |-> IF n = 0 THEN v
                                     ELSE RotatedPair(f[n - 1], PairLo(n - 1, 4),
                                                      PairHi(n - 1, 4), angles[n])]
           g == [n \in 0 .. 2 |-> IF n = 0 THEN v
                                  ELSE IF n = 1 THEN Step(v, 0) ELSE Step(Step(v, 0), 1)]
           turned == CHOOSE f : f = F(f)
<1>1. g[0] = v /\ g[1] = Step(v, 0) /\ g[2] = Step(Step(v, 0), 1)
  OBVIOUS
<1>2. g = F(g)
  <2>1. ASSUME NEW n \in 0 .. 2 PROVE g[n] = F(g)[n]
    <3> HIDE DEF g
    <3>1. CASE n = 0
      BY <1>1, <3>1
    <3>2. CASE n = 1
      BY <1>1, <3>2
    <3>3. CASE n = 2
      BY <1>1, <3>3
    <3> QED
      BY <3>1, <3>2, <3>3
  <2> QED
    BY <2>1
<1> HIDE DEF g
<1>3. turned = F(turned)
  <2> HIDE DEF F
  <2> QED
    BY <1>2
<1> HIDE DEF turned
<1>4. turned[0] = v /\ turned[1] = RotatedPair(turned[0], PairLo(0, 4), PairHi(0, 4), angles[1])
      /\ turned[2] = RotatedPair(turned[1], PairLo(1, 4), PairHi(1, 4), angles[2])
  <2>1. \A n \in 0 .. 2 : turned[n] = IF n = 0 THEN v
                                  ELSE RotatedPair(turned[n - 1], PairLo(n - 1, 4),
                                                   PairHi(n - 1, 4), angles[n])
    BY <1>3
  <2> QED
    BY <2>1
<1>5. Rotated(v, angles) = turned[2]
  BY DEF Rotated, turned
<1> QED
  BY <1>4, <1>5

\* What a rotation of two pairs by a and b makes of a row v: r.
Turned(r, v, a, b) ==
  LET h == IF interleaved THEN 1 ELSE 2
      l == IF interleaved THEN 2 ELSE 1
  IN  /\ r[0] = TurnedLo(v[0], v[h], a) /\ r[h] = TurnedHi(v[0], v[h], a)
      /\ r[l] = TurnedLo(v[l], v[3], b) /\ r[3] = TurnedHi(v[l], v[3], b)

\* Whichever way the elements are paired, both pairs are turned and neither
\* rotation disturbs the other.
LEMMA RotatedTurns ==
  ASSUME interleaved \in BOOLEAN, NEW v \in [0 .. 3 -> Int],
         NEW angles \in Seq(Int), Len(angles) = 2
  PROVE  Turned(Rotated(v, angles), v, angles[1], angles[2])
<1> DEFINE h == IF interleaved THEN 1 ELSE 2
           l == IF interleaved THEN 2 ELSE 1
           t == RotatedPair(v, 0, h, angles[1])
           r == RotatedPair(t, l, 3, angles[2])
<1>1. PairLo(0, 4) = 0 /\ PairHi(0, 4) = h /\ PairLo(1, 4) = l /\ PairHi(1, 4) = 3
  BY DEF PairLo, PairHi
<1>2. h \in {1, 2} /\ l \in {1, 2} /\ h # l
  OBVIOUS
<1> HIDE DEF h, l
<1>3. Rotated(v, angles) = r
  BY <1>1, RotatedTwice
<1>4. /\ DOMAIN t = 0 .. 3
      /\ t[0] = v[0] * Cos(angles[1]) - v[h] * Sin(angles[1])
      /\ t[h] = v[0] * Sin(angles[1]) + v[h] * Cos(angles[1])
      /\ t[l] = v[l] /\ t[3] = v[3]
  BY <1>2 DEF RotatedPair
<1> HIDE DEF t
<1>5. /\ r[0] = t[0] /\ r[h] = t[h]
      /\ r[l] = t[l] * Cos(angles[2]) - t[3] * Sin(angles[2])
      /\ r[3] = t[l] * Sin(angles[2]) + t[3] * Cos(angles[2])
  BY <1>2, <1>4 DEF RotatedPair
<1> HIDE DEF r
<1> QED
  BY <1>3, <1>4, <1>5 DEF h, l, Turned, TurnedLo, TurnedHi

\* The model does not change, nor do the rows it makes.
LEMMA SameRows ==
  ASSUME UNCHANGED <<freq, freq_scale, interleaved>>
  PROVE  \A v, pos : RowAt(v, pos)' = RowAt(v, pos)
<1>1. \A lo, hi : PairLo(lo, hi)' = PairLo(lo, hi) /\ PairHi(lo, hi)' = PairHi(lo, hi)
  BY DEF PairLo, PairHi
<1>2. \A v, angles : Rotated(v, angles)' = Rotated(v, angles)
  BY <1>1 DEF Rotated
<1> QED
  BY <1>2 DEF RowAt

\* Where the elements of a concatenation come from.
LEMMA Joined ==
  ASSUME NEW S, NEW x \in Seq(S), NEW y \in Seq(S)
  PROVE  /\ x \o y \in Seq(S) /\ Len(x \o y) = Len(x) + Len(y)
         /\ \A i \in 1 .. Len(x) : (x \o y)[i] = x[i]
         /\ \A i \in 1 .. Len(y) : (x \o y)[Len(x) + i] = y[i]
<1>1. Len(x) \in Nat /\ Len(y) \in Nat
  OBVIOUS
<1> QED
  BY <1>1

\* Rows appended to rows.
LEMMA Extended ==
  ASSUME NEW len \in Nat, NEW m \in Nat, NEW z, z = [i \in 1 .. len + m |-> z[i]]
  PROVE  /\ [i \in 1 .. len |-> z[i]] \o [s \in 1 .. m |-> z[len + s]] = z
         /\ Len(z) = len + m
<1> DEFINE S == {z[i] : i \in 1 .. len + m}
           x == [i \in 1 .. len |-> z[i]]
           y == [s \in 1 .. m |-> z[len + s]]
           w == x \o y
<1>1. /\ \A i \in 1 .. len : i \in 1 .. len + m
      /\ \A s \in 1 .. m : len + s \in 1 .. len + m
      /\ len + m \in Nat
  OBVIOUS
<1>2. z \in [1 .. len + m -> S] /\ x \in [1 .. len -> S] /\ y \in [1 .. m -> S]
  BY <1>1
<1>3. /\ z \in Seq(S) /\ x \in Seq(S) /\ y \in Seq(S)
      /\ Len(z) = len + m /\ Len(x) = len /\ Len(y) = m
  <2> HIDE DEF S, x, y
  <2>1. \A n \in Nat : \A f \in [1 .. n -> S] : f \in Seq(S) /\ Len(f) = n
    OBVIOUS
  <2> QED
    BY <1>1, <1>2, <2>1
<1>4. /\ \A i \in 1 .. len : x[i] = z[i]
      /\ \A s \in 1 .. m : y[s] = z[len + s]
  OBVIOUS
<1> HIDE DEF S, x, y
<1>5. /\ w \in Seq(S) /\ Len(w) = Len(x) + Len(y)
      /\ \A i \in 1 .. Len(x) : w[i] = x[i]
      /\ \A i \in 1 .. Len(y) : w[Len(x) + i] = y[i]
  <2>1. x \in Seq(S) /\ y \in Seq(S)
    BY <1>3
  <2>2. /\ x \o y \in Seq(S) /\ Len(x \o y) = Len(x) + Len(y)
        /\ \A i \in 1 .. Len(x) : (x \o y)[i] = x[i]
        /\ \A i \in 1 .. Len(y) : (x \o y)[Len(x) + i] = y[i]
    BY <2>1, Joined
  <2> QED
    BY <2>2
<1> HIDE DEF w
<1>6. \A i \in 1 .. len : w[i] = z[i]
  BY <1>3, <1>4, <1>5
<1>7. \A s \in 1 .. m : w[len + s] = z[len + s]
  BY <1>3, <1>4, <1>5
<1>8. w \in [1 .. len + m -> S]
  BY <1>3, <1>5
<1>9. ASSUME NEW i \in 1 .. len + m PROVE w[i] = z[i]
  <2>1. CASE i <= len
    BY <1>6, <2>1
  <2>2. CASE ~ (i <= len)
    <3> DEFINE s == i - len
    <3>1. s \in 1 .. m /\ len + s = i
      BY <2>2
    <3> HIDE DEF s
    <3> QED
      BY <1>7, <3>1
  <2> QED
    BY <2>1, <2>2
<1>10. w = z
  BY <1>2, <1>8, <1>9
<1> QED
  BY <1>3, <1>10 DEF w, x, y

---------------------------------------------------------------------------
(* Chunks *)

\* Row s of a chunk is rotated by its own position, with the table of angles
\* and without.
LEMMA RopeRows ==
  ASSUME NEW x, NEW off, NEW s \in DOMAIN x
  PROVE  Rope(x, off)[s] = RowAt(x[s], off + s) /\ RopeRef(x, off)[s] = RowAt(x[s], off + s)
BY DEF Rope, RopeRef, RowAt, TablePos

\* The invariant holds of the empty cache, ...
LEMMA RotaryStart == Rotatable /\ RotaryInit => RotaryInv
<1> SUFFICES ASSUME Rotatable, RotaryInit PROVE RotaryInv
  OBVIOUS
<1>1. Len(<<>>) = 0 /\ MaxLen \in Nat
  BY DEF Rotatable
<1>2. ks = <<>> /\ qs = <<>> /\ bias = <<>>
  BY DEF RotaryInit
<1>3. \A z : <<>> = [i \in 1 .. 0 |-> z]
  OBVIOUS
<1>4. Len(ks) = 0 /\ 1 .. Len(ks) = {}
  BY <1>1, <1>2
<1> QED
  BY <1>1, <1>2, <1>4 DEF RotaryInit, RotaryInv

\* A chunk more.
LEMMA FeedStep ==
  ASSUME Rotatable, RotaryInv, NEW m \in 1 .. MaxLen, Feed(m)
  PROVE  RotaryInv'
<1> DEFINE len == Len(ks)
           kz == [i \in 1 .. len + m |-> RowAt(Key(i - 1), i - 1)]
           qz == [i \in 1 .. len + m |-> RowAt(Query(i - 1), i - 1)]
           rows == AlibiBias(m, len + m, TRUE)
           bz == [i \in 1 .. len + m |-> IF i <= len THEN bias[i] ELSE rows[i - len - 1]]
           krows == [s \in 0 .. m - 1 |-> [i \in 0 .. MaxLen |-> Key(i)][len + s]]
           qrows == [s \in 0 .. m - 1 |-> [i \in 0 .. MaxLen |-> Query(i)][len + s]]
<1>1. /\ m \in Nat \ {0} /\ MaxLen \in Nat /\ len \in Nat /\ len + m <= MaxLen /\ len + m \in Nat
  BY DEF Rotatable, RotaryInv, Feed
<1>2. /\ UNCHANGED <<freq, freq_scale, interleaved>>
      /\ ks' = ks \o [s \in 1 .. m |-> Rope(krows, len)[s - 1]]
      /\ qs' = qs \o [s \in 1 .. m |-> Rope(qrows, len)[s - 1]]
      /\ bias' = bias \o [s \in 1 .. m |-> rows[s - 1]]
  BY DEF Feed
<1>3. /\ ks = [i \in 1 .. len |-> RowAt(Key(i - 1), i - 1)]
      /\ qs = [i \in 1 .. len |-> RowAt(Query(i - 1), i - 1)]
      /\ bias = [i \in 1 .. len |-> bias[i]]
  BY DEF RotaryInv
<1>4. ASSUME NEW s \in 1 .. m
      PROVE  /\ Rope(krows, len)[s - 1] = RowAt(Key(len + s - 1), len + s - 1)
             /\ Rope(qrows, len)[s - 1] = RowAt(Query(len + s - 1), len + s - 1)
  <2> HIDE DEF len
  <2>1. s - 1 \in 0 .. m - 1 /\ len + (s - 1) \in 0 .. MaxLen /\ len + (s - 1) = len + s - 1
    BY <1>1
  <2>2. /\ DOMAIN krows = 0 .. m - 1 /\ DOMAIN qrows = 0 .. m - 1
        /\ krows[s - 1] = Key(len + (s - 1)) /\ qrows[s - 1] = Query(len + (s - 1))
    BY <2>1
  <2> HIDE DEF krows, qrows
  <2>3. /\ Rope(krows, len)[s - 1] = RowAt(krows[s - 1], len + (s - 1))
        /\ Rope(qrows, len)[s - 1] = RowAt(qrows[s - 1], len + (s - 1))
    BY <2>1, <2>2, RopeRows
  <2> QED
    BY <2>1, <2>2, <2>3
<1> HIDE DEF krows, qrows
<1>5. ks' = kz /\ Len(kz) = len + m
  <2>1. /\ ks = [i \in 1 .. len |-> kz[i]]
        /\ [s \in 1 .. m |-> Rope(krows, len)[s - 1]] = [s \in 1 .. m |-> kz[len + s]]
    <3> HIDE DEF len
    <3> QED
      BY <1>1, <1>3, <1>4
  <2>2. kz = [i \in 1 .. len + m |-> kz[i]]
    OBVIOUS
  <2> HIDE DEF kz, len
  <2>3. [i \in 1 .. len |-> kz[i]] \o [s \in 1 .. m |-> kz[len + s]] = kz /\ Len(kz) = len + m
    BY <1>1, <2>2, Extended
  <2> QED
    BY <1>2, <2>1, <2>3
<1>6. qs' = qz
  <2>1. /\ qs = [i \in 1 .. len |-> qz[i]]
        /\ [s \in 1 .. m |-> Rope(qrows, len)[s - 1]] = [s \in 1 .. m |-> qz[len + s]]
    <3> HIDE DEF len
    <3> QED
      BY <1>1, <1>3, <1>4
  <2>2. qz = [i \in 1 .. len + m |-> qz[i]]
    OBVIOUS
  <2> HIDE DEF qz, len
  <2>3. [i \in 1 .. len |-> qz[i]] \o [s \in 1 .. m |-> qz[len + s]] = qz
    BY <1>1, <2>2, Extended
  <2> QED
    BY <1>2, <2>1, <2>3
<1>7. bias' = bz
  <2> HIDE DEF rows
  <2>1. /\ bias = [i \in 1 .. len |-> bz[i]]
        /\ [s \in 1 .. m |-> rows[s - 1]] = [s \in 1 .. m |-> bz[len + s]]
    <3> HIDE DEF len
    <3>1. \A i \in 1 .. len : i \in 1 .. len + m /\ i <= len
      BY <1>1
    <3>2. \A s \in 1 .. m : len + s \in 1 .. len + m /\ ~ (len + s <= len) /\ len + s - len - 1 = s - 1
      BY <1>1
    <3>3. \A i \in 1 .. len : bz[i] = bias[i]
      BY <3>1
    <3>4. ASSUME NEW s \in 1 .. m PROVE bz[len + s] = rows[s - 1]
      <4> DEFINE i == len + s
      <4>1. i \in 1 .. len + m /\ ~ (i <= len) /\ i - len - 1 = s - 1
        BY <1>1, <3>2
      <4> HIDE DEF i
      <4>2. bz[i] = rows[i - len - 1]
        BY <4>1
      <4> QED
        BY <4>1, <4>2 DEF i
    <3> HIDE DEF bz
    <3>5. [i \in 1 .. len |-> bias[i]] = [i \in 1 .. len |-> bz[i]]
      BY <3>3
    <3>6. [s \in 1 .. m |-> rows[s - 1]] = [s \in 1 .. m |-> bz[len + s]]
      BY <3>4
    <3> QED
      BY <1>3, <3>5, <3>6
  <2>2. bz = [i \in 1 .. len + m |-> bz[i]]
    OBVIOUS
  <2> HIDE DEF bz, len
  <2>3. [i \in 1 .. len |-> bz[i]] \o [s \in 1 .. m |-> bz[len + s]] = bz
    BY <1>1, <2>2, Extended
  <2> QED
    BY <1>2, <2>1, <2>3
<1>8. ASSUME NEW i \in 1 .. len + m
      PROVE  \A j \in DOMAIN bz[i] : j \in 0 .. (len + m) - 1 /\ bz[i][j] = Clamp((i - 1) - j)
  <2>1. CASE i <= len
    <3>1. i \in 1 .. len /\ bz[i] = bias[i]
      BY <2>1
    <3>2. \A j \in DOMAIN bias[i] : j \in 0 .. len - 1 /\ bias[i][j] = Clamp((i - 1) - j)
      BY <3>1 DEF RotaryInv
    <3> HIDE DEF len, bz
    <3> QED
      BY <1>1, <3>1, <3>2
  <2>2. CASE ~ (i <= len)
    <3> DEFINE s == i - len - 1
               both == len + m
    <3>1. s \in 0 .. m - 1 /\ bz[i] = rows[s] /\ (both - m) + s = i - 1
      BY <1>1, <2>2
    <3> HIDE DEF s, both, bz
    <3>2. rows[s] = [j \in 0 .. both - 1 |-> Clamp(((both - m) + s) - j)]
      BY <3>1 DEF AlibiBias, QPos, both
    <3> HIDE DEF rows
    <3> QED
      BY <3>1, <3>2 DEF both
  <2> QED
    BY <2>1, <2>2
<1>9. \A v, pos : RowAt(v, pos)' = RowAt(v, pos)
  BY <1>2, SameRows
<1> QED
  BY <1>1, <1>2, <1>5, <1>6, <1>7, <1>8, <1>9 DEF RotaryInv

\* ... and every step keeps it.
LEMMA RotarySteps == Rotatable /\ RotaryInv /\ [RotaryNext]_rotaryVars => RotaryInv'
<1> SUFFICES ASSUME Rotatable, RotaryInv, [RotaryNext]_rotaryVars PROVE RotaryInv'
  OBVIOUS
<1>1. ASSUME NEW m \in 1 .. MaxLen, Feed(m) PROVE RotaryInv'
  BY <1>1, FeedStep
<1>2. CASE UNCHANGED rotaryVars
  <2>1. \A v, pos : RowAt(v, pos)' = RowAt(v, pos)
    BY <1>2, SameRows DEF rotaryVars
  <2> QED
    BY <1>2, <2>1 DEF rotaryVars, RotaryInv
<1> QED
  BY <1>1, <1>2 DEF RotaryNext

\* The cache holds the rows of the whole sequence, and their biases.
LEMMA WholeFollows == Rotatable /\ RotaryInv => ChunksMatchWhole
<1> SUFFICES ASSUME Rotatable, RotaryInv, NEW i \in 1 .. Len(ks)
             PROVE  LET n     == Len(ks)
                        whole == RopeRef([s \in 0 .. n - 1 |-> Key(s)], 0)
                        rows  == AlibiBias(n, n, TRUE)
                    IN  /\ ks[i] = whole[i - 1]
                        /\ \A j \in DOMAIN bias[i] : bias[i][j] = rows[i - 1][j]
  BY DEF ChunksMatchWhole
<1> DEFINE n == Len(ks)
           keys == [s \in 0 .. n - 1 |-> Key(s)]
           rows == AlibiBias(n, n, TRUE)
<1>1. n \in Nat /\ i - 1 \in 0 .. n - 1 /\ 0 + (i - 1) = i - 1 /\ (n - n) + (i - 1) = i - 1
  BY DEF RotaryInv
<1>2. ks[i] = RowAt(Key(i - 1), i - 1)
  BY DEF RotaryInv
<1>3. \A j \in DOMAIN bias[i] : j \in 0 .. n - 1 /\ bias[i][j] = Clamp((i - 1) - j)
  BY DEF RotaryInv
<1> HIDE DEF n
<1>4. DOMAIN keys = 0 .. n - 1 /\ keys[i - 1] = Key(i - 1)
  BY <1>1
<1> HIDE DEF keys
<1>5. RopeRef(keys, 0)[i - 1] = RowAt(Key(i - 1), i - 1)
  <2>1. RopeRef(keys, 0)[i - 1] = RowAt(keys[i - 1], 0 + (i - 1))
    BY <1>1, <1>4, RopeRows
  <2> QED
    BY <1>1, <1>4, <2>1
<1>6. \A j \in 0 .. n - 1 : rows[i - 1][j] = Clamp((i - 1) - j)
  BY <1>1 DEF AlibiBias, QPos
<1> HIDE DEF rows
<1> QED
  BY <1>2, <1>3, <1>5, <1>6 DEF n, keys, rows

\* Two integers in a row.
LEMMA TwoInts ==
  /\ \A f \in Seq(Int) : Len(f) = 2 => f \in [1 .. 2 -> Int]
  /\ \A f \in [1 .. 2 -> Int] : f \in Seq(Int) /\ Len(f) = 2
<1> DEFINE S == Int
           n == 2
<1>1. n \in Nat
  OBVIOUS
<1> HIDE DEF S, n
<1>2. \A f \in Seq(S) : f \in [1 .. Len(f) -> S]
  OBVIOUS
<1>3. \A f \in [1 .. n -> S] : f \in Seq(S) /\ Len(f) = n
  BY <1>1
<1>4. \A f \in Seq(S) : Len(f) = n => f \in [1 .. n -> S]
  BY <1>2
<1> QED
  BY <1>3, <1>4 DEF S, n

\* A row at its position is turned by the angles of the position.
LEMMA RowTurned ==
  ASSUME Rotatable, freq \in Freqs, freq_scale \in FreqScales, interleaved \in BOOLEAN,
         NEW v \in [0 .. 3 -> Int], NEW pos \in Int
  PROVE  Turned(RowAt(v, pos), v, (pos * freq_scale) * freq[1], (pos * freq_scale) * freq[2])
<1> DEFINE angles == [i \in DOMAIN freq |-> (pos * freq_scale) * freq[i]]
<1>1. freq \in Seq(Int) /\ Len(freq) = 2 /\ freq_scale \in Int
  BY DEF Rotatable
<1>2. DOMAIN freq = 1 .. 2 /\ freq[1] \in Int /\ freq[2] \in Int
  <2>1. freq \in [1 .. 2 -> Int]
    BY <1>1, TwoInts
  <2> QED
    BY <2>1
<1>3. pos * freq_scale \in Int
  BY <1>1
<1>4. angles \in Seq(Int) /\ Len(angles) = 2
  <2>1. angles \in [1 .. 2 -> Int]
    BY <1>2, <1>3
  <2> HIDE DEF angles
  <2> QED
    BY <2>1, TwoInts
<1>5. angles[1] = (pos * freq_scale) * freq[1] /\ angles[2] = (pos * freq_scale) * freq[2]
  BY <1>2
<1>6. RowAt(v, pos) = Rotated(v, angles)
  BY DEF RowAt
<1> HIDE DEF angles
<1> QED
  BY <1>4, <1>5, <1>6, RotatedTurns

\* Rotated rows score each other by the difference of their positions.
LEMMA RowsRelative ==
  ASSUME Rotatable, freq \in Freqs, freq_scale \in FreqScales, interleaved \in BOOLEAN,
         NEW v \in [0 .. 3 -> Int], NEW w \in [0 .. 3 -> Int], NEW i \in Int, NEW j \in Int
  PROVE  Dot(RowAt(v, i), RowAt(w, j)) = Dot(RowAt(v, i - j), w)
<1> DEFINE Ang(p, n) == (p * freq_scale) * freq[n]
<1>1. /\ Turned(RowAt(v, i), v, Ang(i, 1), Ang(i, 2))
      /\ Turned(RowAt(w, j), w, Ang(j, 1), Ang(j, 2))
      /\ Turned(RowAt(v, i - j), v, Ang(i - j, 1), Ang(i - j, 2))
  BY RowTurned
<1>2. freq_scale \in Int /\ freq[1] \in Int /\ freq[2] \in Int
  <2>1. freq \in Seq(Int) /\ Len(freq) = 2 /\ freq_scale \in Int
    BY DEF Rotatable
  <2>2. freq \in [1 .. 2 -> Int]
    BY <2>1, TwoInts
  <2> QED
    BY <2>1, <2>2
<1>3. \A n \in {1, 2} : /\ Ang(i, n) \in Int /\ Ang(j, n) \in Int
                        /\ Ang(i, n) - Ang(j, n) = Ang(i - j, n)
  <2>1. ASSUME NEW f \in Int
        PROVE  /\ (i * freq_scale) * f \in Int /\ (j * freq_scale) * f \in Int
               /\ (i * freq_scale) * f - (j * freq_scale) * f
                    = ((i - j) * freq_scale) * f
    BY <1>2
  <2> QED
    BY <1>2, <2>1
<1>4. \A n \in {1, 2} : Ang(i - j, n) \in Int
  BY <1>2
<1> HIDE DEF Ang
<1>5. PICK x : x = RowAt(v, i)
  OBVIOUS
<1>6. PICK y : y = RowAt(w, j)
  OBVIOUS
<1>7. PICK z : z = RowAt(v, i - j)
  OBVIOUS
<1>8. PICK ea, eaa : ea = Ang(i, 1) /\ eaa = Ang(i, 2)
  OBVIOUS
<1>9. PICK eb, ebb : eb = Ang(j, 1) /\ ebb = Ang(j, 2)
  OBVIOUS
<1>10. PICK ec, ecc : ec = Ang(i - j, 1) /\ ecc = Ang(i - j, 2)
  OBVIOUS
<1>11. /\ ea \in Int /\ eb \in Int /\ eaa \in Int /\ ebb \in Int /\ ec \in Int /\ ecc \in Int
      /\ ec = ea - eb /\ ecc = eaa - ebb
      /\ Turned(x, v, ea, eaa) /\ Turned(y, w, eb, ebb) /\ Turned(z, v, ec, ecc)
  BY <1>1, <1>3, <1>4, <1>5, <1>6, <1>7, <1>8, <1>9, <1>10
<1> SUFFICES Dot(x, y) = Dot(z, w)
  BY <1>5, <1>6, <1>7
<1> DEFINE h == IF interleaved THEN 1 ELSE 2
           l == IF interleaved THEN 2 ELSE 1
           P(n) == x[n] * y[n]
           Q(n) == z[n] * w[n]
           Z == Int
<1>12. /\ v[0] \in Z /\ v[h] \in Z /\ v[l] \in Z /\ v[3] \in Z
      /\ w[0] \in Z /\ w[h] \in Z /\ w[l] \in Z /\ w[3] \in Z
      /\ ea \in Z /\ eb \in Z /\ eaa \in Z /\ ebb \in Z /\ ec \in Z /\ ecc \in Z
  BY <1>11
<1>13. /\ x[0] = TurnedLo(v[0], v[h], ea) /\ x[h] = TurnedHi(v[0], v[h], ea)
      /\ y[0] = TurnedLo(w[0], w[h], eb) /\ y[h] = TurnedHi(w[0], w[h], eb)
      /\ z[0] = TurnedLo(v[0], v[h], ec) /\ z[h] = TurnedHi(v[0], v[h], ec)
      /\ x[l] = TurnedLo(v[l], v[3], eaa) /\ x[3] = TurnedHi(v[l], v[3], eaa)
      /\ y[l] = TurnedLo(w[l], w[3], ebb) /\ y[3] = TurnedHi(w[l], w[3], ebb)
      /\ z[l] = TurnedLo(v[l], v[3], ecc) /\ z[3] = TurnedHi(v[l], v[3], ecc)
  BY <1>11 DEF Turned
<1>14. h \in {1, 2} /\ l \in {1, 2} /\ h # l
  OBVIOUS
<1>15. \A e, d, p, q, r, s \in Z : PairTurns(e, d, p, q, r, s)
  BY PairRelative
<1>16. \A e, p, q \in Z : TurnedLo(p, q, e) \in Z /\ TurnedHi(p, q, e) \in Z
  BY PairRelative
<1> HIDE DEF h, l, Z
<1>17. PairTurns(ea, eb, v[0], v[h], w[0], w[h]) /\ PairTurns(eaa, ebb, v[l], v[3], w[l], w[3])
  BY <1>12, <1>15
<1>18. P(0) + P(h) = Q(0) + Q(h) /\ P(l) + P(3) = Q(l) + Q(3)
  BY <1>11, <1>13, <1>17 DEF PairTurns
<1>19. /\ x[0] \in Z /\ x[h] \in Z /\ x[l] \in Z /\ x[3] \in Z
      /\ y[0] \in Z /\ y[h] \in Z /\ y[l] \in Z /\ y[3] \in Z
      /\ z[0] \in Z /\ z[h] \in Z /\ z[l] \in Z /\ z[3] \in Z
  <2>1. x[0] \in Z /\ x[h] \in Z /\ x[l] \in Z /\ x[3] \in Z
    BY <1>12, <1>13, <1>16
  <2>2. y[0] \in Z /\ y[h] \in Z /\ y[l] \in Z /\ y[3] \in Z
    BY <1>12, <1>13, <1>16
  <2>3. z[0] \in Z /\ z[h] \in Z /\ z[l] \in Z /\ z[3] \in Z
    BY <1>12, <1>13, <1>16
  <2> QED
    BY <2>1, <2>2, <2>3
<1>20. /\ P(0) \in Int /\ P(h) \in Int /\ P(l) \in Int /\ P(3) \in Int
      /\ Q(0) \in Int /\ Q(h) \in Int /\ Q(l) \in Int /\ Q(3) \in Int
  BY <1>12, <1>19 DEF Z
<1>21. Dot(x, y) = P(0) + P(1) + P(2) + P(3) /\ Dot(z, w) = Q(0) + Q(1) + Q(2) + Q(3)
  BY DEF Dot
<1> HIDE DEF P, Q
<1>22. CASE h = 1
  BY <1>14, <1>18, <1>20, <1>21, <1>22
<1>23. CASE h = 2
  BY <1>14, <1>18, <1>20, <1>21, <1>23
<1> QED
  BY <1>14, <1>22, <1>23

\* Scores depend on the distance alone.
LEMMA RelativeFollows == Rotatable /\ RotaryInv => ScoresRelative
<1> SUFFICES ASSUME Rotatable, RotaryInv, NEW i \in 1 .. Len(ks), NEW j \in 1 .. Len(ks)
             PROVE  Dot(qs[i], ks[j])
                      = Dot(RopeRef([s \in {0} |-> Query(i - 1)], i - j)[0], Key(j - 1))
  BY DEF ScoresRelative
<1> DEFINE v == Query(i - 1)
           w == Key(j - 1)
           one == [s \in {0} |-> v]
<1>1. freq \in Freqs /\ freq_scale \in FreqScales /\ interleaved \in BOOLEAN
  BY DEF RotaryInv
<1>2. i \in Int /\ j \in Int /\ i - 1 \in Int /\ j - 1 \in Int /\ i - j \in Int
      /\ (i - j) + 0 = i - j
  OBVIOUS
<1>3. qs[i] = RowAt(v, i - 1) /\ ks[j] = RowAt(w, j - 1)
  BY DEF RotaryInv
<1>4. v \in [0 .. 3 -> Int] /\ w \in [0 .. 3 -> Int]
  <2>1. \A n \in 0 .. 3 : 2 * n - 3 * (i - 1) \in Int /\ 1 + (j - 1) * (n + 1) \in Int
    BY <1>2
  <2> QED
    BY <2>1 DEF Query, Key
<1>5. RopeRef(one, i - j)[0] = RowAt(v, i - j)
  <2>1. DOMAIN one = {0} /\ one[0] = v
    OBVIOUS
  <2> HIDE DEF one, v
  <2>2. RopeRef(one, i - j)[0] = RowAt(one[0], (i - j) + 0)
    BY <2>1, RopeRows
  <2> QED
    BY <1>2, <2>1, <2>2
<1> HIDE DEF v, w
<1>6. Dot(RowAt(v, i - 1), RowAt(w, j - 1)) = Dot(RowAt(v, i - j), w)
  <2>1. (i - 1) - (j - 1) = i - j
    BY <1>2
  <2>2. Dot(RowAt(v, i - 1), RowAt(w, j - 1)) = Dot(RowAt(v, (i - 1) - (j - 1)), w)
    BY <1>1, <1>2, <1>4, RowsRelative
  <2> QED
    BY <2>1, <2>2
<1> QED
  BY <1>3, <1>5, <1>6 DEF v, w, one

\* However a sequence is cut, with two pairs of any integers of quarter turns
\* per position and either layout, the cache holds what rope_ref makes of the
\* whole, with the biases of the whole, and scores depend on distance alone.
THEOREM RotaryRelative ==
  ASSUME Rotatable
  PROVE  RotarySpec => []PositionsRelative
<1>1. RotaryInit => RotaryInv
  BY RotaryStart
<1>2. RotaryInv /\ [RotaryNext]_rotaryVars => RotaryInv'
  BY RotarySteps
<1>3. RotaryInv => PositionsRelative
  BY WholeFollows, RelativeFollows DEF PositionsRelative
<1> QED
  BY <1>1, <1>2, <1>3, PTL DEF RotarySpec

---------------------------------------------------------------------------
(* Tensors.  ContentsKept needs two things: that no two tensors share a      *)
(* block (OneOwner), and that the extents of those whose arena was not reset *)
(* under them are disjoint and behind the offset of the arena.               *)

\* An extent in the arena that still belongs to its tensor.
Settled(t) == InArena(t) /\ t \notin stale
ExtentEnd(t) == tensor[t].data + tensor[t].size

\* The arena's live tensors lie behind the offset and do not overlap.
ArenaDisjoint ==
  /\ \A t \in Names : Settled(t) => ExtentEnd(t) <= offset
  /\ \A s, t \in Names :
       Settled(s) /\ Settled(t) /\ s # t => ExtentEnd(s) <= tensor[t].data \/ ExtentEnd(t) <= tensor[s].data

\* Types of what TypeOK leaves out; a tensor without data, or whose
\* arena was reset, holds nothing its owner wrote.
WrittenOK ==
  /\ held \in [Addresses -> Values]
  /\ bytes \in [0 .. Capacity - 1 -> Values]
  /\ written \in [Names -> Values \cup {Unwritten}]
  /\ \A t \in Names : written[t] # Unwritten => t \notin stale /\ tensor[t].data # Null

TensorsInv == TypeOK /\ OneOwner /\ ArenaDisjoint /\ WrittenOK /\ ContentsKept


\* Rounding up to the alignment does not go back.
LEMMA ArenaStartBound ==
  ASSUME NEW from \in Nat
  PROVE  ArenaStart(from, Align) \in Nat /\ from <= ArenaStart(from, Align)
<1> DEFINE x == from + Align - 1
           q == x \div Align
<1>1. Align \in Nat /\ Align > 0
  BY TensorsAssumption
<1>2. x \in Nat /\ q \in Nat /\ q * Align <= x /\ x < q * Align + Align /\ q * Align \in Nat
  BY <1>1
<1> HIDE DEF q
<1>3. from <= q * Align
  BY <1>1, <1>2
<1>4. QED BY <1>2, <1>3 DEF ArenaStart, q

\* No alignment is that of a free block.
LEMMA AlignsNotFree ==
  ASSUME NEW alloc \in {"heap", "page"}
  PROVE  NewAlign(alloc) \in Nat \ {0} /\ DeleteAlign(alloc) \in Nat \ {0}
BY TensorsAssumption DEF NewAlign, DeleteAlign, HeapAlign, MaxAlign, kPage

\* The alignments of new and delete agree, if Tensor asks for no more than
\* what HeapAllocator frees with.
LEMMA AlignsAgree ==
  ASSUME Align <= MaxAlign, NEW alloc \in {"heap", "page"}
  PROVE  NewAlign(alloc) = DeleteAlign(alloc)
BY TensorsAssumption DEF NewAlign, DeleteAlign, HeapAlign, MaxAlign, kPage

\* Types -----------------------------------------------------------------------

LEMMA InitInv == Init => TensorsInv
<1> SUFFICES ASSUME Init PROVE TensorsInv
  OBVIOUS
<1> USE TensorsAssumption DEF Init, HasBlock, InArena, Dead
<1>1. TypeOK
  BY DEF TypeOK, Tensors, Null
<1>2. OneOwner
  BY DEF OneOwner
<1>3. ArenaDisjoint
  BY DEF ArenaDisjoint, Settled
<1>4. WrittenOK
  BY DEF WrittenOK, Unwritten
<1>5. ContentsKept
  BY DEF ContentsKept, Unwritten
<1> QED
  BY <1>1, <1>2, <1>3, <1>4, <1>5 DEF TensorsInv

\* A tensor that t becomes is as good as new or empty; the others stay.
LEMMA TensorTypes ==
  ASSUME TypeOK, NEW t \in Names, NEW new,
         new \in Tensors,
         new.alloc \in {"heap", "page"} /\ new.data # Null => new.data \in Addresses,
         new.alloc = "arena" /\ new.data # Null => new.data \in Nat,
         new.alloc \in {"dead", "none"} => new.data = Null,
         tensor' = [tensor EXCEPT ![t] = new],
         block' \in [Addresses -> Nat], offset' \in 0 .. Capacity
  PROVE  TypeOK'
<1>1. tensor' \in [Names -> Tensors]
  BY DEF TypeOK
<1>2. \A s \in Names : tensor'[s] = IF s = t THEN new ELSE tensor[s]
  BY DEF TypeOK
<1> QED
  BY <1>1, <1>2 DEF TypeOK, HasBlock, InArena

\* What a move leaves: t is what the other was, and the other is empty.
LEMMA StolenPointwise ==
  ASSUME TypeOK, NEW t \in Names, NEW other \in Names, t # other, tensor' = Stolen(t, other)
  PROVE  /\ tensor' \in [Names -> Tensors]
         /\ \A s \in Names : tensor'[s] = IF s = t THEN tensor[other]
                                          ELSE IF s = other THEN Empty ELSE tensor[s]
<1>1. Empty \in Tensors
  BY DEF Empty, Tensors, Null
<1> QED
  BY <1>1 DEF TypeOK, Stolen

LEMMA StolenTypes ==
  ASSUME TypeOK, NEW t \in Names, NEW other \in Names, t # other, tensor' = Stolen(t, other),
         block' \in [Addresses -> Nat], offset' \in 0 .. Capacity
  PROVE  TypeOK'
<1>1. /\ tensor' \in [Names -> Tensors]
      /\ \A s \in Names : tensor'[s] = IF s = t THEN tensor[other]
                                       ELSE IF s = other THEN Empty ELSE tensor[s]
  BY StolenPointwise
<1> QED
  BY <1>1 DEF TypeOK, HasBlock, InArena, Empty

LEMMA ReleasedTypes ==
  ASSUME TypeOK, NEW t \in Names
  PROVE  Released(t) \in [Addresses -> Nat]
BY DEF TypeOK, Released

LEMMA ArenaTypes ==
  ASSUME TypeOK, NEW size \in Sizes
  PROVE  /\ ArenaNext(size) \in 0 .. Capacity
         /\ ArenaData(size) \in Nat \cup {Null}
         /\ ArenaData(size) # Null => /\ offset <= ArenaData(size)
                                      /\ ArenaNext(size) = ArenaData(size) + size
                                      /\ ArenaData(size) \in Nat
         /\ ArenaData(size) = Null => ArenaNext(size) = offset
<1>1. offset \in Nat /\ size \in Nat /\ Capacity \in Nat /\ offset <= Capacity
  BY TensorsAssumption DEF TypeOK
<1>2. ArenaStart(offset, Align) \in Nat /\ offset <= ArenaStart(offset, Align)
  BY <1>1, ArenaStartBound
<1> QED
  BY <1>1, <1>2 DEF ArenaNext, ArenaData, Fits, Null

LEMMA TypeStep == TypeOK /\ [Next]_vars => TypeOK'
<1> SUFFICES ASSUME TypeOK, [Next]_vars PROVE TypeOK'
  OBVIOUS
<1> USE TensorsAssumption
<1>0. block \in [Addresses -> Nat] /\ offset \in 0 .. Capacity
  BY DEF TypeOK
<1>1. ASSUME NEW t \in Names, Default(t) PROVE TypeOK'
  BY <1>0, <1>1, TensorTypes DEF Default, Empty, Tensors, Null
<1>2. ASSUME NEW t \in Names, NEW size \in Sizes, NEW alloc \in {"heap", "page"},
             NEW addr \in Addresses \cup {Null}, NewBlock(t, size, alloc, addr)
      PROVE  TypeOK'
  <2> DEFINE new == [alloc |-> alloc, size |-> size, data |-> addr]
  <2>1. new \in Tensors /\ size \in Nat
    BY DEF Tensors
  <2>2. block' \in [Addresses -> Nat]
    BY <1>0, <1>2, AlignsNotFree DEF NewBlock
  <2>3. new.alloc \in {"heap", "page"} /\ (new.data # Null => new.data \in Addresses)
    OBVIOUS
  <2>4. tensor' = [tensor EXCEPT ![t] = new] /\ offset' \in 0 .. Capacity
    BY <1>0, <1>2 DEF NewBlock
  <2> HIDE DEF new
  <2> QED
    BY <2>1, <2>2, <2>3, <2>4, TensorTypes
<1>3. ASSUME NEW t \in Names, NEW size \in Sizes, NewInArena(t, size) PROVE TypeOK'
  <2> DEFINE new == [alloc |-> "arena", size |-> size, data |-> ArenaData(size)]
  <2>1. new \in Tensors
    BY ArenaTypes DEF Tensors
  <2>2. new.alloc = "arena" /\ (new.data # Null => new.data \in Nat)
    BY ArenaTypes
  <2>3. tensor' = [tensor EXCEPT ![t] = new] /\ offset' \in 0 .. Capacity /\ block' = block
    BY <1>3, ArenaTypes DEF NewInArena
  <2> HIDE DEF new
  <2> QED
    BY <1>0, <2>1, <2>2, <2>3, TensorTypes
<1>4. ASSUME NEW t \in Names, Destroy(t) PROVE TypeOK'
  <2>1. Dead \in Tensors /\ Dead.alloc = "dead" /\ Dead.data = Null
    BY DEF Dead, Tensors
  <2> QED
    BY <1>0, <1>4, <2>1, TensorTypes, ReleasedTypes DEF Destroy
<1>5. ASSUME NEW t \in Names, NEW v \in Values, Fill(t, v) PROVE TypeOK'
  BY <1>5 DEF Fill, TypeOK, HasBlock, InArena
<1>6. ASSUME NEW t \in Names, NEW other \in Names, MoveNew(t, other) PROVE TypeOK'
  BY <1>0, <1>6, StolenTypes DEF MoveNew
<1>7. ASSUME NEW t \in Names, NEW other \in Names, MoveAssign(t, other) PROVE TypeOK'
  BY <1>0, <1>7, StolenTypes, ReleasedTypes DEF MoveAssign
<1>8. CASE Reset
  BY <1>8 DEF Reset, TypeOK, HasBlock, InArena
<1>9. CASE UNCHANGED vars
  BY <1>9 DEF vars, TypeOK, HasBlock, InArena
<1> QED
  BY <1>1, <1>2, <1>3, <1>4, <1>5, <1>6, <1>7, <1>8, <1>9 DEF Next, Create

\* Blocks -----------------------------------------------------------------------

\* Blocks are owned the same as long as the tensors that have one stay, and so
\* do the blocks.
LEMMA SameOwners ==
  ASSUME OneOwner, block' = block,
         \A s \in Names : (HasBlock(s)' <=> HasBlock(s)) /\ (HasBlock(s) => tensor'[s] = tensor[s])
  PROVE  OneOwner'
BY DEF OneOwner, HasBlock

\* A move hands the other's block to t, whose own block is released.
LEMMA StolenOwner ==
  ASSUME TypeOK, OneOwner, NEW t \in Names, NEW other \in Names, t # other,
         tensor' = Stolen(t, other), block' = Released(t)
  PROVE  OneOwner'
<1>1. \A s \in Names : tensor'[s] = IF s = t THEN tensor[other]
                                    ELSE IF s = other THEN Empty ELSE tensor[s]
  BY StolenPointwise
<1>2. /\ HasBlock(t)' <=> HasBlock(other)
      /\ ~ HasBlock(other)'
      /\ \A s \in Names \ {t, other} : HasBlock(s)' <=> HasBlock(s)
  BY <1>1 DEF HasBlock, Empty
<1>3. \A a \in Addresses : block'[a] = IF HasBlock(t) /\ tensor[t].data = a THEN 0 ELSE block[a]
  BY TensorsAssumption DEF Released, HasBlock, Null
<1>4. \A s \in Names : HasBlock(s) => tensor[s].data \in Addresses
  BY DEF TypeOK
<1>5. \A s \in Names : HasBlock(s)' => block'[tensor'[s].data] = DeleteAlign(tensor'[s].alloc)
  <2> SUFFICES ASSUME NEW s \in Names, HasBlock(s)'
               PROVE  block'[tensor'[s].data] = DeleteAlign(tensor'[s].alloc)
    OBVIOUS
  <2>1. PICK u \in Names : u # t /\ HasBlock(u) /\ tensor'[s] = tensor[u]
    BY <1>1, <1>2
  <2> QED
    BY <2>1, <1>3, <1>4 DEF OneOwner
<1>6. \A r, s \in Names : HasBlock(r)' /\ HasBlock(s)' /\ tensor'[r].data = tensor'[s].data => r = s
  BY <1>1, <1>2 DEF OneOwner
<1>7. \A a \in Addresses : block'[a] # 0 => \E s \in Names : HasBlock(s)' /\ tensor'[s].data = a
  <2> SUFFICES ASSUME NEW a \in Addresses, block'[a] # 0
               PROVE  \E s \in Names : HasBlock(s)' /\ tensor'[s].data = a
    OBVIOUS
  <2>1. block[a] # 0 /\ ~ (HasBlock(t) /\ tensor[t].data = a)
    BY <1>3
  <2>2. PICK u \in Names : HasBlock(u) /\ tensor[u].data = a
    BY <2>1 DEF OneOwner
  <2>3. u # t
    BY <2>1, <2>2
  <2>4. CASE u = other
    BY <1>1, <1>2, <2>2, <2>4
  <2>5. CASE u # other
    BY <1>1, <1>2, <2>2, <2>3, <2>5
  <2> QED
    BY <2>4, <2>5
<1> QED
  BY <1>5, <1>6, <1>7 DEF OneOwner

LEMMA OwnerStep ==
  ASSUME Align <= MaxAlign, TypeOK, OneOwner, [Next]_vars
  PROVE  OneOwner'
<1> USE TensorsAssumption
<1>1. ASSUME NEW t \in Names, Default(t) PROVE OneOwner'
  <2>1. \A s \in Names : tensor'[s] = IF s = t THEN Empty ELSE tensor[s]
    BY <1>1 DEF Default, TypeOK
  <2> QED
    BY <1>1, <2>1, SameOwners DEF Default, HasBlock, Empty, Dead
<1>2. ASSUME NEW t \in Names, NEW size \in Sizes, NEW alloc \in {"heap", "page"},
             NEW addr \in Addresses \cup {Null}, NewBlock(t, size, alloc, addr)
      PROVE  OneOwner'
  <2>1. \A s \in Names : tensor'[s] = IF s = t THEN [alloc |-> alloc, size |-> size, data |-> addr]
                                      ELSE tensor[s]
    BY <1>2 DEF NewBlock, TypeOK
  <2>2. \A s \in Names \ {t} : HasBlock(s)' <=> HasBlock(s)
    BY <2>1 DEF HasBlock
  <2>3. ~ HasBlock(t) /\ (HasBlock(t)' <=> addr # Null)
    BY <1>2, <2>1 DEF HasBlock, NewBlock, Dead
  <2>4. \A a \in Addresses : block'[a] = IF a = addr THEN NewAlign(alloc) ELSE block[a]
    BY <1>2 DEF NewBlock
  <2>5. addr # Null => addr \in Addresses /\ block[addr] = 0
    BY <1>2 DEF NewBlock, BlockAlloc
  <2>6. NewAlign(alloc) = DeleteAlign(alloc) /\ NewAlign(alloc) # 0
    BY AlignsAgree, AlignsNotFree
  <2>7. \A s \in Names : HasBlock(s) => tensor[s].data \in Addresses /\ tensor[s].data # addr
    <3>1. \A s \in Names : HasBlock(s) => tensor[s].data \in Addresses /\ tensor[s].alloc \in {"heap", "page"}
      BY DEF TypeOK, HasBlock
    <3>2. \A s \in Names : HasBlock(s) => block[tensor[s].data] # 0
      BY <3>1, AlignsNotFree DEF OneOwner
    <3>3. Null \notin Addresses
      BY DEF Null
    <3> QED
      BY <2>5, <3>1, <3>2, <3>3
  <2>8. \A s \in Names : HasBlock(s)' => block'[tensor'[s].data] = DeleteAlign(tensor'[s].alloc)
    BY <2>1, <2>2, <2>3, <2>4, <2>5, <2>6, <2>7 DEF OneOwner
  <2>9. \A r, s \in Names : HasBlock(r)' /\ HasBlock(s)' /\ tensor'[r].data = tensor'[s].data => r = s
    BY <2>1, <2>2, <2>3, <2>7 DEF OneOwner
  <2>10. \A a \in Addresses : block'[a] # 0 => \E s \in Names : HasBlock(s)' /\ tensor'[s].data = a
    <3> SUFFICES ASSUME NEW a \in Addresses, block'[a] # 0
                 PROVE  \E s \in Names : HasBlock(s)' /\ tensor'[s].data = a
      OBVIOUS
    <3>1. CASE a = addr
      BY <2>1, <2>3, <3>1 DEF Null
    <3>2. CASE a # addr
      <4>1. PICK u \in Names : HasBlock(u) /\ tensor[u].data = a
        BY <2>4, <3>2 DEF OneOwner
      <4> QED
        BY <4>1, <2>1, <2>2, <2>3
    <3> QED
      BY <3>1, <3>2
  <2> QED
    BY <2>8, <2>9, <2>10 DEF OneOwner
<1>3. ASSUME NEW t \in Names, NEW size \in Sizes, NewInArena(t, size) PROVE OneOwner'
  <2>1. \A s \in Names : tensor'[s] = IF s = t THEN [alloc |-> "arena", size |-> size, data |-> ArenaData(size)]
                                      ELSE tensor[s]
    BY <1>3 DEF NewInArena, TypeOK
  <2> QED
    BY <1>3, <2>1, SameOwners DEF NewInArena, HasBlock, Dead
<1>4. ASSUME NEW t \in Names, Destroy(t) PROVE OneOwner'
  <2>1. \A s \in Names : tensor'[s] = IF s = t THEN Dead ELSE tensor[s]
    BY <1>4 DEF Destroy, TypeOK
  <2>2. ~ HasBlock(t)' /\ \A s \in Names \ {t} : HasBlock(s)' <=> HasBlock(s)
    BY <2>1 DEF HasBlock, Dead
  <2>3. \A a \in Addresses : block'[a] = IF HasBlock(t) /\ tensor[t].data = a THEN 0 ELSE block[a]
    BY <1>4 DEF Destroy, Released, HasBlock, Null
  <2>4. \A s \in Names : HasBlock(s) => tensor[s].data \in Addresses
    BY DEF TypeOK
  <2> QED
    BY <2>1, <2>2, <2>3, <2>4 DEF OneOwner
<1>5. ASSUME NEW t \in Names, NEW v \in Values, Fill(t, v) PROVE OneOwner'
  BY <1>5, SameOwners DEF Fill, HasBlock
<1>6. ASSUME NEW t \in Names, NEW other \in Names, MoveNew(t, other) PROVE OneOwner'
  <2>1. t # other /\ tensor[t].alloc = "dead"
    BY <1>6 DEF MoveNew, Dead
  <2>2. Released(t) = block
    BY <2>1 DEF Released, TypeOK
  <2> QED
    BY <1>6, <2>1, <2>2, StolenOwner DEF MoveNew
<1>7. ASSUME NEW t \in Names, NEW other \in Names, MoveAssign(t, other) PROVE OneOwner'
  BY <1>7, StolenOwner DEF MoveAssign
<1>8. CASE Reset
  BY <1>8, SameOwners DEF Reset, HasBlock
<1>9. CASE UNCHANGED vars
  BY <1>9, SameOwners DEF vars, HasBlock
<1> QED
  BY <1>1, <1>2, <1>3, <1>4, <1>5, <1>6, <1>7, <1>8, <1>9 DEF Next, Create

\* The arena and the contents ---------------------------------------------------

\* A new tensor is put behind the offset; the rest keep their places.
LEMMA DisjointStep == TypeOK /\ ArenaDisjoint /\ [Next]_vars => ArenaDisjoint'
<1> SUFFICES ASSUME TypeOK, ArenaDisjoint, [Next]_vars PROVE ArenaDisjoint'
  OBVIOUS
<1> USE TensorsAssumption
<1>1. ASSUME NEW t \in Names, Default(t) PROVE ArenaDisjoint'
  <2>1. \A s \in Names : tensor'[s] = IF s = t THEN Empty ELSE tensor[s]
    BY <1>1 DEF Default, TypeOK
  <2>2. stale' = stale /\ offset' = offset
    BY <1>1 DEF Default
  <2> QED
    BY <2>1, <2>2 DEF ArenaDisjoint, Settled, InArena, ExtentEnd, Empty
<1>2. ASSUME NEW t \in Names, NEW size \in Sizes, NEW alloc \in {"heap", "page"},
             NEW addr \in Addresses \cup {Null}, NewBlock(t, size, alloc, addr)
      PROVE  ArenaDisjoint'
  <2>1. \A s \in Names : tensor'[s] = IF s = t THEN [alloc |-> alloc, size |-> size, data |-> addr]
                                      ELSE tensor[s]
    BY <1>2 DEF NewBlock, TypeOK
  <2>2. stale' = stale /\ offset' = offset
    BY <1>2 DEF NewBlock
  <2> QED
    BY <2>1, <2>2 DEF ArenaDisjoint, Settled, InArena, ExtentEnd
<1>3. ASSUME NEW t \in Names, NEW size \in Sizes, NewInArena(t, size) PROVE ArenaDisjoint'
  <2>1. \A s \in Names : tensor'[s] = IF s = t THEN [alloc |-> "arena", size |-> size, data |-> ArenaData(size)]
                                      ELSE tensor[s]
    BY <1>3 DEF NewInArena, TypeOK
  <2>2. stale' = stale /\ offset' = ArenaNext(size)
    BY <1>3 DEF NewInArena
  <2>3. \A s \in Names \ {t} : /\ Settled(s)' <=> Settled(s)
                               /\ ExtentEnd(s)' = ExtentEnd(s) /\ tensor'[s].data = tensor[s].data
    BY <2>1, <2>2 DEF Settled, InArena, ExtentEnd
  <2>4. Settled(t)' => /\ ArenaData(size) \in Nat /\ offset <= ArenaData(size)
                      /\ tensor'[t].data = ArenaData(size)
                      /\ ExtentEnd(t)' = ArenaNext(size)
    BY <2>1, ArenaTypes DEF Settled, InArena, ExtentEnd
  <2>5. offset \in Nat /\ offset' \in Nat /\ offset <= offset'
    <3>1. size \in Nat /\ offset \in Nat
      BY DEF TypeOK
    <3> QED
      BY <2>2, <3>1, ArenaTypes
  <2>6. \A s \in Names : Settled(s) => ExtentEnd(s) \in Nat /\ tensor[s].data \in Nat /\ ExtentEnd(s) <= offset
    <3>1. \A s \in Names : Settled(s) => tensor[s].data \in Nat /\ tensor[s].size \in Nat
      BY DEF TypeOK, Tensors, Settled
    <3> QED
      BY <3>1 DEF ArenaDisjoint, ExtentEnd
  <2>7. \A s \in Names : Settled(s)' => ExtentEnd(s)' <= offset'
    BY <2>2, <2>3, <2>4, <2>5, <2>6
  <2>8. \A r, s \in Names : Settled(r)' /\ Settled(s)' /\ r # s
          => ExtentEnd(r)' <= tensor'[s].data \/ ExtentEnd(s)' <= tensor'[r].data
    BY <2>3, <2>4, <2>5, <2>6 DEF ArenaDisjoint
  <2> QED
    BY <2>7, <2>8 DEF ArenaDisjoint
<1>4. ASSUME NEW t \in Names, Destroy(t) PROVE ArenaDisjoint'
  <2>1. \A s \in Names : tensor'[s] = IF s = t THEN Dead ELSE tensor[s]
    BY <1>4 DEF Destroy, TypeOK
  <2>2. stale' = stale \ {t} /\ offset' = offset
    BY <1>4 DEF Destroy
  <2> QED
    BY <2>1, <2>2 DEF ArenaDisjoint, Settled, InArena, ExtentEnd, Dead
<1>5. ASSUME NEW t \in Names, NEW v \in Values, Fill(t, v) PROVE ArenaDisjoint'
  BY <1>5 DEF Fill, ArenaDisjoint, Settled, InArena, ExtentEnd
<1>6. ASSUME NEW t \in Names, NEW other \in Names, MoveNew(t, other) \/ MoveAssign(t, other)
      PROVE  ArenaDisjoint'
  <2>1. t # other /\ tensor' = Stolen(t, other) /\ stale' = StaleMoved(t, other) /\ offset' = offset
    BY <1>6 DEF MoveNew, MoveAssign
  <2>2. \A s \in Names : tensor'[s] = IF s = t THEN tensor[other]
                                      ELSE IF s = other THEN Empty ELSE tensor[s]
    BY <2>1, StolenPointwise
  <2>3. /\ Settled(t)' <=> Settled(other)
        /\ ~ Settled(other)'
        /\ \A s \in Names \ {t, other} : Settled(s)' <=> Settled(s)
    BY <2>1, <2>2 DEF Settled, InArena, StaleMoved, Empty
  <2> QED
    BY <2>1, <2>2, <2>3 DEF ArenaDisjoint, ExtentEnd
<1>7. CASE Reset
  <2>1. \A s \in Names : ~ Settled(s)'
    BY <1>7 DEF Reset, Settled, InArena
  <2> QED
    BY <2>1 DEF ArenaDisjoint
<1>8. CASE UNCHANGED vars
  BY <1>8 DEF vars, ArenaDisjoint, Settled, InArena, ExtentEnd
<1> QED
  BY <1>1, <1>2, <1>3, <1>4, <1>5, <1>6, <1>7, <1>8 DEF Next, Create

LEMMA WrittenStep == TypeOK /\ WrittenOK /\ [Next]_vars => WrittenOK'
<1> SUFFICES ASSUME TypeOK, WrittenOK, [Next]_vars PROVE WrittenOK'
  OBVIOUS
<1> USE TensorsAssumption
<1>1. ASSUME NEW t \in Names, tensor[t] = Dead, NEW new, tensor' = [tensor EXCEPT ![t] = new],
             UNCHANGED <<held, bytes, written, stale>>
      PROVE  WrittenOK'
  BY <1>1 DEF WrittenOK, TypeOK, Dead
<1>2. ASSUME NEW t \in Names, Create(t) PROVE WrittenOK'
  BY <1>1, <1>2 DEF Create, Default, NewBlock, NewInArena
<1>4. ASSUME NEW t \in Names, Destroy(t) PROVE WrittenOK'
  BY <1>4 DEF Destroy, WrittenOK, TypeOK
<1>5. ASSUME NEW t \in Names, NEW v \in Values, Fill(t, v) PROVE WrittenOK'
  BY <1>5 DEF Fill, WrittenOK
<1>6. ASSUME NEW t \in Names, NEW other \in Names, MoveNew(t, other) \/ MoveAssign(t, other)
      PROVE  WrittenOK'
  <2>1. t # other /\ tensor' = Stolen(t, other) /\ stale' = StaleMoved(t, other)
        /\ written' = [written EXCEPT ![t] = written[other], ![other] = Unwritten]
        /\ UNCHANGED <<held, bytes>>
    BY <1>6 DEF MoveNew, MoveAssign
  <2>2. \A s \in Names : tensor'[s] = IF s = t THEN tensor[other]
                                      ELSE IF s = other THEN Empty ELSE tensor[s]
    BY <2>1, StolenPointwise
  <2> QED
    BY <2>1, <2>2 DEF WrittenOK, StaleMoved
<1>7. CASE Reset
  BY <1>7 DEF Reset, WrittenOK
<1>8. CASE UNCHANGED vars
  BY <1>8 DEF vars, WrittenOK
<1> QED
  BY <1>2, <1>4, <1>5, <1>6, <1>7, <1>8 DEF Next

\* What is written to one tensor is not seen in another.
LEMMA FillKeeps ==
  ASSUME TensorsInv, NEW t \in Names, NEW v \in Values, Fill(t, v)
  PROVE  ContentsKept'
<1> USE TensorsAssumption DEF TensorsInv
<1>1. \A s \in Names : written'[s] = IF s = t THEN v ELSE written[s]
  BY DEF Fill, WrittenOK
<1>2. tensor' = tensor
  BY DEF Fill
<1>3. \A s \in Names : /\ HasBlock(s) => tensor[s].data \in Addresses
                       /\ InArena(s) => tensor[s].data \in Nat
                       /\ tensor[s].size \in Nat
  BY DEF TypeOK, Tensors
<1>4. \A a \in Addresses : held'[a] = IF tensor[t].data = a THEN v ELSE held[a]
  BY DEF Fill
<1>5. \A i \in 0 .. Capacity - 1 :
        bytes'[i] = IF tensor[t].alloc = "arena" /\ i \in Extent(t) THEN v ELSE bytes[i]
  BY DEF Fill, Extent
<1>6. SUFFICES ASSUME NEW s \in Names, written'[s] # Unwritten
               PROVE  /\ HasBlock(s) => held'[tensor[s].data] = written'[s]
                      /\ InArena(s) => \A i \in Extent(s) : i \in 0 .. Capacity - 1 /\ bytes'[i] = written'[s]
  BY <1>2 DEF ContentsKept, HasBlock, InArena, Extent
<1>7. ASSUME HasBlock(s) PROVE held'[tensor[s].data] = written'[s]
  <2>1. CASE s = t
    BY <2>1, <1>1, <1>3, <1>4, <1>7
  <2>2. CASE s # t
    <3>1. tensor[t].data # tensor[s].data
      <4>1. tensor[t].alloc \in {"heap", "page", "arena"} /\ tensor[t].data # Null
        BY DEF Fill, TypeOK, Tensors
      <4>2. CASE HasBlock(t)
        BY <4>2, <2>2, <1>7 DEF OneOwner
      <4>3. CASE InArena(t)
        BY <4>3, <1>3, <1>7
      <4> QED
        BY <4>1, <4>2, <4>3 DEF HasBlock, InArena
    <3> QED
      BY <3>1, <2>2, <1>1, <1>3, <1>4, <1>6, <1>7 DEF ContentsKept
  <2> QED
    BY <2>1, <2>2
<1>8. ASSUME InArena(s), NEW i \in Extent(s) PROVE i \in 0 .. Capacity - 1 /\ bytes'[i] = written'[s]
  <2>1. CASE s = t
    <3>1. Settled(t)
      BY <2>1, <1>8 DEF Fill, Settled
    <3>2. ExtentEnd(t) <= offset /\ offset \in Nat /\ offset <= Capacity /\ Capacity \in Nat
      BY <3>1 DEF ArenaDisjoint, TypeOK
    <3>3. i \in 0 .. Capacity - 1
      BY <2>1, <3>2, <1>3, <1>8 DEF Extent, ExtentEnd
    <3> QED
      BY <2>1, <3>3, <1>1, <1>5, <1>8 DEF InArena
  <2>2. CASE s # t
    <3>1. written[s] # Unwritten /\ written'[s] = written[s]
      BY <2>2, <1>1, <1>6
    <3>2. i \in 0 .. Capacity - 1 /\ bytes[i] = written[s]
      BY <3>1, <1>8 DEF ContentsKept
    <3>3. ~ (tensor[t].alloc = "arena" /\ i \in Extent(t))
      <4> SUFFICES ASSUME tensor[t].alloc = "arena", i \in Extent(t) PROVE FALSE
        OBVIOUS
      <4>1. InArena(t) /\ Settled(t) /\ Settled(s)
        BY <3>1, <1>8 DEF Fill, InArena, Settled, WrittenOK
      <4>2. ExtentEnd(s) <= tensor[t].data \/ ExtentEnd(t) <= tensor[s].data
        BY <4>1, <2>2 DEF ArenaDisjoint
      <4> QED
        BY <4>1, <4>2, <1>3, <1>8 DEF Extent, ExtentEnd
    <3> QED
      BY <3>1, <3>2, <3>3, <1>5
  <2> QED
    BY <2>1, <2>2
<1> QED
  BY <1>7, <1>8

\* Contents are kept by a step that moves no byte, if the data of every tensor
\* that has been written was that of one that had.
LEMMA MovedKeeps ==
  ASSUME ContentsKept, UNCHANGED <<held, bytes>>,
         \A s \in Names : written'[s] # Unwritten =>
           \E r \in Names : tensor'[s] = tensor[r] /\ written'[s] = written[r]
  PROVE  ContentsKept'
BY DEF ContentsKept, HasBlock, InArena, Extent

LEMMA ContentsStep == TensorsInv /\ [Next]_vars => ContentsKept'
<1> SUFFICES ASSUME TensorsInv, [Next]_vars PROVE ContentsKept'
  OBVIOUS
<1>0. ContentsKept
  BY DEF TensorsInv
<1>1. ASSUME NEW t \in Names, Create(t) PROVE ContentsKept'
  <2>1. tensor[t] = Dead /\ UNCHANGED <<held, bytes, written>>
    BY <1>1 DEF Create, Default, NewBlock, NewInArena
  <2>2. \A s \in Names \ {t} : tensor'[s] = tensor[s]
    BY <1>1 DEF Create, Default, NewBlock, NewInArena, TensorsInv, TypeOK
  <2>3. written[t] = Unwritten
    BY <2>1 DEF TensorsInv, WrittenOK, Dead
  <2> QED
    BY <2>1, <2>2, <2>3, <1>0, MovedKeeps
<1>2. ASSUME NEW t \in Names, Destroy(t) PROVE ContentsKept'
  <2>1. UNCHANGED <<held, bytes>> /\ written'[t] = Unwritten
        /\ \A s \in Names \ {t} : tensor'[s] = tensor[s] /\ written'[s] = written[s]
    BY <1>2 DEF Destroy, TensorsInv, TypeOK, WrittenOK
  <2> QED
    BY <2>1, <1>0, MovedKeeps
<1>3. ASSUME NEW t \in Names, NEW v \in Values, Fill(t, v) PROVE ContentsKept'
  BY <1>3, FillKeeps
<1>4. ASSUME NEW t \in Names, NEW other \in Names, MoveNew(t, other) \/ MoveAssign(t, other)
      PROVE  ContentsKept'
  <2>1. t # other /\ tensor' = Stolen(t, other)
        /\ written' = [written EXCEPT ![t] = written[other], ![other] = Unwritten]
        /\ UNCHANGED <<held, bytes>>
    BY <1>4 DEF MoveNew, MoveAssign
  <2>2. \A s \in Names : tensor'[s] = IF s = t THEN tensor[other]
                                      ELSE IF s = other THEN Empty ELSE tensor[s]
    BY <2>1, StolenPointwise DEF TensorsInv
  <2>3. \A s \in Names : written'[s] = IF s = t THEN written[other]
                                       ELSE IF s = other THEN Unwritten ELSE written[s]
    BY <2>1 DEF TensorsInv, WrittenOK
  <2> QED
    BY <2>1, <2>2, <2>3, <1>0, MovedKeeps
<1>5. CASE Reset
  <2>1. UNCHANGED <<held, bytes, tensor>>
        /\ \A s \in Names : written'[s] # Unwritten => written'[s] = written[s]
    BY <1>5 DEF Reset
  <2> QED
    BY <2>1, <1>0, MovedKeeps
<1>6. CASE UNCHANGED vars
  BY <1>6, <1>0, MovedKeeps DEF vars
<1> QED
  BY <1>1, <1>2, <1>3, <1>4, <1>5, <1>6 DEF Next

\* Theorems ---------------------------------------------------------------------

LEMMA TensorsInvariant ==
  ASSUME Align <= MaxAlign
  PROVE  Spec => []TensorsInv
<1>1. TensorsInv /\ [Next]_vars => TensorsInv'
  BY TypeStep, OwnerStep, DisjointStep, WrittenStep, ContentsStep DEF TensorsInv
<1> QED
  BY <1>1, InitInv, PTL DEF Spec

\* Whatever is created, moved, assigned and destroyed, in any number, tensor.hpp
\* and allocator.hpp leak no block, free none twice and none that is in use, and
\* each is freed with the alignment it was allocated with.  The premise is that
\* Tensor asks for an alignment of at most 16, as it does (8): HeapAllocator
\* allocates with any larger alignment it is asked for (allocator.hpp:33-37) but
\* always frees with 16 (allocator.hpp:42).
THEOREM BlocksHaveOneOwner ==
  ASSUME Align <= MaxAlign
  PROVE  Spec => [](TypeOK /\ OneOwner)
BY TensorsInvariant, PTL DEF TensorsInv

\* A tensor's bytes are its own, in the arena as on the heap, until the arena
\* is reset under it.
THEOREM TensorsKeepContents ==
  ASSUME Align <= MaxAlign
  PROVE  Spec => []ContentsKept
BY TensorsInvariant, PTL DEF TensorsInv

---------------------------------------------------------------------------
(* The tracer and the profiler *)

Scope == [name : Labels, start : Nat, start_us : Nat]
Events == [name : Labels, ts : Nat, dur : Nat]

TracerTypes ==
  /\ clock \in Nat
  /\ scopes \in Seq(Scope)
  /\ events \in Seq(Events)

\* Open scopes began in the order they were opened, and not in the future.
ScopesNest ==
  /\ \A i \in 1 .. Len(scopes) : scopes[i].start_us <= now_us
  /\ \A i, j \in 1 .. Len(scopes) : i < j => scopes[i].start_us <= scopes[j].start_us

\* Every event is over, and was before an open scope or in it: when that scope
\* is left, its own event comes after or around.
EventsBehind ==
  \A i \in 1 .. Len(events) :
    /\ EndOf(events[i]) <= now_us
    /\ \A j \in 1 .. Len(scopes) :
         EndOf(events[i]) <= scopes[j].start_us \/ scopes[j].start_us <= events[i].ts

TracerInv == TracerTypes /\ ScopesNest /\ EventsBehind /\ EventsNest

\* Whole microseconds do not go back.
LEMMA MicrosMonotone ==
  ASSUME TracerTypes
  PROVE  now_us \in Nat /\ now_us <= (clock + 1) \div Micro /\ (clock + 1) \div Micro \in Nat
<1>1. Micro \in Nat \ {0} /\ clock \in Nat
  BY ProfilingAssumption DEF TracerTypes
<1>2. now_us \in Nat /\ (clock + 1) \div Micro \in Nat
  BY <1>1 DEF now_us
<1>3. clock \div Micro <= (clock + 1) \div Micro
  BY <1>1, Z3
<1> QED
  BY <1>2, <1>3 DEF now_us

LEMMA FrontPointwise ==
  ASSUME NEW S, NEW s \in Seq(S), s # <<>>
  PROVE  /\ Len(s) \in Nat \ {0} /\ Last(s) = s[Len(s)] /\ Last(s) \in S
         /\ Front(s) \in Seq(S) /\ Len(Front(s)) = Len(s) - 1
         /\ \A i \in 1 .. Len(s) - 1 : Front(s)[i] = s[i]
<1>1. Len(s) \in Nat \ {0}
  OBVIOUS
<1>2. Front(s) = SubSeq(s, 1, Len(s) - 1)
  BY DEF Front
<1>3. /\ SubSeq(s, 1, Len(s) - 1) \in Seq(S) /\ Len(SubSeq(s, 1, Len(s) - 1)) = Len(s) - 1
      /\ \A i \in 1 .. Len(s) - 1 : SubSeq(s, 1, Len(s) - 1)[i] = s[i]
  <2>1. PICK n \in Nat : n = Len(s) - 1
    BY <1>1
  <2>2. 1 \in Int /\ n \in Int /\ \A i \in 1 .. n : s[i] \in S
    BY <2>1
  <2>3. SubSeq(s, 1, n) \in Seq(S)
    BY <2>2, SubSeqProperties
  <2>4. DOMAIN SubSeq(s, 1, n) = 1 .. n /\ \A i \in 1 .. n : SubSeq(s, 1, n)[i] = s[i]
    BY <2>1
  <2>5. Len(SubSeq(s, 1, n)) = n
    <3> DEFINE f == SubSeq(s, 1, n)
    <3>1. f \in Seq(S) /\ DOMAIN f = 1 .. n
      BY <2>3, <2>4
    <3> HIDE DEF f
    <3>2. Len(f) \in Nat /\ DOMAIN f = 1 .. Len(f)
      BY <3>1
    <3>3. Len(f) = n
      BY <3>1, <3>2
    <3> QED
      BY <3>3 DEF f
  <2> QED
    BY <2>1, <2>3, <2>4, <2>5, Zenon
<1> QED
  BY <1>1, <1>2, <1>3 DEF Last

LEMMA TickStep == TracerInv /\ Tick => TracerInv'
<1> SUFFICES ASSUME TracerInv, Tick PROVE TracerInv'
  OBVIOUS
<1>1. /\ scopes' = scopes /\ events' = events /\ clock' = clock + 1
      /\ now_us \in Nat /\ now_us' \in Nat /\ now_us <= now_us'
  BY MicrosMonotone DEF TracerInv, Tick, now_us
<1>2. TracerTypes'
  BY <1>1 DEF TracerInv, TracerTypes
<1>3. \A i \in 1 .. Len(scopes) : scopes[i].start_us \in Nat
  <2>1. \A i \in 1 .. Len(scopes) : scopes[i] \in Scope
    BY DEF TracerInv, TracerTypes
  <2> QED
    BY <2>1 DEF Scope
<1>4. \A i \in 1 .. Len(events) : EndOf(events[i]) \in Nat
  <2>1. \A i \in 1 .. Len(events) : events[i] \in Events
    BY DEF TracerInv, TracerTypes
  <2> QED
    BY <2>1 DEF Events, EndOf
<1>5. ScopesNest'
  BY <1>1, <1>3 DEF TracerInv, ScopesNest
<1>6. EventsBehind'
  BY <1>1, <1>4 DEF TracerInv, EventsBehind, EndOf
<1>7. EventsNest'
  BY <1>1 DEF TracerInv, EventsNest, EndOf
<1> QED
  BY <1>2, <1>5, <1>6, <1>7 DEF TracerInv

LEMMA OpenStep == ASSUME TracerInv, NEW name \in Labels, Open(name) PROVE TracerInv'
<1> DEFINE new == [name |-> name, start |-> clock, start_us |-> now_us]
<1>1. now_us \in Nat /\ clock \in Nat /\ scopes \in Seq(Scope) /\ events \in Seq(Events)
  BY MicrosMonotone DEF TracerInv, TracerTypes
<1>2. new \in Scope /\ new.start_us = now_us
  BY <1>1 DEF Scope
<1>3. scopes' = Append(scopes, new) /\ events' = events /\ clock' = clock /\ now_us' = now_us
  BY DEF Open, now_us
<1> HIDE DEF new
<1>4. /\ Len(scopes') = Len(scopes) + 1 /\ Len(scopes) \in Nat
      /\ \A i \in 1 .. Len(scopes') : scopes'[i] = IF i = Len(scopes') THEN new ELSE scopes[i]
      /\ scopes' \in Seq(Scope)
  BY <1>1, <1>2, <1>3
<1>5. TracerTypes'
  BY <1>1, <1>3, <1>4 DEF TracerTypes
<1>6. ScopesNest'
  BY <1>1, <1>2, <1>3, <1>4 DEF TracerInv, ScopesNest
<1>7. EventsBehind'
  BY <1>2, <1>3, <1>4 DEF TracerInv, EventsBehind, EndOf
<1>8. EventsNest'
  BY <1>3 DEF TracerInv, EventsNest, EndOf
<1> QED
  BY <1>5, <1>6, <1>7, <1>8 DEF TracerInv

LEMMA CloseStep == TracerInv /\ Close => TracerInv'
<1> SUFFICES ASSUME TracerInv, Close PROVE TracerInv'
  OBVIOUS
<1> DEFINE scope == Last(scopes)
           n == Len(scopes)
           e == Event(scope)
<1>1. now_us \in Nat /\ clock \in Nat /\ scopes \in Seq(Scope) /\ events \in Seq(Events) /\ scopes # <<>>
  BY MicrosMonotone DEF TracerInv, TracerTypes, Close
<1>2. n \in Nat \ {0} /\ scope = scopes[n] /\ scope \in Scope /\ n \in 1 .. n
  BY <1>1, FrontPointwise
<1>3. /\ scopes' \in Seq(Scope) /\ Len(scopes') = n - 1
      /\ \A i \in 1 .. Len(scopes') : scopes'[i] = scopes[i]
  <2>1. scopes' = Front(scopes)
    BY DEF Close
  <2> QED
    BY <1>1, <2>1, FrontPointwise
<1>4. clock' = clock /\ now_us' = now_us /\ (events' = events \/ events' = Append(events, e))
  BY DEF Close, now_us
<1>5. e \in Events /\ e.ts = scope.start_us /\ EndOf(e) = now_us
  <2>1. scope.start_us \in Nat /\ scope.start_us <= now_us /\ scope.name \in Labels
    BY <1>2 DEF TracerInv, ScopesNest, Scope
  <2> QED
    BY <1>1, <2>1 DEF Event, Events, EndOf
<1>6. \A i \in 1 .. Len(events) : EndOf(events[i]) \in Nat /\ events[i].ts \in Nat
  <2>1. \A i \in 1 .. Len(events) : events[i] \in Events
    BY <1>1
  <2> QED
    BY <2>1 DEF Events, EndOf
<1>7. \A i \in 1 .. n : scopes[i].start_us \in Nat
  <2>1. \A i \in 1 .. n : scopes[i] \in Scope
    BY <1>1
  <2> QED
    BY <2>1 DEF Scope
<1>8. ScopesNest'
  BY <1>2, <1>3, <1>4 DEF TracerInv, ScopesNest
<1>9. \A i \in 1 .. Len(events) :
        /\ EndOf(events[i]) <= now_us
        /\ EndOf(events[i]) <= e.ts \/ e.ts <= events[i].ts
  BY <1>2, <1>5 DEF TracerInv, EventsBehind
<1>10. \A j \in 1 .. Len(scopes') : scopes'[j].start_us <= e.ts
  BY <1>2, <1>3, <1>5 DEF TracerInv, ScopesNest
<1> HIDE DEF scope, n, e
<1>11. CASE events' = events
  <2>1. TracerTypes'
    BY <1>1, <1>3, <1>4, <1>11 DEF TracerTypes
  <2>2. EventsBehind'
    BY <1>2, <1>3, <1>4, <1>11 DEF n, TracerInv, EventsBehind, EndOf
  <2>3. EventsNest'
    BY <1>11 DEF TracerInv, EventsNest, EndOf
  <2> QED
    BY <1>8, <2>1, <2>2, <2>3 DEF TracerInv
<1>12. CASE events' = Append(events, e)
  <2>1. /\ events' \in Seq(Events) /\ Len(events') = Len(events) + 1 /\ Len(events) \in Nat
        /\ \A i \in 1 .. Len(events') : events'[i] = IF i = Len(events') THEN e ELSE events[i]
    BY <1>1, <1>5, <1>12
  <2>2. TracerTypes'
    BY <1>1, <1>3, <1>4, <2>1 DEF TracerTypes
  <2>3. \A i \in 1 .. Len(events') : EndOf(events'[i]) <= now_us
    BY <1>5, <1>9, <1>1, <2>1
  <2>4. \A i \in 1 .. Len(events'), j \in 1 .. Len(scopes') :
          EndOf(events'[i]) <= scopes'[j].start_us \/ scopes'[j].start_us <= events'[i].ts
    <3> SUFFICES ASSUME NEW i \in 1 .. Len(events'), NEW j \in 1 .. Len(scopes')
                 PROVE  EndOf(events'[i]) <= scopes'[j].start_us \/ scopes'[j].start_us <= events'[i].ts
      OBVIOUS
    <3>1. CASE i = Len(events')
      BY <3>1, <2>1, <1>10
    <3>2. CASE i # Len(events')
      <4>1. i \in 1 .. Len(events) /\ events'[i] = events[i]
        BY <3>2, <2>1
      <4>2. j \in 1 .. Len(scopes) /\ scopes'[j] = scopes[j]
        BY <1>2, <1>3 DEF n
      <4> QED
        BY <4>1, <4>2 DEF TracerInv, EventsBehind
    <3> QED
      BY <3>1, <3>2
  <2>5. EventsBehind'
    BY <2>3, <2>4, <1>4 DEF EventsBehind, EndOf
  <2>6. EventsNest'
    <3> SUFFICES ASSUME NEW i \in 1 .. Len(events'), NEW j \in 1 .. Len(events'), i < j
                 PROVE  /\ EndOf(events'[i]) <= EndOf(events'[j])
                        /\ EndOf(events'[i]) <= events'[j].ts \/ events'[j].ts <= events'[i].ts
      BY DEF EventsNest, EndOf
    <3>1. i \in 1 .. Len(events) /\ events'[i] = events[i]
      BY <2>1
    <3>2. CASE j = Len(events')
      BY <3>1, <3>2, <2>1, <1>5, <1>9
    <3>3. CASE j # Len(events')
      BY <3>1, <3>3, <2>1 DEF TracerInv, EventsNest
    <3> QED
      BY <3>2, <3>3
  <2> QED
    BY <1>8, <2>2, <2>5, <2>6 DEF TracerInv
<1> QED
  BY <1>4, <1>11, <1>12

LEMMA TracerInvariant == ProfilingSpec => []TracerInv
<1>1. ProfilingInit => TracerInv
  <2> SUFFICES ASSUME ProfilingInit PROVE TracerInv
    OBVIOUS
  <2>1. clock = 0 /\ scopes = <<>> /\ events = <<>> /\ Len(scopes) = 0 /\ Len(events) = 0
    BY DEF ProfilingInit
  <2> QED
    BY <2>1 DEF TracerInv, TracerTypes, ScopesNest, EventsBehind, EventsNest
<1>2. TracerInv /\ [ProfilingNext]_profilingVars => TracerInv'
  <2> SUFFICES ASSUME TracerInv, [ProfilingNext]_profilingVars PROVE TracerInv'
    OBVIOUS
  <2>1. CASE UNCHANGED <<clock, scopes, events>>
    BY <2>1 DEF TracerInv, TracerTypes, ScopesNest, EventsBehind, EventsNest, EndOf, now_us
  <2>2. CASE ResetTracer
    <3>1. events' = <<>> /\ Len(events') = 0 /\ UNCHANGED <<clock, scopes>> /\ events' \in Seq(Events)
      BY <2>2 DEF ResetTracer
    <3> QED
      BY <3>1 DEF TracerInv, TracerTypes, ScopesNest, EventsBehind, EventsNest, now_us
  <2> QED
    BY <2>1, <2>2, TickStep, OpenStep, CloseStep
       DEF ProfilingNext, ToggleProfiler, ToggleTracer, ResetProfiler, profilingVars
<1> QED
  BY <1>1, <1>2, PTL DEF ProfilingSpec

\* Events of nested scopes nest, however time is rounded and whatever is
\* switched on or off, or thrown away, while scopes are open.
THEOREM TraceNests == ProfilingSpec => []EventsNest
BY TracerInvariant, PTL DEF TracerInv

\* Statistics -------------------------------------------------------------------

\* Those of one name: StatsConsistent with its types.
StatOK(s) ==
  /\ s.calls \in Nat \ {0} /\ s.total \in Int /\ s.min \in Int /\ s.max \in Int
  /\ s.min <= s.max
  /\ s.max + (s.calls - 1) * s.min <= s.total
  /\ s.total <= s.min + (s.calls - 1) * s.max

StatsInv == \A n \in DOMAIN stats : StatOK(stats[n])

\* One more call: the extremes it replaces were measured before it.
LEMMA AddedOK ==
  ASSUME NEW s, StatOK(s), NEW ns \in Int
  PROVE  StatOK(AddedTo(s, ns))
<1> DEFINE lo == Smaller(s.min, ns)
           hi == Larger(s.max, ns)
<1>1. PICK m \in Nat : s.calls = m + 1
  <2>1. s.calls - 1 \in Nat /\ s.calls = (s.calls - 1) + 1
    BY DEF StatOK
  <2> QED
    BY <2>1
<1>2. /\ s.total \in Int /\ s.min \in Int /\ s.max \in Int /\ s.min <= s.max
      /\ s.max + m * s.min <= s.total /\ s.total <= s.min + m * s.max
  BY <1>1 DEF StatOK
<1>3. /\ lo \in Int /\ hi \in Int /\ lo <= hi /\ lo <= s.min /\ s.max <= hi
      /\ (hi = ns /\ lo = s.min) \/ (hi = s.max /\ lo = ns) \/ (hi = s.max /\ lo = s.min)
                                 \/ (hi = ns /\ lo = ns)
      /\ lo <= ns /\ ns <= hi
  BY <1>2 DEF Smaller, Larger
<1> HIDE DEF lo, hi
<1>4. \A p, q \in Int : p <= q => m * p <= m * q /\ m * p \in Int /\ (m + 1) * p = m * p + p
  <2> SUFFICES ASSUME NEW p \in Int, NEW q \in Int, p <= q
               PROVE  m * p <= m * q /\ m * p \in Int /\ (m + 1) * p = m * p + p
    OBVIOUS
  <2>1. q - p \in Nat /\ m * (q - p) = m * q - m * p
    BY SMT
  <2>2. m * (q - p) \in Nat
    BY <2>1
  <2>3. m * p \in Int /\ m * q \in Int /\ (m + 1) * p = m * p + p
    BY SMT
  <2> QED
    BY <2>1, <2>2, <2>3
<1>5. /\ m * lo <= m * s.min /\ (m + 1) * lo = m * lo + lo /\ m * lo \in Int /\ m * s.min \in Int
      /\ m * s.max <= m * hi /\ (m + 1) * hi = m * hi + hi /\ m * hi \in Int /\ m * s.max \in Int
      /\ (m + 1) * s.min = m * s.min + s.min /\ (m + 1) * s.max = m * s.max + s.max
  BY <1>2, <1>3, <1>4
<1>6. hi + (m + 1) * lo <= s.total + ns
  BY <1>2, <1>3, <1>5
<1>7. s.total + ns <= lo + (m + 1) * hi
  BY <1>2, <1>3, <1>5
<1> DEFINE a == AddedTo(s, ns)
<1>8. a.calls = s.calls + 1 /\ a.total = s.total + ns /\ a.min = lo /\ a.max = hi
  BY DEF AddedTo, lo, hi
<1> HIDE DEF a
<1>9. a.calls \in Nat \ {0} /\ a.calls - 1 = m + 1
  BY <1>1, <1>8
<1>10. /\ a.max + (a.calls - 1) * a.min <= a.total
       /\ a.total <= a.min + (a.calls - 1) * a.max
  BY <1>6, <1>7, <1>8, <1>9
<1>11. StatOK(a)
  BY <1>2, <1>3, <1>8, <1>9, <1>10 DEF StatOK
<1> QED
  BY <1>11 DEF a

LEMMA FirstOK == ASSUME NEW ns \in Int PROVE StatOK(KernelStat(ns))
BY DEF StatOK, KernelStat

LEMMA RecordOK ==
  ASSUME StatsInv, NEW name, NEW ns \in Int
  PROVE  \A n \in DOMAIN record(name, ns) : StatOK(record(name, ns)[n])
<1>1. /\ DOMAIN record(name, ns) = DOMAIN stats \cup {name}
      /\ \A n \in DOMAIN stats \cup {name} :
           record(name, ns)[n] = IF n # name THEN stats[n]
                                 ELSE IF n \in DOMAIN stats THEN AddedTo(stats[n], ns) ELSE KernelStat(ns)
  BY DEF record
<1>2. \A n \in DOMAIN stats : StatOK(AddedTo(stats[n], ns))
  BY AddedOK DEF StatsInv
<1> QED
  BY <1>1, <1>2, FirstOK DEF StatsInv

\* The minimum and maximum of a name were measured, for any number of calls of
\* any length: its total is one that calls between them can have.
THEOREM StatisticsConsistent == ProfilingSpec => []StatsConsistent
<1>1. ProfilingInit => StatsInv
  BY DEF ProfilingInit, StatsInv
<1>2. TracerInv /\ StatsInv /\ [ProfilingNext]_profilingVars => StatsInv'
  <2> SUFFICES ASSUME TracerInv, StatsInv, [ProfilingNext]_profilingVars PROVE StatsInv'
    OBVIOUS
  <2>1. CASE UNCHANGED stats
    BY <2>1 DEF StatsInv
  <2>2. CASE ResetProfiler
    BY <2>2 DEF ResetProfiler, StatsInv
  <2>3. CASE Close
    <3>1. scopes \in Seq(Scope) /\ scopes # <<>> /\ clock \in Nat
      BY <2>3 DEF Close, TracerInv, TracerTypes
    <3>2. Last(scopes) \in Scope
      BY <3>1, FrontPointwise
    <3>3. clock - Last(scopes).start \in Int
      BY <3>1, <3>2 DEF Scope
    <3>4. stats' = stats \/ stats' = record(Last(scopes).name, clock - Last(scopes).start)
      BY <2>3 DEF Close
    <3>5. CASE stats' = record(Last(scopes).name, clock - Last(scopes).start)
      BY <3>3, <3>5, RecordOK DEF StatsInv
    <3> QED
      BY <3>4, <3>5, <2>1
  <2> QED
    BY <2>1, <2>2, <2>3 DEF ProfilingNext, Tick, Open, ToggleProfiler, ToggleTracer, ResetTracer, profilingVars
<1>3. StatsInv => StatsConsistent
  BY DEF StatsInv, StatOK, StatsConsistent
<1> QED
  BY <1>1, <1>2, <1>3, TracerInvariant, PTL DEF ProfilingSpec

---------------------------------------------------------------------------
(* Blocked matrix products, for every tile and every shape: an instance of *)
(* Gemm of its own, with the sizes of the tile and of the call open.       *)

CONSTANTS TileM, TileN, TileK, GemmSizes, MaxProducts, MayBeUnset
VARIABLES shapes, beta, c_nan, product, gemm_stage, tile, C

Blocked == INSTANCE Gemm WITH
  BM <- TileM, BN <- TileN, BK <- TileK,
  Sizes <- GemmSizes, Groups <- MaxProducts, Unset <- MayBeUnset,
  nan <- c_nan, g <- product, pc <- gemm_stage

\* The first n indices of k, in order.
FirstKs(n) == [q \in 1 .. n |-> q - 1]

\* What beta leaves of the old value.
StartOf == IF beta = 0 THEN "zero" ELSE Blocked!Scaled

\* How many products element i, j of the product at work has been given: all
\* of them above the tile, none below it, and in its rows those up to this
\* tile's or the last one's end.
GivenTo(i, j) ==
  IF i < tile[1] THEN shapes[product].k
  ELSE IF i < tile[1] + TileM
  THEN IF j < tile[3] THEN Blocked!End(tile[2], TileK, shapes[product].k) ELSE tile[2]
  ELSE 0

\* Element i, j of product h: done, at work or to come.
ElementOf(h, i, j) ==
  IF h < product THEN [old |-> StartOf, adds |-> FirstKs(shapes[h].k)]
  ELSE IF h = product /\ gemm_stage = "tiles"
  THEN [old |-> StartOf, adds |-> FirstKs(GivenTo(i, j))]
  ELSE [old |-> "old", adds |-> <<>>]

GemmShapes == [m : GemmSizes, n : GemmSizes, k : GemmSizes]

\* There is always something of k and n left while a product is at work.
TileInside(shape) ==
  /\ tile[2] < shape.k \/ (shape.k = 0 /\ tile[2] = 0)
  /\ tile[3] < shape.n \/ (shape.n = 0 /\ tile[3] = 0)

\* The inductive invariant: every element of C is what it has been given.
GemmInv ==
  /\ \E n \in 1 .. MaxProducts : shapes \in [1 .. n -> GemmShapes]
  /\ product \in Nat /\ product > 0 /\ 1 .. product - 1 \subseteq DOMAIN shapes
  /\ gemm_stage \in {"beta", "tiles"}
  /\ tile \in Nat \X Nat \X Nat
  /\ gemm_stage = "tiles" /\ product \in DOMAIN shapes => TileInside(shapes[product])
  /\ C = [h \in DOMAIN shapes |->
            [i \in 0 .. shapes[h].m - 1 |->
               [j \in 0 .. shapes[h].n - 1 |-> ElementOf(h, i, j)]]]

\* Tiles have a size, and so have the matrices.
GemmConstants ==
  /\ TileM \in Nat \ {0} /\ TileN \in Nat \ {0} /\ TileK \in Nat \ {0}
  /\ GemmSizes \subseteq Nat /\ MaxProducts \in Nat

\* The first a indices and the b after them are the first a + b.
LEMMA FirstKsAppended ==
  ASSUME NEW a \in Nat, NEW b \in Nat
  PROVE  FirstKs(a) \o [n \in 1 .. b |-> a + n - 1] = FirstKs(a + b)
<1> DEFINE f == FirstKs(a)
           e == [n \in 1 .. b |-> a + n - 1]
<1>1. f \in Seq(Int) /\ Len(f) = a /\ \A q \in 1 .. a : f[q] = q - 1
  BY DEF FirstKs
<1>2. e \in Seq(Int) /\ Len(e) = b /\ \A q \in 1 .. b : e[q] = a + q - 1
  OBVIOUS
<1> HIDE DEF f, e
<1>3. /\ f \o e \in Seq(Int) /\ Len(f \o e) = a + b
      /\ \A q \in 1 .. a + b : (f \o e)[q] = IF q <= a THEN f[q] ELSE e[q - a]
  BY <1>1, <1>2, ConcatProperties
<1>4. FirstKs(a + b) \in Seq(Int) /\ Len(FirstKs(a + b)) = a + b
  BY DEF FirstKs
<1>5. ASSUME NEW q \in 1 .. a + b
      PROVE  (f \o e)[q] = FirstKs(a + b)[q]
  <2>1. FirstKs(a + b)[q] = q - 1
    BY DEF FirstKs
  <2>2. CASE q <= a
    BY <1>1, <1>3, <2>1, <2>2
  <2>3. CASE q > a
    <3>1. (f \o e)[q] = e[q - a] /\ q - a \in 1 .. b
      BY <1>3, <2>3
    <3> QED
      BY <1>2, <2>1, <3>1
  <2>4. q <= a \/ q > a
    OBVIOUS
  <2> QED
    BY <2>2, <2>3, <2>4, Zenon
<1>6. f \o e = FirstKs(a + b)
  BY <1>3, <1>4, <1>5, SeqEqual
<1> QED
  BY <1>6 DEF f, e

\* It holds before the first product.
LEMMA GemmInit ==
  ASSUME GemmConstants, Blocked!Init
  PROVE  GemmInv
<1>1. \E n \in 1 .. MaxProducts : shapes \in [1 .. n -> GemmShapes]
  BY DEF Blocked!Init, GemmShapes
<1>2. product = 1 /\ gemm_stage = "beta" /\ tile = <<0, 0, 0>>
  BY DEF Blocked!Init
<1>3. \A h \in DOMAIN shapes : \A i, j : ElementOf(h, i, j) = [old |-> "old", adds |-> <<>>]
  <2>1. DOMAIN shapes \subseteq Int /\ \A h \in DOMAIN shapes : h >= 1
    BY <1>1, GemmConstants DEF GemmConstants
  <2> QED
    BY <1>2, <2>1 DEF ElementOf
<1>4. C = [h \in DOMAIN shapes |->
             [i \in 0 .. shapes[h].m - 1 |->
                [j \in 0 .. shapes[h].n - 1 |-> [old |-> "old", adds |-> <<>>]]]]
  BY Zenon DEF Blocked!Init
<1>5. C = [h \in DOMAIN shapes |->
             [i \in 0 .. shapes[h].m - 1 |->
                [j \in 0 .. shapes[h].n - 1 |-> ElementOf(h, i, j)]]]
  BY <1>3, <1>4
<1> QED
  BY <1>1, <1>2, <1>5 DEF GemmInv

\* What the invariant says of the product at work.
LEMMA GemmAtWork ==
  ASSUME GemmConstants, GemmInv, product \in DOMAIN shapes
  PROVE  /\ shapes[product].m \in Nat /\ shapes[product].n \in Nat
         /\ shapes[product].k \in Nat
         /\ tile[1] \in Nat /\ tile[2] \in Nat /\ tile[3] \in Nat
         /\ tile = <<tile[1], tile[2], tile[3]>>
<1>1. PICK n \in 1 .. MaxProducts : shapes \in [1 .. n -> GemmShapes]
  BY DEF GemmInv
<1>2. shapes[product] \in GemmShapes
  BY <1>1
<1>3. tile \in Nat \X Nat \X Nat
  BY DEF GemmInv
<1>4. /\ tile[1] \in Nat /\ tile[2] \in Nat /\ tile[3] \in Nat
      /\ tile = <<tile[1], tile[2], tile[3]>>
  BY <1>3
<1>5. GemmSizes \subseteq Nat
  BY DEF GemmConstants
<1> QED
  BY <1>2, <1>4, <1>5 DEF GemmShapes

\* beta sets where the sums start.
LEMMA GemmBeta ==
  ASSUME GemmConstants, GemmInv, Blocked!ApplyBeta
  PROVE  GemmInv'
<1>1. /\ product \in DOMAIN shapes /\ gemm_stage = "beta"
      /\ gemm_stage' = "tiles" /\ tile' = <<0, 0, 0>>
      /\ UNCHANGED <<shapes, beta, c_nan, product>>
  BY DEF Blocked!ApplyBeta
<1> DEFINE s == shapes[product]
           Mat(h) == [i \in 0 .. shapes[h].m - 1 |->
                        [j \in 0 .. shapes[h].n - 1 |-> ElementOf(h, i, j)]]
           Mat2(h) == [i \in 0 .. shapes[h].m - 1 |->
                        [j \in 0 .. shapes[h].n - 1 |-> ElementOf(h, i, j)']]
<1>2. s.m \in Nat /\ s.n \in Nat /\ s.k \in Nat
  BY <1>1, GemmAtWork
<1>3. C = [h \in DOMAIN shapes |-> Mat(h)]
  BY Zenon DEF GemmInv
<1>4. StartOf' = StartOf
  BY <1>1 DEF StartOf, Blocked!Scaled
<1>5. \A h \in DOMAIN shapes : h # product => Mat2(h) = Mat(h)
  <2>1. \A h \in DOMAIN shapes : \A i, j : h # product => ElementOf(h, i, j)' = ElementOf(h, i, j)
    BY <1>1, <1>4 DEF ElementOf
  <2> QED
    BY <2>1
<1>6. \A i \in 0 .. s.m - 1, j \in 0 .. s.n - 1 :
         ElementOf(product, i, j)' = [old |-> StartOf, adds |-> <<>>]
  <2> SUFFICES ASSUME NEW i \in 0 .. s.m - 1, NEW j \in 0 .. s.n - 1
               PROVE  ElementOf(product, i, j)' = [old |-> StartOf, adds |-> <<>>]
    OBVIOUS
  <2>1. GivenTo(i, j)' = 0
    <3>1. ~ i < 0 /\ ~ j < 0
      OBVIOUS
    <3> QED
      BY <1>1, <3>1 DEF GivenTo
  <2>2. FirstKs(0) = <<>>
    BY DEF FirstKs
  <2>3. ~ product < product
    BY DEF GemmInv
  <2>4. ElementOf(product, i, j)' = [old |-> StartOf', adds |-> FirstKs(GivenTo(i, j)')]
    BY <1>1, <2>3 DEF ElementOf, FirstKs
  <2> QED
    BY <1>4, <2>1, <2>2, <2>4
<1>7. C' = [C EXCEPT ![product] = [i \in DOMAIN @ |-> [j \in DOMAIN @[i] |->
               [old |-> StartOf, adds |-> <<>>]]]]
  BY Zenon DEF Blocked!ApplyBeta, StartOf
<1>8. C' = [h \in DOMAIN shapes |-> Mat2(h)]
  <2>1. C[product] = Mat(product)
    BY <1>1, <1>3
  <2>2. [i \in DOMAIN C[product] |-> [j \in DOMAIN C[product][i] |->
               [old |-> StartOf, adds |-> <<>>]]] = Mat2(product)
    <3>1. DOMAIN Mat(product) = 0 .. s.m - 1
      OBVIOUS
    <3>2. \A i \in 0 .. s.m - 1 : DOMAIN Mat(product)[i] = 0 .. s.n - 1
      OBVIOUS
    <3>3. [i \in 0 .. s.m - 1 |-> [j \in 0 .. s.n - 1 |->
               [old |-> StartOf, adds |-> <<>>]]] = Mat2(product)
      BY <1>6
    <3> HIDE DEF Mat, Mat2, s
    <3>4. [i \in DOMAIN Mat(product) |-> [j \in DOMAIN Mat(product)[i] |->
               [old |-> StartOf, adds |-> <<>>]]]
           = [i \in 0 .. s.m - 1 |-> [j \in 0 .. s.n - 1 |->
               [old |-> StartOf, adds |-> <<>>]]]
      BY <3>1, <3>2
    <3> QED
      BY <2>1, <3>3, <3>4
  <2> HIDE DEF Mat, Mat2
  <2>3. C' = [C EXCEPT ![product] = Mat2(product)]
    BY <1>7, <2>2
  <2> QED
    BY <1>1, <1>3, <1>5, <2>3
<1>9. \E n \in 1 .. MaxProducts : shapes' \in [1 .. n -> GemmShapes]
  BY <1>1 DEF GemmInv
<1>10. TileInside(shapes[product])'
  BY <1>1, <1>2 DEF TileInside
<1>11. product' \in Nat /\ product' > 0 /\ (1 .. product - 1 \subseteq DOMAIN shapes)'
  BY <1>1 DEF GemmInv
<1>12. C' = [h \in DOMAIN shapes |->
            [i \in 0 .. shapes[h].m - 1 |->
               [j \in 0 .. shapes[h].n - 1 |-> ElementOf(h, i, j)]]]'
  BY <1>1, <1>8
<1> QED
  BY <1>1, <1>9, <1>10, <1>11, <1>12 DEF GemmInv

\* The next tile, and what its elements have been given by then.
LEMMA NextTileGiven ==
  ASSUME GemmConstants, GemmInv, Blocked!Tile
  PROVE  /\ tile' \in Nat \X Nat \X Nat
         /\ TileInside(shapes[product])'
         /\ \A i \in 0 .. shapes[product].m - 1, j \in 0 .. shapes[product].n - 1 :
              LET inside == /\ i \in Blocked!UpTo(tile[1], TileM, shapes[product].m)
                            /\ j \in Blocked!UpTo(tile[3], TileN, shapes[product].n)
              IN  /\ inside => GivenTo(i, j) = tile[2]
                  /\ GivenTo(i, j)' = IF inside
                                      THEN Blocked!End(tile[2], TileK, shapes[product].k)
                                      ELSE GivenTo(i, j)
<1> DEFINE s == shapes[product]
<1>1. /\ product \in DOMAIN shapes /\ gemm_stage = "tiles"
      /\ tile[1] < s.m /\ s.k > 0 /\ s.n > 0
      /\ tile' = Blocked!NextTile(tile)
      /\ UNCHANGED <<shapes, beta, c_nan, product, gemm_stage>>
  BY DEF Blocked!Tile, Blocked!Shape
<1>2. /\ s.m \in Nat /\ s.n \in Nat /\ s.k \in Nat
      /\ tile[1] \in Nat /\ tile[2] \in Nat /\ tile[3] \in Nat
  BY <1>1, GemmAtWork
<1>3. tile[2] < s.k /\ tile[3] < s.n
  BY <1>1, <1>2 DEF GemmInv, TileInside
<1>4. TileM \in Nat /\ TileN \in Nat /\ TileK \in Nat /\ TileM > 0 /\ TileN > 0 /\ TileK > 0
  BY DEF GemmConstants
<1>5. tile' = IF tile[3] + TileN < s.n THEN <<tile[1], tile[2], tile[3] + TileN>>
               ELSE IF tile[2] + TileK < s.k THEN <<tile[1], tile[2] + TileK, 0>>
               ELSE <<tile[1] + TileM, 0, 0>>
  BY <1>1 DEF Blocked!NextTile, Blocked!Shape
<1>6. s' = s
  BY <1>1
<1> HIDE DEF s
<1>7. tile' \in Nat \X Nat \X Nat
  BY <1>2, <1>4, <1>5
<1>8. TileInside(s)'
  BY <1>2, <1>3, <1>4, <1>5, <1>6 DEF TileInside
<1>9. ASSUME NEW i \in 0 .. s.m - 1, NEW j \in 0 .. s.n - 1
      PROVE  LET inside == /\ i \in Blocked!UpTo(tile[1], TileM, s.m)
                           /\ j \in Blocked!UpTo(tile[3], TileN, s.n)
             IN  /\ inside => GivenTo(i, j) = tile[2]
                 /\ GivenTo(i, j)' = IF inside THEN Blocked!End(tile[2], TileK, s.k)
                                     ELSE GivenTo(i, j)
  <2>1. i \in Nat /\ j \in Nat /\ i < s.m /\ j < s.n
    BY <1>2
  <2>2. i \in Blocked!UpTo(tile[1], TileM, s.m) <=> tile[1] <= i /\ i < tile[1] + TileM
    BY <1>2, <1>4, <2>1 DEF Blocked!UpTo, Blocked!End
  <2>3. j \in Blocked!UpTo(tile[3], TileN, s.n) <=> tile[3] <= j /\ j < tile[3] + TileN
    BY <1>2, <1>4, <2>1 DEF Blocked!UpTo, Blocked!End
  <2>4. GivenTo(i, j) =
          IF i < tile[1] THEN s.k
          ELSE IF i < tile[1] + TileM
          THEN IF j < tile[3] THEN Blocked!End(tile[2], TileK, s.k) ELSE tile[2]
          ELSE 0
    BY DEF GivenTo, s
  <2>5. GivenTo(i, j)' =
          IF i < tile'[1] THEN s.k
          ELSE IF i < tile'[1] + TileM
          THEN IF j < tile'[3] THEN Blocked!End(tile'[2], TileK, s.k) ELSE tile'[2]
          ELSE 0
    BY <1>6 DEF GivenTo, s, Blocked!End
  <2>6. (tile[1] <= i /\ i < tile[1] + TileM) /\ (tile[3] <= j /\ j < tile[3] + TileN)
          => GivenTo(i, j) = tile[2]
    BY <1>2, <1>4, <2>1, <2>4
  <2>7. GivenTo(i, j)' = IF /\ tile[1] <= i /\ i < tile[1] + TileM
                            /\ tile[3] <= j /\ j < tile[3] + TileN
                         THEN Blocked!End(tile[2], TileK, s.k) ELSE GivenTo(i, j)
    <3>1. CASE tile[3] + TileN < s.n
      <4>1. tile'[1] = tile[1] /\ tile'[2] = tile[2] /\ tile'[3] = tile[3] + TileN
        BY <1>5, <3>1
      <4> QED
        BY <1>2, <1>4, <2>1, <2>4, <2>5, <4>1
    <3>2. CASE ~ tile[3] + TileN < s.n /\ tile[2] + TileK < s.k
      <4>1. tile'[1] = tile[1] /\ tile'[2] = tile[2] + TileK /\ tile'[3] = 0
        BY <1>5, <3>2
      <4>2. Blocked!End(tile[2], TileK, s.k) = tile[2] + TileK
        BY <3>2 DEF Blocked!End
      <4> QED
        BY <1>2, <1>4, <2>1, <2>4, <2>5, <3>2, <4>1, <4>2
    <3>3. CASE ~ tile[3] + TileN < s.n /\ ~ tile[2] + TileK < s.k
      <4>1. tile'[1] = tile[1] + TileM /\ tile'[2] = 0 /\ tile'[3] = 0
        BY <1>5, <3>3
      <4>2. Blocked!End(tile[2], TileK, s.k) = s.k
        BY <3>3 DEF Blocked!End
      <4> QED
        BY <1>2, <1>4, <2>1, <2>4, <2>5, <3>3, <4>1, <4>2
    <3> QED
      BY <3>1, <3>2, <3>3
  <2> QED
    BY <2>2, <2>3, <2>6, <2>7
<1>10. TileInside(shapes[product])'
  BY <1>8 DEF s
<1> QED
  BY <1>7, <1>9, <1>10, Zenon DEF s

\* A tile is added where it is, to its end.
LEMMA GemmTile ==
  ASSUME GemmConstants, GemmInv, Blocked!Tile
  PROVE  GemmInv'
<1> DEFINE s == shapes[product]
           Mat(h) == [i \in 0 .. shapes[h].m - 1 |->
                        [j \in 0 .. shapes[h].n - 1 |-> ElementOf(h, i, j)]]
           Mat2(h) == [i \in 0 .. shapes[h].m - 1 |->
                        [j \in 0 .. shapes[h].n - 1 |-> ElementOf(h, i, j)']]
           end == Blocked!End(tile[2], TileK, s.k)
           Adds == [n \in 1 .. end - tile[2] |-> tile[2] + n - 1]
           Longer(e) == [old |-> e.old, adds |-> e.adds \o Adds]
           Inside(i, j) == /\ i \in Blocked!UpTo(tile[1], TileM, s.m)
                           /\ j \in Blocked!UpTo(tile[3], TileN, s.n)
           New == [i \in DOMAIN C[product] |-> [j \in DOMAIN C[product][i] |->
                     IF Inside(i, j) THEN Longer(C[product][i][j])
                     ELSE C[product][i][j]]]
<1>1. /\ product \in DOMAIN shapes /\ gemm_stage = "tiles"
      /\ UNCHANGED <<shapes, beta, c_nan, product, gemm_stage>>
  BY DEF Blocked!Tile
<1>2. s.m \in Nat /\ s.n \in Nat /\ s.k \in Nat /\ tile[2] \in Nat
  BY <1>1, GemmAtWork
<1>3. tile[2] < s.k
  <2>1. s.k > 0
    BY DEF Blocked!Tile, Blocked!Shape
  <2> QED
    BY <1>1, <1>2, <2>1 DEF GemmInv, TileInside
<1>4. C = [h \in DOMAIN shapes |-> Mat(h)]
  BY Zenon DEF GemmInv
<1>5. StartOf' = StartOf
  BY <1>1 DEF StartOf, Blocked!Scaled
<1>6. \A h \in DOMAIN shapes : h # product => Mat2(h) = Mat(h)
  <2>1. \A h \in DOMAIN shapes : \A i, j : h # product => ElementOf(h, i, j)' = ElementOf(h, i, j)
    BY <1>1, <1>5 DEF ElementOf
  <2> QED
    BY <2>1
<1>7. /\ tile' \in Nat \X Nat \X Nat
      /\ TileInside(s)'
      /\ \A i \in 0 .. s.m - 1, j \in 0 .. s.n - 1 :
           /\ Inside(i, j) => GivenTo(i, j) = tile[2]
           /\ GivenTo(i, j)' = IF Inside(i, j) THEN end ELSE GivenTo(i, j)
  BY NextTileGiven, Zenon
<1>8. FirstKs(tile[2]) \o Adds = FirstKs(end)
  <2>1. TileK \in Nat
    BY DEF GemmConstants
  <2>2. end \in Int /\ end - tile[2] \in Nat
    BY <1>2, <1>3, <2>1 DEF Blocked!End
  <2> HIDE DEF end
  <2>3. FirstKs(tile[2]) \o [n \in 1 .. end - tile[2] |-> tile[2] + n - 1]
          = FirstKs(tile[2] + (end - tile[2]))
    BY <1>2, <2>2, FirstKsAppended
  <2>4. tile[2] + (end - tile[2]) = end
    BY <1>2, <2>2
  <2> QED
    BY <2>3, <2>4
<1>9. ~ product < product
  BY DEF GemmInv
<1>10. \A i, j : /\ ElementOf(product, i, j) = [old |-> StartOf, adds |-> FirstKs(GivenTo(i, j))]
                 /\ ElementOf(product, i, j)'
                      = [old |-> StartOf, adds |-> FirstKs(GivenTo(i, j)')]
  BY <1>1, <1>5, <1>9 DEF ElementOf, FirstKs
<1>11. \A i \in 0 .. s.m - 1, j \in 0 .. s.n - 1 :
         ElementOf(product, i, j)'
           = IF Inside(i, j) THEN Longer(ElementOf(product, i, j))
             ELSE ElementOf(product, i, j)
  <2> SUFFICES ASSUME NEW i \in 0 .. s.m - 1, NEW j \in 0 .. s.n - 1
               PROVE  ElementOf(product, i, j)'
                        = IF Inside(i, j)
                          THEN Longer(ElementOf(product, i, j))
                          ELSE ElementOf(product, i, j)
    BY Zenon
  <2>1. /\ Inside(i, j) => GivenTo(i, j) = tile[2]
        /\ GivenTo(i, j)' = IF Inside(i, j) THEN end ELSE GivenTo(i, j)
    BY <1>7, Zenon
  <2> HIDE DEF Inside, Adds, end
  <2>2. CASE Inside(i, j)
    <3>1. ElementOf(product, i, j) = [old |-> StartOf, adds |-> FirstKs(tile[2])]
      BY <1>10, <2>1, <2>2, Zenon
    <3>2. ElementOf(product, i, j)' = [old |-> StartOf, adds |-> FirstKs(end)]
      BY <1>10, <2>1, <2>2, Zenon
    <3>3. Longer(ElementOf(product, i, j))
            = [old |-> StartOf, adds |-> FirstKs(tile[2]) \o Adds]
      BY <3>1
    <3> QED
      BY <1>8, <2>2, <3>2, <3>3, Zenon
  <2>3. CASE ~ Inside(i, j)
    BY <1>10, <2>1, <2>3, Zenon
  <2> QED
    BY <2>2, <2>3
<1>12. C' = [C EXCEPT ![product] = New]
  BY Zenon DEF Blocked!Tile, Blocked!Shape
<1>13. C' = [h \in DOMAIN shapes |-> Mat2(h)]
  <2>1. C[product] = Mat(product)
    BY <1>1, <1>4
  <2> HIDE DEF Inside, Adds, Longer
  <2>2. New = Mat2(product)
    <3>1. DOMAIN Mat(product) = 0 .. s.m - 1
      OBVIOUS
    <3>2. \A i \in 0 .. s.m - 1 : DOMAIN Mat(product)[i] = 0 .. s.n - 1
      OBVIOUS
    <3>3. \A i \in 0 .. s.m - 1, j \in 0 .. s.n - 1 :
            Mat(product)[i][j] = ElementOf(product, i, j)
      OBVIOUS
    <3>4. Mat2(product) = [i \in 0 .. s.m - 1 |-> [j \in 0 .. s.n - 1 |->
             IF Inside(i, j) THEN Longer(ElementOf(product, i, j))
             ELSE ElementOf(product, i, j)]]
      BY <1>11
    <3> HIDE DEF Mat, Mat2, s
    <3>5. [i \in DOMAIN Mat(product) |-> [j \in DOMAIN Mat(product)[i] |->
             IF Inside(i, j) THEN Longer(Mat(product)[i][j])
             ELSE Mat(product)[i][j]]]
           = [i \in 0 .. s.m - 1 |-> [j \in 0 .. s.n - 1 |->
             IF Inside(i, j) THEN Longer(ElementOf(product, i, j))
             ELSE ElementOf(product, i, j)]]
      BY <3>1, <3>2, <3>3
    <3> QED
      BY <2>1, <3>4, <3>5
  <2>3. C' = [C EXCEPT ![product] = Mat2(product)]
    <3> HIDE DEF New, Mat2
    <3> QED
      BY <1>12, <2>2
  <2> HIDE DEF Mat, Mat2
  <2> QED
    BY <1>1, <1>4, <1>6, <2>3
<1>14. \E n \in 1 .. MaxProducts : shapes' \in [1 .. n -> GemmShapes]
  BY <1>1 DEF GemmInv
<1>15. product' \in Nat /\ product' > 0 /\ (1 .. product - 1 \subseteq DOMAIN shapes)'
  BY <1>1 DEF GemmInv
<1>16. C' = [h \in DOMAIN shapes |->
            [i \in 0 .. shapes[h].m - 1 |->
               [j \in 0 .. shapes[h].n - 1 |-> ElementOf(h, i, j)]]]'
  BY <1>1, <1>13
<1>17. gemm_stage' \in {"beta", "tiles"} /\ tile' \in Nat \X Nat \X Nat
  BY <1>1, <1>7
<1>18. TileInside(shapes[product])'
  BY <1>7
<1> QED
  BY <1>14, <1>15, <1>16, <1>17, <1>18 DEF GemmInv

\* A product is done when its tiles are.
LEMMA GemmNextProduct ==
  ASSUME GemmConstants, GemmInv, Blocked!NextProduct
  PROVE  GemmInv'
<1>1. /\ product \in DOMAIN shapes /\ gemm_stage = "tiles"
      /\ product' = product + 1 /\ gemm_stage' = "beta"
      /\ UNCHANGED <<shapes, beta, c_nan, tile, C>>
  BY DEF Blocked!NextProduct
<1> DEFINE s == shapes[product]
<1>2. /\ s.m \in Nat /\ s.n \in Nat /\ s.k \in Nat
      /\ tile[1] \in Nat /\ tile[2] \in Nat /\ tile[3] \in Nat
  BY <1>1, GemmAtWork
<1>3. tile[1] >= s.m \/ s.k = 0 \/ s.n = 0
  BY DEF Blocked!NextProduct, Blocked!Shape
<1>4. TileInside(s)
  BY <1>1 DEF GemmInv
<1>5. TileM \in Nat /\ TileK \in Nat
  BY DEF GemmConstants
<1>6. StartOf' = StartOf
  BY <1>1 DEF StartOf, Blocked!Scaled
<1>7. product \in Nat /\ DOMAIN shapes \subseteq Int
  BY DEF GemmInv, GemmConstants
<1>8. \A i \in 0 .. s.m - 1, j \in 0 .. s.n - 1 : GivenTo(i, j) = s.k
  <2> SUFFICES ASSUME NEW i \in 0 .. s.m - 1, NEW j \in 0 .. s.n - 1
               PROVE  GivenTo(i, j) = s.k
    OBVIOUS
  <2>1. i \in Nat /\ i < s.m /\ s.n # 0
    BY <1>2
  <2>2. CASE tile[1] >= s.m
    BY <1>2, <2>1, <2>2 DEF GivenTo
  <2>3. CASE s.k = 0
    <3>1. tile[2] = 0
      BY <1>2, <1>4, <2>3 DEF TileInside
    <3>2. Blocked!End(tile[2], TileK, s.k) = 0
      BY <1>5, <2>3, <3>1 DEF Blocked!End
    <3> QED
      BY <2>3, <3>1, <3>2 DEF GivenTo
  <2> QED
    BY <1>3, <2>1, <2>2, <2>3
<1>9. \A h \in DOMAIN shapes :
        \A i \in 0 .. shapes[h].m - 1, j \in 0 .. shapes[h].n - 1 :
        ElementOf(h, i, j)' = ElementOf(h, i, j)
  <2> SUFFICES ASSUME NEW h \in DOMAIN shapes, NEW i \in 0 .. shapes[h].m - 1,
                      NEW j \in 0 .. shapes[h].n - 1
               PROVE  ElementOf(h, i, j)' = ElementOf(h, i, j)
    BY Zenon
  <2>1. h \in Int
    BY <1>7
  <2>2. CASE h < product
    <3>1. h < product'
      BY <1>1, <1>7, <2>1, <2>2
    <3> QED
      BY <1>1, <1>6, <2>2, <3>1 DEF ElementOf, FirstKs
  <2>3. CASE h = product
    <3>1. h < product' /\ ~ h < product
      BY <1>1, <1>7, <2>1, <2>3
    <3>2. GivenTo(i, j) = shapes[h].k
      BY <1>8, <2>3
    <3>3. ElementOf(h, i, j) = [old |-> StartOf, adds |-> FirstKs(shapes[h].k)]
      BY <1>1, <2>3, <3>1, <3>2 DEF ElementOf
    <3>4. ElementOf(h, i, j)' = [old |-> StartOf, adds |-> FirstKs(shapes[h].k)]
      BY <1>1, <1>6, <3>1 DEF ElementOf, FirstKs
    <3> QED
      BY <3>3, <3>4
  <2>4. CASE h > product
    <3>1. ~ h < product' /\ ~ h < product /\ h # product
      BY <1>1, <1>7, <2>1, <2>4
    <3> QED
      BY <1>1, <3>1 DEF ElementOf
  <2> QED
    BY <1>7, <2>1, <2>2, <2>3, <2>4
<1>10. C' = [h \in DOMAIN shapes |->
            [i \in 0 .. shapes[h].m - 1 |->
               [j \in 0 .. shapes[h].n - 1 |-> ElementOf(h, i, j)]]]'
  <2>1. C = [h \in DOMAIN shapes |->
            [i \in 0 .. shapes[h].m - 1 |->
               [j \in 0 .. shapes[h].n - 1 |-> ElementOf(h, i, j)]]]
    BY DEF GemmInv
  <2> QED
    BY <1>1, <1>9, <2>1
<1>11. \E n \in 1 .. MaxProducts : shapes' \in [1 .. n -> GemmShapes]
  BY <1>1 DEF GemmInv
<1>12. tile' \in Nat \X Nat \X Nat /\ product' \in Nat /\ product' > 0
  BY <1>1 DEF GemmInv
<1>13. (1 .. product - 1 \subseteq DOMAIN shapes)'
  <2>1. 1 .. product - 1 \subseteq DOMAIN shapes
    BY DEF GemmInv
  <2>2. (product + 1) - 1 = product
    BY <1>7
  <2> QED
    BY <1>1, <1>7, <2>1, <2>2
<1> QED
  BY <1>1, <1>10, <1>11, <1>12, <1>13 DEF GemmInv

\* What is done is the reference's, if its start is.
LEMMA GemmDone ==
  ASSUME GemmConstants, GemmInv, beta # 0 \/ ~ c_nan
  PROVE  Blocked!MatchesRef
<1> SUFFICES ASSUME NEW h \in 1 .. product - 1
             PROVE  C[h] = Blocked!Ref(shapes[h])
  BY DEF Blocked!MatchesRef
<1>1. StartOf = Blocked!Scaled
  BY DEF StartOf, Blocked!Scaled
<1>2. product \in Nat /\ h \in DOMAIN shapes
  BY DEF GemmInv
<1>3. h < product
  BY <1>2
<1>4. shapes[h].k \in Nat
  BY <1>2 DEF GemmInv, GemmShapes, GemmConstants
<1>5. C[h] = [i \in 0 .. shapes[h].m - 1 |->
                 [j \in 0 .. shapes[h].n - 1 |-> ElementOf(h, i, j)]]
  BY <1>2 DEF GemmInv
<1>6. \A i, j : ElementOf(h, i, j) = [old |-> Blocked!Scaled, adds |-> FirstKs(shapes[h].k)]
  BY <1>1, <1>3 DEF ElementOf
<1>7. C[h] = [i \in 0 .. shapes[h].m - 1 |-> [j \in 0 .. shapes[h].n - 1 |->
                 [old |-> Blocked!Scaled, adds |-> FirstKs(shapes[h].k)]]]
  BY <1>5, <1>6
<1> QED
  BY <1>7 DEF Blocked!Ref, FirstKs

\* The blocked GEMM is gemm_ref bit by bit, for any size of the tile and any
\* shapes, the empty ones among them (gemm.cpp): every product is added once,
\* in the reference's order, to the reference's start.  The exception is a
\* beta of 0 over NaN, which the blocked one overwrites and the reference
\* multiplies.
THEOREM GemmExact ==
  GemmConstants => (Blocked!Spec => [](beta # 0 \/ ~ c_nan => Blocked!MatchesRef))
<1> SUFFICES ASSUME GemmConstants
             PROVE  Blocked!Spec => [](beta # 0 \/ ~ c_nan => Blocked!MatchesRef)
  OBVIOUS
<1>1. Blocked!Init => GemmInv
  BY GemmInit
<1>2. GemmInv /\ [Blocked!Next]_Blocked!vars => GemmInv'
  <2> SUFFICES ASSUME GemmInv, [Blocked!Next]_Blocked!vars
               PROVE  GemmInv'
    OBVIOUS
  <2>1. CASE Blocked!ApplyBeta
    BY <2>1, GemmBeta
  <2>2. CASE Blocked!Tile
    BY <2>2, GemmTile
  <2>3. CASE Blocked!NextProduct
    BY <2>3, GemmNextProduct
  <2>4. CASE UNCHANGED Blocked!vars
    <3>1. UNCHANGED <<shapes, beta, c_nan, product, gemm_stage, tile, C>>
      BY <2>4 DEF Blocked!vars
    <3>2. \A h : \A i, j : ElementOf(h, i, j)' = ElementOf(h, i, j)
      BY <3>1 DEF ElementOf, GivenTo, StartOf, Blocked!Scaled
    <3>3. C' = [h \in DOMAIN shapes |->
            [i \in 0 .. shapes[h].m - 1 |->
               [j \in 0 .. shapes[h].n - 1 |-> ElementOf(h, i, j)]]]'
      <4>1. C = [h \in DOMAIN shapes |->
            [i \in 0 .. shapes[h].m - 1 |->
               [j \in 0 .. shapes[h].n - 1 |-> ElementOf(h, i, j)]]]
        BY DEF GemmInv
      <4> QED
        BY <3>1, <3>2, <4>1
    <3> QED
      BY <3>1, <3>3 DEF GemmInv, TileInside
  <2> QED
    BY <2>1, <2>2, <2>3, <2>4 DEF Blocked!Next
<1>3. GemmInv => (beta # 0 \/ ~ c_nan => Blocked!MatchesRef)
  BY GemmDone
<1> QED
  BY <1>1, <1>2, <1>3, PTL DEF Blocked!Spec
=============================================================================
