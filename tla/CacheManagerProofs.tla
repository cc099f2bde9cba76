------------------------- MODULE CacheManagerProofs -------------------------
(***************************************************************************)
(* What each method of the cache manager preserves, for every pool size    *)
(* and block size.                                                         *)
(***************************************************************************)
EXTENDS CacheManager, FiniteSetTheorems, WellFoundedInduction, TLAPS

(* Induction over the natural numbers in a form first-order provers can use: *)
(* the property proved is a set.  The principle comes from the               *)
(* well-foundedness of strict inclusion on finite sets.                      *)

\* Every nonempty set of naturals has a least element.
LEMMA LeastNat ==
  ASSUME NEW T \in SUBSET Nat, T # {}
  PROVE  \E x \in T : \A y \in T : x <= y
<1> DEFINE U == {0 .. m : m \in T}
<1>1. U \subseteq FiniteSubsetsOf(Nat)
  <2>1. \A m \in T : 0 .. m \in SUBSET Nat
    OBVIOUS
  <2>2. \A m \in T : IsFiniteSet(0 .. m)
    BY FS_Interval
  <2>3. QED BY <2>1, <2>2 DEF FiniteSubsetsOf
<1>2. PICK u \in U : \A v \in U : <<v, u>> \notin StrictSubsetOrdering(Nat)
  <2>1. U # {}
    OBVIOUS
  <2>2. IsWellFoundedOn(StrictSubsetOrdering(Nat), FiniteSubsetsOf(Nat))
    BY FS_StrictSubsetOrderingWellFounded
  <2> HIDE DEF U
  <2>3. QED BY <1>1, <2>1, <2>2, WFMin
<1>3. PICK x \in T : u = 0 .. x
  OBVIOUS
<1>4. ASSUME NEW y \in T, y < x
      PROVE  FALSE
  <2>1. x \in 0 .. x /\ x \notin 0 .. y
    BY <1>4
  <2>2. (0 .. y) \subseteq (0 .. x) /\ 0 .. y # 0 .. x
    BY <1>4, <2>1
  <2>3. <<0 .. y, 0 .. x>> \in StrictSubsetOrdering(Nat)
    BY <2>2 DEF StrictSubsetOrdering
  <2>4. QED BY <2>3, <1>2, <1>3
<1>5. QED BY <1>4

\* A set with 0 and with the successor of each of its numbers has them all.
LEMMA SetInduction ==
  ASSUME NEW S, 0 \in S, \A n \in Nat : n \in S => n + 1 \in S
  PROVE  \A n \in Nat : n \in S
<1> DEFINE T == Nat \ S
<1>1. SUFFICES ASSUME T # {} PROVE FALSE
  OBVIOUS
<1>2. PICK x \in T : \A y \in T : x <= y
  BY <1>1, LeastNat
<1>3. x - 1 \in Nat
  BY <1>2
<1>4. x - 1 \in S
  BY <1>2, <1>3
<1>5. QED BY <1>2, <1>3, <1>4

\* A sequence is one over any set that has its entries.
LEMMA EntriesIn ==
  ASSUME NEW S, NEW T, NEW q \in Seq(S), \A i \in DOMAIN q : q[i] \in T
  PROVE  q \in Seq(T)
OBVIOUS

\* Each entry of a sequence is in the set it is over.
LEMMA EntryIn ==
  ASSUME NEW S, NEW q \in Seq(S), NEW i \in DOMAIN q
  PROVE  q[i] \in S
OBVIOUS

\* Functions with the same domain and values are equal.
LEMMA SameFunction ==
  ASSUME NEW f, NEW g, f = [x \in DOMAIN f |-> f[x]], g = [x \in DOMAIN g |-> g[x]],
         DOMAIN f = DOMAIN g, \A x \in DOMAIN f : f[x] = g[x]
  PROVE  f = g
<1>1. [x \in DOMAIN f |-> f[x]] = [x \in DOMAIN g |-> g[x]]
  OBVIOUS
<1>2. QED BY <1>1

\* The largest of some numbers.
LEMMA MaxOf ==
  ASSUME NEW n \in Nat, NEW S \in SUBSET (0 .. n), S # {}
  PROVE  Max(S) \in S /\ \A y \in S : y <= Max(S)
<1> DEFINE T == {n - x : x \in S}
<1>1. T \in SUBSET Nat /\ T # {}
  <2>1. \A x \in S : n - x \in Nat
    OBVIOUS
  <2>2. QED BY <2>1
<1>2. PICK t \in T : \A u \in T : t <= u
  BY <1>1, LeastNat
<1>3. PICK x \in S : t = n - x
  BY <1>2
<1>4. \A y \in S : x >= y
  <2>1. SUFFICES ASSUME NEW y \in S PROVE x >= y
    OBVIOUS
  <2>2. n - x <= n - y
    BY <1>2, <1>3
  <2>3. QED BY <2>2
<1>5. Max(S) \in S /\ \A y \in S : Max(S) >= y
  BY <1>3, <1>4 DEF Max
<1>6. QED BY <1>5

\* A number has one quotient and one remainder.
LEMMA MixedRadix ==
  ASSUME NEW n \in Nat \ {0}, NEW a \in Nat, NEW b \in Nat,
         NEW x \in 0 .. n - 1, NEW y \in 0 .. n - 1, a * n + x = b * n + y
  PROVE  a = b /\ x = y
<1>1. ASSUME NEW p \in Nat, NEW q \in Nat, NEW u \in 0 .. n - 1, NEW v \in 0 .. n - 1, p < q
      PROVE  p * n + u < q * n + v
  <2>1. (p + 1) * n <= q * n
    <3>1. PICK k \in Nat : q = p + 1 + k
      <4>1. q - (p + 1) \in Nat /\ q = p + 1 + (q - (p + 1))
        BY <1>1
      <4>2. QED BY <4>1
    <3>2. q * n = (p + 1) * n + k * n
      BY <3>1
    <3>3. k * n \in Nat /\ (p + 1) * n \in Nat
      OBVIOUS
    <3>4. QED BY <3>2, <3>3
  <2>2. (p + 1) * n = p * n + n
    OBVIOUS
  <2>3. p * n \in Nat /\ q * n \in Nat
    OBVIOUS
  <2>4. QED BY <2>1, <2>2, <2>3
<1>2. ~ (a < b)
  <2>1. SUFFICES ASSUME a < b PROVE FALSE
    OBVIOUS
  <2>2. a * n + x < b * n + y
    BY <1>1, <2>1
  <2>3. b * n + y \in Int
    OBVIOUS
  <2>4. QED BY <2>2, <2>3
<1>3. ~ (b < a)
  <2>1. SUFFICES ASSUME b < a PROVE FALSE
    OBVIOUS
  <2>2. b * n + y < a * n + x
    BY <1>1, <2>1
  <2>3. b * n + y \in Int
    OBVIOUS
  <2>4. QED BY <2>2, <2>3
<1>4. a = b
  BY <1>2, <1>3
<1>5. x = y
  <2>1. a * n \in Nat /\ b * n = a * n
    BY <1>4
  <2>2. QED BY <2>1
<1>6. QED BY <1>4, <1>5

\* One digit more keeps a number below the product of the radices.
LEMMA RadixBound ==
  ASSUME NEW n \in Nat \ {0}, NEW m \in Nat, NEW a \in 0 .. m - 1, NEW x \in 0 .. n - 1
  PROVE  a * n + x \in 0 .. m * n - 1
<1>1. PICK k \in Nat : m = a + 1 + k
  <2>1. m - (a + 1) \in Nat /\ m = a + 1 + (m - (a + 1))
    OBVIOUS
  <2>2. QED BY <2>1
<1>2. m * n = a * n + n + k * n
  BY <1>1
<1>3. k * n \in Nat /\ a * n \in Nat
  OBVIOUS
<1>4. QED BY <1>2, <1>3

---------------------------------------------------------------------------
(* Single blocks *)

ManagerOK(m) == ManagerTypeOK(m) /\ FreeListExact(m)

\* The constructor's state is well formed.
LEMMA InitManagerOK == ManagerOK(InitManager)
<1> USE LayoutAssumption DEF InitManager, Block
<1>1. InitManager.free_list \in Seq(Block) /\ Len(InitManager.free_list) = NumBlocks
  OBVIOUS
<1>2. ManagerTypeOK(InitManager)
  BY <1>1 DEF ManagerTypeOK, RequestBlocks
<1>3. IsInjective(InitManager.free_list)
  BY DEF IsInjective
<1>4. ToSet(InitManager.free_list) = Block
  <2>1. ASSUME NEW b \in Block PROVE b \in ToSet(InitManager.free_list)
    <3>1. NumBlocks - b \in 1 .. NumBlocks /\ NumBlocks - (NumBlocks - b) = b
      OBVIOUS
    <3>2. QED BY <3>1 DEF ToSet
  <2>2. QED BY <1>1, <2>1 DEF ToSet
<1>5. QED BY <1>2, <1>3, <1>4 DEF ManagerOK, FreeListExact

\* A state whose free list and counts are replaced by well-typed ones is well
\* typed, and the rest of it is as it was.
LEMMA WithPoolTyped ==
  ASSUME NEW m, ManagerTypeOK(m), NEW fl \in Seq(Block), NEW rc \in [Block -> Nat]
  PROVE  /\ ManagerTypeOK(WithPool(m, fl, rc))
         /\ WithPool(m, fl, rc).free_list = fl
         /\ WithPool(m, fl, rc).refcount = rc
         /\ WithPool(m, fl, rc).requests = m.requests
         /\ WithPool(m, fl, rc).recycled_ids = m.recycled_ids
         /\ WithPool(m, fl, rc).next_id = m.next_id
BY DEF ManagerTypeOK, WithPool

\* What release_block does to a block in use.
LEMMA ReleaseBlockFields ==
  ASSUME NEW m, ManagerTypeOK(m), NEW b \in Block, m.refcount[b] > 0
  PROVE  /\ ManagerTypeOK(ReleaseBlock(m, b))
         /\ ReleaseBlock(m, b).refcount = [m.refcount EXCEPT ![b] = @ - 1]
         /\ ReleaseBlock(m, b).free_list =
              IF m.refcount[b] = 1 THEN Append(m.free_list, b) ELSE m.free_list
         /\ ReleaseBlock(m, b).requests = m.requests
         /\ ReleaseBlock(m, b).recycled_ids = m.recycled_ids
         /\ ReleaseBlock(m, b).next_id = m.next_id
<1> DEFINE fl == IF m.refcount[b] = 1 THEN Append(m.free_list, b) ELSE m.free_list
           rc == [m.refcount EXCEPT ![b] = @ - 1]
<1>1. m.free_list \in Seq(Block) /\ m.refcount \in [Block -> Nat]
  BY DEF ManagerTypeOK
<1>2. fl \in Seq(Block) /\ rc \in [Block -> Nat]
  BY <1>1
<1>3. ReleaseBlock(m, b) = WithPool(m, fl, rc)
  BY <1>1 DEF ReleaseBlock
<1> HIDE DEF fl, rc
<1>4. /\ ManagerTypeOK(WithPool(m, fl, rc))
      /\ WithPool(m, fl, rc).free_list = fl
      /\ WithPool(m, fl, rc).refcount = rc
      /\ WithPool(m, fl, rc).requests = m.requests
      /\ WithPool(m, fl, rc).recycled_ids = m.recycled_ids
      /\ WithPool(m, fl, rc).next_id = m.next_id
  BY <1>2, WithPoolTyped
<1>5. QED BY <1>3, <1>4 DEF fl, rc

\* release_block keeps counts and free list in step.
LEMMA ReleaseBlockOK ==
  ASSUME NEW m, ManagerOK(m), NEW b
  PROVE  ManagerOK(ReleaseBlock(m, b))
<1> DEFINE n == ReleaseBlock(m, b)
<1>1. CASE b \notin Block \/ m.refcount[b] <= 0
  BY <1>1 DEF ReleaseBlock
<1>2. CASE b \in Block /\ ~ (m.refcount[b] <= 0)
  <2>1. m.free_list \in Seq(Block) /\ m.refcount \in [Block -> Nat]
    BY DEF ManagerOK, ManagerTypeOK
  <2>2. m.refcount[b] > 0
    BY <1>2, <2>1
  <2>3. /\ ManagerTypeOK(n)
        /\ n.refcount = [m.refcount EXCEPT ![b] = @ - 1]
        /\ n.free_list = IF m.refcount[b] = 1 THEN Append(m.free_list, b) ELSE m.free_list
    BY <1>2, <2>2, ReleaseBlockFields DEF ManagerOK
  <2> HIDE DEF n
  <2>5. b \notin ToSet(m.free_list)
    BY <2>1, <2>2 DEF ManagerOK, FreeListExact
  <2>6. FreeListExact(n)
    <3>1. CASE m.refcount[b] = 1
      <4>1. IsInjective(n.free_list)
        BY <2>1, <2>3, <2>5, <3>1 DEF ManagerOK, FreeListExact, IsInjective, ToSet
      <4>2. ToSet(n.free_list) = ToSet(m.free_list) \cup {b}
        <5>1. DOMAIN n.free_list = DOMAIN m.free_list \cup {Len(m.free_list) + 1}
          BY <2>1, <2>3, <3>1
        <5>2. n.free_list[Len(m.free_list) + 1] = b
          BY <1>2, <2>1, <2>3, <3>1
        <5>3. \A i \in DOMAIN m.free_list : n.free_list[i] = m.free_list[i]
          BY <1>2, <2>1, <2>3, <3>1
        <5>4. QED BY <5>1, <5>2, <5>3 DEF ToSet
      <4>3. {a \in Block : n.refcount[a] = 0} = {a \in Block : m.refcount[a] = 0} \cup {b}
        BY <1>2, <2>1, <2>3, <3>1
      <4>4. QED BY <4>1, <4>2, <4>3 DEF ManagerOK, FreeListExact
    <3>2. CASE m.refcount[b] # 1
      <4>1. {a \in Block : n.refcount[a] = 0} = {a \in Block : m.refcount[a] = 0}
        BY <1>2, <2>1, <2>2, <2>3, <3>2
      <4>2. QED BY <4>1, <2>3, <3>2 DEF ManagerOK, FreeListExact
    <3>3. QED BY <3>1, <3>2
  <2>7. QED BY <2>3, <2>6 DEF ManagerOK, n
<1>3. QED BY <1>1, <1>2

\* retain_block on a block in use keeps counts and free list in step.
LEMMA RetainBlockOK ==
  ASSUME NEW m, ManagerOK(m), NEW b \in Block, m.refcount[b] > 0
  PROVE  LET n == RetainBlock(m, b)
         IN  /\ ManagerOK(n)
             /\ n.refcount = [m.refcount EXCEPT ![b] = @ + 1]
             /\ n.free_list = m.free_list
             /\ n.requests = m.requests
             /\ n.recycled_ids = m.recycled_ids
             /\ n.next_id = m.next_id
<1> DEFINE rc == [m.refcount EXCEPT ![b] = @ + 1]
           n == RetainBlock(m, b)
<1>1. m.free_list \in Seq(Block) /\ m.refcount \in [Block -> Nat]
  BY DEF ManagerOK, ManagerTypeOK
<1>2. rc \in [Block -> Nat]
  BY <1>1
<1>3. n = WithPool(m, m.free_list, rc)
  BY DEF RetainBlock
<1> HIDE DEF n, rc
<1>4. /\ ManagerTypeOK(n)
      /\ n.free_list = m.free_list
      /\ n.refcount = rc
      /\ n.requests = m.requests
      /\ n.recycled_ids = m.recycled_ids
      /\ n.next_id = m.next_id
  BY <1>1, <1>2, <1>3, WithPoolTyped DEF ManagerOK
<1>5. {a \in Block : n.refcount[a] = 0} = {a \in Block : m.refcount[a] = 0}
  BY <1>1, <1>4 DEF rc
<1>6. FreeListExact(n)
  BY <1>4, <1>5 DEF ManagerOK, FreeListExact
<1>7. QED BY <1>4, <1>6 DEF ManagerOK, n, rc

\* The blocks at the top of the free list are blocks that nobody refers to.
LEMMA TopBlockFree ==
  ASSUME NEW m, ManagerOK(m), NEW n \in 0 .. NumFree(m), NEW i \in 1 .. n
  PROVE  TopBlocks(m, n)[i] \in Block /\ m.refcount[TopBlocks(m, n)[i]] = 0
<1> DEFINE F == NumFree(m)
           j == F + 1 - i
<1>1. m.free_list \in Seq(Block) /\ ToSet(m.free_list) = {b \in Block : m.refcount[b] = 0}
  BY DEF ManagerOK, ManagerTypeOK, FreeListExact
<1>2. F \in Nat /\ DOMAIN m.free_list = 1 .. F
  BY <1>1 DEF NumFree
<1>3. TopBlocks(m, n)[i] = m.free_list[j]
  BY DEF TopBlocks
<1> HIDE DEF F
<1>4. j \in DOMAIN m.free_list
  BY <1>2 DEF F
<1> HIDE DEF j
<1>5. m.free_list[j] \in ToSet(m.free_list)
  BY <1>4 DEF ToSet
<1>6. QED BY <1>1, <1>3, <1>5

\* The n blocks popped are distinct, were unreferenced, and now have one
\* reference each.
LEMMA AllocateBlocksOK ==
  ASSUME NEW m, ManagerOK(m), NEW n \in 0 .. NumFree(m)
  PROVE  LET top == TopBlocks(m, n)
             a == AllocateBlocks(m, n)
         IN  /\ top \in Seq(Block) /\ Len(top) = n /\ IsInjective(top)
             /\ \A i \in 1 .. n : m.refcount[top[i]] = 0
             /\ ManagerOK(a)
             /\ a.refcount = [b \in Block |-> IF b \in ToSet(top) THEN 1 ELSE m.refcount[b]]
             /\ a.free_list = SubSeq(m.free_list, 1, NumFree(m) - n)
             /\ a.requests = m.requests
             /\ a.recycled_ids = m.recycled_ids
             /\ a.next_id = m.next_id
<1> DEFINE top == TopBlocks(m, n)
           fl == SubSeq(m.free_list, 1, NumFree(m) - n)
           rc == [b \in Block |-> IF b \in ToSet(top) THEN 1 ELSE m.refcount[b]]
           a == AllocateBlocks(m, n)
           F == NumFree(m)
<1>1. /\ m.free_list \in Seq(Block) /\ m.refcount \in [Block -> Nat]
      /\ ManagerTypeOK(m)
      /\ IsInjective(m.free_list)
      /\ ToSet(m.free_list) = {b \in Block : m.refcount[b] = 0}
  BY DEF ManagerOK, ManagerTypeOK, FreeListExact
<1>2. /\ F \in Nat /\ n \in Nat /\ n <= F
      /\ DOMAIN m.free_list = 1 .. F
      /\ \A k \in 1 .. F : m.free_list[k] \in Block
      /\ \A j, k \in 1 .. F : m.free_list[j] = m.free_list[k] => j = k
      /\ \A k \in 1 .. F : m.refcount[m.free_list[k]] = 0
      /\ \A b \in Block : m.refcount[b] = 0 => \E k \in 1 .. F : m.free_list[k] = b
  BY <1>1 DEF NumFree, IsInjective, ToSet
<1>3. /\ top = [i \in 1 .. n |-> m.free_list[F + 1 - i]]
      /\ DOMAIN top = 1 .. n
      /\ \A i \in 1 .. n : top[i] = m.free_list[F + 1 - i]
  BY DEF TopBlocks
<1> HIDE DEF F
<1>4. \A i \in 1 .. n : F + 1 - i \in 1 .. F
  BY <1>2
<1>5. top \in Seq(Block) /\ Len(top) = n
  <2> HIDE DEF top
  <2>1. \A i \in 1 .. n : top[i] \in Block
    BY <1>2, <1>3, <1>4
  <2>2. top \in [1 .. n -> Block]
    BY <2>1, <1>3
  <2>3. QED BY <1>2, <2>2
<1> HIDE DEF top
<1>6. IsInjective(top)
  <2>1. SUFFICES ASSUME NEW i \in 1 .. n, NEW j \in 1 .. n, top[i] = top[j]
                 PROVE  i = j
    BY <1>3 DEF IsInjective
  <2>2. F + 1 - i = F + 1 - j
    BY <2>1, <1>2, <1>3, <1>4
  <2>3. QED BY <2>2, <1>2
<1>7. \A i \in 1 .. n : m.refcount[top[i]] = 0
  BY <1>2, <1>3, <1>4
<1>8. /\ fl \in Seq(Block) /\ Len(fl) = F - n
      /\ \A i \in 1 .. F - n : fl[i] = m.free_list[i]
  BY <1>1, <1>2 DEF F, NumFree
<1>9. rc \in [Block -> Nat]
  BY <1>1
<1>10. a = WithPool(m, fl, rc)
  BY DEF AllocateBlocks, top
<1> HIDE DEF fl, rc, a
<1>11. /\ ManagerTypeOK(a) /\ a.free_list = fl /\ a.refcount = rc
       /\ a.requests = m.requests /\ a.recycled_ids = m.recycled_ids
       /\ a.next_id = m.next_id
  <2>1. ManagerTypeOK(m) /\ fl \in Seq(Block)
    BY <1>1, <1>8
  <2>2. QED BY <2>1, <1>9, <1>10, WithPoolTyped
<1>12. IsInjective(fl)
  <2>1. DOMAIN fl = 1 .. F - n
    BY <1>2, <1>8
  <2>2. \A i \in 1 .. F - n : i \in 1 .. F
    BY <1>2
  <2>3. QED BY <2>1, <2>2, <1>2, <1>8 DEF IsInjective
<1>13. ToSet(fl) = {b \in Block : rc[b] = 0}
  <2>1. ASSUME NEW i \in 1 .. F - n
        PROVE  fl[i] \in Block /\ rc[fl[i]] = 0
    <3>1. fl[i] = m.free_list[i] /\ i \in 1 .. F
      BY <1>2, <1>8
    <3>2. fl[i] \in Block /\ m.refcount[fl[i]] = 0
      BY <3>1, <1>2
    <3>3. \A j \in 1 .. n : top[j] # fl[i]
      <4>1. SUFFICES ASSUME NEW j \in 1 .. n, top[j] = fl[i] PROVE FALSE
        OBVIOUS
      <4>2. F + 1 - j = i
        BY <4>1, <3>1, <1>2, <1>3, <1>4
      <4>3. QED BY <4>2, <1>2
    <3>4. fl[i] \notin ToSet(top)
      BY <3>3, <1>3 DEF ToSet
    <3>5. QED BY <3>2, <3>4 DEF rc
  <2>2. ASSUME NEW b \in Block, rc[b] = 0
        PROVE  b \in ToSet(fl)
    <3>1. b \notin ToSet(top) /\ m.refcount[b] = 0
      BY <2>2 DEF rc
    <3>2. PICK k \in 1 .. F : b = m.free_list[k]
      BY <3>1, <1>2
    <3>3. k \in 1 .. F - n
      <4>1. SUFFICES ASSUME k > F - n PROVE FALSE
        BY <1>2
      <4>2. F + 1 - k \in 1 .. n /\ F + 1 - (F + 1 - k) = k
        BY <4>1, <1>2
      <4>3. top[F + 1 - k] = b
        BY <4>2, <3>2, <1>3
      <4>4. QED BY <4>2, <4>3, <3>1, <1>3 DEF ToSet
    <3>4. QED BY <3>2, <3>3, <1>8 DEF ToSet
  <2>3. QED BY <2>1, <2>2, <1>8 DEF ToSet
<1>14. ManagerOK(a)
  BY <1>11, <1>12, <1>13 DEF ManagerOK, FreeListExact
<1>15. QED
  BY <1>5, <1>6, <1>7, <1>11, <1>14 DEF top, fl, rc, a, F

\* The recursion of Releasing, unfolded.
LEMMA ReleasingUnfolds ==
  ASSUME NEW m, NEW tbl, Len(tbl) \in Nat
  PROVE  /\ Releasing(m, tbl)[0] = m
         /\ \A i \in 1 .. Len(tbl) :
              Releasing(m, tbl)[i] = ReleaseBlock(Releasing(m, tbl)[i - 1], tbl[i])
<1> DEFINE L == Len(tbl)
           Run(f, k) == f = [i \in 0 .. k |->
                               IF i = 0 THEN m ELSE ReleaseBlock(f[i - 1], tbl[i])]
           S == {k \in Nat : \E f : Run(f, k)}
<1>1. 0 \in S
  <2>1. Run([i \in 0 .. 0 |-> m], 0)
    OBVIOUS
  <2>2. QED BY <2>1
<1>2. \A k \in Nat : k \in S => k + 1 \in S
  <2>0. SUFFICES ASSUME NEW k \in Nat, k \in S PROVE k + 1 \in S
    <3> HIDE DEF S
    <3>1. QED OBVIOUS
  <2>1. PICK f : Run(f, k)
    BY <2>0
  <2>2. DEFINE g == [i \in 0 .. k + 1 |->
                       IF i <= k THEN f[i] ELSE ReleaseBlock(f[k], tbl[k + 1])]
  <2>3. ASSUME NEW i \in 0 .. k + 1
        PROVE  g[i] = IF i = 0 THEN m ELSE ReleaseBlock(g[i - 1], tbl[i])
    <3>1. CASE i = 0
      BY <2>1, <3>1
    <3>2. CASE i \in 1 .. k
      <4>1. g[i] = f[i] /\ g[i - 1] = f[i - 1]
        BY <3>2
      <4>2. f[i] = ReleaseBlock(f[i - 1], tbl[i])
        BY <2>1, <3>2
      <4>3. QED BY <4>1, <4>2, <3>2
    <3>3. CASE i = k + 1
      BY <3>3
    <3>4. QED BY <3>1, <3>2, <3>3
  <2>4. Run(g, k + 1)
    <3> HIDE DEF g
    <3>1. g = [i \in 0 .. k + 1 |-> g[i]]
      BY DEF g
    <3>2. QED BY <3>1, <2>3
  <2>5. k + 1 \in Nat /\ \E h : Run(h, k + 1)
    <3> HIDE DEF g, Run
    <3>1. QED BY <2>4
  <2>6. QED BY <2>5
<1>3. \E f : Run(f, L)
  <2> HIDE DEF S
  <2>1. L \in S
    BY <1>1, <1>2, SetInduction
  <2>2. QED BY <2>1 DEF S
<1>4. Run(Releasing(m, tbl), L)
  BY <1>3 DEF Releasing
<1>5. QED BY <1>4

\* Releasing touches nothing but free list and counts, and keeps them in step.
LEMMA ReleasingOK ==
  ASSUME NEW m, ManagerOK(m), NEW tbl, Len(tbl) \in Nat
  PROVE  \A i \in 0 .. Len(tbl) :
           /\ ManagerOK(Releasing(m, tbl)[i])
           /\ Releasing(m, tbl)[i].requests = m.requests
           /\ Releasing(m, tbl)[i].recycled_ids = m.recycled_ids
           /\ Releasing(m, tbl)[i].next_id = m.next_id
<1> DEFINE R == Releasing(m, tbl)
           Good(n) == /\ ManagerOK(n)
                      /\ n.requests = m.requests
                      /\ n.recycled_ids = m.recycled_ids
                      /\ n.next_id = m.next_id
           S == {i \in Nat : i <= Len(tbl) => Good(R[i])}
<1>1. R[0] = m /\ \A i \in 1 .. Len(tbl) : R[i] = ReleaseBlock(R[i - 1], tbl[i])
  BY ReleasingUnfolds
<1> HIDE DEF R
<1>2. ASSUME NEW n, Good(n), NEW b
      PROVE  Good(ReleaseBlock(n, b))
  <2>1. ManagerOK(ReleaseBlock(n, b))
    BY <1>2, ReleaseBlockOK
  <2>2. CASE b \in Block /\ ~ (n.refcount[b] <= 0)
    <3>1. n.refcount[b] > 0 /\ ManagerTypeOK(n)
      BY <1>2, <2>2 DEF ManagerOK, ManagerTypeOK
    <3>2. /\ ReleaseBlock(n, b).requests = n.requests
          /\ ReleaseBlock(n, b).recycled_ids = n.recycled_ids
          /\ ReleaseBlock(n, b).next_id = n.next_id
      BY <2>2, <3>1, ReleaseBlockFields
    <3>3. QED BY <1>2, <2>1, <3>2
  <2>3. CASE b \notin Block \/ n.refcount[b] <= 0
    BY <1>2, <2>3 DEF ReleaseBlock
  <2>4. QED BY <2>2, <2>3
<1>3. Good(m)
  OBVIOUS
<1> HIDE DEF Good
<1>4. 0 \in S
  BY <1>1, <1>3
<1>5. \A k \in Nat : k \in S => k + 1 \in S
  <2>1. SUFFICES ASSUME NEW k \in Nat, k \in S, k + 1 <= Len(tbl)
                 PROVE  Good(R[k + 1])
    OBVIOUS
  <2>2. k + 1 \in 1 .. Len(tbl) /\ (k + 1) - 1 = k /\ Good(R[k])
    BY <2>1
  <2>3. R[k + 1] = ReleaseBlock(R[k], tbl[k + 1])
    BY <1>1, <2>2
  <2>4. QED BY <1>2, <2>2, <2>3
<1> HIDE DEF S
<1>6. \A i \in Nat : i \in S
  BY <1>4, <1>5, SetInduction
<1>7. \A i \in 0 .. Len(tbl) : Good(R[i])
  BY <1>6 DEF S
<1>8. QED BY <1>7 DEF Good, R

---------------------------------------------------------------------------
(* Requests *)

\* Replacing the requests changes nothing else.
LEMMA WithRequestsOK ==
  ASSUME NEW m, ManagerOK(m), NEW rs,
         DOMAIN rs \subseteq Nat, rs \in [DOMAIN rs -> RequestBlocks]
  PROVE  /\ ManagerOK(WithRequests(m, rs))
         /\ WithRequests(m, rs).requests = rs
         /\ WithRequests(m, rs).free_list = m.free_list
         /\ WithRequests(m, rs).refcount = m.refcount
         /\ WithRequests(m, rs).recycled_ids = m.recycled_ids
         /\ WithRequests(m, rs).next_id = m.next_id
BY DEF ManagerOK, ManagerTypeOK, FreeListExact, WithRequests

\* Replacing the bookkeeping of ids changes nothing else.
LEMMA WithIdsOK ==
  ASSUME NEW m, ManagerOK(m), NEW rec \in Seq(Nat), NEW nxt \in Nat
  PROVE  /\ ManagerOK(WithIds(m, rec, nxt))
         /\ WithIds(m, rec, nxt).requests = m.requests
         /\ WithIds(m, rec, nxt).free_list = m.free_list
         /\ WithIds(m, rec, nxt).refcount = m.refcount
         /\ WithIds(m, rec, nxt).recycled_ids = rec
         /\ WithIds(m, rec, nxt).next_id = nxt
BY DEF ManagerOK, ManagerTypeOK, FreeListExact, WithIds

\* create_request adds an empty request under the id it returns.
LEMMA CreateRequestOK ==
  ASSUME NEW m, ManagerOK(m)
  PROVE  LET n == CreateRequest(m)
         IN  /\ ManagerOK(n)
             /\ n.requests = [r \in DOMAIN m.requests \cup {FreshId(m)} |->
                                IF r \in DOMAIN m.requests THEN m.requests[r] ELSE NoBlocks]
             /\ n.free_list = m.free_list
             /\ n.refcount = m.refcount
             /\ n.recycled_ids = IF m.recycled_ids # <<>>
                                 THEN Front(m.recycled_ids) ELSE <<>>
             /\ n.next_id = IF m.recycled_ids # <<>> THEN m.next_id ELSE m.next_id + 1
<1> DEFINE rs == [r \in DOMAIN m.requests \cup {FreshId(m)} |->
                    IF r \in DOMAIN m.requests THEN m.requests[r] ELSE NoBlocks]
           rec == IF m.recycled_ids # <<>> THEN Front(m.recycled_ids) ELSE <<>>
           nxt == IF m.recycled_ids # <<>> THEN m.next_id ELSE m.next_id + 1
           w == WithRequests(m, rs)
<1>1. /\ m.recycled_ids \in Seq(Nat) /\ m.next_id \in Nat
      /\ DOMAIN m.requests \subseteq Nat
      /\ m.requests \in [DOMAIN m.requests -> RequestBlocks]
  BY DEF ManagerOK, ManagerTypeOK
<1>2. rec \in Seq(Nat) /\ nxt \in Nat /\ FreshId(m) \in Nat
  BY <1>1 DEF Front, FreshId, Last
<1>3. NoBlocks \in RequestBlocks
  BY DEF NoBlocks, RequestBlocks
<1>4. DOMAIN rs \subseteq Nat /\ rs \in [DOMAIN rs -> RequestBlocks]
  BY <1>1, <1>2, <1>3
<1>5. CreateRequest(m) = WithIds(w, rec, nxt)
  BY DEF CreateRequest
<1> HIDE DEF rs, rec, nxt
<1>6. /\ ManagerOK(w) /\ w.requests = rs
      /\ w.free_list = m.free_list /\ w.refcount = m.refcount
  BY <1>4, WithRequestsOK
<1> HIDE DEF w
<1>7. /\ ManagerOK(WithIds(w, rec, nxt))
      /\ WithIds(w, rec, nxt).requests = w.requests
      /\ WithIds(w, rec, nxt).free_list = w.free_list
      /\ WithIds(w, rec, nxt).refcount = w.refcount
      /\ WithIds(w, rec, nxt).recycled_ids = rec
      /\ WithIds(w, rec, nxt).next_id = nxt
  BY <1>2, <1>6, WithIdsOK
<1>8. QED BY <1>5, <1>6, <1>7 DEF rs, rec, nxt

\* release_request drops every entry of the table, then the request.
LEMMA ReleaseRequestOK ==
  ASSUME NEW m, ManagerOK(m), NEW id \in DOMAIN m.requests
  PROVE  LET n == ReleaseRequest(m, id)
             done == Releasing(m, Table(m, id))[Len(Table(m, id))]
         IN  /\ ManagerOK(n)
             /\ n.requests = [r \in DOMAIN m.requests \ {id} |-> m.requests[r]]
             /\ n.free_list = done.free_list
             /\ n.refcount = done.refcount
             /\ n.recycled_ids = Append(m.recycled_ids, id)
             /\ n.next_id = m.next_id
<1> DEFINE rs == [r \in DOMAIN m.requests \ {id} |-> m.requests[r]]
           rec == Append(m.recycled_ids, id)
           done == Releasing(m, Table(m, id))[Len(Table(m, id))]
           w == WithRequests(done, rs)
<1>1. /\ m.recycled_ids \in Seq(Nat) /\ m.next_id \in Nat
      /\ DOMAIN m.requests \subseteq Nat
      /\ m.requests \in [DOMAIN m.requests -> RequestBlocks]
  BY DEF ManagerOK, ManagerTypeOK
<1>2. rec \in Seq(Nat)
  BY <1>1
<1>3. DOMAIN rs \subseteq Nat /\ rs \in [DOMAIN rs -> RequestBlocks]
  BY <1>1
<1>4. Len(Table(m, id)) \in Nat
  BY <1>1 DEF Table, RequestBlocks
<1>5. ManagerOK(done)
  BY <1>4, ReleasingOK
<1>6. ReleaseRequest(m, id) = WithIds(w, rec, m.next_id)
  BY DEF ReleaseRequest
<1> HIDE DEF rs, rec, done
<1>7. /\ ManagerOK(w) /\ w.requests = rs
      /\ w.free_list = done.free_list /\ w.refcount = done.refcount
  BY <1>3, <1>5, WithRequestsOK
<1> HIDE DEF w
<1>8. /\ ManagerOK(WithIds(w, rec, m.next_id))
      /\ WithIds(w, rec, m.next_id).requests = w.requests
      /\ WithIds(w, rec, m.next_id).free_list = w.free_list
      /\ WithIds(w, rec, m.next_id).refcount = w.refcount
      /\ WithIds(w, rec, m.next_id).recycled_ids = rec
      /\ WithIds(w, rec, m.next_id).next_id = m.next_id
  BY <1>1, <1>2, <1>7, WithIdsOK
<1>9. QED BY <1>6, <1>7, <1>8 DEF rs, rec, done

\* Replacing one table changes nothing else.
LEMMA WithTableOK ==
  ASSUME NEW m, ManagerOK(m), NEW id \in DOMAIN m.requests,
         NEW tbl \in Seq(Block \cup {kInvalidBlock})
  PROVE  LET n == WithTable(m, id, tbl)
         IN  /\ ManagerOK(n)
             /\ n.requests = [m.requests EXCEPT ![id] =
                                [block_table |-> tbl, seq_len |-> @.seq_len]]
             /\ n.free_list = m.free_list
             /\ n.refcount = m.refcount
             /\ n.recycled_ids = m.recycled_ids
             /\ n.next_id = m.next_id
<1> DEFINE rs == [m.requests EXCEPT ![id] = [block_table |-> tbl, seq_len |-> @.seq_len]]
<1>1. DOMAIN m.requests \subseteq Nat /\ m.requests \in [DOMAIN m.requests -> RequestBlocks]
  BY DEF ManagerOK, ManagerTypeOK
<1>2. [block_table |-> tbl, seq_len |-> m.requests[id].seq_len] \in RequestBlocks
  BY <1>1 DEF RequestBlocks
<1>3. DOMAIN rs \subseteq Nat /\ rs \in [DOMAIN rs -> RequestBlocks]
  BY <1>1, <1>2
<1>4. WithTable(m, id, tbl) = WithRequests(m, rs)
  BY DEF WithTable
<1> HIDE DEF rs
<1>5. /\ ManagerOK(WithRequests(m, rs))
      /\ WithRequests(m, rs).requests = rs
      /\ WithRequests(m, rs).free_list = m.free_list
      /\ WithRequests(m, rs).refcount = m.refcount
      /\ WithRequests(m, rs).recycled_ids = m.recycled_ids
      /\ WithRequests(m, rs).next_id = m.next_id
  BY <1>3, WithRequestsOK
<1>6. QED BY <1>4, <1>5 DEF rs

\* set_seq_len changes one length and nothing else.
LEMMA SetSeqLenOK ==
  ASSUME NEW m, ManagerOK(m), NEW id \in DOMAIN m.requests, NEW len \in Nat
  PROVE  LET n == SetSeqLen(m, id, len)
         IN  /\ ManagerOK(n)
             /\ n.requests = [m.requests EXCEPT ![id] =
                                [block_table |-> @.block_table, seq_len |-> len]]
             /\ n.free_list = m.free_list
             /\ n.refcount = m.refcount
             /\ n.recycled_ids = m.recycled_ids
             /\ n.next_id = m.next_id
<1> DEFINE rs == [m.requests EXCEPT ![id] = [block_table |-> @.block_table, seq_len |-> len]]
<1>1. DOMAIN m.requests \subseteq Nat /\ m.requests \in [DOMAIN m.requests -> RequestBlocks]
  BY DEF ManagerOK, ManagerTypeOK
<1>2. [block_table |-> m.requests[id].block_table, seq_len |-> len] \in RequestBlocks
  BY <1>1 DEF RequestBlocks
<1>3. DOMAIN rs \subseteq Nat /\ rs \in [DOMAIN rs -> RequestBlocks]
  BY <1>1, <1>2
<1>4. SetSeqLen(m, id, len) = WithRequests(m, rs)
  BY DEF SetSeqLen
<1> HIDE DEF rs
<1>5. /\ ManagerOK(WithRequests(m, rs))
      /\ WithRequests(m, rs).requests = rs
      /\ WithRequests(m, rs).free_list = m.free_list
      /\ WithRequests(m, rs).refcount = m.refcount
      /\ WithRequests(m, rs).recycled_ids = m.recycled_ids
      /\ WithRequests(m, rs).next_id = m.next_id
  BY <1>3, WithRequestsOK
<1>6. QED BY <1>4, <1>5 DEF rs

\* The number of blocks that n tokens need.
LEMMA BlocksForNat ==
  ASSUME NEW n \in Nat
  PROVE  BlocksFor(n) \in Nat /\ BlocksFor(n) * BlockSize >= n
BY LayoutAssumption DEF BlocksFor

\* No block more than n tokens need.
LEMMA BlocksForTight ==
  ASSUME NEW n \in Nat
  PROVE  (BlocksFor(n) - 1) * BlockSize < n
<1> DEFINE x == n + BlockSize - 1
           q == x \div BlockSize
<1>1. BlockSize \in Nat /\ BlockSize > 0
  BY LayoutAssumption
<1>2. x \in Nat /\ q \in Nat /\ q * BlockSize <= x
  BY <1>1
<1>3. BlocksFor(n) = q
  BY DEF BlocksFor
<1> HIDE DEF q
<1>4. (q - 1) * BlockSize = q * BlockSize - BlockSize
  BY <1>1, <1>2
<1>5. q * BlockSize \in Nat
  BY <1>1, <1>2
<1>6. QED BY <1>1, <1>2, <1>3, <1>4, <1>5

\* n is m with the top `extra` free blocks appended to the table of id.
Extended(m, n, id, extra) ==
  /\ extra \in 1 .. NumFree(m)
  /\ \A r \in DOMAIN m.requests :
       /\ Table(n, r) =
            IF r = id THEN Table(m, id) \o TopBlocks(m, extra) ELSE Table(m, r)
       /\ n.requests[r].seq_len = m.requests[r].seq_len
  /\ n.free_list = AllocateBlocks(m, extra).free_list
  /\ n.refcount = AllocateBlocks(m, extra).refcount

\* ensure_capacity appends exactly the missing blocks, or changes nothing.
LEMMA EnsureCapacityOK ==
  ASSUME NEW m, ManagerOK(m), NEW id \in DOMAIN m.requests, NEW len \in Nat,
         NEW extra, extra = BlocksFor(len) - Len(Table(m, id))
  PROVE  /\ ManagerOK(EnsureCapacity(m, id, len))
         /\ DOMAIN EnsureCapacity(m, id, len).requests = DOMAIN m.requests
         /\ EnsureCapacity(m, id, len).recycled_ids = m.recycled_ids
         /\ EnsureCapacity(m, id, len).next_id = m.next_id
         /\ \/ /\ EnsureCapacity(m, id, len) = m
               /\ extra <= 0 \/ ~ CanCover(m, id, len)
            \/ Extended(m, EnsureCapacity(m, id, len), id, extra)
<1> DEFINE top == TopBlocks(m, extra)
           a == AllocateBlocks(m, extra)
           tbl == Table(m, id) \o top
           n == EnsureCapacity(m, id, len)
<1>1. /\ m.free_list \in Seq(Block)
      /\ m.requests \in [DOMAIN m.requests -> RequestBlocks]
  BY DEF ManagerOK, ManagerTypeOK
<1>2. Table(m, id) \in Seq(Block \cup {kInvalidBlock}) /\ Len(Table(m, id)) \in Nat
  BY <1>1 DEF Table, RequestBlocks
<1>3. /\ BlocksFor(len) \in Nat /\ NumFree(m) \in Nat
      /\ extra = BlocksFor(len) - Len(Table(m, id)) /\ extra \in Int
  <2>1. BlocksFor(len) \in Nat
    BY BlocksForNat
  <2>2. NumFree(m) \in Nat
    BY <1>1 DEF NumFree
  <2>3. QED BY <1>2, <2>1, <2>2
<1>4. CASE extra <= 0 \/ extra > NumFree(m)
  <2>1. n = m
    BY <1>4 DEF EnsureCapacity
  <2>2. extra <= 0 \/ ~ CanCover(m, id, len)
    BY <1>2, <1>3, <1>4 DEF CanCover
  <2>3. QED BY <2>1, <2>2
<1>5. CASE ~ (extra <= 0 \/ extra > NumFree(m))
  <2>1. extra \in 1 .. NumFree(m)
    BY <1>3, <1>5
  <2>2. n = WithTable(a, id, tbl)
    BY <1>5 DEF EnsureCapacity
  <2> HIDE DEF n
  <2>3. /\ top \in Seq(Block)
        /\ ManagerOK(a)
        /\ a.requests = m.requests
        /\ a.recycled_ids = m.recycled_ids
        /\ a.next_id = m.next_id
    <3> HIDE DEF top, a
    <3>1. extra \in 0 .. NumFree(m)
      BY <2>1, <1>3
    <3>2. /\ TopBlocks(m, extra) \in Seq(Block)
          /\ ManagerOK(AllocateBlocks(m, extra))
          /\ AllocateBlocks(m, extra).requests = m.requests
          /\ AllocateBlocks(m, extra).recycled_ids = m.recycled_ids
          /\ AllocateBlocks(m, extra).next_id = m.next_id
      BY <3>1, AllocateBlocksOK
    <3>3. QED BY <3>2 DEF top, a
  <2> HIDE DEF top, a
  <2>4. tbl \in Seq(Block \cup {kInvalidBlock})
    BY <1>2, <2>3
  <2> HIDE DEF tbl
  <2>5. /\ ManagerOK(n)
        /\ n.requests = [m.requests EXCEPT ![id] = [block_table |-> tbl, seq_len |-> @.seq_len]]
        /\ n.free_list = a.free_list
        /\ n.refcount = a.refcount
        /\ n.recycled_ids = m.recycled_ids
        /\ n.next_id = m.next_id
    <3>1. id \in DOMAIN a.requests
      BY <2>3
    <3>2. /\ ManagerOK(WithTable(a, id, tbl))
          /\ WithTable(a, id, tbl).requests =
               [a.requests EXCEPT ![id] = [block_table |-> tbl, seq_len |-> @.seq_len]]
          /\ WithTable(a, id, tbl).free_list = a.free_list
          /\ WithTable(a, id, tbl).refcount = a.refcount
          /\ WithTable(a, id, tbl).recycled_ids = a.recycled_ids
          /\ WithTable(a, id, tbl).next_id = a.next_id
      BY <2>3, <2>4, <3>1, WithTableOK
    <3>3. QED BY <2>2, <2>3, <3>2
  <2>6. tbl = Table(m, id) \o top
    BY DEF tbl
  <2>7. /\ DOMAIN n.requests = DOMAIN m.requests
        /\ \A r \in DOMAIN m.requests :
             /\ Table(n, r) = IF r = id THEN tbl ELSE Table(m, r)
             /\ n.requests[r].seq_len = m.requests[r].seq_len
    BY <1>1, <2>5 DEF Table
  <2>8. QED BY <2>1, <2>5, <2>6, <2>7, Zenon DEF a, top, n, Extended
<1>6. QED BY <1>4, <1>5

\* reference_block to a block in use other than the one replaced.
LEMMA ReferenceBlockOK ==
  ASSUME NEW m, ManagerOK(m), NEW id \in DOMAIN m.requests, NEW idx \in Nat,
         NEW b \in Block, m.refcount[b] > 0, EntryAt(Table(m, id), idx) # b
  PROVE  LET n == ReferenceBlock(m, id, idx, b)
             old == EntryAt(Table(m, id), idx)
         IN  /\ ManagerOK(n)
             /\ DOMAIN n.requests = DOMAIN m.requests
             /\ \A q \in DOMAIN m.requests :
                  /\ Table(n, q) =
                       IF q = id THEN PointedAt(Table(m, id), idx, b) ELSE Table(m, q)
                  /\ n.requests[q].seq_len = m.requests[q].seq_len
             /\ \A c \in Block : n.refcount[c] =
                  IF c = b THEN m.refcount[c] + 1
                  ELSE IF c = old /\ m.refcount[c] > 0 THEN m.refcount[c] - 1
                  ELSE m.refcount[c]
             /\ n.recycled_ids = m.recycled_ids
             /\ n.next_id = m.next_id
<1> DEFINE T == Table(m, id)
           old == EntryAt(T, idx)
           r == ReleaseBlock(m, old)
           t == RetainBlock(r, b)
           tbl == PointedAt(T, idx, b)
           n == ReferenceBlock(m, id, idx, b)
<1>1. /\ m.requests \in [DOMAIN m.requests -> RequestBlocks]
      /\ m.refcount \in [Block -> Nat]
      /\ ManagerTypeOK(m)
  BY DEF ManagerOK, ManagerTypeOK
<1>2. T \in Seq(Block \cup {kInvalidBlock}) /\ Len(T) \in Nat
  BY <1>1 DEF Table, RequestBlocks
<1>3. ManagerOK(r)
  BY ReleaseBlockOK
<1>4. /\ \A c \in Block : r.refcount[c] =
           IF c = old /\ m.refcount[c] > 0 THEN m.refcount[c] - 1 ELSE m.refcount[c]
      /\ r.requests = m.requests
      /\ r.recycled_ids = m.recycled_ids
      /\ r.next_id = m.next_id
  <2>1. CASE old \notin Block \/ m.refcount[old] <= 0
    <3>1. r = m
      BY <2>1 DEF ReleaseBlock
    <3> HIDE DEF r, old
    <3>2. \A c \in Block : ~ (c = old /\ m.refcount[c] > 0)
      BY <1>1, <2>1
    <3>3. QED BY <3>1, <3>2
  <2>2. CASE old \in Block /\ ~ (m.refcount[old] <= 0)
    <3> HIDE DEF old
    <3>1. m.refcount[old] > 0
      BY <1>1, <2>2
    <3>2. /\ r.refcount = [m.refcount EXCEPT ![old] = @ - 1]
          /\ r.requests = m.requests
          /\ r.recycled_ids = m.recycled_ids
          /\ r.next_id = m.next_id
      BY <1>1, <2>2, <3>1, ReleaseBlockFields
    <3> HIDE DEF r
    <3>3. QED BY <1>1, <3>1, <3>2
  <2>3. QED BY <2>1, <2>2
<1>4a. old # b
  OBVIOUS
<1> HIDE DEF old
<1> HIDE DEF r
<1>5. r.refcount[b] > 0
  BY <1>4, <1>4a
<1>6. /\ ManagerOK(t)
      /\ t.refcount = [r.refcount EXCEPT ![b] = @ + 1]
      /\ t.requests = r.requests
      /\ t.recycled_ids = r.recycled_ids
      /\ t.next_id = r.next_id
  BY <1>3, <1>5, RetainBlockOK
<1>7. tbl \in Seq(Block \cup {kInvalidBlock})
  <2> DEFINE L == IF idx < Len(T) THEN Len(T) ELSE idx + 1
  <2>1. L \in Nat
    BY <1>2
  <2>2. tbl \in [1 .. L -> Block \cup {kInvalidBlock}]
    BY <1>2 DEF PointedAt
  <2>3. QED BY <2>1, <2>2
<1>8. n = WithTable(t, id, tbl)
  BY DEF ReferenceBlock, r, old
<1> HIDE DEF t, tbl, n
<1>9. /\ ManagerOK(n)
      /\ n.requests = [t.requests EXCEPT ![id] = [block_table |-> tbl, seq_len |-> @.seq_len]]
      /\ n.refcount = t.refcount
      /\ n.recycled_ids = t.recycled_ids
      /\ n.next_id = t.next_id
  <2>1. id \in DOMAIN t.requests
    BY <1>4, <1>6
  <2>2. /\ ManagerOK(WithTable(t, id, tbl))
        /\ WithTable(t, id, tbl).requests =
             [t.requests EXCEPT ![id] = [block_table |-> tbl, seq_len |-> @.seq_len]]
        /\ WithTable(t, id, tbl).refcount = t.refcount
        /\ WithTable(t, id, tbl).recycled_ids = t.recycled_ids
        /\ WithTable(t, id, tbl).next_id = t.next_id
    <3>1. ManagerOK(t)
      BY <1>6
    <3>2. \A tb \in Seq(Block \cup {kInvalidBlock}) :
            /\ ManagerOK(WithTable(t, id, tb))
            /\ WithTable(t, id, tb).requests =
                 [t.requests EXCEPT ![id] = [block_table |-> tb, seq_len |-> @.seq_len]]
            /\ WithTable(t, id, tb).refcount = t.refcount
            /\ WithTable(t, id, tb).recycled_ids = t.recycled_ids
            /\ WithTable(t, id, tb).next_id = t.next_id
      BY <3>1, <2>1, WithTableOK
    <3>3. QED BY <3>2, <1>7
  <2>3. QED BY <1>8, <2>2
<1>10. \A c \in Block : n.refcount[c] =
         IF c = b THEN m.refcount[c] + 1
         ELSE IF c = old /\ m.refcount[c] > 0 THEN m.refcount[c] - 1
         ELSE m.refcount[c]
  <2>1. r.refcount \in [Block -> Nat]
    BY <1>3 DEF ManagerOK, ManagerTypeOK
  <2>2. n.refcount = [r.refcount EXCEPT ![b] = @ + 1]
    BY <1>6, <1>9
  <2>3. QED BY <1>4, <1>4a, <2>1, <2>2
<1>11. /\ DOMAIN n.requests = DOMAIN m.requests
       /\ \A q \in DOMAIN m.requests :
            /\ Table(n, q) = IF q = id THEN tbl ELSE Table(m, q)
            /\ n.requests[q].seq_len = m.requests[q].seq_len
  <2>1. n.requests = [m.requests EXCEPT ![id] = [block_table |-> tbl, seq_len |-> @.seq_len]]
    BY <1>4, <1>6, <1>9
  <2>2. QED BY <1>1, <2>1 DEF Table
<1>12. n.recycled_ids = m.recycled_ids /\ n.next_id = m.next_id
  BY <1>4, <1>6, <1>9
<1>13. QED BY <1>9, <1>10, <1>11, <1>12, Zenon DEF n, tbl, old

---------------------------------------------------------------------------
(***************************************************************************)
(* Accounting.  out[b] is the number of references on b owned by anybody   *)
(* but a request.                                                          *)
(***************************************************************************)

Accounted(m, out) ==
  \A b \in Block :
    /\ IsFiniteSet(Slots(m.requests, b))
    /\ m.refcount[b] = out[b] + Cardinality(Slots(m.requests, b))

\* What is in a set of slots.
LEMMA SlotsElement ==
  ASSUME NEW rs, NEW b, NEW s
  PROVE  s \in Slots(rs, b) <=>
           \E r \in DOMAIN rs : \E i \in DOMAIN rs[r].block_table :
             s = <<r, i>> /\ rs[r].block_table[i] = b
<1>1. ASSUME s \in Slots(rs, b)
      PROVE  \E r \in DOMAIN rs : \E i \in DOMAIN rs[r].block_table :
               s = <<r, i>> /\ rs[r].block_table[i] = b
  <2>1. PICK r \in DOMAIN rs : s \in {r} \X DOMAIN rs[r].block_table
    BY <1>1 DEF Slots
  <2>2. s = <<r, s[2]>> /\ s[2] \in DOMAIN rs[r].block_table /\ s[1] = r
    BY <2>1
  <2>3. rs[s[1]].block_table[s[2]] = b
    BY <1>1 DEF Slots
  <2>4. QED BY <2>2, <2>3
<1>2. ASSUME NEW r \in DOMAIN rs, NEW i \in DOMAIN rs[r].block_table,
             s = <<r, i>>, rs[r].block_table[i] = b
      PROVE  s \in Slots(rs, b)
  <2>1. s \in {r} \X DOMAIN rs[r].block_table /\ s[1] = r /\ s[2] = i
    BY <1>2
  <2>2. QED BY <1>2, <2>1 DEF Slots
<1>3. QED BY <1>1, <1>2

\* Tables that agree have the same slots.
LEMMA SlotsSame ==
  ASSUME NEW rs, NEW qs, DOMAIN qs = DOMAIN rs,
         \A r \in DOMAIN rs : qs[r].block_table = rs[r].block_table
  PROVE  \A b : Slots(qs, b) = Slots(rs, b)
<1>1. SUFFICES ASSUME NEW b, NEW s
               PROVE  s \in Slots(qs, b) <=> s \in Slots(rs, b)
  BY DEF Slots
<1>2. QED BY SlotsElement

\* A block that a live table names has a reference.
LEMMA NamedIsCounted ==
  ASSUME NEW m, ManagerTypeOK(m), NEW out \in [Block -> Nat], Accounted(m, out),
         NEW r \in DOMAIN m.requests, NEW i \in DOMAIN Table(m, r),
         Table(m, r)[i] \in Block
  PROVE  m.refcount[Table(m, r)[i]] > 0
<1> DEFINE b == Table(m, r)[i]
           S == Slots(m.requests, b)
<1>1. <<r, i>> \in S
  BY SlotsElement DEF Table
<1>2. IsFiniteSet(S) /\ m.refcount[b] = out[b] + Cardinality(S)
  BY DEF Accounted
<1> HIDE DEF S
<1>3. Cardinality(S) \in Nat /\ Cardinality(S) # 0
  BY <1>1, <1>2, FS_EmptySet, FS_CardinalityType
<1>4. out[b] \in Nat
  OBVIOUS
<1>5. QED BY <1>2, <1>3, <1>4

\* A block with no references is named by no table and owned by nobody.
LEMMA UncountedIsUnnamed ==
  ASSUME NEW m, ManagerTypeOK(m), NEW out \in [Block -> Nat], Accounted(m, out),
         NEW b \in Block, m.refcount[b] = 0
  PROVE  out[b] = 0 /\ Slots(m.requests, b) = {}
<1> DEFINE S == Slots(m.requests, b)
<1>1. IsFiniteSet(S) /\ m.refcount[b] = out[b] + Cardinality(S)
  BY DEF Accounted
<1> HIDE DEF S
<1>2. Cardinality(S) \in Nat /\ out[b] \in Nat
  BY <1>1, FS_CardinalityType
<1>3. out[b] = 0 /\ Cardinality(S) = 0
  BY <1>1, <1>2
<1>4. QED BY <1>1, <1>3, FS_EmptySet DEF S

\* The slots that entries 1 .. k of a table contribute for block b.
Prefix(id, tbl, k, b) == {s \in {id} \X (1 .. k) : tbl[s[2]] = b}

\* They grow by at most one slot with each entry.
LEMMA PrefixGrows ==
  ASSUME NEW id, NEW tbl, NEW b, NEW k \in Nat,
         IsFiniteSet(Prefix(id, tbl, k, b))
  PROVE  /\ IsFiniteSet(Prefix(id, tbl, k + 1, b))
         /\ Cardinality(Prefix(id, tbl, k, b)) \in Nat
         /\ Cardinality(Prefix(id, tbl, k + 1, b)) =
              Cardinality(Prefix(id, tbl, k, b)) + IF tbl[k + 1] = b THEN 1 ELSE 0
<1> DEFINE P == Prefix(id, tbl, k, b)
           Q == Prefix(id, tbl, k + 1, b)
           x == <<id, k + 1>>
<1>1. x \notin P
  BY DEF Prefix
<1>2. Q = IF tbl[k + 1] = b THEN P \cup {x} ELSE P
  <2>1. \A s : s \in {id} \X (1 .. k + 1) <=> s \in {id} \X (1 .. k) \/ s = x
    <3>1. 1 .. k + 1 = 1 .. k \cup {k + 1}
      OBVIOUS
    <3>2. QED BY <3>1
  <2>2. x[2] = k + 1
    OBVIOUS
  <2>3. QED BY <2>1, <2>2 DEF Prefix
<1> HIDE DEF P, Q, x
<1>3. Cardinality(P) \in Nat
  BY FS_CardinalityType DEF P
<1>4. IsFiniteSet(P \cup {x}) /\ Cardinality(P \cup {x}) = Cardinality(P) + 1
  BY <1>1, FS_AddElement DEF P
<1>5. QED BY <1>2, <1>3, <1>4 DEF P, Q

\* They are finitely many.
LEMMA PrefixFinite ==
  ASSUME NEW id, NEW tbl, NEW b
  PROVE  \A k \in Nat : IsFiniteSet(Prefix(id, tbl, k, b))
<1> DEFINE S == {k \in Nat : IsFiniteSet(Prefix(id, tbl, k, b))}
<1>1. 0 \in S
  <2>1. Prefix(id, tbl, 0, b) = {}
    BY DEF Prefix
  <2>2. QED BY <2>1, FS_EmptySet
<1>2. \A k \in Nat : k \in S => k + 1 \in S
  BY PrefixGrows
<1> HIDE DEF S
<1>3. \A k \in Nat : k \in S
  BY <1>1, <1>2, SetInduction
<1>4. QED BY <1>3 DEF S

\* Releasing a table whose every entry is counted takes one reference from a
\* block for each entry that names it.
LEMMA ReleasingCounts ==
  ASSUME NEW m, ManagerOK(m), NEW id, NEW tbl \in Seq(Block \cup {kInvalidBlock}),
         \A b \in Block : Cardinality(Prefix(id, tbl, Len(tbl), b)) <= m.refcount[b]
  PROVE  \A b \in Block :
           Releasing(m, tbl)[Len(tbl)].refcount[b] =
             m.refcount[b] - Cardinality(Prefix(id, tbl, Len(tbl), b))
<1> DEFINE R == Releasing(m, tbl)
           C(k, b) == Cardinality(Prefix(id, tbl, k, b))
           Right(k) == \A b \in Block : R[k].refcount[b] = m.refcount[b] - C(k, b)
           S == {k \in Nat : k <= Len(tbl) => Right(k)}
<1>1. Len(tbl) \in Nat /\ \A i \in 1 .. Len(tbl) : tbl[i] \in Block \cup {kInvalidBlock}
  OBVIOUS
<1>2. R[0] = m /\ \A i \in 1 .. Len(tbl) : R[i] = ReleaseBlock(R[i - 1], tbl[i])
  BY <1>1, ReleasingUnfolds
<1>3. \A i \in 0 .. Len(tbl) : ManagerOK(R[i])
  BY <1>1, ReleasingOK
<1>4. \A k \in Nat, b \in Block : C(k, b) \in Nat
  BY PrefixFinite, FS_CardinalityType
<1>5. \A k \in Nat, b \in Block : C(k + 1, b) = C(k, b) + IF tbl[k + 1] = b THEN 1 ELSE 0
  <2>1. SUFFICES ASSUME NEW k \in Nat, NEW b \in Block
                 PROVE  C(k + 1, b) = C(k, b) + IF tbl[k + 1] = b THEN 1 ELSE 0
    OBVIOUS
  <2>2. IsFiniteSet(Prefix(id, tbl, k, b))
    BY PrefixFinite
  <2>3. Cardinality(Prefix(id, tbl, k + 1, b)) =
          Cardinality(Prefix(id, tbl, k, b)) + IF tbl[k + 1] = b THEN 1 ELSE 0
    BY <2>2, PrefixGrows
  <2>4. QED BY ONLY <2>3 DEF C
<1>6. \A k \in Nat, b \in Block : k <= Len(tbl) => C(k, b) <= m.refcount[b]
  <2>1. SUFFICES ASSUME NEW k \in Nat, NEW b \in Block, k <= Len(tbl)
                 PROVE  C(k, b) <= C(Len(tbl), b)
    <3>1. \A a \in Block : C(Len(tbl), a) <= m.refcount[a] /\ m.refcount[a] \in Nat
      BY DEF ManagerOK, ManagerTypeOK
    <3> HIDE DEF C
    <3>2. QED BY <1>1, <1>4, <3>1
  <2>2. 1 .. k \subseteq 1 .. Len(tbl)
    BY <1>1, <2>1
  <2>3. Prefix(id, tbl, k, b) \subseteq Prefix(id, tbl, Len(tbl), b)
    BY <2>2 DEF Prefix
  <2>4. QED BY <1>1, <2>3, PrefixFinite, FS_Subset
<1> HIDE DEF R, C
<1>7. 0 \in S
  <2>1. \A b \in Block : C(0, b) = 0
    <3>1. \A b \in Block : Prefix(id, tbl, 0, b) = {}
      BY DEF Prefix
    <3>2. QED BY <3>1, FS_EmptySet DEF C
  <2>2. \A b \in Block : m.refcount[b] \in Nat
    BY DEF ManagerOK, ManagerTypeOK
  <2>3. QED BY <1>2, <2>1, <2>2
<1>8. \A k \in Nat : k \in S => k + 1 \in S
  <2> HIDE DEF Right
  <2>0. SUFFICES ASSUME NEW k \in Nat, k + 1 <= Len(tbl), Right(k) PROVE Right(k + 1)
    BY <1>1
  <2> USE DEF Right
  <2>1. SUFFICES ASSUME NEW b \in Block
                 PROVE  R[k + 1].refcount[b] = m.refcount[b] - C(k + 1, b)
    OBVIOUS
  <2>2. /\ R[k + 1] = ReleaseBlock(R[k], tbl[k + 1])
        /\ ManagerOK(R[k])
    <3>1. k + 1 \in 1 .. Len(tbl) /\ (k + 1) - 1 = k /\ k \in 0 .. Len(tbl)
      BY <1>1, <2>0
    <3>2. QED BY <3>1, <1>2, <1>3
  <2> DEFINE c == tbl[k + 1]
  <2>3. m.refcount[b] \in Nat /\ C(k, b) \in Nat /\ C(k + 1, b) \in Nat
    <3>1. k + 1 \in Nat /\ m.refcount \in [Block -> Nat]
      BY DEF ManagerOK, ManagerTypeOK
    <3>2. QED BY <1>4, <3>1
  <2>4. CASE c \notin Block
    <3>1. R[k + 1] = R[k]
      BY <2>2, <2>4 DEF ReleaseBlock
    <3>2. C(k + 1, b) = C(k, b)
      <4>1. C(k + 1, b) = C(k, b) + IF c = b THEN 1 ELSE 0
        BY <1>5
      <4>2. c # b
        BY <2>4
      <4> HIDE DEF c
      <4>3. QED BY <4>1, <4>2, <2>3
    <3>3. QED BY <2>0, <3>1, <3>2
  <2>5. CASE c \in Block
    <3>1. R[k].refcount[c] > 0
      <4>0. k + 1 \in Nat /\ k + 1 <= Len(tbl)
        BY <2>0
      <4>5. C(k + 1, c) = C(k, c) + IF tbl[k + 1] = c THEN 1 ELSE 0
        BY <1>5, <2>5
      <4>1. C(k + 1, c) = C(k, c) + 1 /\ C(k + 1, c) <= m.refcount[c]
        BY <1>6, <2>5, <4>0, <4>5
      <4>2. C(k, c) \in Nat /\ m.refcount[c] \in Nat
        BY <1>4, <2>5 DEF ManagerOK, ManagerTypeOK
      <4>3. R[k].refcount[c] = m.refcount[c] - C(k, c)
        BY <2>0, <2>5
      <4>4. QED BY <4>1, <4>2, <4>3
    <3>2. R[k + 1].refcount = [R[k].refcount EXCEPT ![c] = @ - 1]
      <4> HIDE DEF c
      <4>1. ManagerTypeOK(R[k])
        BY <2>2 DEF ManagerOK
      <4>2. ReleaseBlock(R[k], c).refcount = [R[k].refcount EXCEPT ![c] = @ - 1]
        BY <4>1, <2>5, <3>1, ReleaseBlockFields
      <4>3. QED BY <2>2, <4>2 DEF c
    <3>3. R[k].refcount \in [Block -> Nat]
      BY <2>2 DEF ManagerOK, ManagerTypeOK
    <3>4. R[k].refcount[b] = m.refcount[b] - C(k, b)
      BY <2>0
    <3>5. C(k + 1, b) = C(k, b) + IF c = b THEN 1 ELSE 0
      BY <1>5
    <3> HIDE DEF c
    <3>6. R[k + 1].refcount[b] = R[k].refcount[b] - IF c = b THEN 1 ELSE 0
      <4>1. R[k].refcount[b] \in Nat
        BY <3>3
      <4>2. CASE c = b
        BY <2>5, <3>2, <3>3, <4>1, <4>2
      <4>3. CASE c # b
        BY <3>2, <3>3, <4>1, <4>3
      <4>4. QED BY <4>2, <4>3
    <3>7. QED BY <2>3, <3>4, <3>5, <3>6
  <2>6. QED BY <2>4, <2>5
<1> HIDE DEF S
<1>9. \A k \in Nat : k \in S
  BY <1>7, <1>8, SetInduction
<1>10. QED BY <1>1, <1>9 DEF S, R, C

\* create_request adds no reference.
LEMMA CreateAccounted ==
  ASSUME NEW m, ManagerOK(m), NEW out, Accounted(m, out)
  PROVE  Accounted(CreateRequest(m), out)
<1> DEFINE n == CreateRequest(m)
<1>1. /\ n.refcount = m.refcount
      /\ n.requests = [r \in DOMAIN m.requests \cup {FreshId(m)} |->
                         IF r \in DOMAIN m.requests THEN m.requests[r] ELSE NoBlocks]
  BY CreateRequestOK
<1> HIDE DEF n
<1>2. ASSUME NEW b, NEW s
      PROVE  s \in Slots(n.requests, b) <=> s \in Slots(m.requests, b)
  <2>1. \A i : i \notin DOMAIN NoBlocks.block_table
    BY DEF NoBlocks
  <2>2. \A r \in DOMAIN n.requests :
          \/ r \in DOMAIN m.requests /\ n.requests[r] = m.requests[r]
          \/ n.requests[r] = NoBlocks
    BY <1>1
  <2>3. DOMAIN m.requests \subseteq DOMAIN n.requests
        /\ \A r \in DOMAIN m.requests : n.requests[r] = m.requests[r]
    BY <1>1
  <2>4. QED BY <2>1, <2>2, <2>3, SlotsElement
<1>3. \A b : Slots(n.requests, b) = Slots(m.requests, b)
  BY <1>2
<1>4. QED BY <1>1, <1>3 DEF Accounted, n

\* set_seq_len changes no table.
LEMMA SetSeqLenAccounted ==
  ASSUME NEW m, ManagerOK(m), NEW out, Accounted(m, out),
         NEW id \in DOMAIN m.requests, NEW len \in Nat
  PROVE  Accounted(SetSeqLen(m, id, len), out)
<1> DEFINE n == SetSeqLen(m, id, len)
<1>1. /\ n.refcount = m.refcount
      /\ n.requests = [m.requests EXCEPT ![id] =
                         [block_table |-> @.block_table, seq_len |-> len]]
  BY SetSeqLenOK
<1> HIDE DEF n
<1>2. m.requests \in [DOMAIN m.requests -> RequestBlocks]
  BY DEF ManagerOK, ManagerTypeOK
<1>3. DOMAIN n.requests = DOMAIN m.requests
      /\ \A r \in DOMAIN m.requests : n.requests[r].block_table = m.requests[r].block_table
  BY <1>1, <1>2
<1>4. \A b : Slots(n.requests, b) = Slots(m.requests, b)
  BY <1>3, SlotsSame
<1>5. QED BY <1>1, <1>4 DEF Accounted, n

\* The slots of a table that has been released are the ones it contributed.
LEMMA ReleaseRequestAccounted ==
  ASSUME NEW m, ManagerOK(m), NEW out \in [Block -> Nat], Accounted(m, out),
         NEW id \in DOMAIN m.requests
  PROVE  Accounted(ReleaseRequest(m, id), out)
<1> DEFINE n == ReleaseRequest(m, id)
           tbl == Table(m, id)
           done == Releasing(m, tbl)[Len(tbl)]
           rs == [r \in DOMAIN m.requests \ {id} |-> m.requests[r]]
<1>1. n.refcount = done.refcount /\ n.requests = rs
  BY ReleaseRequestOK
<1>2. m.requests \in [DOMAIN m.requests -> RequestBlocks] /\ m.refcount \in [Block -> Nat]
  BY DEF ManagerOK, ManagerTypeOK
<1>3. tbl \in Seq(Block \cup {kInvalidBlock}) /\ Len(tbl) \in Nat /\ DOMAIN tbl = 1 .. Len(tbl)
  BY <1>2 DEF Table, RequestBlocks
<1>4. tbl = m.requests[id].block_table
  BY DEF Table
<1> HIDE DEF n, tbl, done
<1>5. ASSUME NEW b \in Block
      PROVE  /\ IsFiniteSet(Slots(rs, b))
             /\ Cardinality(Slots(rs, b)) \in Nat
             /\ Cardinality(Prefix(id, tbl, Len(tbl), b)) \in Nat
             /\ Cardinality(Slots(m.requests, b)) =
                  Cardinality(Slots(rs, b)) + Cardinality(Prefix(id, tbl, Len(tbl), b))
  <2> DEFINE S == Slots(m.requests, b)
             P == Prefix(id, tbl, Len(tbl), b)
  <2>1. ASSUME NEW s PROVE s \in P <=> \E i \in DOMAIN tbl : s = <<id, i>> /\ tbl[i] = b
    <3>1. s \in P <=> s \in {id} \X DOMAIN tbl /\ tbl[s[2]] = b
      BY <1>3 DEF Prefix
    <3>2. s \in {id} \X DOMAIN tbl <=> \E i \in DOMAIN tbl : s = <<id, i>>
      OBVIOUS
    <3>3. QED BY <3>1, <3>2
  <2>2. P \subseteq S
    BY <2>1, <1>4, SlotsElement
  <2>3. ASSUME NEW s PROVE s \in Slots(rs, b) <=> s \in S \ P
    <3>1. DOMAIN rs = DOMAIN m.requests \ {id} /\ \A r \in DOMAIN rs : rs[r] = m.requests[r]
      OBVIOUS
    <3> HIDE DEF rs, S, P
    <3>2. s \in Slots(rs, b) <=>
            \E r \in DOMAIN rs : \E i \in DOMAIN m.requests[r].block_table :
              s = <<r, i>> /\ m.requests[r].block_table[i] = b
      BY <3>1, SlotsElement
    <3>3. s \in S <=>
            \E r \in DOMAIN m.requests : \E i \in DOMAIN m.requests[r].block_table :
              s = <<r, i>> /\ m.requests[r].block_table[i] = b
      BY SlotsElement DEF S
    <3>4. QED BY <3>1, <3>2, <3>3, <2>1, <1>4
  <2>4. IsFiniteSet(S)
    BY DEF Accounted
  <2>5. IsFiniteSet(P)
    BY <1>3, PrefixFinite
  <2>6. Slots(rs, b) = S \ P
    BY <2>3 DEF Slots
  <2> HIDE DEF S, P
  <2>7. IsFiniteSet(S \ P) /\ Cardinality(S \ P) = Cardinality(S) - Cardinality(S \cap P)
    BY <2>4, FS_Difference
  <2>8. S \cap P = P
    BY <2>2
  <2>9. Cardinality(S) \in Nat /\ Cardinality(P) \in Nat /\ Cardinality(S \ P) \in Nat
    BY <2>4, <2>5, <2>7, FS_CardinalityType
  <2>10. Cardinality(S) = Cardinality(S \ P) + Cardinality(P)
    <3>1. Cardinality(S \cap P) = Cardinality(P)
      BY <2>8
    <3>2. \A x, y, z \in Nat : x = y - z => y = x + z
      OBVIOUS
    <3>3. Cardinality(S \ P) = Cardinality(S) - Cardinality(P)
      BY <2>7, <3>1, Zenon
    <3>4. QED BY <2>9, <3>2, <3>3, Zenon
  <2> HIDE DEF rs
  <2>11. QED BY <2>6, <2>7, <2>9, <2>10 DEF S, P
<1>6. \A b \in Block : Cardinality(Prefix(id, tbl, Len(tbl), b)) <= m.refcount[b]
  <2>1. SUFFICES ASSUME NEW b \in Block
                 PROVE  Cardinality(Prefix(id, tbl, Len(tbl), b)) <= m.refcount[b]
    OBVIOUS
  <2>2. m.refcount[b] = out[b] + Cardinality(Slots(m.requests, b)) /\ out[b] \in Nat
    BY DEF Accounted
  <2> HIDE DEF rs
  <2>3. QED BY <1>5, <2>2
<1>7. \A b \in Block : done.refcount[b] =
                         m.refcount[b] - Cardinality(Prefix(id, tbl, Len(tbl), b))
  BY <1>3, <1>6, ReleasingCounts DEF done
<1>8. ASSUME NEW b \in Block
      PROVE  /\ IsFiniteSet(Slots(n.requests, b))
             /\ n.refcount[b] = out[b] + Cardinality(Slots(n.requests, b))
  <2>1. m.refcount[b] = out[b] + Cardinality(Slots(m.requests, b)) /\ out[b] \in Nat
    BY DEF Accounted
  <2>2. done.refcount[b] = m.refcount[b] - Cardinality(Prefix(id, tbl, Len(tbl), b))
    BY <1>7
  <2> HIDE DEF rs
  <2>3. /\ IsFiniteSet(Slots(rs, b))
        /\ done.refcount[b] = out[b] + Cardinality(Slots(rs, b))
    BY <1>5, <2>1, <2>2
  <2>4. QED BY <1>1, <2>3
<1>9. QED BY <1>8 DEF Accounted, n

\* What the concatenation of two tables holds.
LEMMA Concatenation ==
  ASSUME NEW S, NEW t \in Seq(S), NEW u \in Seq(S)
  PROVE  /\ DOMAIN (t \o u) = 1 .. Len(t) + Len(u)
         /\ \A i \in 1 .. Len(t) : (t \o u)[i] = t[i]
         /\ \A i \in 1 .. Len(u) : (t \o u)[Len(t) + i] = u[i]
<1>1. Len(t) \in Nat /\ Len(u) \in Nat
  OBVIOUS
<1>2. QED BY <1>1

\* Blocks taken fresh had no slots.  ensure_capacity gives each of them one.
LEMMA EnsureCapacityAccounted ==
  ASSUME NEW m, ManagerOK(m), NEW out \in [Block -> Nat], Accounted(m, out),
         NEW id \in DOMAIN m.requests, NEW len \in Nat
  PROVE  Accounted(EnsureCapacity(m, id, len), out)
<1> DEFINE n == EnsureCapacity(m, id, len)
           extra == BlocksFor(len) - Len(Table(m, id))
           top == TopBlocks(m, extra)
           tbl == m.requests[id].block_table
           L == Len(tbl)
<1>1. CASE n = m
  BY <1>1
<1>2. CASE n # m
  <2>1. /\ extra \in 1 .. NumFree(m)
        /\ DOMAIN n.requests = DOMAIN m.requests
        /\ \A r \in DOMAIN m.requests :
             Table(n, r) = IF r = id THEN Table(m, id) \o top ELSE Table(m, r)
        /\ n.refcount = AllocateBlocks(m, extra).refcount
    <3> HIDE DEF extra
    <3>1. extra = BlocksFor(len) - Len(Table(m, id))
      BY DEF extra
    <3>2. EnsureCapacity(m, id, len) # m
      BY <1>2
    <3>3. \/ EnsureCapacity(m, id, len) = m
          \/ Extended(m, EnsureCapacity(m, id, len), id, extra)
      BY <3>1, EnsureCapacityOK
    <3>4. DOMAIN EnsureCapacity(m, id, len).requests = DOMAIN m.requests
      BY <3>1, EnsureCapacityOK
    <3>5. QED BY <3>2, <3>3, <3>4 DEF Extended
  <2> HIDE DEF n, extra
  <2>2. /\ top \in Seq(Block) /\ Len(top) = extra /\ IsInjective(top)
        /\ \A i \in 1 .. extra : m.refcount[top[i]] = 0
        /\ n.refcount = [b \in Block |-> IF b \in ToSet(top) THEN 1 ELSE m.refcount[b]]
    <3>1. extra \in 0 .. NumFree(m)
      BY <2>1
    <3>2. QED BY <2>1, <3>1, AllocateBlocksOK
  <2>3. /\ m.requests \in [DOMAIN m.requests -> RequestBlocks]
        /\ m.refcount \in [Block -> Nat]
        /\ ManagerTypeOK(m)
    BY DEF ManagerOK, ManagerTypeOK
  <2>4. /\ tbl \in Seq(Block \cup {kInvalidBlock})
        /\ L \in Nat /\ DOMAIN tbl = 1 .. L
        /\ extra \in Nat /\ DOMAIN top = 1 .. extra
        /\ tbl = m.requests[id].block_table
    <3>1. tbl \in Seq(Block \cup {kInvalidBlock})
      BY <2>3 DEF RequestBlocks
    <3>2. extra \in Nat
      BY <2>1
    <3> HIDE DEF tbl, top
    <3>3. DOMAIN top = 1 .. extra
      BY <2>2
    <3>4. QED BY <3>1, <3>2, <3>3 DEF tbl
  <2> HIDE DEF top
  <2>5. /\ DOMAIN n.requests = DOMAIN m.requests
        /\ \A r \in DOMAIN m.requests :
             n.requests[r].block_table =
               IF r = id THEN tbl \o top ELSE m.requests[r].block_table
    BY <2>1 DEF Table
  <2> HIDE DEF tbl
  <2>6. /\ DOMAIN (tbl \o top) = 1 .. L + extra
        /\ \A i \in 1 .. L : (tbl \o top)[i] = tbl[i]
        /\ \A i \in 1 .. extra : (tbl \o top)[L + i] = top[i]
    <3>1. tbl \in Seq(Block \cup {kInvalidBlock}) /\ top \in Seq(Block \cup {kInvalidBlock})
      BY <2>2, <2>4
    <3>2. Len(tbl) = L /\ Len(top) = extra
      BY <2>2
    <3> HIDE DEF L
    <3>3. /\ DOMAIN (tbl \o top) = 1 .. Len(tbl) + Len(top)
          /\ \A i \in 1 .. Len(tbl) : (tbl \o top)[i] = tbl[i]
          /\ \A i \in 1 .. Len(top) : (tbl \o top)[Len(tbl) + i] = top[i]
      BY <3>1, Concatenation
    <3>4. QED BY <3>2, <3>3
  <2> HIDE DEF L
  <2>7. ASSUME NEW b, NEW s
        PROVE  s \in Slots(n.requests, b) <=>
                 \/ s \in Slots(m.requests, b)
                 \/ \E i \in 1 .. extra : s = <<id, L + i>> /\ top[i] = b
    <3>1. ASSUME NEW r \in DOMAIN n.requests, NEW i \in DOMAIN n.requests[r].block_table,
                 s = <<r, i>>, n.requests[r].block_table[i] = b
          PROVE  \/ s \in Slots(m.requests, b)
                 \/ \E j \in 1 .. extra : s = <<id, L + j>> /\ top[j] = b
      <4>1. CASE r # id
        <5>1. r \in DOMAIN m.requests
              /\ n.requests[r].block_table = m.requests[r].block_table
          BY <2>5, <4>1
        <5>2. QED BY <3>1, <5>1, SlotsElement
      <4>2. CASE r = id /\ i \in 1 .. L
        <5>1. i \in DOMAIN m.requests[id].block_table /\ m.requests[id].block_table[i] = b
          BY <2>4, <2>5, <2>6, <3>1, <4>2
        <5>2. QED BY <3>1, <4>2, <5>1, SlotsElement
      <4>3. CASE r = id /\ i \notin 1 .. L
        <5>1. i \in 1 .. L + extra
          BY <2>5, <2>6, <4>3
        <5>2. i - L \in 1 .. extra /\ L + (i - L) = i
          BY <2>4, <4>3, <5>1
        <5>3. top[i - L] = b
          BY <2>5, <2>6, <3>1, <4>3, <5>2
        <5>4. QED BY <3>1, <4>3, <5>2, <5>3
      <4>4. QED BY <4>1, <4>2, <4>3
    <3>2. ASSUME NEW r \in DOMAIN m.requests, NEW i \in DOMAIN m.requests[r].block_table,
                 s = <<r, i>>, m.requests[r].block_table[i] = b
          PROVE  s \in Slots(n.requests, b)
      <4>1. i \in DOMAIN n.requests[r].block_table /\ n.requests[r].block_table[i] = b
        <5>1. CASE r # id
          BY <2>5, <3>2, <5>1
        <5>2. CASE r = id
          <6>1. i \in 1 .. L /\ i \in 1 .. L + extra
            BY <2>1, <2>4, <5>2
          <6>2. n.requests[id].block_table = tbl \o top
            BY <2>5
          <6>3. tbl[i] = b
            BY <2>4, <3>2, <5>2
          <6>4. QED BY <2>6, <5>2, <6>1, <6>2, <6>3
        <5>3. QED BY <5>1, <5>2
      <4>2. QED BY <2>5, <3>2, <4>1, SlotsElement
    <3>3. ASSUME NEW i \in 1 .. extra, s = <<id, L + i>>, top[i] = b
          PROVE  s \in Slots(n.requests, b)
      <4>1. L + i \in 1 .. L + extra
        BY <2>1, <2>4
      <4>2. L + i \in DOMAIN n.requests[id].block_table
            /\ n.requests[id].block_table[L + i] = b
        BY <2>5, <2>6, <3>3, <4>1
      <4>3. QED BY <2>5, <3>3, <4>2, SlotsElement
    <3>4. s \in Slots(n.requests, b) =>
            \/ s \in Slots(m.requests, b)
            \/ \E j \in 1 .. extra : s = <<id, L + j>> /\ top[j] = b
      BY <3>1, SlotsElement
    <3>5. s \in Slots(m.requests, b) => s \in Slots(n.requests, b)
      BY <3>2, SlotsElement
    <3>6. QED BY <3>3, <3>4, <3>5
  <2> DEFINE N(b) == Slots(n.requests, b)
             M(b) == Slots(m.requests, b)
  <2>8. ASSUME NEW b \in Block
        PROVE  IsFiniteSet(N(b)) /\ n.refcount[b] = out[b] + Cardinality(N(b))
    <3>1. IsFiniteSet(M(b)) /\ m.refcount[b] = out[b] + Cardinality(M(b))
      BY DEF Accounted
    <3>2. CASE b \notin ToSet(top)
      <4>1. \A i \in 1 .. extra : top[i] # b
        BY <2>4, <3>2 DEF ToSet
      <4>2. N(b) = M(b)
        BY <2>7, <4>1
      <4>3. QED BY <2>2, <3>1, <3>2, <4>2
    <3>3. CASE b \in ToSet(top)
      <4>1. PICK k \in 1 .. extra : top[k] = b
        BY <2>4, <3>3 DEF ToSet
      <4>2. \A i \in 1 .. extra : top[i] = b => i = k
        BY <2>2, <2>4, <4>1 DEF IsInjective
      <4>3. m.refcount[b] = 0
        BY <2>2, <4>1
      <4>4. out[b] = 0 /\ M(b) = {}
        BY <2>3, <4>3, UncountedIsUnnamed
      <4>5. N(b) = {<<id, L + k>>}
        BY <2>7, <4>1, <4>2, <4>4
      <4> HIDE DEF N
      <4>6. IsFiniteSet(N(b)) /\ Cardinality(N(b)) = 1
        BY <4>5, FS_Singleton
      <4>7. n.refcount[b] = 1
        BY <2>2, <3>3
      <4>8. QED BY <4>4, <4>6, <4>7
    <3>4. QED BY <3>2, <3>3
  <2>9. QED BY <2>8 DEF Accounted, n
<1>3. QED BY <1>1, <1>2

\* reference_block moves one entry's reference from the block it named to b.
LEMMA ReferenceBlockAccounted ==
  ASSUME NEW m, ManagerOK(m), NEW out \in [Block -> Nat], Accounted(m, out),
         NEW id \in DOMAIN m.requests, NEW idx \in Nat,
         NEW b \in Block, m.refcount[b] > 0, EntryAt(Table(m, id), idx) # b
  PROVE  Accounted(ReferenceBlock(m, id, idx, b), out)
<1> DEFINE n == ReferenceBlock(m, id, idx, b)
           T == Table(m, id)
           old == EntryAt(T, idx)
           tbl == PointedAt(T, idx, b)
           x == <<id, idx + 1>>
<1>1. /\ DOMAIN n.requests = DOMAIN m.requests
      /\ \A q \in DOMAIN m.requests : Table(n, q) = IF q = id THEN tbl ELSE Table(m, q)
      /\ \A c \in Block : n.refcount[c] =
           IF c = b THEN m.refcount[c] + 1
           ELSE IF c = old /\ m.refcount[c] > 0 THEN m.refcount[c] - 1
           ELSE m.refcount[c]
  BY ReferenceBlockOK
<1>2. /\ m.requests \in [DOMAIN m.requests -> RequestBlocks]
      /\ m.refcount \in [Block -> Nat]
      /\ ManagerTypeOK(m)
  BY DEF ManagerOK, ManagerTypeOK
<1>3. T \in Seq(Block \cup {kInvalidBlock}) /\ Len(T) \in Nat /\ DOMAIN T = 1 .. Len(T)
  BY <1>2 DEF Table, RequestBlocks
<1>4. old = IF idx < Len(T) THEN T[idx + 1] ELSE kInvalidBlock
  BY DEF EntryAt
<1>5. /\ idx + 1 \in DOMAIN tbl /\ tbl[idx + 1] = b
      /\ DOMAIN T \subseteq DOMAIN tbl
      /\ \A i \in DOMAIN T : i # idx + 1 => tbl[i] = T[i]
      /\ \A i \in DOMAIN tbl : i \notin DOMAIN T /\ i # idx + 1 => tbl[i] = kInvalidBlock
  BY <1>3 DEF PointedAt
<1>6. old # b
  OBVIOUS
<1> HIDE DEF n, tbl, old
<1>7. ASSUME NEW c \in Block, NEW s
      PROVE  s \in Slots(n.requests, c) <=>
               \/ s # x /\ s \in Slots(m.requests, c)
               \/ s = x /\ c = b
  <2>1. s \in Slots(n.requests, c) <=>
          \E q \in DOMAIN m.requests : \E i \in DOMAIN Table(n, q) :
            s = <<q, i>> /\ Table(n, q)[i] = c
    BY <1>1, SlotsElement DEF Table
  <2>2. s \in Slots(m.requests, c) <=>
          \E q \in DOMAIN m.requests : \E i \in DOMAIN Table(m, q) :
            s = <<q, i>> /\ Table(m, q)[i] = c
    BY SlotsElement DEF Table
  <2>3. c # kInvalidBlock
    BY LayoutAssumption DEF Block, kInvalidBlock
  <2>4. ASSUME NEW q \in DOMAIN m.requests, NEW i, s = <<q, i>>
        PROVE  i \in DOMAIN Table(n, q) /\ Table(n, q)[i] = c <=>
                 \/ s # x /\ i \in DOMAIN Table(m, q) /\ Table(m, q)[i] = c
                 \/ s = x /\ c = b
    <3>1. CASE q # id
      <4>1. s # x
        BY <2>4, <3>1
      <4>2. Table(n, q) = Table(m, q)
        BY <1>1, <3>1
      <4>3. QED BY <4>1, <4>2
    <3>2. CASE q = id
      <4>1. s = x <=> i = idx + 1
        BY <2>4, <3>2
      <4>2. Table(n, q) = tbl /\ Table(m, q) = T
        BY <1>1, <3>2
      <4> HIDE DEF T, x
      <4>3. QED BY <1>5, <2>3, <4>1, <4>2
    <3>3. QED BY <3>1, <3>2
  <2>5. id \in DOMAIN m.requests /\ x = <<id, idx + 1>>
    OBVIOUS
  <2> HIDE DEF x
  <2>6. QED BY <2>1, <2>2, <2>4, <2>5
<1>8. ASSUME NEW c \in Block
      PROVE  x \in Slots(m.requests, c) <=> c = old
  <2>1. x \in Slots(m.requests, c) <=> idx + 1 \in DOMAIN T /\ T[idx + 1] = c
    BY SlotsElement DEF Table
  <2>2. c # kInvalidBlock
    BY LayoutAssumption DEF Block, kInvalidBlock
  <2> HIDE DEF T
  <2>3. QED BY <1>3, <1>4, <2>1, <2>2
<1> DEFINE N(c) == Slots(n.requests, c)
           M(c) == Slots(m.requests, c)
<1>9. ASSUME NEW c \in Block
      PROVE  IsFiniteSet(N(c)) /\ n.refcount[c] = out[c] + Cardinality(N(c))
  <2>1. IsFiniteSet(M(c)) /\ m.refcount[c] = out[c] + Cardinality(M(c))
    BY DEF Accounted
  <2>2. \A s : s \in N(c) <=> (s # x /\ s \in M(c)) \/ (s = x /\ c = b)
    BY <1>7
  <2>3. x \in M(c) <=> c = old
    BY <1>8
  <2> HIDE DEF N, M, x
  <2>4. Cardinality(M(c)) \in Nat /\ out[c] \in Nat
    BY <2>1, FS_CardinalityType
  <2>5. CASE c = b
    <3>1. x \notin M(c) /\ N(c) = M(c) \cup {x}
      BY <1>6, <2>2, <2>3, <2>5
    <3>2. IsFiniteSet(N(c)) /\ Cardinality(N(c)) = Cardinality(M(c)) + 1
      BY <2>1, <3>1, FS_AddElement
    <3>3. n.refcount[c] = m.refcount[c] + 1
      BY <1>1, <2>5
    <3>4. QED BY <2>1, <2>4, <3>2, <3>3
  <2>6. CASE c # b /\ c = old
    <3>1. x \in M(c) /\ N(c) = M(c) \ {x}
      BY <2>2, <2>3, <2>6
    <3>2. IsFiniteSet(N(c)) /\ Cardinality(N(c)) = Cardinality(M(c)) - 1
      BY <2>1, <3>1, FS_RemoveElement
    <3>3. Cardinality(M(c)) # 0
      BY <2>1, <3>1, FS_EmptySet
    <3>4. n.refcount[c] = m.refcount[c] - 1
      BY <1>1, <2>1, <2>4, <2>6, <3>3
    <3>5. QED BY <2>1, <2>4, <3>2, <3>4
  <2>7. CASE c # b /\ c # old
    <3>1. N(c) = M(c)
      BY <2>2, <2>3, <2>7
    <3>2. n.refcount[c] = m.refcount[c]
      BY <1>1, <2>7
    <3>3. QED BY <2>1, <3>1, <3>2
  <2>8. QED BY <2>5, <2>6, <2>7
<1>10. QED BY <1>9 DEF Accounted, n

\* A block taken fresh is unreferenced, so the caller's is its first reference.
LEMMA AllocateAccounted ==
  ASSUME NEW m, ManagerOK(m), NEW out \in [Block -> Nat], Accounted(m, out),
         NumFree(m) > 0
  PROVE  LET b == TopBlocks(m, 1)[1]
         IN  /\ b \in Block
             /\ Accounted(AllocateBlocks(m, 1), [out EXCEPT ![b] = @ + 1])
<1> DEFINE top == TopBlocks(m, 1)
           b == top[1]
           n == AllocateBlocks(m, 1)
           own == [out EXCEPT ![b] = @ + 1]
<1>1. /\ 1 \in 0 .. NumFree(m)
      /\ m.refcount \in [Block -> Nat]
      /\ ManagerTypeOK(m)
  BY DEF ManagerOK, ManagerTypeOK, NumFree
<1>2. /\ top \in Seq(Block) /\ Len(top) = 1
      /\ \A i \in 1 .. 1 : m.refcount[top[i]] = 0
      /\ n.refcount = [c \in Block |-> IF c \in ToSet(top) THEN 1 ELSE m.refcount[c]]
      /\ n.requests = m.requests
  <2>1. PICK k \in 0 .. NumFree(m) : k = 1
    BY <1>1
  <2>2. /\ TopBlocks(m, k) \in Seq(Block) /\ Len(TopBlocks(m, k)) = k
        /\ \A i \in 1 .. k : m.refcount[TopBlocks(m, k)[i]] = 0
        /\ AllocateBlocks(m, k).refcount =
             [c \in Block |-> IF c \in ToSet(TopBlocks(m, k)) THEN 1 ELSE m.refcount[c]]
        /\ AllocateBlocks(m, k).requests = m.requests
    BY AllocateBlocksOK
  <2>3. QED BY <2>1, <2>2
<1> HIDE DEF top, n
<1>3. b \in Block /\ m.refcount[b] = 0 /\ \A c : c \in ToSet(top) <=> c = b
  <2>1. DOMAIN top = {1}
    BY <1>2
  <2>2. top[1] \in Block /\ m.refcount[top[1]] = 0
    <3>1. top[1] \in Block
      <4>1. \A t \in Seq(Block) : Len(t) = 1 => t[1] \in Block
        OBVIOUS
      <4>2. QED BY <1>2, <4>1, Zenon
    <3>2. 1 \in 1 .. 1
      OBVIOUS
    <3>3. QED BY <1>2, <3>1, <3>2, Zenon
  <2>3. ToSet(top) = {top[1]}
    BY <2>1 DEF ToSet
  <2>4. QED BY <2>2, <2>3
<1>4. out[b] = 0 /\ Slots(m.requests, b) = {}
  BY <1>1, <1>3, UncountedIsUnnamed
<1> HIDE DEF b
<1>5. ASSUME NEW c \in Block
      PROVE  /\ IsFiniteSet(Slots(n.requests, c))
             /\ n.refcount[c] = own[c] + Cardinality(Slots(n.requests, c))
  <2>1. /\ IsFiniteSet(Slots(m.requests, c))
        /\ m.refcount[c] = out[c] + Cardinality(Slots(m.requests, c))
    BY DEF Accounted
  <2>2. CASE c = b
    <3>1. Cardinality(Slots(n.requests, c)) = 0
      BY <1>2, <1>4, <2>2, FS_EmptySet
    <3>2. n.refcount[c] = 1 /\ own[c] = 1
      BY <1>2, <1>3, <1>4, <2>2
    <3>3. IsFiniteSet(Slots(n.requests, c))
      BY <1>2, <2>1
    <3>4. QED BY <3>1, <3>2, <3>3
  <2>3. CASE c # b
    <3>1. n.refcount[c] = m.refcount[c] /\ own[c] = out[c]
      BY <1>2, <1>3, <2>3
    <3>2. QED BY <1>2, <2>1, <3>1
  <2>4. QED BY <2>2, <2>3
<1>6. Accounted(n, own)
  BY <1>5 DEF Accounted
<1>7. QED BY <1>3, <1>6 DEF n, b, top

\* retain_block counts the caller's new reference.
LEMMA RetainAccounted ==
  ASSUME NEW m, ManagerOK(m), NEW out \in [Block -> Nat], Accounted(m, out),
         NEW b \in Block, m.refcount[b] > 0
  PROVE  Accounted(RetainBlock(m, b), [out EXCEPT ![b] = @ + 1])
<1> DEFINE n == RetainBlock(m, b)
<1>1. n.refcount = [m.refcount EXCEPT ![b] = @ + 1] /\ n.requests = m.requests
  BY RetainBlockOK
<1>2. m.refcount \in [Block -> Nat]
  BY DEF ManagerOK, ManagerTypeOK
<1> HIDE DEF n
<1>3. ASSUME NEW c \in Block
      PROVE  /\ IsFiniteSet(Slots(n.requests, c))
             /\ n.refcount[c] = [out EXCEPT ![b] = @ + 1][c]
                                + Cardinality(Slots(n.requests, c))
  <2>1. /\ IsFiniteSet(Slots(m.requests, c))
        /\ m.refcount[c] = out[c] + Cardinality(Slots(m.requests, c))
    BY DEF Accounted
  <2>2. Cardinality(Slots(m.requests, c)) \in Nat
    BY <2>1, FS_CardinalityType
  <2>3. QED BY <1>1, <1>2, <2>1, <2>2
<1>4. QED BY <1>3 DEF Accounted, n

\* release_block by an owner gives up that owner's reference.
LEMMA ReleaseAccounted ==
  ASSUME NEW m, ManagerOK(m), NEW out \in [Block -> Nat], Accounted(m, out),
         NEW b \in Block, out[b] > 0
  PROVE  Accounted(ReleaseBlock(m, b), [out EXCEPT ![b] = @ - 1])
<1> DEFINE n == ReleaseBlock(m, b)
<1>1. m.refcount \in [Block -> Nat] /\ ManagerTypeOK(m)
  BY DEF ManagerOK, ManagerTypeOK
<1>2. \A c \in Block :
        /\ IsFiniteSet(Slots(m.requests, c))
        /\ Cardinality(Slots(m.requests, c)) \in Nat
        /\ m.refcount[c] = out[c] + Cardinality(Slots(m.requests, c))
  BY FS_CardinalityType DEF Accounted
<1>3. m.refcount[b] > 0
  BY <1>2
<1>4. n.refcount = [m.refcount EXCEPT ![b] = @ - 1] /\ n.requests = m.requests
  BY <1>1, <1>3, ReleaseBlockFields
<1> HIDE DEF n
<1>5. ASSUME NEW c \in Block
      PROVE  /\ IsFiniteSet(Slots(n.requests, c))
             /\ n.refcount[c] = [out EXCEPT ![b] = @ - 1][c]
                                + Cardinality(Slots(n.requests, c))
  BY <1>1, <1>2, <1>4
<1>6. QED BY <1>5 DEF Accounted, n

---------------------------------------------------------------------------
(* Request ids. *)

\* A step that touches neither the ids in use nor the recycled ones.
SameIds(m, n) ==
  /\ DOMAIN n.requests = DOMAIN m.requests
  /\ n.recycled_ids = m.recycled_ids
  /\ n.next_id = m.next_id

\* Such a step keeps the partition.
LEMMA SameIdsPartitioned ==
  ASSUME NEW m, NEW n, IdsPartitioned(m), SameIds(m, n)
  PROVE  IdsPartitioned(n)
BY DEF SameIds, IdsPartitioned

\* The id create_request hands out is not in use.
LEMMA FreshIdIsNew ==
  ASSUME NEW m, ManagerOK(m), IdsPartitioned(m)
  PROVE  FreshId(m) \in Nat /\ FreshId(m) \notin DOMAIN m.requests
<1>1. m.recycled_ids \in Seq(Nat) /\ m.next_id \in Nat
  BY DEF ManagerOK, ManagerTypeOK
<1>2. CASE m.recycled_ids = <<>>
  <2>1. m.next_id \notin 0 .. m.next_id - 1
    BY <1>1
  <2>2. QED BY <1>1, <1>2, <2>1 DEF FreshId, IdsPartitioned
<1>3. CASE m.recycled_ids # <<>>
  <2>1. Len(m.recycled_ids) \in DOMAIN m.recycled_ids
    BY <1>1, <1>3
  <2>2. FreshId(m) = m.recycled_ids[Len(m.recycled_ids)]
    BY <1>3 DEF FreshId, Last
  <2>3. FreshId(m) \in ToSet(m.recycled_ids)
    BY <2>1, <2>2 DEF ToSet
  <2>4. QED BY <1>1, <2>1, <2>2, <2>3 DEF IdsPartitioned
<1>4. QED BY <1>2, <1>3

\* The id create_request hands out was on neither side of the partition or on
\* the recycled one, which it leaves.
LEMMA CreateIds ==
  ASSUME NEW m, ManagerOK(m), IdsPartitioned(m)
  PROVE  IdsPartitioned(CreateRequest(m))
<1> DEFINE n == CreateRequest(m)
           rec == m.recycled_ids
<1>1. rec \in Seq(Nat) /\ Len(rec) \in Nat /\ m.next_id \in Nat
  BY DEF ManagerOK, ManagerTypeOK
<1>2. DOMAIN n.requests = DOMAIN m.requests \cup {FreshId(m)}
  <2>1. n.requests = [r \in DOMAIN m.requests \cup {FreshId(m)} |->
                        IF r \in DOMAIN m.requests THEN m.requests[r] ELSE NoBlocks]
    BY CreateRequestOK
  <2> HIDE DEF n
  <2>2. QED BY <2>1
<1>3. CASE rec = <<>>
  <2>1. n.recycled_ids = rec /\ n.next_id = m.next_id + 1 /\ FreshId(m) = m.next_id
    BY <1>3, CreateRequestOK DEF FreshId
  <2>2. 0 .. n.next_id - 1 = (0 .. m.next_id - 1) \cup {m.next_id}
    BY <1>1, <2>1
  <2>3. ToSet(rec) = {}
    BY <1>3 DEF ToSet
  <2> HIDE DEF n
  <2>4. IdsPartitioned(n)
    BY <1>2, <2>1, <2>2, <2>3 DEF IdsPartitioned
  <2>5. QED BY <2>4 DEF n
<1>4. CASE rec # <<>>
  <2> DEFINE last == rec[Len(rec)]
             rest == SubSeq(rec, 1, Len(rec) - 1)
  <2>1. n.recycled_ids = rest /\ n.next_id = m.next_id /\ FreshId(m) = last
    BY <1>4, CreateRequestOK DEF FreshId, Front, Last
  <2>2. Len(rec) > 0 /\ Len(rec) \in DOMAIN rec /\ DOMAIN rec = 1 .. Len(rec)
    BY <1>1, <1>4
  <2>3. /\ DOMAIN rest = 1 .. Len(rec) - 1
        /\ \A i \in 1 .. Len(rec) - 1 : rest[i] = rec[i]
    BY <1>1, <2>2
  <2> HIDE DEF rest, n
  <2>4. \A i, j \in DOMAIN rec : rec[i] = rec[j] => i = j
    BY DEF IdsPartitioned, IsInjective
  <2>5. IsInjective(rest)
    BY <2>2, <2>3, <2>4 DEF IsInjective
  <2>6. last \notin ToSet(rest)
    <3>1. ASSUME NEW i \in DOMAIN rest PROVE rest[i] # last
      <4>1. i \in DOMAIN rec /\ i # Len(rec) /\ rest[i] = rec[i]
        BY <1>1, <2>2, <2>3
      <4>2. QED BY <2>2, <2>4, <4>1
    <3>2. QED BY <3>1 DEF ToSet
  <2>7. ToSet(rec) = ToSet(rest) \cup {last}
    <3>1. ASSUME NEW i \in DOMAIN rec PROVE rec[i] \in ToSet(rest) \cup {last}
      <4>1. i = Len(rec) \/ (i \in DOMAIN rest /\ rest[i] = rec[i])
        BY <1>1, <2>2, <2>3
      <4>2. QED BY <4>1 DEF ToSet
    <3>2. ASSUME NEW i \in DOMAIN rest PROVE rest[i] \in ToSet(rec)
      <4>1. i \in DOMAIN rec /\ rest[i] = rec[i]
        BY <1>1, <2>2, <2>3
      <4>2. QED BY <4>1 DEF ToSet
    <3>3. last \in ToSet(rec)
      BY <2>2 DEF ToSet
    <3>4. \A x \in ToSet(rec) : x \in ToSet(rest) \cup {last}
      BY <3>1 DEF ToSet
    <3>5. \A x \in ToSet(rest) : x \in ToSet(rec)
      BY <3>2 DEF ToSet
    <3>6. QED BY <3>3, <3>4, <3>5
  <2> HIDE DEF last
  <2>8. IdsPartitioned(n)
    BY <1>2, <2>1, <2>5, <2>6, <2>7 DEF IdsPartitioned
  <2>9. QED BY <2>8 DEF n
<1>5. QED BY <1>3, <1>4

\* The id of a released request moves to the recycled ones.
LEMMA ReleaseIds ==
  ASSUME NEW m, ManagerOK(m), IdsPartitioned(m), NEW id \in DOMAIN m.requests
  PROVE  IdsPartitioned(ReleaseRequest(m, id))
<1> DEFINE n == ReleaseRequest(m, id)
           rec == m.recycled_ids
           app == Append(rec, id)
<1>1. rec \in Seq(Nat) /\ Len(rec) \in Nat /\ DOMAIN rec = 1 .. Len(rec)
  BY DEF ManagerOK, ManagerTypeOK
<1>2. /\ DOMAIN n.requests = DOMAIN m.requests \ {id}
      /\ n.recycled_ids = app /\ n.next_id = m.next_id
  <2>1. /\ n.requests = [r \in DOMAIN m.requests \ {id} |-> m.requests[r]]
        /\ n.recycled_ids = app /\ n.next_id = m.next_id
    BY ReleaseRequestOK
  <2> HIDE DEF n, app
  <2>2. QED BY <2>1
<1>3. /\ DOMAIN app = 1 .. Len(rec) + 1
      /\ \A i \in DOMAIN rec : app[i] = rec[i]
      /\ app[Len(rec) + 1] = id
  BY <1>1
<1> HIDE DEF n, app
<1>4. \A i \in DOMAIN app : i = Len(rec) + 1 \/ i \in DOMAIN rec
  BY <1>1, <1>3
<1>5. DOMAIN rec \subseteq DOMAIN app /\ Len(rec) + 1 \in DOMAIN app
  BY <1>1, <1>3
<1>6. \A i \in DOMAIN rec : rec[i] # id
  BY DEF IdsPartitioned, ToSet
<1>7. \A i, j \in DOMAIN rec : rec[i] = rec[j] => i = j
  BY DEF IdsPartitioned, IsInjective
<1>8. IsInjective(app)
  BY <1>3, <1>4, <1>6, <1>7 DEF IsInjective
<1>9. ToSet(app) = ToSet(rec) \cup {id}
  <2>1. \A x \in ToSet(app) : x \in ToSet(rec) \cup {id}
    BY <1>3, <1>4 DEF ToSet
  <2>2. \A x \in ToSet(rec) : x \in ToSet(app)
    BY <1>3, <1>5 DEF ToSet
  <2>3. id \in ToSet(app)
    BY <1>3, <1>5 DEF ToSet
  <2>4. QED BY <2>1, <2>2, <2>3
<1>10. IdsPartitioned(n)
  BY <1>2, <1>8, <1>9 DEF IdsPartitioned
<1>11. QED BY <1>10 DEF n

---------------------------------------------------------------------------
(* Tokens lie in blocks. *)

\* Every position below seq_len has an entry of the table, and no padding.
Covered(m, r) ==
  \A pos \in 0 .. m.requests[r].seq_len - 1 :
    /\ (pos \div BlockSize) + 1 \in DOMAIN Table(m, r)
    /\ Table(m, r)[(pos \div BlockSize) + 1] \in Block

AllCovered(m) == \A r \in DOMAIN m.requests : Covered(m, r)

\* Positions below n fall in the first BlocksFor(n) blocks.
LEMMA PositionsFit ==
  ASSUME NEW n \in Nat, NEW pos \in 0 .. n - 1
  PROVE  (pos \div BlockSize) + 1 \in 1 .. BlocksFor(n)
<1>1. BlockSize \in Nat /\ BlockSize > 0 /\ pos \in Nat /\ pos < n
  BY LayoutAssumption
<1> DEFINE q == pos \div BlockSize
           w == BlocksFor(n)
<1>2. q \in Nat /\ q * BlockSize <= pos
  BY <1>1
<1>3. w \in Nat /\ w * BlockSize >= n
  BY BlocksForNat
<1> HIDE DEF q, w
<1>4. q * BlockSize < w * BlockSize
  <2>1. q * BlockSize \in Nat /\ w * BlockSize \in Nat
    BY <1>1, <1>2, <1>3
  <2>2. QED BY <1>1, <1>2, <1>3, <2>1
<1>5. q < w
  BY <1>1, <1>2, <1>3, <1>4
<1>6. q + 1 \in 1 .. w
  BY <1>2, <1>3, <1>5
<1>7. QED BY <1>6 DEF q, w

\* A request stays covered when its length does not change and its table keeps
\* the entries that name blocks.
LEMMA CoveredKept ==
  ASSUME NEW m, NEW n, NEW r, Covered(m, r),
         n.requests[r].seq_len = m.requests[r].seq_len,
         \A i \in DOMAIN Table(m, r) : Table(m, r)[i] \in Block =>
           i \in DOMAIN Table(n, r) /\ Table(n, r)[i] \in Block
  PROVE  Covered(n, r)
BY DEF Covered

\* An empty request has no tokens to cover.
LEMMA CreateCovered ==
  ASSUME NEW m, ManagerOK(m), AllCovered(m)
  PROVE  AllCovered(CreateRequest(m))
<1> DEFINE n == CreateRequest(m)
<1>1. n.requests = [r \in DOMAIN m.requests \cup {FreshId(m)} |->
                      IF r \in DOMAIN m.requests THEN m.requests[r] ELSE NoBlocks]
  BY CreateRequestOK
<1> HIDE DEF n
<1>2. ASSUME NEW r \in DOMAIN n.requests PROVE Covered(n, r)
  <2>1. CASE r \in DOMAIN m.requests
    <3>1. n.requests[r] = m.requests[r] /\ Covered(m, r)
      BY <1>1, <2>1 DEF AllCovered
    <3>2. QED BY <3>1 DEF Covered, Table
  <2>2. CASE r \notin DOMAIN m.requests
    <3>1. n.requests[r] = NoBlocks
      BY <1>1, <2>2
    <3>2. 0 .. NoBlocks.seq_len - 1 = {}
      BY DEF NoBlocks
    <3>3. QED BY <3>1, <3>2 DEF Covered
  <2>3. QED BY <2>1, <2>2
<1>3. QED BY <1>2 DEF AllCovered, n

\* The requests that stay are as they were.
LEMMA ReleaseCovered ==
  ASSUME NEW m, ManagerOK(m), AllCovered(m), NEW id \in DOMAIN m.requests
  PROVE  AllCovered(ReleaseRequest(m, id))
<1> DEFINE n == ReleaseRequest(m, id)
<1>1. n.requests = [r \in DOMAIN m.requests \ {id} |-> m.requests[r]]
  BY ReleaseRequestOK
<1> HIDE DEF n
<1>2. ASSUME NEW r \in DOMAIN n.requests PROVE Covered(n, r)
  <2>1. r \in DOMAIN m.requests /\ n.requests[r] = m.requests[r]
    BY <1>1
  <2>2. QED BY <2>1 DEF AllCovered, Covered, Table
<1>3. QED BY <1>2 DEF AllCovered, n

\* Growth appends blocks to one table.  When it succeeds on a table without
\* padding, the table covers the length asked for.
LEMMA EnsureCapacityCovered ==
  ASSUME NEW m, ManagerOK(m), AllCovered(m), NEW id \in DOMAIN m.requests, NEW len \in Nat
  PROVE  LET n == EnsureCapacity(m, id, len)
         IN  /\ AllCovered(n)
             /\ CanCover(m, id, len) /\ Table(m, id) \in Seq(Block) =>
                  /\ BlocksFor(len) <= Len(Table(n, id))
                  /\ Table(n, id) \in Seq(Block)
<1> DEFINE n == EnsureCapacity(m, id, len)
           extra == BlocksFor(len) - Len(Table(m, id))
           T == Table(m, id)
           top == TopBlocks(m, extra)
<1>1. m.requests \in [DOMAIN m.requests -> RequestBlocks] /\ NumFree(m) \in Nat
  BY DEF ManagerOK, ManagerTypeOK, NumFree
<1>2. T \in Seq(Block \cup {kInvalidBlock}) /\ Len(T) \in Nat /\ DOMAIN T = 1 .. Len(T)
  BY <1>1 DEF Table, RequestBlocks
<1>3. BlocksFor(len) \in Nat /\ extra \in Int
  BY <1>2, BlocksForNat
<1>4. T = Table(m, id)
  OBVIOUS
<1>5. /\ DOMAIN n.requests = DOMAIN m.requests
      /\ \/ n = m /\ (extra <= 0 \/ ~ CanCover(m, id, len))
         \/ Extended(m, n, id, extra)
  BY EnsureCapacityOK
<1>6. CASE n = m /\ (extra <= 0 \/ ~ CanCover(m, id, len))
  <2> HIDE DEF n
  <2>1. CanCover(m, id, len) => BlocksFor(len) <= Len(T)
    BY <1>2, <1>3, <1>6
  <2>2. AllCovered(n) /\ Table(n, id) = T
    BY <1>6
  <2> HIDE DEF T
  <2>3. /\ AllCovered(n)
        /\ CanCover(m, id, len) /\ Table(m, id) \in Seq(Block) =>
             BlocksFor(len) <= Len(Table(n, id)) /\ Table(n, id) \in Seq(Block)
    BY <1>4, <2>1, <2>2
  <2>4. QED BY <2>3 DEF n
<1>7. CASE Extended(m, n, id, extra)
  <2> HIDE DEF n
  <2>1. extra \in 0 .. NumFree(m) /\ extra \in Nat
    BY <1>1, <1>7 DEF Extended
  <2>2. top \in Seq(Block) /\ Len(top) = extra
    BY <2>1, AllocateBlocksOK
  <2>3. \A r \in DOMAIN m.requests :
          /\ Table(n, r) = IF r = id THEN T \o top ELSE Table(m, r)
          /\ n.requests[r].seq_len = m.requests[r].seq_len
    BY <1>7 DEF Extended
  <2>4. top \in Seq(Block \cup {kInvalidBlock})
    BY <2>2
  <2>5. /\ DOMAIN (T \o top) = 1 .. Len(T) + Len(top)
        /\ \A i \in 1 .. Len(T) : (T \o top)[i] = T[i]
    BY <1>2, <2>4, Concatenation
  <2>6. Len(T \o top) = Len(T) + extra
    BY <1>2, <2>2, <2>4
  <2>7. \A i \in DOMAIN T : i \in DOMAIN (T \o top) /\ (T \o top)[i] = T[i]
    BY <1>2, <2>1, <2>2, <2>5
  <2>8. Len(T) + extra = BlocksFor(len)
    BY <1>2, <1>3
  <2>9. T \in Seq(Block) => T \o top \in Seq(Block)
    BY <2>2
  <2>10. Table(n, id) = T \o top
    BY <2>3
  <2> HIDE DEF top, extra
  <2>11. ASSUME NEW r \in DOMAIN n.requests PROVE Covered(n, r)
    <3>1. r \in DOMAIN m.requests /\ Covered(m, r)
      BY <1>5 DEF AllCovered
    <3>2. \A i \in DOMAIN Table(m, r) : Table(m, r)[i] \in Block =>
            i \in DOMAIN Table(n, r) /\ Table(n, r)[i] \in Block
      <4>1. CASE r = id
        BY <2>7, <2>10, <4>1
      <4>2. CASE r # id
        BY <2>3, <3>1, <4>2
      <4>3. QED BY <4>1, <4>2
    <3>3. n.requests[r].seq_len = m.requests[r].seq_len
      BY <2>3, <3>1
    <3>4. QED BY <3>1, <3>2, <3>3, CoveredKept
  <2> HIDE DEF T
  <2>12. BlocksFor(len) <= Len(T \o top)
    BY <1>3, <2>6, <2>8
  <2>13. /\ AllCovered(n)
         /\ CanCover(m, id, len) /\ Table(m, id) \in Seq(Block) =>
              BlocksFor(len) <= Len(Table(n, id)) /\ Table(n, id) \in Seq(Block)
    BY <1>4, <2>9, <2>10, <2>11, <2>12 DEF AllCovered
  <2>14. QED BY <2>13 DEF n
<1>8. QED BY <1>5, <1>6, <1>7

\* The length may be set to what the table has blocks for.
LEMMA SetSeqLenCovered ==
  ASSUME NEW m, ManagerOK(m), AllCovered(m), NEW id \in DOMAIN m.requests, NEW len \in Nat,
         BlocksFor(len) <= Len(Table(m, id)), Table(m, id) \in Seq(Block)
  PROVE  AllCovered(SetSeqLen(m, id, len))
<1> DEFINE n == SetSeqLen(m, id, len)
<1>1. n.requests = [m.requests EXCEPT ![id] = [block_table |-> @.block_table, seq_len |-> len]]
  BY SetSeqLenOK
<1>2. m.requests \in [DOMAIN m.requests -> RequestBlocks]
  BY DEF ManagerOK, ManagerTypeOK
<1> HIDE DEF n
<1>3. DOMAIN n.requests = DOMAIN m.requests
  BY <1>1
<1>4. ASSUME NEW r \in DOMAIN n.requests PROVE Covered(n, r)
  <2>1. CASE r = id
    <3>1. Table(n, r) = Table(m, id) /\ n.requests[r].seq_len = len
      BY <1>1, <1>2, <1>3, <2>1 DEF Table
    <3>2. ASSUME NEW pos \in 0 .. len - 1
          PROVE  /\ (pos \div BlockSize) + 1 \in DOMAIN Table(m, id)
                 /\ Table(m, id)[(pos \div BlockSize) + 1] \in Block
      <4> DEFINE i == (pos \div BlockSize) + 1
      <4>1. i \in 1 .. BlocksFor(len)
        BY PositionsFit
      <4> HIDE DEF i
      <4>2. BlocksFor(len) \in Nat
        BY BlocksForNat
      <4>3. i \in 1 .. Len(Table(m, id))
        BY <4>1, <4>2
      <4>4. i \in DOMAIN Table(m, id) /\ Table(m, id)[i] \in Block
        BY <4>3
      <4>5. QED BY <4>4 DEF i
    <3>3. QED BY <3>1, <3>2 DEF Covered
  <2>2. CASE r # id
    <3>1. n.requests[r] = m.requests[r] /\ r \in DOMAIN m.requests
      BY <1>1, <1>3, <2>2
    <3>2. QED BY <3>1 DEF Covered, AllCovered, Table
  <2>3. QED BY <2>1, <2>2
<1>5. QED BY <1>4 DEF AllCovered, n

\* Pointing an entry at a block uncovers nothing: no entry is taken away.
LEMMA ReferenceBlockCovered ==
  ASSUME NEW m, ManagerOK(m), AllCovered(m), NEW id \in DOMAIN m.requests, NEW idx \in Nat,
         NEW b \in Block, m.refcount[b] > 0, EntryAt(Table(m, id), idx) # b
  PROVE  AllCovered(ReferenceBlock(m, id, idx, b))
<1> DEFINE n == ReferenceBlock(m, id, idx, b)
           T == Table(m, id)
<1>1. /\ DOMAIN n.requests = DOMAIN m.requests
      /\ \A q \in DOMAIN m.requests :
           /\ Table(n, q) = IF q = id THEN PointedAt(T, idx, b) ELSE Table(m, q)
           /\ n.requests[q].seq_len = m.requests[q].seq_len
  BY ReferenceBlockOK
<1> HIDE DEF n
<1>2. m.requests \in [DOMAIN m.requests -> RequestBlocks]
  BY DEF ManagerOK, ManagerTypeOK
<1>3. Len(T) \in Nat /\ DOMAIN T = 1 .. Len(T)
  BY <1>2 DEF Table, RequestBlocks
<1>4. ASSUME NEW r \in DOMAIN n.requests PROVE Covered(n, r)
  <2>1. r \in DOMAIN m.requests /\ Covered(m, r)
        /\ n.requests[r].seq_len = m.requests[r].seq_len
    BY <1>1 DEF AllCovered
  <2>2. \A i \in DOMAIN Table(m, r) : Table(m, r)[i] \in Block =>
          i \in DOMAIN Table(n, r) /\ Table(n, r)[i] \in Block
    <3>1. CASE r = id
      <4>1. Table(n, r) = PointedAt(T, idx, b)
        BY <1>1, <3>1
      <4>2. \A i \in DOMAIN T : T[i] \in Block =>
              i \in DOMAIN PointedAt(T, idx, b) /\ PointedAt(T, idx, b)[i] \in Block
        <5> HIDE DEF T
        <5>1. QED BY <1>3 DEF PointedAt
      <4>3. QED BY <3>1, <4>1, <4>2
    <3>2. CASE r # id
      BY <1>1, <2>1, <3>2
    <3>3. QED BY <3>1, <3>2
  <2>3. QED BY <2>1, <2>2, CoveredKept
<1>5. QED BY <1>4 DEF AllCovered, n

\* A call on blocks alone.
LEMMA SameRequestsCovered ==
  ASSUME NEW m, NEW n, AllCovered(m), n.requests = m.requests
  PROVE  AllCovered(n)
BY DEF AllCovered, Covered, Table
=============================================================================
