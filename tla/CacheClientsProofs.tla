------------------------- MODULE CacheClientsProofs -------------------------
(***************************************************************************)
(* The safety of the cache manager under callers that keep its contract,   *)
(* for every pool, block size and number of requests.                      *)
(***************************************************************************)
EXTENDS CacheClients, CacheManagerProofs

Consistent == TypeOK /\ FreeIffUnreferenced

\* Growth under CanCover, or its failure, keeps the manager well formed.
LEMMA GrowOK ==
  ASSUME NEW m, ManagerOK(m), NEW id \in DOMAIN m.requests, NEW n \in Nat
  PROVE  /\ ManagerOK(EnsureCapacity(m, id, n))
         /\ id \in DOMAIN EnsureCapacity(m, id, n).requests
         /\ ManagerOK(SetSeqLen(EnsureCapacity(m, id, n), id, n))
<1> DEFINE e == EnsureCapacity(m, id, n)
<1>1. m.requests \in [DOMAIN m.requests -> RequestBlocks]
  BY DEF ManagerOK, ManagerTypeOK
<1>2. ManagerOK(e) /\ id \in DOMAIN e.requests
  BY <1>1, EnsureCapacityOK
<1> HIDE DEF e
<1>3. ManagerOK(SetSeqLen(e, id, n))
  BY <1>2, SetSeqLenOK
<1>4. QED BY <1>2, <1>3 DEF e

\* The initial pool is consistent.
LEMMA InitConsistent == Init => Consistent
<1>1. ManagerOK(InitManager)
  BY InitManagerOK
<1>2. QED BY <1>1 DEF Init, Consistent, TypeOK, FreeIffUnreferenced, ManagerOK

\* Every call keeps it so.
LEMMA StepConsistent == Consistent /\ [Next]_vars => Consistent'
<1> SUFFICES ASSUME Consistent, [Next]_vars
             PROVE  Consistent'
  OBVIOUS
<1> USE BoundsAssumption
<1>1. ManagerOK(mgr) /\ held \in [Block -> Nat]
  BY DEF Consistent, TypeOK, FreeIffUnreferenced, ManagerOK
<1>2. SUFFICES ManagerOK(mgr') /\ held' \in [Block -> Nat]
  BY DEF Consistent, TypeOK, FreeIffUnreferenced, ManagerOK,
         ManagerTypeOK, FreeListExact, IsInjective, ToSet
<1>3. CASE Create
  <2>1. ManagerOK(CreateRequest(mgr))
    BY <1>1, CreateRequestOK
  <2>2. QED BY <1>1, <1>3, <2>1 DEF Create
<1>4. ASSUME NEW id \in Live, Release(id)
      PROVE  ManagerOK(mgr') /\ held' \in [Block -> Nat]
  <2>1. ManagerOK(ReleaseRequest(mgr, id))
    BY <1>1, ReleaseRequestOK DEF Live
  <2>2. QED BY <1>1, <1>4, <2>1 DEF Release
<1>5. ASSUME NEW id \in Live, NEW n \in 0 .. MaxTokens, Grow(id, n)
      PROVE  ManagerOK(mgr') /\ held' \in [Block -> Nat]
  <2>1. /\ ManagerOK(EnsureCapacity(mgr, id, n))
        /\ ManagerOK(SetSeqLen(EnsureCapacity(mgr, id, n), id, n))
    BY <1>1, GrowOK DEF Live
  <2>2. QED BY <1>1, <1>5, <2>1 DEF Grow, Cover
<1>6. ASSUME NEW id \in Live, NEW idx \in 0 .. MaxTable - 1, NEW b \in Block,
             Share(id, idx, b)
      PROVE  ManagerOK(mgr') /\ held' \in [Block -> Nat]
  <2>1. idx \in Nat /\ mgr.refcount[b] > 0 /\ EntryAt(Table(mgr, id), idx) # b
    BY <1>6 DEF Share, Point
  <2>2. ManagerOK(ReferenceBlock(mgr, id, idx, b))
    BY <1>1, <2>1, ReferenceBlockOK DEF Live
  <2>3. QED BY <1>1, <1>6, <2>2 DEF Share, Point
<1>7. CASE Allocate
  <2>1. 1 \in 0 .. NumFree(mgr)
    BY <1>1, <1>7 DEF Allocate, NumFree, ManagerOK, ManagerTypeOK
  <2>2. /\ ManagerOK(AllocateBlocks(mgr, 1))
        /\ TopBlocks(mgr, 1) \in Seq(Block) /\ Len(TopBlocks(mgr, 1)) = 1
    BY <1>1, <2>1, AllocateBlocksOK
  <2>3. TopBlocks(mgr, 1)[1] \in Block
    BY <2>2
  <2>4. QED BY <1>1, <1>7, <2>2, <2>3 DEF Allocate
<1>8. ASSUME NEW b \in Block, Retain(b)
      PROVE  ManagerOK(mgr') /\ held' \in [Block -> Nat]
  <2>1. ManagerOK(RetainBlock(mgr, b))
    BY <1>1, <1>8, RetainBlockOK DEF Retain
  <2>2. QED BY <1>1, <1>8, <2>1 DEF Retain
<1>9. ASSUME NEW b \in Block, Drop(b)
      PROVE  ManagerOK(mgr') /\ held' \in [Block -> Nat]
  <2>1. ManagerOK(ReleaseBlock(mgr, b))
    BY <1>1, ReleaseBlockOK
  <2>2. QED BY <1>1, <1>9, <2>1 DEF Drop
<1>10. CASE UNCHANGED vars
  BY <1>1, <1>10 DEF vars
<1>11. QED
  BY <1>3, <1>4, <1>5, <1>6, <1>7, <1>8, <1>9, <1>10 DEF Next

\* The state is well typed, whatever the callers do in whatever order.
THEOREM TypeCorrect == Spec => []TypeOK
<1>1. Spec => []Consistent
  BY InitConsistent, StepConsistent, PTL DEF Spec
<1>2. Consistent => TypeOK
  BY DEF Consistent
<1>3. QED BY <1>1, <1>2, PTL

\* The free list of release_block and allocate_block is, at every moment and
\* for every pool size, exactly the blocks whose count is zero, each once.
THEOREM FreeListCorrect == Spec => []FreeIffUnreferenced
<1>1. Spec => []Consistent
  BY InitConsistent, StepConsistent, PTL DEF Spec
<1>2. Consistent => FreeIffUnreferenced
  BY DEF Consistent
<1>3. QED BY <1>1, <1>2, PTL

---------------------------------------------------------------------------
(* The accounting of references. *)

Counted == Consistent /\ Accounted(mgr, held)

\* A pool in which nothing is referenced is counted.
LEMMA InitCounted == Init => Counted
<1>1. SUFFICES ASSUME Init, NEW b \in Block
               PROVE  /\ IsFiniteSet(Slots(mgr.requests, b))
                      /\ mgr.refcount[b] = held[b] + Cardinality(Slots(mgr.requests, b))
  BY InitConsistent DEF Counted, Accounted
<1>2. mgr.refcount[b] = 0 /\ DOMAIN mgr.requests = {} /\ held[b] = 0
  BY <1>1 DEF Init, InitManager
<1>3. \A s : s \notin Slots(mgr.requests, b)
  BY <1>2, SlotsElement
<1>4. Slots(mgr.requests, b) = {}
  BY <1>3
<1>5. QED BY <1>2, <1>4, FS_EmptySet

\* Every call moves the counts and the references together.
LEMMA StepCounted == Counted /\ [Next]_vars => Counted'
<1> SUFFICES ASSUME Counted, [Next]_vars
             PROVE  Accounted(mgr', held')
  BY StepConsistent DEF Counted, Accounted, Slots
<1>1. ManagerOK(mgr) /\ held \in [Block -> Nat] /\ Accounted(mgr, held)
  BY DEF Counted, Consistent, TypeOK, FreeIffUnreferenced, ManagerOK
<1>2. CASE Create
  BY <1>1, <1>2, CreateAccounted DEF Create
<1>3. ASSUME NEW id \in Live, Release(id)
      PROVE  Accounted(mgr', held')
  <2>1. Accounted(ReleaseRequest(mgr, id), held)
    BY <1>1, ReleaseRequestAccounted DEF Live
  <2>2. QED BY <1>3, <2>1 DEF Release
<1>4. ASSUME NEW id \in Live, NEW n \in 0 .. MaxTokens, Grow(id, n)
      PROVE  Accounted(mgr', held')
  <2> DEFINE e == EnsureCapacity(mgr, id, n)
  <2>1. n \in Nat
    BY BoundsAssumption
  <2>2. ManagerOK(e) /\ id \in DOMAIN e.requests
    BY <1>1, <2>1, GrowOK DEF Live
  <2>3. Accounted(e, held)
    BY <1>1, <2>1, EnsureCapacityAccounted DEF Live
  <2>4. mgr' = e \/ mgr' = SetSeqLen(e, id, n)
    BY <1>4 DEF Grow, Cover
  <2>5. held' = held
    BY <1>4 DEF Grow, Cover
  <2> HIDE DEF e
  <2>6. Accounted(SetSeqLen(e, id, n), held)
    BY <2>1, <2>2, <2>3, SetSeqLenAccounted
  <2>7. QED BY <2>3, <2>4, <2>5, <2>6
<1>5. ASSUME NEW id \in Live, NEW idx \in 0 .. MaxTable - 1, NEW b \in Block,
             Share(id, idx, b)
      PROVE  Accounted(mgr', held')
  <2>1. idx \in Nat /\ mgr.refcount[b] > 0 /\ EntryAt(Table(mgr, id), idx) # b
    BY <1>5, BoundsAssumption DEF Share, Point
  <2>2. Accounted(ReferenceBlock(mgr, id, idx, b), held)
    BY <1>1, <2>1, ReferenceBlockAccounted DEF Live
  <2>3. QED BY <1>5, <2>2 DEF Share, Point
<1>6. CASE Allocate
  BY <1>1, <1>6, AllocateAccounted DEF Allocate
<1>7. ASSUME NEW b \in Block, Retain(b)
      PROVE  Accounted(mgr', held')
  BY <1>1, <1>7, RetainAccounted DEF Retain
<1>8. ASSUME NEW b \in Block, Drop(b)
      PROVE  Accounted(mgr', held')
  <2>1. CASE held[b] > 0
    BY <1>1, <1>8, <2>1, ReleaseAccounted DEF Drop
  <2>2. CASE ~ (held[b] > 0)
    <3>1. mgr' = mgr /\ held' = held
      BY <1>8, <2>2 DEF Drop, ReleaseBlock
    <3>2. QED BY <1>1, <3>1
  <2>3. QED BY <2>1, <2>2
<1>9. CASE UNCHANGED vars
  BY <1>1, <1>9 DEF vars
<1>10. QED
  BY <1>2, <1>3, <1>4, <1>5, <1>6, <1>7, <1>8, <1>9 DEF Next

\* A block's count is at every moment the number of table entries that name
\* it plus the number of references callers own: no sequence of calls leaks a
\* block or frees one that is still named.
THEOREM RefcountsCorrect == Spec => []RefcountsAccounted
<1>1. Spec => []Counted
  BY InitCounted, StepCounted, PTL DEF Spec
<1>2. Counted => RefcountsAccounted
  BY DEF Counted, Accounted, RefcountsAccounted
<1>3. QED BY <1>1, <1>2, PTL

---------------------------------------------------------------------------
(* Ids. *)

\* No id has been handed out at first.
LEMMA InitIds == Init => IdsRecycled
<1>1. ToSet(<<>>) = {} /\ IsInjective(<<>>)
  BY DEF ToSet, IsInjective
<1>2. 0 .. 0 - 1 = {}
  OBVIOUS
<1>3. QED
  BY <1>1, <1>2 DEF Init, InitManager, IdsRecycled, IdsPartitioned

\* Every call keeps the ids partitioned.
LEMMA StepIds == Consistent /\ IdsRecycled /\ [Next]_vars => IdsRecycled'
<1> SUFFICES ASSUME Consistent, IdsPartitioned(mgr), [Next]_vars
             PROVE  IdsPartitioned(mgr')
  BY DEF IdsRecycled, IdsPartitioned, IsInjective, ToSet
<1>1. ManagerOK(mgr)
  BY DEF Consistent, TypeOK, FreeIffUnreferenced, ManagerOK
<1>2. CASE Create
  BY <1>1, <1>2, CreateIds DEF Create
<1>3. ASSUME NEW id \in Live, Release(id) PROVE IdsPartitioned(mgr')
  BY <1>1, <1>3, ReleaseIds DEF Release, Live
<1>4. ASSUME NEW id \in Live, NEW n \in 0 .. MaxTokens, Grow(id, n)
      PROVE  IdsPartitioned(mgr')
  <2> DEFINE e == EnsureCapacity(mgr, id, n)
  <2>1. n \in Nat /\ id \in DOMAIN mgr.requests
    BY BoundsAssumption DEF Live
  <2>2. ManagerOK(e) /\ id \in DOMAIN e.requests
    BY <1>1, <2>1, GrowOK
  <2>3. mgr' = e \/ mgr' = SetSeqLen(e, id, n)
    BY <1>4 DEF Grow, Cover
  <2>4. SameIds(mgr, e)
    BY <1>1, <2>1, EnsureCapacityOK DEF SameIds
  <2> HIDE DEF e
  <2>5. SameIds(e, SetSeqLen(e, id, n))
    <3> DEFINE l == SetSeqLen(e, id, n)
    <3>1. /\ l.requests = [e.requests EXCEPT ![id] =
                             [block_table |-> @.block_table, seq_len |-> n]]
          /\ l.recycled_ids = e.recycled_ids /\ l.next_id = e.next_id
      BY <2>1, <2>2, SetSeqLenOK
    <3> HIDE DEF l
    <3>2. DOMAIN l.requests = DOMAIN e.requests
      BY <3>1
    <3>3. QED BY <3>1, <3>2 DEF SameIds, l
  <2>6. SameIds(mgr, mgr')
    BY <2>3, <2>4, <2>5 DEF SameIds
  <2>7. QED BY <2>6, SameIdsPartitioned
<1>5. ASSUME NEW id \in Live, NEW idx \in 0 .. MaxTable - 1, NEW b \in Block,
             Share(id, idx, b)
      PROVE  IdsPartitioned(mgr')
  <2>1. /\ idx \in Nat /\ id \in DOMAIN mgr.requests
        /\ mgr.refcount[b] > 0 /\ EntryAt(Table(mgr, id), idx) # b
        /\ mgr' = ReferenceBlock(mgr, id, idx, b)
    BY <1>5, BoundsAssumption DEF Share, Point, Live
  <2>2. SameIds(mgr, ReferenceBlock(mgr, id, idx, b))
    BY <1>1, <2>1, ReferenceBlockOK DEF SameIds
  <2>3. QED BY <2>1, <2>2, SameIdsPartitioned
<1>6. CASE Allocate
  <2>1. 1 \in 0 .. NumFree(mgr)
    BY <1>1, <1>6 DEF Allocate, NumFree, ManagerOK, ManagerTypeOK
  <2>2. SameIds(mgr, AllocateBlocks(mgr, 1))
    BY <1>1, <2>1, AllocateBlocksOK DEF SameIds
  <2>3. QED BY <1>6, <2>2, SameIdsPartitioned DEF Allocate
<1>7. ASSUME NEW b \in Block, Retain(b) PROVE IdsPartitioned(mgr')
  <2>1. SameIds(mgr, RetainBlock(mgr, b))
    BY <1>1, <1>7, RetainBlockOK DEF SameIds, Retain
  <2>2. QED BY <1>7, <2>1, SameIdsPartitioned DEF Retain
<1>8. ASSUME NEW b \in Block, Drop(b) PROVE IdsPartitioned(mgr')
  <2>1. SameIds(mgr, ReleaseBlock(mgr, b))
    <3>1. CASE mgr.refcount[b] <= 0
      BY <3>1 DEF ReleaseBlock, SameIds
    <3>2. CASE ~ (mgr.refcount[b] <= 0)
      <4>1. mgr.refcount[b] \in Nat /\ ManagerTypeOK(mgr)
        BY <1>1 DEF ManagerOK, ManagerTypeOK
      <4>2. mgr.refcount[b] > 0
        BY <3>2, <4>1
      <4>3. /\ ReleaseBlock(mgr, b).requests = mgr.requests
            /\ ReleaseBlock(mgr, b).recycled_ids = mgr.recycled_ids
            /\ ReleaseBlock(mgr, b).next_id = mgr.next_id
        BY <4>1, <4>2, ReleaseBlockFields
      <4>4. QED BY <4>3 DEF SameIds
    <3>3. QED BY <3>1, <3>2
  <2>2. QED BY <1>8, <2>1, SameIdsPartitioned DEF Drop
<1>9. CASE UNCHANGED vars
  BY <1>9 DEF vars
<1>10. QED
  BY <1>2, <1>3, <1>4, <1>5, <1>6, <1>7, <1>8, <1>9 DEF Next

\* Live and recycled ids are always a partition of the ids handed out: no two
\* live requests ever share an id and no id is lost.
THEOREM IdsCorrect == Spec => []IdsRecycled
<1>1. Init => Consistent /\ IdsRecycled
  BY InitConsistent, InitIds
<1>2. Consistent /\ IdsRecycled /\ [Next]_vars => Consistent' /\ IdsRecycled'
  BY StepConsistent, StepIds
<1>3. QED BY <1>1, <1>2, PTL DEF Spec

---------------------------------------------------------------------------
(* Tokens. *)

Backed == Counted /\ AllCovered(mgr)

\* There is nothing to cover at first.
LEMMA InitBacked == Init => Backed
<1>1. Init => DOMAIN mgr.requests = {}
  BY DEF Init, InitManager
<1>2. QED BY <1>1, InitCounted DEF Backed, AllCovered

\* Every call keeps every token covered.
LEMMA StepBacked == Backed /\ [Next]_vars => Backed'
<1> SUFFICES ASSUME Backed, [Next]_vars
             PROVE  AllCovered(mgr')
  BY StepCounted DEF Backed, AllCovered, Covered, Table
<1>1. ManagerOK(mgr) /\ AllCovered(mgr)
  BY DEF Backed, Counted, Consistent, TypeOK, FreeIffUnreferenced, ManagerOK
<1>2. CASE Create
  BY <1>1, <1>2, CreateCovered DEF Create
<1>3. ASSUME NEW id \in Live, Release(id) PROVE AllCovered(mgr')
  BY <1>1, <1>3, ReleaseCovered DEF Release, Live
<1>4. ASSUME NEW id \in Live, NEW n \in 0 .. MaxTokens, Grow(id, n)
      PROVE  AllCovered(mgr')
  <2> DEFINE e == EnsureCapacity(mgr, id, n)
  <2>1. n \in Nat /\ id \in DOMAIN mgr.requests
    BY BoundsAssumption DEF Live
  <2>2. ManagerOK(e) /\ id \in DOMAIN e.requests
    BY <1>1, <2>1, GrowOK
  <2>3. /\ AllCovered(e)
        /\ CanCover(mgr, id, n) /\ Table(mgr, id) \in Seq(Block) =>
             BlocksFor(n) <= Len(Table(e, id)) /\ Table(e, id) \in Seq(Block)
    BY <1>1, <2>1, EnsureCapacityCovered
  <2>4. /\ ~ Padded(id)
        /\ mgr' = IF CanCover(mgr, id, n) THEN SetSeqLen(e, id, n) ELSE e
    BY <1>4 DEF Grow, Cover
  <2> HIDE DEF e
  <2>5. Table(mgr, id) \in Seq(Block)
    <3>1. mgr.requests \in [DOMAIN mgr.requests -> RequestBlocks]
      BY <1>1 DEF ManagerOK, ManagerTypeOK
    <3>2. Table(mgr, id) \in Seq(Block \cup {kInvalidBlock})
      BY <2>1, <3>1 DEF Table, RequestBlocks
    <3>3. \A i \in DOMAIN Table(mgr, id) : Table(mgr, id)[i] # kInvalidBlock
      BY <2>4 DEF Padded
    <3>4. QED BY <3>2, <3>3
  <2>6. CASE CanCover(mgr, id, n)
    BY <2>1, <2>2, <2>3, <2>4, <2>5, <2>6, SetSeqLenCovered
  <2>7. CASE ~ CanCover(mgr, id, n)
    BY <2>3, <2>4, <2>7
  <2>8. QED BY <2>6, <2>7
<1>5. ASSUME NEW id \in Live, NEW idx \in 0 .. MaxTable - 1, NEW b \in Block,
             Share(id, idx, b)
      PROVE  AllCovered(mgr')
  <2>1. /\ idx \in Nat /\ id \in DOMAIN mgr.requests
        /\ mgr.refcount[b] > 0 /\ EntryAt(Table(mgr, id), idx) # b
        /\ mgr' = ReferenceBlock(mgr, id, idx, b)
    BY <1>5, BoundsAssumption DEF Share, Point, Live
  <2>2. QED BY <1>1, <2>1, ReferenceBlockCovered
<1>6. CASE Allocate
  <2>1. 1 \in 0 .. NumFree(mgr)
    BY <1>1, <1>6 DEF Allocate, NumFree, ManagerOK, ManagerTypeOK
  <2>2. AllocateBlocks(mgr, 1).requests = mgr.requests
    BY <1>1, <2>1, AllocateBlocksOK
  <2>3. QED BY <1>1, <1>6, <2>2, SameRequestsCovered DEF Allocate
<1>7. ASSUME NEW b \in Block, Retain(b) PROVE AllCovered(mgr')
  <2>1. RetainBlock(mgr, b).requests = mgr.requests
    BY <1>1, <1>7, RetainBlockOK DEF Retain
  <2>2. QED BY <1>1, <1>7, <2>1, SameRequestsCovered DEF Retain
<1>8. ASSUME NEW b \in Block, Drop(b) PROVE AllCovered(mgr')
  <2>1. ReleaseBlock(mgr, b).requests = mgr.requests
    <3>1. CASE mgr.refcount[b] <= 0
      BY <3>1 DEF ReleaseBlock
    <3>2. CASE ~ (mgr.refcount[b] <= 0)
      <4>1. mgr.refcount[b] > 0 /\ ManagerTypeOK(mgr)
        BY <1>1, <3>2 DEF ManagerOK, ManagerTypeOK
      <4>2. QED BY <4>1, ReleaseBlockFields
    <3>3. QED BY <3>1, <3>2
  <2>2. QED BY <1>1, <1>8, <2>1, SameRequestsCovered DEF Drop
<1>9. CASE UNCHANGED vars
  BY <1>1, <1>9 DEF vars
<1>10. QED
  BY <1>2, <1>3, <1>4, <1>5, <1>6, <1>7, <1>8, <1>9 DEF Next

\* Whatever is shared, grown or released meanwhile, every token below a
\* request's seq_len has a block, and that block is referenced, so it is not
\* on the free list for someone else to overwrite.
THEOREM TokensCorrect == Spec => []TokensInBlocks
<1>1. Spec => []Backed
  BY InitBacked, StepBacked, PTL DEF Spec
<1>2. Backed => TokensInBlocks
  <2>1. SUFFICES ASSUME Backed, NEW r \in DOMAIN mgr.requests,
                        NEW pos \in 0 .. mgr.requests[r].seq_len - 1
                 PROVE  LET i == (pos \div BlockSize) + 1
                        IN  /\ i \in DOMAIN Table(mgr, r)
                            /\ Table(mgr, r)[i] \in Block
                            /\ mgr.refcount[Table(mgr, r)[i]] > 0
    BY DEF TokensInBlocks, TokensBacked
  <2> DEFINE i == (pos \div BlockSize) + 1
  <2>2. i \in DOMAIN Table(mgr, r) /\ Table(mgr, r)[i] \in Block
    BY <2>1 DEF Backed, AllCovered, Covered
  <2> HIDE DEF i
  <2>3. ManagerTypeOK(mgr) /\ held \in [Block -> Nat] /\ Accounted(mgr, held)
    BY <2>1 DEF Backed, Counted, Consistent, TypeOK
  <2>4. mgr.refcount[Table(mgr, r)[i]] > 0
    BY <2>2, <2>3, NamedIsCounted
  <2>5. QED BY <2>2, <2>4 DEF i
<1>3. QED BY <1>1, <1>2, PTL

---------------------------------------------------------------------------
(* The refinement of BlockPool. *)

\* The blocks allocate_block would return are distinct and unreferenced.
LEMMA TopBlocksFree ==
  ASSUME NEW m, ManagerOK(m), NEW n \in 0 .. NumFree(m)
  PROVE  /\ TopBlocks(m, n) \in Seq(Block) /\ Len(TopBlocks(m, n)) = n
         /\ IsInjective(TopBlocks(m, n))
         /\ \A i \in 1 .. n : m.refcount[TopBlocks(m, n)[i]] = 0
<1>1. /\ TopBlocks(m, n) \in Seq(Block) /\ Len(TopBlocks(m, n)) = n
      /\ IsInjective(TopBlocks(m, n))
  BY AllocateBlocksOK
<1>2. /\ \A i \in 1 .. n : m.refcount[TopBlocks(m, n)[i]] = 0
      /\ AllocateBlocks(m, n).refcount =
           [b \in Block |-> IF b \in ToSet(TopBlocks(m, n)) THEN 1 ELSE m.refcount[b]]
  BY AllocateBlocksOK
<1>3. QED BY <1>1, <1>2

\* What a step of the pool shows of the manager's requests.
LEMMA TablesOf ==
  /\ DOMAIN Tables = DOMAIN mgr.requests
  /\ \A r \in DOMAIN mgr.requests : Tables[r] = Table(mgr, r)
  /\ Tables = [r \in DOMAIN Tables |-> Tables[r]]
  /\ DOMAIN Tables' = DOMAIN mgr'.requests
  /\ \A r \in DOMAIN mgr'.requests : Tables'[r] = Table(mgr', r)
  /\ Tables' = [r \in DOMAIN Tables' |-> Tables'[r]]
BY DEF Tables, Live, Table

\* ... and of their lengths.
LEMMA LengthsOf ==
  /\ DOMAIN Lengths = DOMAIN mgr.requests
  /\ \A r \in DOMAIN mgr.requests : Lengths[r] = mgr.requests[r].seq_len
  /\ Lengths = [r \in DOMAIN Lengths |-> Lengths[r]]
  /\ DOMAIN Lengths' = DOMAIN mgr'.requests
  /\ \A r \in DOMAIN mgr'.requests : Lengths'[r] = mgr'.requests[r].seq_len
  /\ Lengths' = [r \in DOMAIN Lengths' |-> Lengths'[r]]
BY DEF Lengths, Live

\* Equal requests have equal tables and lengths.
LEMMA TablesKept ==
  ASSUME mgr'.requests = mgr.requests
  PROVE  Tables' = Tables /\ Lengths' = Lengths
BY DEF Tables, Lengths, Live, Table

\* A call that changes no length of a request.
LEMMA LengthsKept ==
  ASSUME DOMAIN mgr'.requests = DOMAIN mgr.requests,
         \A r \in DOMAIN mgr.requests : mgr'.requests[r].seq_len = mgr.requests[r].seq_len
  PROVE  Lengths' = Lengths
<1>1. DOMAIN Lengths' = DOMAIN Lengths /\ \A r \in DOMAIN Lengths' : Lengths'[r] = Lengths[r]
  BY LengthsOf
<1>2. QED BY <1>1, LengthsOf, SameFunction

\* The counts say of each block whether anybody refers to it.
LEMMA CountsSayWho ==
  ASSUME Counted, NEW b \in Block
  PROVE  Pool!Unreferenced(b) <=> mgr.refcount[b] = 0
<1>1. ManagerTypeOK(mgr) /\ held \in [Block -> Nat] /\ Accounted(mgr, held)
  BY DEF Counted, Consistent, TypeOK
<1>2. Pool!Named(b) <=> \E r \in DOMAIN mgr.requests : \E i \in DOMAIN Table(mgr, r) :
                           Table(mgr, r)[i] = b
  BY TablesOf DEF Pool!Named
<1>3. ASSUME mgr.refcount[b] = 0 PROVE Pool!Unreferenced(b)
  <2>1. held[b] = 0 /\ Slots(mgr.requests, b) = {}
    BY <1>1, <1>3, UncountedIsUnnamed
  <2>2. ASSUME NEW r \in DOMAIN mgr.requests, NEW i \in DOMAIN Table(mgr, r), Table(mgr, r)[i] = b
        PROVE  FALSE
    <3>1. <<r, i>> \in Slots(mgr.requests, b)
      BY <2>2, SlotsElement DEF Table
    <3>2. QED BY <2>1, <3>1
  <2>3. QED BY <1>2, <2>1, <2>2 DEF Pool!Unreferenced
<1>4. ASSUME Pool!Unreferenced(b) PROVE mgr.refcount[b] = 0
  <2>1. held[b] = 0 /\ ~ Pool!Named(b)
    BY <1>4 DEF Pool!Unreferenced
  <2>2. \A s : s \notin Slots(mgr.requests, b)
    <3>1. ASSUME NEW s, s \in Slots(mgr.requests, b) PROVE FALSE
      <4>1. PICK r \in DOMAIN mgr.requests :
              \E i \in DOMAIN mgr.requests[r].block_table :
                s = <<r, i>> /\ mgr.requests[r].block_table[i] = b
        BY <3>1, SlotsElement
      <4>2. QED BY <1>2, <2>1, <4>1 DEF Table
    <3>2. QED BY <3>1
  <2>3. Slots(mgr.requests, b) = {} /\ Cardinality({}) = 0
    BY <2>2, FS_EmptySet
  <2>4. mgr.refcount[b] = held[b] + Cardinality(Slots(mgr.requests, b))
    BY <1>1 DEF Accounted
  <2>5. QED BY <2>1, <2>3, <2>4
<1>5. QED BY <1>3, <1>4

\* create_request opens a request.
LEMMA CreateOpens ==
  ASSUME Counted, IdsRecycled, Create
  PROVE  Pool!PoolNext
<1> DEFINE id == FreshId(mgr)
<1>1. ManagerOK(mgr) /\ IdsPartitioned(mgr)
  BY DEF Counted, Consistent, TypeOK, FreeIffUnreferenced, ManagerOK, IdsRecycled
<1>2. id \notin DOMAIN mgr.requests
  BY <1>1, FreshIdIsNew
<1>3. /\ mgr'.requests = [r \in DOMAIN mgr.requests \cup {id} |->
                            IF r \in DOMAIN mgr.requests THEN mgr.requests[r] ELSE NoBlocks]
      /\ held' = held
  BY <1>1, CreateRequestOK DEF Create
<1> HIDE DEF id
<1>4. /\ DOMAIN mgr'.requests = DOMAIN mgr.requests \cup {id}
      /\ \A r \in DOMAIN mgr'.requests : Table(mgr', r) = IF r = id THEN <<>> ELSE Table(mgr, r)
  BY <1>2, <1>3 DEF Table, NoBlocks
<1> DEFINE G == [q \in DOMAIN Tables \cup {id} |-> IF q = id THEN <<>> ELSE Tables[q]]
<1>5. Tables' = G
  <2>1. /\ DOMAIN G = DOMAIN mgr.requests \cup {id} /\ G = [q \in DOMAIN G |-> G[q]]
        /\ \A r \in DOMAIN G : G[r] = IF r = id THEN <<>> ELSE Table(mgr, r)
    BY TablesOf
  <2> HIDE DEF G
  <2>2. DOMAIN Tables' = DOMAIN G /\ \A r \in DOMAIN Tables' : Tables'[r] = G[r]
    BY <1>4, <2>1, TablesOf
  <2>3. QED BY <2>1, <2>2, TablesOf, SameFunction
<1>6. id \in DOMAIN Tables' /\ id \notin DOMAIN Tables
  BY <1>2, <1>4, TablesOf
<1> DEFINE H == [q \in DOMAIN Tables \cup {id} |-> IF q = id THEN 0 ELSE Lengths[q]]
<1>7. Lengths' = H
  <2>1. /\ DOMAIN H = DOMAIN mgr.requests \cup {id} /\ H = [q \in DOMAIN H |-> H[q]]
        /\ \A r \in DOMAIN H : H[r] = IF r = id THEN 0 ELSE mgr.requests[r].seq_len
    BY TablesOf, LengthsOf
  <2> HIDE DEF H
  <2>2. \A r \in DOMAIN mgr'.requests :
          mgr'.requests[r].seq_len = IF r = id THEN 0 ELSE mgr.requests[r].seq_len
    BY <1>2, <1>3 DEF NoBlocks
  <2>3. DOMAIN Lengths' = DOMAIN H /\ \A r \in DOMAIN Lengths' : Lengths'[r] = H[r]
    BY <1>4, <2>1, <2>2, LengthsOf
  <2>4. QED BY <2>1, <2>3, LengthsOf, SameFunction
<1>8. Pool!Open(id)
  BY <1>3, <1>5, <1>6, <1>7 DEF Pool!Open
<1>9. QED BY <1>6, <1>8 DEF Pool!PoolNext

\* release_request closes one.
LEMMA ReleaseCloses ==
  ASSUME Counted, NEW id \in Live, Release(id)
  PROVE  Pool!PoolNext
<1>1. ManagerOK(mgr) /\ id \in DOMAIN mgr.requests
  BY DEF Counted, Consistent, TypeOK, FreeIffUnreferenced, ManagerOK, Live
<1>2. mgr'.requests = [r \in DOMAIN mgr.requests \ {id} |-> mgr.requests[r]] /\ held' = held
  BY <1>1, ReleaseRequestOK DEF Release
<1>3. Tables' = [q \in DOMAIN Tables \ {id} |-> Tables[q]]
  BY <1>2 DEF Tables, Live, Table
<1>4. Lengths' = [q \in DOMAIN Tables \ {id} |-> Lengths[q]]
  BY <1>2, TablesOf DEF Lengths, Live
<1>5. id \in DOMAIN Tables
  BY <1>1, TablesOf
<1>6. Pool!Close(id)
  BY <1>2, <1>3, <1>4 DEF Pool!Close
<1>7. QED BY <1>5, <1>6 DEF Pool!PoolNext

\* ensure_capacity extends a table with all the blocks it needs, which nobody
\* referred to, or fails and changes nothing.
LEMMA GrowExtends ==
  ASSUME Counted, NEW id \in Live, NEW n \in 0 .. MaxTokens, Grow(id, n)
  PROVE  Pool!PoolNext \/ UNCHANGED <<Tables, Lengths, held>>
<1> DEFINE e == EnsureCapacity(mgr, id, n)
           T == Table(mgr, id)
           extra == BlocksFor(n) - Len(T)
           top == TopBlocks(mgr, extra)
<1>1. ManagerOK(mgr) /\ id \in DOMAIN mgr.requests /\ n \in Nat
  BY BoundsAssumption DEF Counted, Consistent, TypeOK, FreeIffUnreferenced, ManagerOK, Live
<1>2. held' = held
  BY DEF Grow, Cover
<1>3. /\ DOMAIN mgr'.requests = DOMAIN e.requests
      /\ \A r \in DOMAIN e.requests : Table(mgr', r) = Table(e, r)
      /\ \A r \in DOMAIN e.requests :
           mgr'.requests[r].seq_len = IF r = id /\ CanCover(mgr, id, n)
                                      THEN n ELSE e.requests[r].seq_len
  <2>1. ManagerOK(e) /\ id \in DOMAIN e.requests
    BY <1>1, GrowOK
  <2>2. mgr' = IF CanCover(mgr, id, n) THEN SetSeqLen(e, id, n) ELSE e
    BY DEF Grow, Cover
  <2> HIDE DEF e
  <2>3. SetSeqLen(e, id, n).requests =
          [e.requests EXCEPT ![id] = [block_table |-> @.block_table, seq_len |-> n]]
    BY <1>1, <2>1, SetSeqLenOK
  <2>4. QED BY <2>1, <2>2, <2>3 DEF Table
<1>4. /\ DOMAIN e.requests = DOMAIN mgr.requests
      /\ \/ e = mgr /\ (extra <= 0 \/ ~ CanCover(mgr, id, n))
         \/ Extended(mgr, e, id, extra)
  BY <1>1, EnsureCapacityOK
<1>5. T \in Seq(Block \cup {kInvalidBlock}) /\ Len(T) \in Nat
  BY <1>1 DEF ManagerOK, ManagerTypeOK, Table, RequestBlocks
<1>6. /\ BlocksFor(n) \in Nat /\ BlockSize \in Nat
      /\ (BlocksFor(n) - 1) * BlockSize < n /\ n <= BlocksFor(n) * BlockSize
  BY <1>1, BlocksForNat, BlocksForTight, LayoutAssumption
<1>7. Pool!OnlyLengthOf(id)
  <2>1. \A q \in DOMAIN mgr.requests \ {id} :
          mgr'.requests[q].seq_len = mgr.requests[q].seq_len
    BY <1>3, <1>4 DEF Extended
  <2>2. QED BY <1>3, <1>4, <2>1, LengthsOf DEF Pool!OnlyLengthOf
<1> HIDE DEF e, T
<1>8. CASE e = mgr /\ (extra <= 0 \/ ~ CanCover(mgr, id, n))
  <2>1. DOMAIN Tables' = DOMAIN Tables /\ \A r \in DOMAIN Tables' : Tables'[r] = Tables[r]
    BY <1>3, <1>8, TablesOf
  <2>2. Tables' = Tables
    BY <2>1, TablesOf, SameFunction
  <2>3. CASE CanCover(mgr, id, n)
    <3>1. BlocksFor(n) <= Len(T)
      BY <1>5, <1>8, <1>6, <2>3
    <3>2. BlocksFor(n) * BlockSize <= Len(T) * BlockSize
      BY <1>5, <1>6, <3>1
    <3>3. n <= Len(T) * BlockSize
      <4> DEFINE f == BlocksFor(n) * BlockSize
                 g == Len(T) * BlockSize
      <4>1. f \in Nat /\ g \in Nat /\ n <= f /\ f <= g
        BY <1>5, <1>6, <3>2
      <4> HIDE DEF f, g
      <4>2. n <= g
        BY <1>1, <4>1
      <4>3. QED BY <4>2 DEF g
    <3>4. Lengths'[id] = n /\ Tables[id] = T /\ id \in DOMAIN Tables
      BY <1>1, <1>3, <1>8, <2>3, LengthsOf, TablesOf DEF T
    <3>5. Pool!Resize(id)
      BY <1>2, <1>7, <2>2, <3>3, <3>4 DEF Pool!Resize
    <3>6. QED BY <3>4, <3>5 DEF Pool!PoolNext
  <2>4. CASE ~ CanCover(mgr, id, n)
    <3>1. Lengths' = Lengths
      BY <1>3, <1>8, <2>4, LengthsKept
    <3>2. QED BY <1>2, <2>2, <3>1
  <2>5. QED BY <2>3, <2>4
<1>9. CASE Extended(mgr, e, id, extra)
  <2>1. extra \in 1 .. NumFree(mgr) /\ NumFree(mgr) \in Nat
    BY <1>1, <1>9 DEF Extended, NumFree, ManagerOK, ManagerTypeOK
  <2> HIDE DEF extra
  <2>2. extra \in 0 .. NumFree(mgr)
    BY <2>1
  <2>3. /\ top \in Seq(Block) /\ Len(top) = extra /\ IsInjective(top)
        /\ \A i \in 1 .. extra : mgr.refcount[top[i]] = 0
    <3> HIDE DEF top
    <3>1. /\ TopBlocks(mgr, extra) \in Seq(Block) /\ Len(TopBlocks(mgr, extra)) = extra
          /\ IsInjective(TopBlocks(mgr, extra))
          /\ \A i \in 1 .. extra : mgr.refcount[TopBlocks(mgr, extra)[i]] = 0
      BY <1>1, <2>2, TopBlocksFree
    <3>2. QED BY <3>1 DEF top
  <2>4. \A r \in DOMAIN mgr.requests :
          Table(e, r) = IF r = id THEN T \o top ELSE Table(mgr, r)
    BY <1>9 DEF Extended, T
  <2> HIDE DEF top
  <2>5. /\ DOMAIN Tables' = DOMAIN Tables /\ id \in DOMAIN Tables /\ Tables[id] = T
        /\ \A q \in DOMAIN Tables \ {id} : Tables'[q] = Tables[q]
        /\ Tables'[id] = T \o top
    BY <1>1, <1>3, <1>4, <2>4, TablesOf DEF T
  <2> DEFINE B == Block \cup {kInvalidBlock}
  <2>6. T \in Seq(B) /\ top \in Seq(B)
    BY <1>5, <2>3
  <2> HIDE DEF B
  <2>7. /\ DOMAIN (T \o top) = 1 .. Len(T) + Len(top)
        /\ \A i \in 1 .. Len(T) : (T \o top)[i] = T[i]
        /\ \A i \in 1 .. Len(top) : (T \o top)[Len(T) + i] = top[i]
        /\ Len(T \o top) = Len(T) + Len(top)
    <3>1. Len(T \o top) = Len(T) + Len(top)
      BY <2>6
    <3>2. QED BY <2>6, <3>1, Concatenation
  <2> DEFINE Z == T \o top
             w == Len(T)
  <2>8. /\ DOMAIN Z = 1 .. w + extra /\ Len(Z) = w + extra
        /\ \A i \in 1 .. w : Z[i] = T[i]
        /\ \A i \in 1 .. extra : Z[w + i] = top[i]
    BY <2>3, <2>7
  <2>9. w \in Nat /\ extra \in Nat /\ extra >= 1
    BY <1>5, <2>1
  <2> HIDE DEF Z, w
  <2>10. \A i \in DOMAIN Z : ~ (i <= w) =>
           \E k \in 1 .. extra : i = w + k
    <3>1. ASSUME NEW i \in 1 .. w + extra, ~ (i <= w) PROVE i - w \in 1 .. extra /\ i = w + (i - w)
      BY <2>9, <3>1
    <3>2. QED BY <2>8, <3>1
  <2>11. ASSUME NEW i \in DOMAIN Z, ~ (i <= w)
         PROVE  /\ Z[i] \in Pool!Blocks
                /\ Pool!Unreferenced(Z[i])
                /\ \A j \in DOMAIN Z : Z[j] = Z[i] => j = i
    <3>1. PICK k \in 1 .. extra : i = w + k
      BY <2>10, <2>11
    <3>2. Z[i] = top[k] /\ k \in DOMAIN top /\ top[k] \in Block /\ mgr.refcount[top[k]] = 0
      BY <2>3, <2>8, <3>1
    <3>3. Pool!Unreferenced(Z[i])
      BY <3>2, CountsSayWho
    <3>4. ASSUME NEW j \in DOMAIN Z, Z[j] = Z[i] PROVE j = i
      <4>1. CASE j <= w
        <5>1. j \in 1 .. w
          BY <2>8, <2>9, <4>1
        <5>2. Table(mgr, id)[j] = top[k] /\ j \in DOMAIN Table(mgr, id)
          BY <1>5, <2>8, <3>2, <3>4, <5>1 DEF T, w
        <5>3. Pool!Named(Z[i])
          BY <1>1, <3>2, <5>2, TablesOf DEF Pool!Named
        <5>4. QED BY <3>3, <5>3 DEF Pool!Unreferenced
      <4>2. CASE ~ (j <= w)
        <5>1. PICK l \in 1 .. extra : j = w + l
          BY <2>10, <4>2
        <5>2. top[l] = top[k] /\ l \in DOMAIN top
          BY <2>3, <2>8, <3>2, <3>4, <5>1
        <5>3. l = k
          BY <2>3, <3>2, <5>2 DEF IsInjective
        <5>4. QED BY <3>1, <5>1, <5>3
      <4>3. QED BY <4>1, <4>2
    <3>5. Z[i] \in Pool!Blocks
      BY <3>2 DEF Pool!Blocks, Block
    <3>6. QED BY <3>3, <3>4, <3>5
  <2>12. Pool!Extend(id)
    <3>1. Tables'[id] = Z /\ Tables[id] = T /\ Len(T) = w
      BY <2>5 DEF Z, w
    <3>2. Len(Z) > w
      BY <2>8, <2>9
    <3>3. \A i \in DOMAIN Z : i <= w => Z[i] = T[i]
      BY <2>8, <2>9
    <3>4. CanCover(mgr, id, n) /\ Len(Z) = BlocksFor(n)
      BY <1>5, <1>6, <2>1, <2>8 DEF CanCover, extra, T, w
    <3>5. Lengths'[id] = n
      BY <1>1, <1>3, <1>4, <3>4, LengthsOf
    <3>6. (Len(Z) - 1) * BlockSize < Lengths'[id] /\ Lengths'[id] <= Len(Z) * BlockSize
      BY <1>6, <3>4, <3>5
    <3>7. QED BY <1>2, <1>7, <2>5, <2>11, <3>1, <3>2, <3>3, <3>6 DEF Pool!Extend
  <2>13. QED BY <2>5, <2>12 DEF Pool!PoolNext
<1>10. QED BY <1>4, <1>8, <1>9

\* reference_block points one entry at a block in use.
LEMMA SharePoints ==
  ASSUME Counted, NEW id \in Live, NEW idx \in 0 .. MaxTable - 1, NEW b \in Block,
         Share(id, idx, b)
  PROVE  Pool!PoolNext
<1> DEFINE T == Table(mgr, id)
           Z == PointedAt(T, idx, b)
           w == Len(T)
<1>1. /\ ManagerOK(mgr) /\ id \in DOMAIN mgr.requests /\ idx \in Nat
      /\ mgr.refcount[b] > 0 /\ EntryAt(Table(mgr, id), idx) # b
      /\ mgr' = ReferenceBlock(mgr, id, idx, b) /\ held' = held
  BY BoundsAssumption
     DEF Counted, Consistent, TypeOK, FreeIffUnreferenced, ManagerOK, Live, Share, Point
<1>2. /\ DOMAIN mgr'.requests = DOMAIN mgr.requests
      /\ \A q \in DOMAIN mgr.requests : Table(mgr', q) = IF q = id THEN Z ELSE Table(mgr, q)
      /\ \A q \in DOMAIN mgr.requests : mgr'.requests[q].seq_len = mgr.requests[q].seq_len
  BY <1>1, ReferenceBlockOK
<1>3. Lengths' = Lengths
  BY <1>2, LengthsKept
<1>4. /\ DOMAIN Tables' = DOMAIN Tables /\ id \in DOMAIN Tables /\ Tables[id] = T
      /\ \A q \in DOMAIN Tables \ {id} : Tables'[q] = Tables[q]
      /\ Tables'[id] = Z
  BY <1>1, <1>2, TablesOf
<1>5. w \in Nat
  BY <1>1 DEF ManagerOK, ManagerTypeOK, Table, RequestBlocks
<1>6. /\ DOMAIN Z = 1 .. (IF idx < w THEN w ELSE idx + 1)
      /\ \A j \in DOMAIN Z : Z[j] = IF j = idx + 1 THEN b ELSE IF j <= w THEN T[j] ELSE -1
      /\ Len(Z) >= w
  <2>1. (IF idx < w THEN w ELSE idx + 1) \in Nat /\ (IF idx < w THEN w ELSE idx + 1) >= w
    BY <1>1, <1>5
  <2>2. QED BY <2>1 DEF PointedAt, kInvalidBlock
<1> HIDE DEF T, Z, w
<1>7. idx + 1 \in DOMAIN Z /\ Z[idx + 1] = b
  BY <1>1, <1>5, <1>6
<1>8. b \in Pool!Blocks /\ ~ Pool!Unreferenced(b)
  BY <1>1, CountsSayWho DEF Pool!Blocks, Block
<1>9. Pool!Point(id)
  <2>1. Len(Tables[id]) = w
    BY <1>4 DEF w
  <2>2. \A j \in DOMAIN Tables'[id] \ {idx + 1} :
          Tables'[id][j] = IF j <= Len(Tables[id]) THEN Tables[id][j] ELSE -1
    BY <1>4, <1>6, <2>1
  <2>3. QED BY <1>1, <1>4, <1>6, <1>7, <1>8, <1>3, <2>1, <2>2 DEF Pool!Point
<1>10. QED BY <1>4, <1>9 DEF Pool!PoolNext

\* The single-block calls take, hold and give up references.
LEMMA BlockCalls ==
  ASSUME Counted, Allocate \/ \E b \in Block : Retain(b) \/ Drop(b)
  PROVE  Pool!PoolNext \/ UNCHANGED <<Tables, Lengths, held>>
<1>1. ManagerOK(mgr) /\ ManagerTypeOK(mgr) /\ held \in [Block -> Nat]
  BY DEF Counted, Consistent, TypeOK, FreeIffUnreferenced, ManagerOK
<1>2. Pool!Blocks = Block
  BY DEF Pool!Blocks, Block
<1>3. CASE Allocate
  <2> DEFINE b == TopBlocks(mgr, 1)[1]
  <2>1. 1 \in 0 .. NumFree(mgr)
    BY <1>1, <1>3 DEF Allocate, NumFree, ManagerTypeOK
  <2>2. /\ TopBlocks(mgr, 1) \in Seq(Block) /\ Len(TopBlocks(mgr, 1)) = 1
        /\ mgr.refcount[b] = 0
        /\ AllocateBlocks(mgr, 1).requests = mgr.requests
    <3>1. /\ TopBlocks(mgr, 1) \in Seq(Block) /\ Len(TopBlocks(mgr, 1)) = 1
          /\ \A i \in 1 .. 1 : mgr.refcount[TopBlocks(mgr, 1)[i]] = 0
      BY <1>1, <2>1, TopBlocksFree
    <3>2. AllocateBlocks(mgr, 1).requests = mgr.requests
      BY <1>1, <2>1, AllocateBlocksOK
    <3>3. 1 \in 1 .. 1
      OBVIOUS
    <3>4. QED BY <3>1, <3>2, <3>3
  <2>3. b \in Block
    BY <2>2
  <2>4. mgr'.requests = mgr.requests /\ held' = [held EXCEPT ![b] = @ + 1]
    BY <1>3, <2>2 DEF Allocate
  <2> HIDE DEF b
  <2>5. Pool!Unreferenced(b)
    BY <2>2, <2>3, CountsSayWho
  <2>6. held' = [held EXCEPT ![b] = 1]
    BY <1>1, <2>3, <2>4, <2>5 DEF Pool!Unreferenced
  <2>7. Pool!TakeFresh(b)
    BY <2>4, <2>5, <2>6, TablesKept DEF Pool!TakeFresh
  <2>8. QED BY <1>2, <2>3, <2>7 DEF Pool!PoolNext
<1>4. ASSUME NEW b \in Block, Retain(b) PROVE Pool!PoolNext
  <2>1. mgr.refcount[b] > 0 /\ held' = [held EXCEPT ![b] = @ + 1]
    BY <1>4 DEF Retain
  <2>2. mgr'.requests = mgr.requests
    BY <1>1, <1>4, <2>1, RetainBlockOK DEF Retain
  <2>3. ~ Pool!Unreferenced(b)
    BY <2>1, CountsSayWho
  <2>4. Pool!Hold(b)
    BY <2>1, <2>2, <2>3, TablesKept DEF Pool!Hold
  <2>5. QED BY <1>2, <2>4 DEF Pool!PoolNext
<1>5. ASSUME NEW b \in Block, Drop(b) PROVE Pool!PoolNext \/ UNCHANGED <<Tables, Lengths, held>>
  <2>1. mgr'.requests = mgr.requests
    <3>1. CASE mgr.refcount[b] <= 0
      BY <1>5, <3>1 DEF Drop, ReleaseBlock
    <3>2. CASE ~ (mgr.refcount[b] <= 0)
      <4>1. mgr.refcount[b] > 0
        BY <1>1, <3>2 DEF ManagerTypeOK
      <4>2. ReleaseBlock(mgr, b).requests = mgr.requests
        BY <1>1, <4>1, ReleaseBlockFields
      <4>3. QED BY <1>5, <4>2 DEF Drop
    <3>3. QED BY <3>1, <3>2
  <2>2. Tables' = Tables /\ Lengths' = Lengths
    BY <2>1, TablesKept
  <2>3. CASE held[b] > 0
    <3>1. Pool!Unhold(b)
      BY <1>5, <2>2, <2>3 DEF Drop, Pool!Unhold
    <3>2. QED BY <1>2, <3>1 DEF Pool!PoolNext
  <2>4. CASE ~ (held[b] > 0)
    BY <1>5, <2>2, <2>4 DEF Drop
  <2>5. QED BY <2>3, <2>4
<1>6. QED BY <1>3, <1>4, <1>5

\* Every step is one of the abstract pool's, or hidden from it.
LEMMA PoolStep ==
  Counted /\ IdsRecycled /\ [Next]_vars => [Pool!PoolNext]_(Pool!poolVars)
<1> SUFFICES ASSUME Counted, IdsRecycled, [Next]_vars
             PROVE  Pool!PoolNext \/ UNCHANGED <<Tables, Lengths, held>>
  BY DEF Pool!poolVars
<1>1. CASE Create
  BY <1>1, CreateOpens
<1>2. ASSUME NEW id \in Live, Release(id) PROVE Pool!PoolNext
  BY <1>2, ReleaseCloses
<1>3. ASSUME NEW id \in Live, NEW n \in 0 .. MaxTokens, Grow(id, n)
      PROVE  Pool!PoolNext \/ UNCHANGED <<Tables, Lengths, held>>
  BY <1>3, GrowExtends
<1>4. ASSUME NEW id \in Live, NEW idx \in 0 .. MaxTable - 1, NEW b \in Block, Share(id, idx, b)
      PROVE  Pool!PoolNext
  BY <1>4, SharePoints
<1>5. CASE Allocate \/ \E b \in Block : Retain(b) \/ Drop(b)
  BY <1>5, BlockCalls
<1>6. CASE UNCHANGED vars
  <2>1. mgr' = mgr /\ held' = held
    BY <1>6 DEF vars
  <2>2. QED BY <2>1, TablesKept
<1>7. QED BY <1>1, <1>2, <1>3, <1>4, <1>5, <1>6 DEF Next

\* The free list and the counts are only a way to know who refers to what:
\* seen from outside, the manager is the abstract pool, which never hands out
\* as fresh a block that a table names or a caller holds.
THEOREM PoolImplemented == Spec => PoolRefined
<1>1. Init => Counted /\ IdsRecycled
  BY InitCounted, InitIds
<1>2. Counted /\ IdsRecycled /\ [Next]_vars => Counted' /\ IdsRecycled'
  BY StepCounted, StepIds DEF Counted
<1>3. Init => Pool!PoolInit
  <2>1. SUFFICES ASSUME Init PROVE Pool!PoolInit
    OBVIOUS
  <2>2. DOMAIN mgr.requests = {} /\ held = [b \in Pool!Blocks |-> 0]
    BY <2>1 DEF Init, InitManager, Pool!Blocks, Block
  <2>3. Tables = [r \in {} |-> <<>>] /\ Lengths = [r \in {} |-> 0]
    BY <2>2 DEF Tables, Lengths, Live
  <2>4. QED BY <2>2, <2>3 DEF Pool!PoolInit
<1>4. QED BY <1>1, <1>2, <1>3, PoolStep, PTL DEF Spec, PoolRefined, Pool!Spec
=============================================================================
