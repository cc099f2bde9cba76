-------------------------- MODULE SchedulerProofs --------------------------
(***************************************************************************)
(* The safety of the scheduler, for every pool, workload and limit on the  *)
(* number of active requests, and under any choice of the requests that    *)
(* end in a step; and of what a step then reads: the pools being laid out  *)
(* without collisions and the scheduler being safe, batched attention      *)
(* reads from the shared pools what the request itself appended.           *)
(***************************************************************************)
EXTENDS PagedDecode, PagedCacheProofs

(* The pool as the scheduler uses it: nobody outside the requests holds a  *)
(* block, none is shared, and no table is padded.                          *)

Unheld == [b \in Block |-> 0]

PoolOK(m) ==
  /\ ManagerOK(m)
  /\ IdsPartitioned(m)
  /\ Accounted(m, Unheld)
  /\ \A b \in Block : m.refcount[b] <= 1
  /\ \A r \in DOMAIN m.requests : Table(m, r) \in Seq(Block)

\* Nobody holds anything.
LEMMA UnheldTyped == Unheld \in [Block -> Nat]
BY DEF Unheld

\* The constructor's state is such a pool.
LEMMA InitPool == PoolOK(InitManager)
<1> DEFINE m == InitManager
<1>1. ManagerOK(m)
  BY InitManagerOK
<1>2. DOMAIN m.requests = {} /\ m.recycled_ids = <<>> /\ m.next_id = 0
      /\ m.refcount = [b \in Block |-> 0]
  BY DEF InitManager
<1> HIDE DEF m
<1>3. IdsPartitioned(m)
  <2>1. ToSet(<<>>) = {} /\ IsInjective(<<>>)
    BY DEF ToSet, IsInjective
  <2>2. 0 .. 0 - 1 = {}
    OBVIOUS
  <2>3. QED BY <1>2, <2>1, <2>2 DEF IdsPartitioned
<1>4. Accounted(m, Unheld)
  <2>1. SUFFICES ASSUME NEW b \in Block
                 PROVE  /\ IsFiniteSet(Slots(m.requests, b))
                        /\ m.refcount[b] = Unheld[b] + Cardinality(Slots(m.requests, b))
    BY DEF Accounted
  <2>2. \A s : s \notin Slots(m.requests, b)
    BY <1>2, SlotsElement
  <2>3. Slots(m.requests, b) = {}
    BY <2>2
  <2>4. QED BY <1>2, <2>3, FS_EmptySet DEF Unheld
<1>5. QED BY <1>1, <1>2, <1>3, <1>4 DEF PoolOK, m

\* create_request hands out an id that is not in use, and no block.
LEMMA CreatePool ==
  ASSUME NEW m, PoolOK(m)
  PROVE  /\ PoolOK(CreateRequest(m))
         /\ FreshId(m) \in Nat /\ FreshId(m) \notin DOMAIN m.requests
         /\ CreateRequest(m).requests =
              [r \in DOMAIN m.requests \cup {FreshId(m)} |->
                 IF r \in DOMAIN m.requests THEN m.requests[r] ELSE NoBlocks]
<1> DEFINE n == CreateRequest(m)
<1>1. ManagerOK(m) /\ IdsPartitioned(m) /\ Accounted(m, Unheld)
  BY DEF PoolOK
<1>2. /\ ManagerOK(n)
      /\ n.requests = [r \in DOMAIN m.requests \cup {FreshId(m)} |->
                         IF r \in DOMAIN m.requests THEN m.requests[r] ELSE NoBlocks]
      /\ n.refcount = m.refcount
  BY <1>1, CreateRequestOK
<1>3. IdsPartitioned(n) /\ Accounted(n, Unheld)
  BY <1>1, CreateIds, CreateAccounted
<1> HIDE DEF n
<1>4. FreshId(m) \in Nat /\ FreshId(m) \notin DOMAIN m.requests
  BY <1>1, FreshIdIsNew
<1>5. \A r \in DOMAIN n.requests : Table(n, r) \in Seq(Block)
  BY <1>2 DEF PoolOK, Table, NoBlocks
<1>6. \A b \in Block : n.refcount[b] <= 1
  BY <1>2 DEF PoolOK
<1>7. PoolOK(n)
  BY <1>2, <1>3, <1>5, <1>6 DEF PoolOK
<1>8. QED BY <1>2, <1>4, <1>7 DEF n

\* Releasing a request gives its blocks back and leaves the others alone.
LEMMA ReleasePool ==
  ASSUME NEW m, PoolOK(m), NEW id \in DOMAIN m.requests
  PROVE  /\ PoolOK(ReleaseRequest(m, id))
         /\ ReleaseRequest(m, id).requests =
              [r \in DOMAIN m.requests \ {id} |-> m.requests[r]]
<1> DEFINE n == ReleaseRequest(m, id)
<1>1. ManagerOK(m) /\ IdsPartitioned(m) /\ Accounted(m, Unheld)
  BY DEF PoolOK
<1>2. ManagerOK(n) /\ n.requests = [r \in DOMAIN m.requests \ {id} |-> m.requests[r]]
  BY <1>1, ReleaseRequestOK
<1>3. IdsPartitioned(n) /\ Accounted(n, Unheld)
  BY <1>1, UnheldTyped, ReleaseIds, ReleaseRequestAccounted
<1> HIDE DEF n
<1>4. \A r \in DOMAIN n.requests : Table(n, r) \in Seq(Block)
  BY <1>2 DEF PoolOK, Table
<1>5. ASSUME NEW b \in Block PROVE n.refcount[b] <= 1
  <2>1. \A s : s \in Slots(n.requests, b) => s \in Slots(m.requests, b)
    <3>1. ASSUME NEW s, s \in Slots(n.requests, b)
          PROVE  s \in Slots(m.requests, b)
      <4>1. PICK r \in DOMAIN n.requests : \E i \in DOMAIN n.requests[r].block_table :
              s = <<r, i>> /\ n.requests[r].block_table[i] = b
        BY <3>1, SlotsElement
      <4>2. r \in DOMAIN m.requests /\ n.requests[r] = m.requests[r]
        BY <1>2
      <4>3. QED BY <4>1, <4>2, SlotsElement
    <3>2. QED BY <3>1
  <2>2. Slots(n.requests, b) \subseteq Slots(m.requests, b)
    BY <2>1
  <2>3. IsFiniteSet(Slots(m.requests, b)) /\ IsFiniteSet(Slots(n.requests, b))
    BY <1>1, <1>3 DEF Accounted
  <2>4. Cardinality(Slots(n.requests, b)) <= Cardinality(Slots(m.requests, b))
    BY <2>2, <2>3, FS_Subset
  <2>5. /\ m.refcount[b] = 0 + Cardinality(Slots(m.requests, b))
        /\ n.refcount[b] = 0 + Cardinality(Slots(n.requests, b))
    BY <1>1, <1>3 DEF Accounted, Unheld
  <2>6. Cardinality(Slots(n.requests, b)) \in Nat /\ Cardinality(Slots(m.requests, b)) \in Nat
    BY <2>3, FS_CardinalityType
  <2>7. m.refcount[b] <= 1
    BY DEF PoolOK
  <2>8. QED BY <2>4, <2>5, <2>6, <2>7
<1>6. PoolOK(n)
  BY <1>2, <1>3, <1>4, <1>5 DEF PoolOK
<1>7. QED BY <1>2, <1>6 DEF n

\* Growth that the pool can cover, followed by a new length: the table has the
\* blocks asked for, or those it had, and no other request notices.
LEMMA GrowPool ==
  ASSUME NEW m, PoolOK(m), NEW id \in DOMAIN m.requests,
         NEW need \in Nat, NEW len \in Nat, CanCover(m, id, need)
  PROVE  LET n == SetSeqLen(EnsureCapacity(m, id, need), id, len)
         IN  /\ PoolOK(n)
             /\ DOMAIN n.requests = DOMAIN m.requests
             /\ \A r \in DOMAIN m.requests : r # id => n.requests[r] = m.requests[r]
             /\ n.requests[id].seq_len = len
             /\ Len(Table(n, id)) = IF BlocksFor(need) <= Len(Table(m, id))
                                    THEN Len(Table(m, id)) ELSE BlocksFor(need)
<1> DEFINE e == EnsureCapacity(m, id, need)
           n == SetSeqLen(e, id, len)
           extra == BlocksFor(need) - Len(Table(m, id))
           T == Table(m, id)
           top == TopBlocks(m, extra)
<1>1. /\ ManagerOK(m) /\ IdsPartitioned(m) /\ Accounted(m, Unheld)
      /\ \A r \in DOMAIN m.requests : Table(m, r) \in Seq(Block)
      /\ \A b \in Block : m.refcount[b] <= 1
      /\ m.requests \in [DOMAIN m.requests -> RequestBlocks]
  BY DEF PoolOK, ManagerOK, ManagerTypeOK
<1>2. Len(T) \in Nat /\ BlocksFor(need) \in Nat /\ extra \in Int
  <2>1. T \in Seq(Block)
    BY <1>1
  <2>2. BlocksFor(need) \in Nat
    BY BlocksForNat
  <2> HIDE DEF T
  <2>3. Len(T) \in Nat
    BY <2>1
  <2>4. extra = BlocksFor(need) - Len(T)
    BY DEF T
  <2>5. QED BY <2>2, <2>3, <2>4
<1>3. /\ ManagerOK(e) /\ DOMAIN e.requests = DOMAIN m.requests
      /\ e.recycled_ids = m.recycled_ids /\ e.next_id = m.next_id
      /\ \/ e = m /\ (extra <= 0 \/ ~ CanCover(m, id, need))
         \/ Extended(m, e, id, extra)
  BY <1>1, EnsureCapacityOK
<1>4. Accounted(e, Unheld) /\ IdsPartitioned(e)
  BY <1>1, <1>3, UnheldTyped, EnsureCapacityAccounted, SameIdsPartitioned DEF SameIds
<1>5. /\ ManagerOK(n) /\ Accounted(n, Unheld)
      /\ n.requests = [e.requests EXCEPT ![id] =
                         [block_table |-> @.block_table, seq_len |-> len]]
      /\ n.refcount = e.refcount
      /\ n.recycled_ids = e.recycled_ids /\ n.next_id = e.next_id
  <2> HIDE DEF e
  <2>1. QED BY <1>3, <1>4, SetSeqLenOK, SetSeqLenAccounted
<1> HIDE DEF n
<1>6. e.requests \in [DOMAIN m.requests -> RequestBlocks]
  BY <1>3 DEF ManagerOK, ManagerTypeOK
<1>7. /\ \A r \in DOMAIN m.requests : r # id => e.requests[r] = m.requests[r]
      /\ Table(e, id) \in Seq(Block)
      /\ Len(Table(e, id)) = IF BlocksFor(need) <= Len(T) THEN Len(T) ELSE BlocksFor(need)
      /\ \A b \in Block : e.refcount[b] <= 1
  <2>1. CASE e = m /\ (extra <= 0 \/ ~ CanCover(m, id, need))
    <3>1. extra <= 0
      BY <2>1
    <3>2. BlocksFor(need) <= Len(T)
      BY <1>2, <3>1
    <3> HIDE DEF T, e
    <3>3. QED BY <1>1, <2>1, <3>2 DEF T
  <2>2. CASE Extended(m, e, id, extra)
    <3> HIDE DEF e
    <3>1. extra \in 0 .. NumFree(m) /\ extra \in Nat /\ extra > 0
      BY <1>1, <2>2 DEF Extended, ManagerOK, ManagerTypeOK, NumFree
    <3>2. /\ top \in Seq(Block) /\ Len(top) = extra
          /\ AllocateBlocks(m, extra).refcount =
               [b \in Block |-> IF b \in ToSet(top) THEN 1 ELSE m.refcount[b]]
      BY <1>1, <3>1, AllocateBlocksOK
    <3>3. \A r \in DOMAIN m.requests :
            /\ Table(e, r) = IF r = id THEN T \o top ELSE Table(m, r)
            /\ e.requests[r].seq_len = m.requests[r].seq_len
      BY <2>2 DEF Extended
    <3>4. e.refcount = AllocateBlocks(m, extra).refcount
      BY <2>2 DEF Extended
    <3>5. ASSUME NEW r \in DOMAIN m.requests, r # id PROVE e.requests[r] = m.requests[r]
      <4>1. e.requests[r] \in RequestBlocks /\ m.requests[r] \in RequestBlocks
        BY <1>1, <1>6
      <4>2. /\ e.requests[r].block_table = m.requests[r].block_table
            /\ e.requests[r].seq_len = m.requests[r].seq_len
        BY <3>3, <3>5 DEF Table
      <4>3. QED BY <4>1, <4>2 DEF RequestBlocks
    <3>6. Table(e, id) = T \o top /\ T \in Seq(Block)
      BY <1>1, <3>3
    <3> HIDE DEF top, T
    <3>7. Table(e, id) \in Seq(Block) /\ Len(Table(e, id)) = Len(T) + Len(top)
      <4>1. T \o top \in Seq(Block) /\ Len(T \o top) = Len(T) + Len(top)
        BY <3>2, <3>6
      <4>2. QED BY <3>6, <4>1
    <3>8. Len(Table(e, id)) = BlocksFor(need) /\ ~ (BlocksFor(need) <= Len(T))
      BY <1>2, <3>1, <3>2, <3>7 DEF T
    <3>9. \A b \in Block : e.refcount[b] <= 1
      BY <1>1, <3>2, <3>4
    <3>10. QED BY <3>5, <3>7, <3>8, <3>9
  <2>3. QED BY <1>3, <2>1, <2>2
<1> HIDE DEF e, T, extra, top
<1>8. /\ DOMAIN n.requests = DOMAIN m.requests
      /\ \A r \in DOMAIN m.requests : r # id => n.requests[r] = m.requests[r]
      /\ n.requests[id].seq_len = len
      /\ Table(n, id) = Table(e, id)
  BY <1>3, <1>5, <1>7 DEF Table
<1>9. \A r \in DOMAIN n.requests : Table(n, r) \in Seq(Block)
  BY <1>1, <1>7, <1>8 DEF Table
<1>10. IdsPartitioned(n)
  BY <1>3, <1>4, <1>5, <1>8, SameIdsPartitioned DEF SameIds
<1>11. PoolOK(n)
  BY <1>5, <1>7, <1>9, <1>10 DEF PoolOK
<1>12. QED BY <1>7, <1>8, <1>11 DEF n, e, T

\* Two entries that name one block are one entry.
LEMMA PoolExclusive ==
  ASSUME NEW m, PoolOK(m), NEW r \in DOMAIN m.requests, NEW q \in DOMAIN m.requests,
         NEW i \in DOMAIN Table(m, r), NEW j \in DOMAIN Table(m, q),
         Table(m, r)[i] = Table(m, q)[j]
  PROVE  r = q /\ i = j
<1> DEFINE b == Table(m, r)[i]
           S == Slots(m.requests, b)
<1>1. b \in Block
  BY DEF PoolOK
<1>2. <<r, i>> \in S /\ <<q, j>> \in S
  BY SlotsElement DEF Table
<1>3. IsFiniteSet(S) /\ Cardinality(S) <= 1
  <2>1. IsFiniteSet(S) /\ m.refcount[b] = Unheld[b] + Cardinality(S) /\ m.refcount[b] <= 1
    BY <1>1 DEF PoolOK, Accounted
  <2>2. Unheld[b] = 0
    BY <1>1 DEF Unheld
  <2>3. Cardinality(S) \in Nat
    BY <2>1, FS_CardinalityType
  <2>4. QED BY <2>1, <2>2, <2>3
<1> HIDE DEF S, b
<1>4. Cardinality(S) \in Nat
  BY <1>3, FS_CardinalityType
<1>5. Cardinality(S) = 1
  BY <1>2, <1>3, <1>4, FS_EmptySet
<1>6. PICK x : S = {x}
  BY <1>3, <1>5, FS_Singleton
<1>7. <<r, i>> = <<q, j>>
  BY <1>2, <1>6
<1>8. QED BY <1>7

\* In such a pool every block is free or is one entry of one table.
LEMMA PoolPartitioned == PoolOK(mgr) => BlocksPartitioned
<1>1. SUFFICES ASSUME PoolOK(mgr), NEW b \in Block
               PROVE  Cardinality(Slots(mgr.requests, b)) =
                        IF b \in ToSet(mgr.free_list) THEN 0 ELSE 1
  BY DEF BlocksPartitioned, PoolOK, ManagerOK
<1>2. /\ IsFiniteSet(Slots(mgr.requests, b))
      /\ mgr.refcount[b] = Unheld[b] + Cardinality(Slots(mgr.requests, b))
      /\ mgr.refcount[b] <= 1
  BY <1>1 DEF PoolOK, Accounted
<1>3. Unheld[b] = 0
  BY DEF Unheld
<1>4. Cardinality(Slots(mgr.requests, b)) \in Nat
  BY <1>2, FS_CardinalityType
<1>5. b \in ToSet(mgr.free_list) <=> mgr.refcount[b] = 0
  BY <1>1 DEF PoolOK, ManagerOK, FreeListExact
<1>6. QED BY <1>2, <1>3, <1>4, <1>5

---------------------------------------------------------------------------
(* The inductive invariant. *)

Entry == [id : Nat, req : Requests, no : Nat]
InService == [req : Requests, produced : Nat, no : Nat]

\* Request id has room for its next token and not a block more.
SlotReserved(m, a, id) ==
  LET len == m.requests[id].seq_len
      n   == Len(Table(m, id))
  IN  /\ len = a[id].req.prompt + a[id].produced
      /\ (n - 1) * BlockSize <= len /\ len < n * BlockSize

\* It has not reached its limit.
Unfinished(a, id) == a[id].produced = 0 \/ a[id].produced < a[id].req.max_new

SchedulerInv ==
  /\ PoolOK(mgr)
  /\ queue \in Seq(Entry)
  /\ active \in [DOMAIN active -> InService]
  /\ active_order \in Seq(Nat)
  /\ LifecycleConsistent
  /\ \A id \in DOMAIN active : SlotReserved(mgr, active, id) /\ Unfinished(active, id)
  /\ stepping \in BOOLEAN
  /\ stepping => view = ViewOf(mgr, active_order)
  /\ submitted \in Nat

\* There is nothing to keep consistent at first.
LEMMA InitScheduler == Init => SchedulerInv
<1> SUFFICES ASSUME Init PROVE SchedulerInv
  OBVIOUS
<1>1. PoolOK(mgr) /\ DOMAIN mgr.requests = {}
  BY InitPool DEF Init, InitManager
<1>2. queue = <<>> /\ active = <<>> /\ active_order = <<>> /\ stepping = FALSE
      /\ submitted = 0
  BY DEF Init
<1>3. DOMAIN queue = {} /\ DOMAIN active = {} /\ DOMAIN active_order = {}
  BY <1>2
<1>4. queue \in Seq(Entry) /\ active_order \in Seq(Nat) /\ active \in [DOMAIN active -> InService]
  BY <1>2, <1>3
<1>5. Queued = {} /\ ToSet(active_order) = {}
  BY <1>3 DEF Queued, ToSet
<1>6. Cardinality(DOMAIN active) <= MaxConcurrent
  BY <1>3, FS_EmptySet, WorkloadAssumption
<1>7. LifecycleConsistent
  BY <1>1, <1>3, <1>5, <1>6 DEF LifecycleConsistent, IsInjective
<1>8. QED BY <1>1, <1>2, <1>3, <1>4, <1>7 DEF SchedulerInv

---------------------------------------------------------------------------
(* prepare_step *)

\* As many as the loop can get past are admitted.
LEMMA NumAdmittedOK ==
  ASSUME SchedulerInv
  PROVE  NumAdmitted \in 0 .. Len(queue) /\ Admissible(NumAdmitted)
<1> DEFINE S == {k \in 0 .. Len(queue) : Admissible(k)}
<1>1. Len(queue) \in Nat
  BY DEF SchedulerInv
<1>2. Admissible(0)
  BY DEF Admissible
<1>3. S # {}
  BY <1>1, <1>2
<1>4. Max(S) \in S
  BY <1>1, <1>3, MaxOf
<1>5. QED BY <1>4 DEF NumAdmitted

\* try_admit_one on request i of the queue.
AdmitOne(m, i) ==
  SetSeqLen(EnsureCapacity(m, queue[i].id, Needed(queue[i])), queue[i].id, queue[i].req.prompt)

\* The recursion of Admitting, unfolded.
LEMMA AdmittingUnfolds ==
  ASSUME Len(queue) \in Nat
  PROVE  /\ Admitting[0] = mgr
         /\ \A i \in 1 .. Len(queue) : Admitting[i] = AdmitOne(Admitting[i - 1], i)
<1> DEFINE L == Len(queue)
           Run(f, k) == f = [i \in 0 .. k |->
                               IF i = 0 THEN mgr ELSE AdmitOne(f[i - 1], i)]
           S == {k \in Nat : \E f : Run(f, k)}
<1>0. Admitting = CHOOSE f : Run(f, L)
  BY DEF Admitting, AdmitOne
<1>1. 0 \in S
  <2>1. Run([i \in 0 .. 0 |-> mgr], 0)
    OBVIOUS
  <2>2. QED BY <2>1
<1>2. \A k \in Nat : k \in S => k + 1 \in S
  <2>1. SUFFICES ASSUME NEW k \in Nat, NEW f, Run(f, k)
                 PROVE  \E g : Run(g, k + 1)
    <3> HIDE DEF Run
    <3>1. QED OBVIOUS
  <2>2. DEFINE g == [i \in 0 .. k + 1 |-> IF i <= k THEN f[i] ELSE AdmitOne(f[k], k + 1)]
  <2>3. ASSUME NEW i \in 0 .. k + 1
        PROVE  g[i] = IF i = 0 THEN mgr ELSE AdmitOne(g[i - 1], i)
    <3>1. CASE i = 0
      BY <2>1, <3>1
    <3>2. CASE i \in 1 .. k
      <4>1. g[i] = f[i] /\ g[i - 1] = f[i - 1]
        BY <3>2
      <4>2. f[i] = AdmitOne(f[i - 1], i)
        BY <2>1, <3>2
      <4>3. QED BY <4>1, <4>2, <3>2
    <3>3. CASE i = k + 1
      BY <3>3
    <3>4. QED BY <3>1, <3>2, <3>3
  <2>4. Run(g, k + 1)
    <3> HIDE DEF g
    <3>1. g = [i \in 0 .. k + 1 |-> g[i]]
      BY DEF g
    <3>2. QED BY <3>1, <2>3
  <2>5. QED BY <2>4
<1>3. \E f : Run(f, L)
  <2> HIDE DEF S
  <2>1. L \in S
    BY <1>1, <1>2, SetInduction
  <2>2. QED BY <2>1 DEF S
<1>4. Run(Admitting, L)
  BY <1>0, <1>3
<1>5. QED BY <1>4

\* After the first i requests of the queue were admitted, they have the blocks
\* they need; the others have none, and the active ones are as they were.
AdmitLoop(m, i) ==
  /\ PoolOK(m)
  /\ DOMAIN m.requests = DOMAIN mgr.requests
  /\ \A r \in DOMAIN active : m.requests[r] = mgr.requests[r]
  /\ \A j \in i + 1 .. Len(queue) : m.requests[queue[j].id] = NoBlocks
  /\ \A j \in 1 .. i :
       /\ m.requests[queue[j].id].seq_len = queue[j].req.prompt
       /\ Len(Table(m, queue[j].id)) = BlocksFor(Needed(queue[j]))

\* One more request admitted.
LEMMA AdmitLoopStep ==
  ASSUME SchedulerInv, NEW m, NEW i \in 1 .. Len(queue), AdmitLoop(m, i - 1),
         CanCover(m, queue[i].id, Needed(queue[i]))
  PROVE  AdmitLoop(AdmitOne(m, i), i)
<1> DEFINE id == queue[i].id
           n == AdmitOne(m, i)
<1>1. Len(queue) \in Nat /\ \A j \in 1 .. Len(queue) : queue[j] \in Entry
  BY DEF SchedulerInv
<1>2. queue[i].req.prompt \in Nat /\ Needed(queue[i]) \in Nat
  <2>1. queue[i] \in Entry
    BY <1>1
  <2>2. queue[i].req \in Requests
    BY <2>1 DEF Entry
  <2>3. queue[i].req.prompt \in Nat
    BY <2>2, WorkloadAssumption DEF Requests
  <2>4. QED BY <2>3 DEF Needed
<1>3. /\ \A j \in 1 .. Len(queue) : queue[j].id \in Queued
      /\ \A j, l \in 1 .. Len(queue) : queue[j].id = queue[l].id => j = l
  BY DEF SchedulerInv, LifecycleConsistent, Queued
<1>4. /\ id \in DOMAIN m.requests /\ id \notin DOMAIN active
      /\ \A r \in DOMAIN active : r \in DOMAIN m.requests
      /\ \A j \in 1 .. Len(queue) : queue[j].id \in DOMAIN m.requests
  BY <1>3 DEF SchedulerInv, LifecycleConsistent, AdmitLoop
<1>5. m.requests[id] = NoBlocks
  BY <1>1 DEF AdmitLoop
<1>6. Len(Table(m, id)) = 0
  BY <1>5 DEF Table, NoBlocks
<1>7. /\ PoolOK(n)
      /\ DOMAIN n.requests = DOMAIN m.requests
      /\ \A r \in DOMAIN m.requests : r # id => n.requests[r] = m.requests[r]
      /\ n.requests[id].seq_len = queue[i].req.prompt
      /\ Len(Table(n, id)) = IF BlocksFor(Needed(queue[i])) <= Len(Table(m, id))
                             THEN Len(Table(m, id)) ELSE BlocksFor(Needed(queue[i]))
  <2> HIDE DEF id
  <2>1. PoolOK(m)
    BY DEF AdmitLoop
  <2>2. n = SetSeqLen(EnsureCapacity(m, id, Needed(queue[i])), id, queue[i].req.prompt)
    BY DEF AdmitOne, id
  <2>3. CanCover(m, id, Needed(queue[i]))
    BY DEF id
  <2> DEFINE need == Needed(queue[i])
             len == queue[i].req.prompt
  <2>4. /\ need \in Nat /\ len \in Nat /\ id \in DOMAIN m.requests
        /\ n = SetSeqLen(EnsureCapacity(m, id, need), id, len) /\ CanCover(m, id, need)
    BY <1>2, <1>4, <2>2, <2>3
  <2> HIDE DEF n, need, len
  <2>5. /\ PoolOK(n)
        /\ DOMAIN n.requests = DOMAIN m.requests
        /\ \A r \in DOMAIN m.requests : r # id => n.requests[r] = m.requests[r]
        /\ n.requests[id].seq_len = len
        /\ Len(Table(n, id)) = IF BlocksFor(need) <= Len(Table(m, id))
                               THEN Len(Table(m, id)) ELSE BlocksFor(need)
    BY <2>1, <2>4, GrowPool
  <2>6. QED BY <2>5 DEF need, len
<1> HIDE DEF n
<1>8. BlocksFor(Needed(queue[i])) \in Nat
  BY <1>2, BlocksForNat
<1>9. Len(Table(n, id)) = BlocksFor(Needed(queue[i]))
  BY <1>6, <1>7, <1>8
<1>10. \A r \in DOMAIN active : n.requests[r] = mgr.requests[r]
  BY <1>4, <1>7 DEF AdmitLoop
<1>11. \A j \in i + 1 .. Len(queue) : n.requests[queue[j].id] = NoBlocks
  <2>1. SUFFICES ASSUME NEW j \in i + 1 .. Len(queue) PROVE n.requests[queue[j].id] = NoBlocks
    OBVIOUS
  <2>2. j \in (i - 1) + 1 .. Len(queue) /\ j \in 1 .. Len(queue) /\ j # i
    BY <1>1
  <2>3. queue[j].id # id
    BY <1>3, <2>2
  <2>4. m.requests[queue[j].id] = NoBlocks
    BY <2>2 DEF AdmitLoop
  <2> HIDE DEF id
  <2>5. n.requests[queue[j].id] = m.requests[queue[j].id]
    BY <1>4, <1>7, <2>2, <2>3
  <2>6. QED BY <2>4, <2>5
<1>12. ASSUME NEW j \in 1 .. i
       PROVE  /\ n.requests[queue[j].id].seq_len = queue[j].req.prompt
              /\ Len(Table(n, queue[j].id)) = BlocksFor(Needed(queue[j]))
  <2>1. CASE j = i
    BY <1>7, <1>9, <2>1
  <2>2. CASE j # i
    <3>1. j \in 1 .. i - 1 /\ j \in 1 .. Len(queue)
      BY <1>1, <2>2
    <3>2. queue[j].id # id
      BY <1>3, <2>2, <3>1
    <3>3. /\ m.requests[queue[j].id].seq_len = queue[j].req.prompt
          /\ Len(Table(m, queue[j].id)) = BlocksFor(Needed(queue[j]))
      BY <3>1 DEF AdmitLoop
    <3> HIDE DEF id
    <3>4. n.requests[queue[j].id] = m.requests[queue[j].id]
      BY <1>4, <1>7, <3>1, <3>2
    <3>5. QED BY <3>3, <3>4 DEF Table
  <2>3. QED BY <2>1, <2>2
<1>13. QED BY <1>7, <1>10, <1>11, <1>12 DEF AdmitLoop, n

\* The whole loop.
LEMMA AdmitLoopOK ==
  ASSUME SchedulerInv, NEW k \in 0 .. Len(queue), Admissible(k)
  PROVE  AdmitLoop(Admitting[k], k)
<1> DEFINE S == {i \in Nat : i <= k => AdmitLoop(Admitting[i], i)}
<1>1. Len(queue) \in Nat
  BY DEF SchedulerInv
<1>2. 0 \in S
  <2>1. \A j \in 0 + 1 .. Len(queue) : mgr.requests[queue[j].id] = NoBlocks
    BY <1>1 DEF SchedulerInv, LifecycleConsistent, Queued
  <2>2. AdmitLoop(mgr, 0)
    BY <2>1 DEF AdmitLoop, SchedulerInv
  <2>3. QED BY <1>1, <2>2, AdmittingUnfolds
<1>3. \A i \in Nat : i \in S => i + 1 \in S
  <2>1. SUFFICES ASSUME NEW i \in Nat, AdmitLoop(Admitting[i], i), i + 1 <= k
                 PROVE  AdmitLoop(Admitting[i + 1], i + 1)
    OBVIOUS
  <2>2. i + 1 \in 1 .. Len(queue) /\ i + 1 \in 1 .. k /\ (i + 1) - 1 = i
    BY <1>1, <2>1
  <2>3. CanCover(Admitting[i], queue[i + 1].id, Needed(queue[i + 1]))
    BY <2>2 DEF Admissible
  <2>4. Admitting[i + 1] = AdmitOne(Admitting[i], i + 1)
    BY <1>1, <2>2, AdmittingUnfolds
  <2>5. QED BY <2>1, <2>2, <2>3, <2>4, AdmitLoopStep
<1> HIDE DEF S
<1>4. k \in S
  BY <1>2, <1>3, SetInduction
<1>5. QED BY <1>4 DEF S

---------------------------------------------------------------------------
(* The view. *)

\* A table is not longer than the pool.
LEMMA TableFits ==
  ASSUME NEW m, PoolOK(m), NEW r \in DOMAIN m.requests
  PROVE  Len(Table(m, r)) \in 0 .. NumBlocks
<1> DEFINE T == Table(m, r)
           n == Len(T)
<1>1. T \in Seq(Block) /\ n \in Nat
  BY DEF PoolOK
<1>2. T \in [1 .. n -> Block]
  BY <1>1
<1>3. \A i, j \in 1 .. n : T[i] = T[j] => i = j
  <2> HIDE DEF n
  <2>1. \A i, j \in DOMAIN T : T[i] = T[j] => i = j
    BY PoolExclusive
  <2>2. QED BY <1>2, <2>1
<1> HIDE DEF T
<1> HIDE DEF n
<1>4. IsFiniteSet(1 .. n) /\ Cardinality(1 .. n) = n
  <2>1. 1 \in Int /\ n \in Int
    BY <1>1
  <2>2. IsFiniteSet(1 .. n) /\ Cardinality(1 .. n) = IF 1 > n THEN 0 ELSE n - 1 + 1
    BY <2>1, FS_Interval
  <2>3. QED BY <1>1, <2>2
<1>5. IsFiniteSet(Block) /\ Cardinality(Block) = NumBlocks
  <2>1. NumBlocks \in Nat /\ 0 \in Int /\ NumBlocks - 1 \in Int
    BY LayoutAssumption
  <2>2. /\ IsFiniteSet(0 .. NumBlocks - 1)
        /\ Cardinality(0 .. NumBlocks - 1) =
             IF 0 > NumBlocks - 1 THEN 0 ELSE (NumBlocks - 1) - 0 + 1
    BY <2>1, FS_Interval
  <2>3. QED BY <2>1, <2>2 DEF Block
<1>6. T \in Injection(1 .. n, Block)
  BY <1>2, <1>3 DEF Injection, IsInjective
<1>7. n <= NumBlocks
  BY <1>4, <1>5, <1>6, FS_Injection DEF ExistsInjection
<1>8. QED BY <1>1, <1>7 DEF T, n

\* The rows of a view are as wide as the longest table, at least.
LEMMA WidestOK ==
  ASSUME NEW m, PoolOK(m), NEW order \in Seq(DOMAIN m.requests)
  PROVE  /\ Widest(m, order) \in 0 .. NumBlocks
         /\ \A i \in DOMAIN order : Len(Table(m, order[i])) <= Widest(m, order)
<1> DEFINE S == {0} \cup {Len(Table(m, order[i])) : i \in DOMAIN order}
<1>1. NumBlocks \in Nat
  BY LayoutAssumption
<1>2. \A i \in DOMAIN order : Len(Table(m, order[i])) \in 0 .. NumBlocks
  <2>1. \A i \in DOMAIN order : order[i] \in DOMAIN m.requests
    OBVIOUS
  <2>2. QED BY <2>1, TableFits
<1>3. S \in SUBSET (0 .. NumBlocks) /\ S # {}
  BY <1>1, <1>2
<1>4. Max(S) \in S /\ \A y \in S : y <= Max(S)
  <2> HIDE DEF S
  <2>1. QED BY <1>1, <1>3, MaxOf
<1>5. Widest(m, order) = Max(S)
  BY DEF Widest
<1>6. \A i \in DOMAIN order : Len(Table(m, order[i])) \in S
  OBVIOUS
<1> HIDE DEF S
<1>7. QED BY <1>3, <1>4, <1>5, <1>6

\* A view depends on the requests of its order only.
LEMMA ViewSame ==
  ASSUME NEW m, PoolOK(m), NEW order \in Seq(DOMAIN m.requests), NEW n,
         \A i \in DOMAIN order : n.requests[order[i]] = m.requests[order[i]]
  PROVE  ViewOf(n, order) = ViewOf(m, order)
<1> DEFINE w == Widest(m, order)
           Cell(x, row, col) == IF col <= Len(Table(x, order[row]))
                                THEN Table(x, order[row])[col] ELSE kInvalidBlock
           At(x, c) == Cell(x, ((c - 1) \div w) + 1, ((c - 1) % w) + 1)
<1>1. \A i \in DOMAIN order : Table(n, order[i]) = Table(m, order[i])
  BY DEF Table
<1>2. {Len(Table(n, order[i])) : i \in DOMAIN order} = {Len(Table(m, order[i])) : i \in DOMAIN order}
  BY <1>1
<1>3. Widest(n, order) = w
  BY <1>2 DEF Widest
<1>4. w \in Nat /\ Len(order) \in Nat /\ DOMAIN order = 1 .. Len(order)
  BY WidestOK, LayoutAssumption
<1> HIDE DEF w
<1>5. ASSUME NEW c \in 1 .. Len(order) * w PROVE At(n, c) = At(m, c)
  <2>1. ((c - 1) \div w) + 1 \in DOMAIN order
    BY <1>4, RowMajor
  <2>2. QED BY <1>1, <2>1
<1>6. [c \in 1 .. Len(order) * w |-> At(n, c)] = [c \in 1 .. Len(order) * w |-> At(m, c)]
  <2> HIDE DEF At
  <2>1. QED BY <1>5
<1>7. [i \in DOMAIN order |-> n.requests[order[i]].seq_len] =
        [i \in DOMAIN order |-> m.requests[order[i]].seq_len]
  OBVIOUS
<1>8. ASSUME NEW x, Widest(x, order) = w
      PROVE  ViewOf(x, order) =
               [ids          |-> order,
                seq_lens     |-> [i \in DOMAIN order |-> x.requests[order[i]].seq_len],
                block_tables |-> [c \in 1 .. Len(order) * w |-> At(x, c)],
                max_blocks   |-> w]
  BY <1>8 DEF ViewOf
<1> HIDE DEF At
<1>9. Widest(m, order) = w
  BY DEF w
<1>10. QED BY <1>3, <1>6, <1>7, <1>8, <1>9

---------------------------------------------------------------------------
(* submit keeps the invariant. *)

\* Who is waiting, with a request more.
LEMMA AppendedQueue ==
  ASSUME NEW q \in Seq(Entry), NEW e \in Entry
  PROVE  /\ Append(q, e) \in Seq(Entry)
         /\ DOMAIN Append(q, e) = DOMAIN q \cup {Len(q) + 1}
         /\ Append(q, e)[Len(q) + 1] = e
         /\ \A i \in DOMAIN q : Append(q, e)[i] = q[i] /\ i # Len(q) + 1
OBVIOUS

\* A submission adds a request that holds nothing to those that wait; those
\* that are active, and the view, are as they were.
LEMMA SubmitInv ==
  ASSUME SchedulerInv, NEW req \in Requests, Submit(req)
  PROVE  SchedulerInv'
<1> DEFINE f == FreshId(mgr)
           e == [id |-> f, req |-> req, no |-> submitted]
<1>1. /\ PoolOK(mgr') /\ f \in Nat /\ f \notin DOMAIN mgr.requests
      /\ mgr'.requests = [r \in DOMAIN mgr.requests \cup {f} |->
                            IF r \in DOMAIN mgr.requests THEN mgr.requests[r] ELSE NoBlocks]
  BY CreatePool DEF SchedulerInv, Submit
<1>2. /\ UNCHANGED <<active, active_order, stepping, view>>
      /\ queue' = Append(queue, e)
  BY DEF Submit
<1>3. e \in Entry
  BY <1>1 DEF Entry, SchedulerInv
<1>4. /\ queue' \in Seq(Entry)
      /\ DOMAIN queue' = DOMAIN queue \cup {Len(queue) + 1}
      /\ queue'[Len(queue) + 1].id = f
      /\ \A i \in DOMAIN queue : queue'[i] = queue[i] /\ i # Len(queue) + 1
  BY <1>2, <1>3, AppendedQueue DEF SchedulerInv
<1> HIDE DEF f, e
<1>5. /\ DOMAIN mgr'.requests = DOMAIN mgr.requests \cup {f}
      /\ mgr'.requests[f] = NoBlocks
      /\ \A r \in DOMAIN mgr.requests : mgr'.requests[r] = mgr.requests[r]
  BY <1>1
<1>6. Queued' = Queued \cup {f}
  BY <1>4 DEF Queued
<1>7. /\ DOMAIN mgr.requests = Queued \cup DOMAIN active
      /\ Queued \cap DOMAIN active = {}
      /\ \A i, j \in DOMAIN queue : queue[i].id = queue[j].id => i = j
      /\ \A id \in Queued : mgr.requests[id] = NoBlocks
      /\ ToSet(active_order) = DOMAIN active
  BY DEF SchedulerInv, LifecycleConsistent
<1>8. \A i \in DOMAIN queue : queue[i].id \in Queued /\ queue[i].id # f
  BY <1>1, <1>7 DEF Queued
<1>9. \A i, j \in DOMAIN queue' : queue'[i].id = queue'[j].id => i = j
  BY <1>4, <1>7, <1>8
<1>10. LifecycleConsistent'
  <2>1. DOMAIN mgr'.requests = Queued' \cup DOMAIN active'
    BY <1>2, <1>5, <1>6, <1>7
  <2>2. Queued' \cap DOMAIN active' = {}
    BY <1>1, <1>2, <1>6, <1>7
  <2>3. \A id \in Queued' : mgr'.requests[id] = NoBlocks
    BY <1>5, <1>6, <1>7
  <2>4. /\ IsInjective(active_order') /\ ToSet(active_order') = DOMAIN active'
        /\ Cardinality(DOMAIN active') <= MaxConcurrent
    BY <1>2 DEF SchedulerInv, LifecycleConsistent
  <2>5. QED BY <1>9, <2>1, <2>2, <2>3, <2>4 DEF LifecycleConsistent
<1>11. ASSUME NEW id \in DOMAIN active'
       PROVE  SlotReserved(mgr', active', id) /\ Unfinished(active', id)
  <2>1. mgr'.requests[id] = mgr.requests[id] /\ active' = active /\ id \in DOMAIN active
    BY <1>2, <1>5, <1>7
  <2>2. SlotReserved(mgr, active, id) /\ Unfinished(active, id)
    BY <2>1 DEF SchedulerInv
  <2>3. QED BY <2>1, <2>2 DEF SlotReserved, Unfinished, Table
<1>12. ViewOf(mgr', active_order') = ViewOf(mgr, active_order)
  <2>1. \A i \in DOMAIN active_order : active_order[i] \in DOMAIN mgr.requests
    BY <1>7 DEF ToSet
  <2>2. active_order \in Seq(DOMAIN mgr.requests)
    <3>1. active_order \in Seq(Nat)
      BY DEF SchedulerInv
    <3>2. QED BY <2>1, <3>1
  <2>3. \A i \in DOMAIN active_order : mgr'.requests[active_order[i]] = mgr.requests[active_order[i]]
    BY <1>5, <2>1
  <2>4. PoolOK(mgr)
    BY DEF SchedulerInv
  <2>5. ViewOf(mgr', active_order) = ViewOf(mgr, active_order)
    BY <2>2, <2>3, <2>4, ViewSame
  <2>6. QED BY <1>2, <2>5
<1>13. /\ active' \in [DOMAIN active' -> InService] /\ active_order' \in Seq(Nat)
       /\ stepping' \in BOOLEAN /\ (stepping' => view' = ViewOf(mgr', active_order'))
       /\ submitted' \in Nat
  BY <1>2, <1>12 DEF SchedulerInv, Submit
<1>14. QED BY <1>1, <1>4, <1>10, <1>11, <1>13 DEF SchedulerInv

---------------------------------------------------------------------------
(* prepare_step keeps the invariant. *)

\* There are at most k of k things.
LEMMA AtMost ==
  ASSUME NEW k \in Nat, NEW f, DOMAIN f = 1 .. k
  PROVE  /\ IsFiniteSet({f[i] : i \in 1 .. k})
         /\ Cardinality({f[i] : i \in 1 .. k}) <= k
         /\ Cardinality({f[i] : i \in 1 .. k}) \in Nat
<1> DEFINE T == {f[i] : i \in 1 .. k}
           g == [i \in 1 .. k |-> f[i]]
<1>1. g \in Surjection(1 .. k, T)
  BY DEF Surjection
<1>2. IsFiniteSet(1 .. k) /\ Cardinality(1 .. k) = k
  BY FS_Interval
<1> HIDE DEF g, T
<1>3. IsFiniteSet(T) /\ Cardinality(T) <= k
  BY <1>1, <1>2, FS_Surjection
<1>4. QED BY <1>3, FS_CardinalityType DEF T

\* The active requests are finitely many.
LEMMA ActiveFinite ==
  ASSUME SchedulerInv
  PROVE  IsFiniteSet(DOMAIN active) /\ Cardinality(DOMAIN active) \in Nat
<1>1. active_order \in Seq(Nat) /\ ToSet(active_order) = DOMAIN active
  BY DEF SchedulerInv, LifecycleConsistent
<1>2. Len(active_order) \in Nat /\ DOMAIN active_order = 1 .. Len(active_order)
  BY <1>1
<1>3. DOMAIN active = {active_order[i] : i \in 1 .. Len(active_order)}
  BY <1>1, <1>2 DEF ToSet
<1>4. QED BY <1>2, <1>3, AtMost

\* The front k of a queue, and the rest.
LEMMA RestOfQueue ==
  ASSUME NEW q \in Seq(Entry), NEW k \in 0 .. Len(q)
  PROVE  /\ SubSeq(q, k + 1, Len(q)) \in Seq(Entry)
         /\ Len(SubSeq(q, k + 1, Len(q))) = Len(q) - k
         /\ DOMAIN SubSeq(q, k + 1, Len(q)) = 1 .. Len(q) - k
         /\ \A j \in 1 .. Len(q) - k : SubSeq(q, k + 1, Len(q))[j] = q[k + j]
         /\ [i \in 1 .. k |-> q[i].id] \in Seq(Nat)
         /\ Len([i \in 1 .. k |-> q[i].id]) = k
<1>1. \A i \in 1 .. k : q[i] \in Entry
  OBVIOUS
<1>2. \A i \in 1 .. k : q[i].id \in Nat
  BY <1>1 DEF Entry
<1>3. QED BY <1>2

\* Everyone admitted gets an entry in active_, its blocks and a place in the
\* order; there is room for all of them among the active requests, and the
\* view is the one of the new order.
LEMMA PrepareInv ==
  ASSUME SchedulerInv, PrepareStep
  PROVE  SchedulerInv'
<1> DEFINE k == NumAdmitted
           m == Admitting[k]
           New == {queue[i].id : i \in 1 .. k}
           tail == [i \in 1 .. k |-> queue[i].id]
<1>1. k \in 0 .. Len(queue) /\ Admissible(k)
  BY NumAdmittedOK
<1>2. /\ mgr' = m
      /\ active' = [id \in DOMAIN active \cup New |->
                      IF id \in DOMAIN active THEN active[id]
                      ELSE [req |-> queue[CHOOSE i \in 1 .. k : queue[i].id = id].req,
                            produced |-> 0,
                            no |-> queue[CHOOSE i \in 1 .. k : queue[i].id = id].no]]
      /\ active_order' = active_order \o tail
      /\ queue' = SubSeq(queue, k + 1, Len(queue))
      /\ view' = ViewOf(mgr', active_order')
      /\ stepping' = TRUE /\ submitted' = submitted
  <2> DEFINE P(l) ==
        /\ mgr' = Admitting[l]
        /\ active' = [id \in DOMAIN active \cup {queue[i].id : i \in 1 .. l} |->
                        IF id \in DOMAIN active THEN active[id]
                        ELSE LET e == queue[CHOOSE i \in 1 .. l : queue[i].id = id]
                             IN  [req |-> e.req, produced |-> 0, no |-> e.no]]
        /\ active_order' = active_order \o [i \in 1 .. l |-> queue[i].id]
        /\ queue' = SubSeq(queue, l + 1, Len(queue))
  <2>1. \E l \in {NumAdmitted} : P(l)
    BY DEF PrepareStep
  <2>2. P(k)
    <3> HIDE DEF P
    <3>1. QED BY <2>1
  <2>3. view' = ViewOf(mgr', active_order') /\ stepping' = TRUE /\ submitted' = submitted
    BY DEF PrepareStep, history
  <2> HIDE DEF k
  <2>4. QED BY <2>2, <2>3
<1>3. AdmitLoop(m, k)
  <2> HIDE DEF k
  <2>1. QED BY <1>1, AdmitLoopOK
<1> HIDE DEF m, k
<1>4. /\ queue \in Seq(Entry) /\ Len(queue) \in Nat /\ DOMAIN queue = 1 .. Len(queue)
      /\ active_order \in Seq(Nat) /\ Len(active_order) \in Nat
      /\ DOMAIN active_order = 1 .. Len(active_order)
      /\ active \in [DOMAIN active -> InService]
      /\ k \in Nat
  BY <1>1 DEF SchedulerInv
<1>5. /\ DOMAIN mgr.requests = Queued \cup DOMAIN active
      /\ Queued \cap DOMAIN active = {}
      /\ \A i, j \in DOMAIN queue : queue[i].id = queue[j].id => i = j
      /\ IsInjective(active_order) /\ ToSet(active_order) = DOMAIN active
      /\ Cardinality(DOMAIN active) <= MaxConcurrent
  BY DEF SchedulerInv, LifecycleConsistent
<1>6. \A i \in 1 .. k : /\ i \in DOMAIN queue /\ queue[i].id \in Queued
                        /\ queue[i].id \notin DOMAIN active /\ queue[i].id \in New
  BY <1>1, <1>4, <1>5 DEF Queued
<1>7. /\ queue' \in Seq(Entry)
      /\ DOMAIN queue' = 1 .. Len(queue) - k
      /\ \A j \in 1 .. Len(queue) - k : queue'[j] = queue[k + j]
      /\ tail \in Seq(Nat) /\ Len(tail) = k
  BY <1>1, <1>2, <1>4, RestOfQueue
<1>8. DOMAIN active' = DOMAIN active \cup New
  BY <1>2
<1>9. \A id \in DOMAIN active : active'[id] = active[id]
  BY <1>2
<1>10. ASSUME NEW i \in 1 .. k
       PROVE  active'[queue[i].id] = [req |-> queue[i].req, produced |-> 0, no |-> queue[i].no]
  <2>1. (CHOOSE j \in 1 .. k : queue[j].id = queue[i].id) = i
    BY <1>5, <1>6
  <2>2. queue[i].id \in New /\ queue[i].id \notin DOMAIN active
    BY <1>6
  <2> HIDE DEF New
  <2>3. QED BY <1>2, <2>1, <2>2
<1>11. ASSUME NEW id \in New PROVE \E i \in 1 .. k : id = queue[i].id
  OBVIOUS
<1>12. active' \in [DOMAIN active' -> InService]
  <2>1. ASSUME NEW id \in DOMAIN active' PROVE active'[id] \in InService
    <3>1. CASE id \in DOMAIN active
      BY <1>4, <1>9, <3>1
    <3>2. CASE id \in New
      <4>1. PICK i \in 1 .. k : id = queue[i].id
        BY <3>2
      <4>2. queue[i] \in Entry
        BY <1>4, <1>6
      <4>3. queue[i].req \in Requests /\ queue[i].no \in Nat
        BY <4>2 DEF Entry
      <4> HIDE DEF New
      <4>4. active'[id] = [req |-> queue[i].req, produced |-> 0, no |-> queue[i].no]
        BY <1>10, <4>1
      <4>5. QED BY <4>3, <4>4 DEF InService
    <3>3. QED BY <1>8, <3>1, <3>2
  <2> HIDE DEF New
  <2>2. active' = [id \in DOMAIN active' |-> active'[id]]
    BY <1>2
  <2>3. QED BY <2>1, <2>2
<1>13. /\ active_order' \in Seq(Nat)
       /\ DOMAIN active_order' = 1 .. Len(active_order) + k
       /\ \A i \in 1 .. Len(active_order) : active_order'[i] = active_order[i]
       /\ \A i \in 1 .. k : active_order'[Len(active_order) + i] = queue[i].id
  <2>1. \A i \in 1 .. k : tail[i] = queue[i].id
    OBVIOUS
  <2> HIDE DEF tail
  <2>2. /\ DOMAIN (active_order \o tail) = 1 .. Len(active_order) + Len(tail)
        /\ \A i \in 1 .. Len(active_order) : (active_order \o tail)[i] = active_order[i]
        /\ \A i \in 1 .. Len(tail) : (active_order \o tail)[Len(active_order) + i] = tail[i]
    <3>1. active_order \in Seq(Nat) /\ tail \in Seq(Nat)
      BY <1>4, <1>7
    <3>2. QED BY <3>1, Concatenation
  <2>3. active_order \o tail \in Seq(Nat)
    BY <1>4, <1>7
  <2>4. QED BY <1>2, <1>7, <2>1, <2>2, <2>3
<1> HIDE DEF tail
<1>14. \A i \in DOMAIN active_order' :
         \/ i \in 1 .. Len(active_order)
         \/ \E j \in 1 .. k : i = Len(active_order) + j
  <2>1. ASSUME NEW i \in DOMAIN active_order', i \notin 1 .. Len(active_order)
        PROVE  \E j \in 1 .. k : i = Len(active_order) + j
    <3>1. i - Len(active_order) \in 1 .. k /\ i = Len(active_order) + (i - Len(active_order))
      BY <1>4, <1>13, <2>1
    <3>2. QED BY <3>1
  <2>2. QED BY <2>1
<1>15. IsInjective(active_order')
  <2>1. SUFFICES ASSUME NEW a \in DOMAIN active_order', NEW b \in DOMAIN active_order',
                        active_order'[a] = active_order'[b]
                 PROVE  a = b
    BY DEF IsInjective
  <2>2. \A i \in 1 .. Len(active_order) : active_order'[i] \in DOMAIN active
    BY <1>4, <1>5, <1>13 DEF ToSet
  <2>3. \A i \in 1 .. k : active_order'[Len(active_order) + i] \notin DOMAIN active
    BY <1>6, <1>13
  <2>4. CASE a \in 1 .. Len(active_order)
    <3>1. b \in 1 .. Len(active_order)
      BY <1>14, <2>1, <2>2, <2>3, <2>4
    <3>2. QED BY <1>4, <1>5, <1>13, <2>1, <2>4, <3>1 DEF IsInjective
  <2>5. CASE a \notin 1 .. Len(active_order)
    <3>1. PICK i \in 1 .. k : a = Len(active_order) + i
      BY <1>14, <2>5
    <3>2. b \notin 1 .. Len(active_order)
      BY <2>1, <2>2, <2>3, <3>1
    <3>3. PICK j \in 1 .. k : b = Len(active_order) + j
      BY <1>14, <3>2
    <3>4. queue[i].id = queue[j].id
      BY <1>13, <2>1, <3>1, <3>3
    <3>5. i = j
      BY <1>5, <1>6, <3>4
    <3>6. QED BY <3>1, <3>3, <3>5
  <2>6. QED BY <2>4, <2>5
<1>16. ToSet(active_order') = DOMAIN active'
  <2>1. ASSUME NEW id \in ToSet(active_order') PROVE id \in DOMAIN active \cup New
    <3>1. PICK i \in DOMAIN active_order' : id = active_order'[i]
      BY <2>1 DEF ToSet
    <3>2. CASE i \in 1 .. Len(active_order)
      BY <1>4, <1>5, <1>13, <3>1, <3>2 DEF ToSet
    <3>3. CASE \E j \in 1 .. k : i = Len(active_order) + j
      <4>1. PICK j \in 1 .. k : i = Len(active_order) + j
        BY <3>3
      <4>2. QED BY <1>6, <1>13, <3>1, <4>1
    <3>4. QED BY <1>14, <3>2, <3>3
  <2>2. ASSUME NEW id \in DOMAIN active PROVE id \in ToSet(active_order')
    <3>1. PICK i \in DOMAIN active_order : id = active_order[i]
      BY <1>5, <2>2 DEF ToSet
    <3>2. i \in 1 .. Len(active_order) /\ i \in DOMAIN active_order'
      BY <1>4, <1>13, <3>1
    <3>3. QED BY <1>13, <3>1, <3>2 DEF ToSet
  <2>3. ASSUME NEW id \in New PROVE id \in ToSet(active_order')
    <3>1. PICK i \in 1 .. k : id = queue[i].id
      BY <2>3
    <3>2. Len(active_order) + i \in DOMAIN active_order'
      BY <1>4, <1>13, <3>1
    <3>3. QED BY <1>13, <3>1, <3>2 DEF ToSet
  <2> HIDE DEF New
  <2>4. QED BY <1>8, <2>1, <2>2, <2>3
<1>17. Cardinality(DOMAIN active') <= MaxConcurrent
  <2>1. IsFiniteSet(DOMAIN active) /\ Cardinality(DOMAIN active) \in Nat
    BY ActiveFinite
  <2>2. IsFiniteSet(New) /\ Cardinality(New) <= k /\ Cardinality(New) \in Nat
    <3> DEFINE f == [i \in 1 .. k |-> queue[i].id]
    <3>1. /\ IsFiniteSet({f[i] : i \in 1 .. k}) /\ Cardinality({f[i] : i \in 1 .. k}) <= k
          /\ Cardinality({f[i] : i \in 1 .. k}) \in Nat
      BY <1>4, AtMost
    <3>2. {f[i] : i \in 1 .. k} = New
      OBVIOUS
    <3> HIDE DEF f, New
    <3>3. QED BY <3>1, <3>2
  <2>3. CASE k = 0
    <3>1. New = {}
      BY <2>3
    <3>2. DOMAIN active' = DOMAIN active
      BY <1>8, <3>1
    <3>3. QED BY <1>5, <3>2
  <2>4. CASE k > 0
    <3>1. Cardinality(DOMAIN active) + k - 1 < MaxConcurrent
      BY <1>1, <1>4, <2>4 DEF Admissible
    <3> HIDE DEF New
    <3>2. IsFiniteSet(DOMAIN active \cap New) /\ Cardinality(DOMAIN active \cap New) \in Nat
      BY <2>1, FS_Subset, FS_CardinalityType
    <3>3. Cardinality(DOMAIN active \cup New) =
            Cardinality(DOMAIN active) + Cardinality(New) - Cardinality(DOMAIN active \cap New)
      BY <2>1, <2>2, FS_Union
    <3>4. QED BY <1>4, <1>8, <2>1, <2>2, <3>1, <3>2, <3>3, WorkloadAssumption
  <2>5. QED BY <1>4, <2>3, <2>4
<1>18. /\ \A id \in Queued' : \E j \in 1 .. Len(queue) - k : k + j \in DOMAIN queue
                                                             /\ id = queue[k + j].id
       /\ \A j \in 1 .. Len(queue) - k : queue[k + j].id \in Queued'
  <2>1. \A j \in 1 .. Len(queue) - k : k + j \in DOMAIN queue
    BY <1>4
  <2>2. Queued' = {queue'[j].id : j \in 1 .. Len(queue) - k}
    BY <1>7 DEF Queued
  <2> HIDE DEF New
  <2>3. QED BY <1>7, <2>1, <2>2
<1>19. LifecycleConsistent'
  <2>1. DOMAIN mgr'.requests = DOMAIN mgr.requests
    BY <1>2, <1>3 DEF AdmitLoop
  <2>2. ASSUME NEW id \in Queued PROVE id \in Queued' \cup New
    <3>1. PICK i \in DOMAIN queue : id = queue[i].id
      BY <2>2 DEF Queued
    <3>2. CASE i <= k
      BY <1>4, <3>1, <3>2
    <3>3. CASE i > k
      <4>1. i - k \in 1 .. Len(queue) - k /\ k + (i - k) = i
        BY <1>4, <3>1, <3>3
      <4>2. QED BY <1>18, <3>1, <4>1
    <3>4. QED BY <1>4, <3>1, <3>2, <3>3
  <2>3. ASSUME NEW id \in Queued'
        PROVE  /\ id \in Queued /\ id \notin New /\ mgr'.requests[id] = NoBlocks
    <3>1. PICK j \in 1 .. Len(queue) - k : k + j \in DOMAIN queue /\ id = queue[k + j].id
      BY <1>18
    <3>2. id \in Queued
      BY <3>1 DEF Queued
    <3>3. id \notin New
      <4>1. SUFFICES ASSUME NEW i \in 1 .. k, id = queue[i].id PROVE FALSE
        BY <1>11
      <4>2. i = k + j
        BY <1>5, <1>6, <3>1, <4>1
      <4>3. QED BY <1>4, <3>1, <4>1, <4>2
    <3>4. k + j \in k + 1 .. Len(queue)
      BY <1>4, <3>1
    <3>5. m.requests[queue[k + j].id] = NoBlocks
      BY <1>3, <3>4 DEF AdmitLoop
    <3>6. QED BY <1>2, <3>1, <3>2, <3>3, <3>5
  <2>4. \A id \in New : id \in Queued
    BY <1>6, <1>11
  <2> HIDE DEF New
  <2>5. DOMAIN mgr'.requests = Queued' \cup DOMAIN active'
    BY <1>5, <1>8, <2>1, <2>2, <2>3, <2>4
  <2>6. Queued' \cap DOMAIN active' = {}
    BY <1>5, <1>8, <2>3
  <2>7. ASSUME NEW i \in DOMAIN queue', NEW j \in DOMAIN queue', queue'[i].id = queue'[j].id
        PROVE  i = j
    <3>1. k + i \in DOMAIN queue /\ k + j \in DOMAIN queue /\ queue[k + i].id = queue[k + j].id
      BY <1>4, <1>7, <2>7
    <3>2. k + i = k + j
      BY <1>5, <3>1
    <3>3. QED BY <1>4, <1>7, <2>7, <3>2
  <2>8. QED BY <1>15, <1>16, <1>17, <2>3, <2>5, <2>6, <2>7 DEF LifecycleConsistent
<1>20. ASSUME NEW id \in DOMAIN active'
       PROVE  SlotReserved(mgr', active', id) /\ Unfinished(active', id)
  <2>1. CASE id \in DOMAIN active
    <3>1. m.requests[id] = mgr.requests[id]
      BY <1>3, <2>1 DEF AdmitLoop
    <3>2. SlotReserved(mgr, active, id) /\ Unfinished(active, id)
      BY <2>1 DEF SchedulerInv
    <3>3. active'[id] = active[id]
      BY <1>9, <2>1
    <3>4. QED BY <1>2, <3>1, <3>2, <3>3 DEF SlotReserved, Unfinished, Table
  <2>2. CASE id \in New
    <3>1. PICK i \in 1 .. k : id = queue[i].id
      BY <2>2
    <3>2. /\ m.requests[id].seq_len = queue[i].req.prompt
          /\ Len(Table(m, id)) = BlocksFor(Needed(queue[i]))
      BY <1>3, <3>1 DEF AdmitLoop
    <3>3. active'[id] = [req |-> queue[i].req, produced |-> 0, no |-> queue[i].no]
      BY <1>10, <3>1
    <3>4. queue[i].req.prompt \in Nat
      <4>1. queue[i] \in Entry
        BY <1>4, <1>6
      <4>2. queue[i].req \in Requests
        BY <4>1 DEF Entry
      <4>3. QED BY <4>2, WorkloadAssumption DEF Requests
    <3> DEFINE p == queue[i].req.prompt
               n == BlocksFor(p + 1)
    <3>5. /\ m.requests[id].seq_len = p /\ Len(Table(m, id)) = n
          /\ active'[id].req.prompt = p /\ active'[id].produced = 0
      BY <3>2, <3>3 DEF Needed
    <3> HIDE DEF p
    <3>6. p \in Nat
      BY <3>4 DEF p
    <3>7. n \in Nat /\ n * BlockSize >= p + 1 /\ (n - 1) * BlockSize < p + 1
      BY <3>6, BlocksForNat, BlocksForTight
    <3> HIDE DEF n
    <3>8. n * BlockSize \in Nat /\ (n - 1) * BlockSize \in Int
      BY <3>7, LayoutAssumption
    <3>9. p = p + 0 /\ (n - 1) * BlockSize <= p /\ p < n * BlockSize
      BY <3>6, <3>7, <3>8
    <3>10. SlotReserved(mgr', active', id)
      BY <1>2, <3>5, <3>9 DEF SlotReserved
    <3>11. Unfinished(active', id)
      BY <3>5 DEF Unfinished
    <3>12. QED BY <3>10, <3>11
  <2> HIDE DEF New
  <2>3. QED BY <1>8, <2>1, <2>2
<1>21. PoolOK(mgr')
  BY <1>2, <1>3 DEF AdmitLoop
<1>22. submitted' \in Nat
  BY <1>2 DEF SchedulerInv
<1>23. stepping' \in BOOLEAN /\ view' = ViewOf(mgr', active_order')
  BY <1>2
<1>24. QED BY <1>7, <1>12, <1>13, <1>19, <1>20, <1>21, <1>22, <1>23 DEF SchedulerInv

---------------------------------------------------------------------------
(* commit_step *)

\* The loop's body on request i of the order.
CommitOne(completed, s, i) ==
  LET id  == active_order[i]
      eos == id \in completed
  IN  IF id \notin DOMAIN s.active THEN s
      ELSE IF Ends(s, id, eos) THEN End(s, id, eos)
      ELSE Continue(s, id)

CommitStart == [mgr |-> mgr, active |-> active, generated |-> generated,
                survivors |-> <<>>, finished |-> finished]

\* The recursion of Committing, unfolded.
LEMMA CommittingUnfolds ==
  ASSUME Len(active_order) \in Nat, NEW completed
  PROVE  /\ Committing(completed)[0] = CommitStart
         /\ \A i \in 1 .. Len(active_order) :
              Committing(completed)[i] = CommitOne(completed, Committing(completed)[i - 1], i)
<1> DEFINE L == Len(active_order)
           C == Committing(completed)
           Run(f, k) == f = [i \in 0 .. k |->
                               IF i = 0 THEN CommitStart ELSE CommitOne(completed, f[i - 1], i)]
           S == {k \in Nat : \E f : Run(f, k)}
<1>0. C = CHOOSE f : Run(f, L)
  BY DEF Committing, CommitOne, CommitStart
<1>1. 0 \in S
  <2>1. Run([i \in 0 .. 0 |-> CommitStart], 0)
    OBVIOUS
  <2>2. QED BY <2>1
<1>2. \A k \in Nat : k \in S => k + 1 \in S
  <2>1. SUFFICES ASSUME NEW k \in Nat, NEW f, Run(f, k)
                 PROVE  \E g : Run(g, k + 1)
    <3> HIDE DEF Run
    <3>1. QED OBVIOUS
  <2>2. DEFINE g == [i \in 0 .. k + 1 |->
                       IF i <= k THEN f[i] ELSE CommitOne(completed, f[k], k + 1)]
  <2>3. ASSUME NEW i \in 0 .. k + 1
        PROVE  g[i] = IF i = 0 THEN CommitStart ELSE CommitOne(completed, g[i - 1], i)
    <3>1. CASE i = 0
      BY <2>1, <3>1
    <3>2. CASE i \in 1 .. k
      <4>1. g[i] = f[i] /\ g[i - 1] = f[i - 1]
        BY <3>2
      <4>2. f[i] = CommitOne(completed, f[i - 1], i)
        BY <2>1, <3>2
      <4>3. QED BY <4>1, <4>2, <3>2
    <3>3. CASE i = k + 1
      BY <3>3
    <3>4. QED BY <3>1, <3>2, <3>3
  <2>4. Run(g, k + 1)
    <3> HIDE DEF g
    <3>1. g = [i \in 0 .. k + 1 |-> g[i]]
      BY DEF g
    <3>2. QED BY <3>1, <2>3
  <2>5. QED BY <2>4
<1>3. \E f : Run(f, L)
  <2> HIDE DEF S
  <2>1. L \in S
    BY <1>1, <1>2, SetInduction
  <2>2. QED BY <2>1 DEF S
<1>4. Run(C, L)
  BY <1>0, <1>3
<1>5. QED BY <1>4

\* After i requests of the order: the survivors among them go on, with a token
\* more; the later ones are active and untouched; all the rest are gone.
CommitLoop(s, i) ==
  /\ PoolOK(s.mgr)
  /\ s.survivors \in Seq(Nat) /\ IsInjective(s.survivors)
  /\ ToSet(s.survivors) \subseteq {active_order[j] : j \in 1 .. i}
  /\ DOMAIN s.active = ToSet(s.survivors) \cup {active_order[j] : j \in i + 1 .. Len(active_order)}
  /\ DOMAIN s.mgr.requests = Queued \cup DOMAIN s.active
  /\ \A id \in Queued : s.mgr.requests[id] = NoBlocks
  /\ \A id \in DOMAIN s.active :
       /\ SlotReserved(s.mgr, s.active, id) /\ Unfinished(s.active, id)
       /\ s.active[id] = IF id \in ToSet(s.survivors)
                         THEN [active[id] EXCEPT !.produced = @ + 1] ELSE active[id]
  /\ s.active \in [DOMAIN s.active -> InService]

\* An element more at the end of a sequence without repetitions.
LEMMA AppendNew ==
  ASSUME NEW q \in Seq(Nat), IsInjective(q), NEW x \in Nat, x \notin ToSet(q)
  PROVE  /\ Append(q, x) \in Seq(Nat)
         /\ IsInjective(Append(q, x))
         /\ ToSet(Append(q, x)) = ToSet(q) \cup {x}
<1> DEFINE p == Append(q, x)
           n == Len(q)
<1>1. n \in Nat /\ DOMAIN q = 1 .. n
  OBVIOUS
<1>2. p \in Seq(Nat) /\ DOMAIN p = 1 .. n + 1 /\ p[n + 1] = x
  OBVIOUS
<1>3. \A i \in 1 .. n : p[i] = q[i] /\ i \in 1 .. n + 1
  OBVIOUS
<1>4. \A i \in 1 .. n : q[i] # x
  BY <1>1 DEF ToSet
<1>5. n + 1 \in 1 .. n + 1 /\ \A i \in 1 .. n + 1 : i \in 1 .. n \/ i = n + 1
  BY <1>1
<1> HIDE DEF p, n
<1>6. IsInjective(p)
  BY <1>1, <1>2, <1>3, <1>4, <1>5 DEF IsInjective
<1>7. \A y : y \in ToSet(p) <=> y \in ToSet(q) \/ y = x
  BY <1>1, <1>2, <1>3, <1>5 DEF ToSet
<1>8. QED BY <1>2, <1>6, <1>7 DEF p

\* Room for the next token is kept by growing for the one after it.
LEMMA SlotKept ==
  ASSUME NEW len \in Nat, NEW n \in Nat, NEW x \in Nat,
         (n - 1) * BlockSize <= len, len < n * BlockSize,
         x = IF BlocksFor(len + 2) <= n THEN n ELSE BlocksFor(len + 2)
  PROVE  (x - 1) * BlockSize <= len + 1 /\ len + 1 < x * BlockSize
<1> DEFINE b == BlocksFor(len + 2)
<1>1. b \in Nat /\ b * BlockSize >= len + 2 /\ (b - 1) * BlockSize < len + 2
  BY BlocksForNat, BlocksForTight
<1>2. x = IF b <= n THEN n ELSE b
  OBVIOUS
<1> HIDE DEF b
<1>3. BlockSize \in Nat
  BY LayoutAssumption
<1>4. CASE b <= n
  <2>1. PICK k \in Nat : n = b + k
    <3>1. n - b \in Nat /\ n = b + (n - b)
      BY <1>1, <1>4
    <3>2. QED BY <3>1
  <2>2. n * BlockSize = b * BlockSize + k * BlockSize
    BY <1>1, <1>3, <2>1
  <2>3. k * BlockSize \in Nat /\ b * BlockSize \in Nat /\ (n - 1) * BlockSize \in Int
    BY <1>1, <1>3, <2>1
  <2>4. x = n
    BY <1>2, <1>4
  <2>5. QED BY <1>1, <2>2, <2>3, <2>4
<1>5. CASE ~ (b <= n)
  <2>1. x = b /\ (b - 1) * BlockSize \in Int /\ b * BlockSize \in Nat
    BY <1>1, <1>2, <1>3, <1>5
  <2>2. QED BY <1>1, <2>1
<1>6. QED BY <1>4, <1>5

\* The request at place i of the order parts those before it from those after.
LEMMA OrderSplits ==
  ASSUME SchedulerInv, NEW i \in 1 .. Len(active_order)
  PROVE  LET id == active_order[i]
         IN  /\ id \notin {active_order[j] : j \in 1 .. i - 1}
             /\ id \notin {active_order[j] : j \in i + 1 .. Len(active_order)}
             /\ {active_order[j] : j \in i .. Len(active_order)} =
                  {id} \cup {active_order[j] : j \in i + 1 .. Len(active_order)}
             /\ {active_order[j] : j \in 1 .. i} = {active_order[j] : j \in 1 .. i - 1} \cup {id}
<1> DEFINE id == active_order[i]
           n == Len(active_order)
<1>1. /\ active_order \in Seq(Nat) /\ n \in Nat /\ DOMAIN active_order = 1 .. n
      /\ IsInjective(active_order)
  BY DEF SchedulerInv, LifecycleConsistent
<1> HIDE DEF n
<1>2. i \in 1 .. n
  BY DEF n
<1>3. \A j \in 1 .. n : active_order[j] = id => j = i
  BY <1>1, <1>2 DEF IsInjective
<1>4. i \in Nat /\ (\A j \in 1 .. i - 1 : j \in 1 .. n /\ j # i)
      /\ (\A j \in i + 1 .. n : j \in 1 .. n /\ j # i)
  BY <1>1, <1>2
<1>5. id \notin {active_order[j] : j \in 1 .. i - 1} /\ id \notin {active_order[j] : j \in i + 1 .. n}
  BY <1>3, <1>4
<1>6. i .. n = {i} \cup (i + 1 .. n) /\ 1 .. i = (1 .. i - 1) \cup {i}
  BY <1>1, <1>2
<1>7. /\ {active_order[j] : j \in i .. n} = {id} \cup {active_order[j] : j \in i + 1 .. n}
      /\ {active_order[j] : j \in 1 .. i} = {active_order[j] : j \in 1 .. i - 1} \cup {id}
  BY <1>6
<1>8. QED BY <1>5, <1>7 DEF n

\* What the body finds when it comes to request i.
LEMMA CommitLoopNext ==
  ASSUME SchedulerInv, NEW s, NEW i \in 1 .. Len(active_order), CommitLoop(s, i - 1)
  PROVE  LET id == active_order[i]
         IN  /\ id \in Nat /\ id \in DOMAIN s.active /\ id \in DOMAIN s.mgr.requests
             /\ id \notin ToSet(s.survivors) /\ id \notin Queued
             /\ s.active[id] = active[id] /\ active[id] \in InService
<1> DEFINE id == active_order[i]
           Before == {active_order[j] : j \in 1 .. i - 1}
           From == {active_order[j] : j \in i .. Len(active_order)}
<1>1. /\ active_order \in Seq(Nat) /\ i \in DOMAIN active_order
      /\ ToSet(active_order) = DOMAIN active
      /\ Queued \cap DOMAIN active = {}
      /\ active \in [DOMAIN active -> InService]
  BY DEF SchedulerInv, LifecycleConsistent
<1>2. id \in Nat /\ id \in DOMAIN active /\ id \notin Queued
  BY <1>1 DEF ToSet
<1>3. id \notin Before /\ id \in From
  BY OrderSplits
<1>4. (i - 1) + 1 = i
  OBVIOUS
<1>5. /\ ToSet(s.survivors) \subseteq Before
      /\ DOMAIN s.active = ToSet(s.survivors) \cup From
  BY <1>4 DEF CommitLoop
<1> HIDE DEF Before, From
<1>6. id \notin ToSet(s.survivors) /\ id \in DOMAIN s.active
  BY <1>3, <1>5
<1>7. id \in DOMAIN s.mgr.requests /\ s.active[id] = active[id]
  BY <1>6 DEF CommitLoop
<1>8. active[id] \in InService
  BY <1>1, <1>2
<1>9. QED BY <1>2, <1>6, <1>7, <1>8

\* A request that ends is gone, with its blocks.
LEMMA EndLoop ==
  ASSUME SchedulerInv, NEW s, NEW i \in 1 .. Len(active_order), CommitLoop(s, i - 1), NEW eos
  PROVE  CommitLoop(End(s, active_order[i], eos), i)
<1> DEFINE id == active_order[i]
           n == End(s, id, eos)
           Before == {active_order[j] : j \in 1 .. i - 1}
           Upto == {active_order[j] : j \in 1 .. i}
           From == {active_order[j] : j \in i .. Len(active_order)}
           After == {active_order[j] : j \in i + 1 .. Len(active_order)}
<1>1. /\ id \in DOMAIN s.active /\ id \in DOMAIN s.mgr.requests
      /\ id \notin ToSet(s.survivors) /\ id \notin Queued /\ id \notin After
      /\ From = {id} \cup After /\ Upto = Before \cup {id}
  <2> HIDE DEF n
  <2>1. /\ id \in DOMAIN s.active /\ id \in DOMAIN s.mgr.requests
        /\ id \notin ToSet(s.survivors) /\ id \notin Queued
    BY CommitLoopNext
  <2>2. id \notin After /\ From = {id} \cup After /\ Upto = Before \cup {id}
    BY OrderSplits
  <2>3. QED BY <2>1, <2>2
<1>2. i \in Int /\ (i - 1) + 1 = i
  OBVIOUS
<1>3. /\ PoolOK(s.mgr)
      /\ s.survivors \in Seq(Nat) /\ IsInjective(s.survivors)
      /\ ToSet(s.survivors) \subseteq Before
      /\ DOMAIN s.active = ToSet(s.survivors) \cup From
      /\ DOMAIN s.mgr.requests = Queued \cup DOMAIN s.active
      /\ \A q \in Queued : s.mgr.requests[q] = NoBlocks
      /\ \A q \in DOMAIN s.active :
           /\ SlotReserved(s.mgr, s.active, q) /\ Unfinished(s.active, q)
           /\ s.active[q] = IF q \in ToSet(s.survivors)
                            THEN [active[q] EXCEPT !.produced = @ + 1] ELSE active[q]
      /\ s.active \in [DOMAIN s.active -> InService]
  BY <1>2 DEF CommitLoop
<1>4. /\ n.mgr = ReleaseRequest(s.mgr, id) /\ n.survivors = s.survivors
      /\ n.active = [q \in DOMAIN s.active \ {id} |-> s.active[q]]
  BY DEF End, Restrict
<1> HIDE DEF n, id, Before, Upto, From, After
<1>5. /\ PoolOK(n.mgr)
      /\ n.mgr.requests = [q \in DOMAIN s.mgr.requests \ {id} |-> s.mgr.requests[q]]
  <2>1. /\ PoolOK(ReleaseRequest(s.mgr, id))
        /\ ReleaseRequest(s.mgr, id).requests =
             [q \in DOMAIN s.mgr.requests \ {id} |-> s.mgr.requests[q]]
    BY <1>1, <1>3, ReleasePool
  <2>2. QED BY <1>4, <2>1
<1>6. DOMAIN n.active = DOMAIN s.active \ {id} /\ \A q \in DOMAIN n.active : n.active[q] = s.active[q]
  BY <1>4
<1>7. DOMAIN n.active = ToSet(n.survivors) \cup After
  BY <1>1, <1>3, <1>4, <1>6
<1>8. /\ DOMAIN n.mgr.requests = DOMAIN s.mgr.requests \ {id}
      /\ \A q \in DOMAIN n.mgr.requests : n.mgr.requests[q] = s.mgr.requests[q]
  BY <1>5
<1>9. DOMAIN n.mgr.requests = Queued \cup DOMAIN n.active
  BY <1>1, <1>3, <1>6, <1>8
<1>10. \A q \in Queued : n.mgr.requests[q] = NoBlocks
  BY <1>3, <1>8, <1>9
<1>11. ASSUME NEW q \in DOMAIN n.active
       PROVE  /\ SlotReserved(n.mgr, n.active, q) /\ Unfinished(n.active, q)
              /\ n.active[q] = IF q \in ToSet(n.survivors)
                               THEN [active[q] EXCEPT !.produced = @ + 1] ELSE active[q]
  <2>1. q \in DOMAIN s.active /\ n.active[q] = s.active[q] /\ n.mgr.requests[q] = s.mgr.requests[q]
    BY <1>6, <1>8, <1>9
  <2>2. SlotReserved(s.mgr, s.active, q) /\ Unfinished(s.active, q)
    BY <1>3, <2>1
  <2>3. SlotReserved(n.mgr, n.active, q) /\ Unfinished(n.active, q)
    BY <2>1, <2>2 DEF SlotReserved, Unfinished, Table
  <2>4. QED BY <1>3, <1>4, <2>1, <2>3
<1>12. ToSet(n.survivors) \subseteq Upto
  BY <1>1, <1>3, <1>4
<1>13. n.active \in [DOMAIN n.active -> InService]
  BY <1>3, <1>4, <1>6
<1>14. n.survivors \in Seq(Nat) /\ IsInjective(n.survivors)
  BY <1>3, <1>4
<1>15. CommitLoop(n, i)
  BY <1>5, <1>7, <1>9, <1>10, <1>11, <1>12, <1>13, <1>14 DEF CommitLoop, Upto, After
<1>16. QED BY <1>15 DEF n, id

\* One that goes on has a token more, and room for the next.
LEMMA ContinueLoop ==
  ASSUME SchedulerInv, NEW s, NEW i \in 1 .. Len(active_order), CommitLoop(s, i - 1),
         NEW eos, ~ Ends(s, active_order[i], eos)
  PROVE  CommitLoop(Continue(s, active_order[i]), i)
<1> DEFINE id == active_order[i]
           n == Continue(s, id)
           Before == {active_order[j] : j \in 1 .. i - 1}
           Upto == {active_order[j] : j \in 1 .. i}
           From == {active_order[j] : j \in i .. Len(active_order)}
           After == {active_order[j] : j \in i + 1 .. Len(active_order)}
           len == s.mgr.requests[id].seq_len
           cells == Len(Table(s.mgr, id))
<1>1. /\ id \in DOMAIN s.active /\ id \in DOMAIN s.mgr.requests /\ id \in Nat
      /\ id \notin ToSet(s.survivors) /\ id \notin Queued /\ id \notin After
      /\ From = {id} \cup After /\ Upto = Before \cup {id}
      /\ s.active[id] = active[id] /\ active[id] \in InService
  <2> HIDE DEF n, len, cells
  <2>1. /\ id \in DOMAIN s.active /\ id \in DOMAIN s.mgr.requests /\ id \in Nat
        /\ id \notin ToSet(s.survivors) /\ id \notin Queued
        /\ s.active[id] = active[id] /\ active[id] \in InService
    BY CommitLoopNext
  <2>2. id \notin After /\ From = {id} \cup After /\ Upto = Before \cup {id}
    BY OrderSplits
  <2>3. QED BY <2>1, <2>2
<1>2. i \in Int /\ (i - 1) + 1 = i
  OBVIOUS
<1>3. /\ PoolOK(s.mgr)
      /\ s.survivors \in Seq(Nat) /\ IsInjective(s.survivors)
      /\ ToSet(s.survivors) \subseteq Before
      /\ DOMAIN s.active = ToSet(s.survivors) \cup From
      /\ DOMAIN s.mgr.requests = Queued \cup DOMAIN s.active
      /\ \A q \in Queued : s.mgr.requests[q] = NoBlocks
      /\ \A q \in DOMAIN s.active :
           /\ SlotReserved(s.mgr, s.active, q) /\ Unfinished(s.active, q)
           /\ s.active[q] = IF q \in ToSet(s.survivors)
                            THEN [active[q] EXCEPT !.produced = @ + 1] ELSE active[q]
      /\ s.active \in [DOMAIN s.active -> InService]
  BY <1>2 DEF CommitLoop
<1>4. /\ n.mgr = SetSeqLen(EnsureCapacity(s.mgr, id, (len + 1) + 1), id, len + 1)
      /\ n.survivors = Append(s.survivors, id)
      /\ n.active = [s.active EXCEPT ![id].produced = s.active[id].produced + 1]
  BY DEF Continue, NewLen, Produced
<1>5. /\ s.active[id].produced + 1 < s.active[id].req.max_new
         \/ ~ (s.active[id].produced + 1 >= s.active[id].req.max_new)
      /\ CanCover(s.mgr, id, (len + 1) + 1)
  BY DEF Ends, NewLen, Produced
<1> HIDE DEF n, id, Before, Upto, From, After
<1>6. len \in Nat /\ cells \in Nat
  <2>1. s.mgr.requests \in [DOMAIN s.mgr.requests -> RequestBlocks]
    BY <1>3 DEF PoolOK, ManagerOK, ManagerTypeOK
  <2>2. s.mgr.requests[id] \in RequestBlocks
    BY <1>1, <2>1
  <2>3. QED BY <2>2 DEF RequestBlocks, Table
<1> HIDE DEF len
<1>7. (len + 1) + 1 \in Nat /\ (len + 1) + 1 = len + 2 /\ len + 1 \in Nat
  BY <1>6
<1>8. /\ PoolOK(n.mgr)
      /\ DOMAIN n.mgr.requests = DOMAIN s.mgr.requests
      /\ \A q \in DOMAIN s.mgr.requests : q # id => n.mgr.requests[q] = s.mgr.requests[q]
      /\ n.mgr.requests[id].seq_len = len + 1
      /\ Len(Table(n.mgr, id)) = IF BlocksFor(len + 2) <= cells THEN cells ELSE BlocksFor(len + 2)
  <2> DEFINE need == (len + 1) + 1
             g == SetSeqLen(EnsureCapacity(s.mgr, id, need), id, len + 1)
  <2>1. n.mgr = g
    BY <1>4
  <2>2. PoolOK(s.mgr) /\ id \in DOMAIN s.mgr.requests /\ CanCover(s.mgr, id, need)
    BY <1>1, <1>3, <1>5
  <2>3. need \in Nat /\ len + 1 \in Nat
    BY <1>7
  <2> HIDE DEF need
  <2>4. /\ PoolOK(g)
        /\ DOMAIN g.requests = DOMAIN s.mgr.requests
        /\ \A q \in DOMAIN s.mgr.requests : q # id => g.requests[q] = s.mgr.requests[q]
        /\ g.requests[id].seq_len = len + 1
        /\ Len(Table(g, id)) = IF BlocksFor(need) <= Len(Table(s.mgr, id))
                               THEN Len(Table(s.mgr, id)) ELSE BlocksFor(need)
    BY ONLY <2>2, <2>3, GrowPool
  <2> HIDE DEF g
  <2>5. need = len + 2
    BY <1>7 DEF need
  <2>6. QED BY <2>1, <2>4, <2>5
<1>9. /\ DOMAIN n.active = DOMAIN s.active
      /\ \A q \in DOMAIN s.active : q # id => n.active[q] = s.active[q]
      /\ n.active[id] = [active[id] EXCEPT !.produced = @ + 1]
  BY <1>1, <1>4
<1>10. /\ n.survivors \in Seq(Nat) /\ IsInjective(n.survivors)
       /\ ToSet(n.survivors) = ToSet(s.survivors) \cup {id}
  BY <1>1, <1>3, <1>4, AppendNew
<1>11. /\ ToSet(n.survivors) \subseteq Upto
       /\ DOMAIN n.active = ToSet(n.survivors) \cup After
       /\ DOMAIN n.mgr.requests = Queued \cup DOMAIN n.active
  BY <1>1, <1>3, <1>8, <1>9, <1>10
<1>12. \A q \in Queued : n.mgr.requests[q] = NoBlocks
  BY <1>1, <1>3, <1>8
<1>13. /\ active[id].produced \in Nat /\ active[id].req.max_new \in Int
       /\ n.active[id] \in InService
       /\ n.active[id].produced = active[id].produced + 1
       /\ n.active[id].req = active[id].req
  <2>1. active[id].produced \in Nat /\ active[id].req \in Requests /\ active[id].no \in Nat
    BY <1>1 DEF InService
  <2>2. active[id].req.max_new \in Int
    BY <2>1, WorkloadAssumption DEF Requests
  <2>3. n.active[id] = [req |-> active[id].req, produced |-> active[id].produced + 1,
                        no |-> active[id].no]
    BY <1>1, <1>9 DEF InService
  <2>4. QED BY <2>1, <2>2, <2>3 DEF InService
<1>14. SlotReserved(n.mgr, n.active, id)
  <2>1. /\ len = active[id].req.prompt + active[id].produced
        /\ (cells - 1) * BlockSize <= len /\ len < cells * BlockSize
    BY <1>1, <1>3 DEF SlotReserved, len
  <2> DEFINE x == Len(Table(n.mgr, id))
  <2>2. x \in Nat
    BY <1>6, <1>7, <1>8, BlocksForNat
  <2>3. x = IF BlocksFor(len + 2) <= cells THEN cells ELSE BlocksFor(len + 2)
    BY <1>8
  <2> HIDE DEF x, cells
  <2>4. (x - 1) * BlockSize <= len + 1 /\ len + 1 < x * BlockSize
    BY <1>6, <2>1, <2>2, <2>3, SlotKept
  <2>5. active[id].req.prompt \in Nat
    <3>1. active[id].req \in Requests
      BY <1>1 DEF InService
    <3>2. QED BY <3>1, WorkloadAssumption DEF Requests
  <2>6. len + 1 = n.active[id].req.prompt + n.active[id].produced
    <3>1. len = active[id].req.prompt + active[id].produced
      BY <2>1
    <3>2. /\ n.active[id].req.prompt = active[id].req.prompt
          /\ n.active[id].produced = active[id].produced + 1 /\ active[id].produced \in Nat
      BY <1>13
    <3> DEFINE p == active[id].req.prompt
               g == active[id].produced
    <3>3. len = p + g /\ p \in Nat /\ g \in Nat
      BY <2>5, <3>1, <3>2
    <3>4. n.active[id].req.prompt = p /\ n.active[id].produced = g + 1
      BY <3>2
    <3> HIDE DEF p, g
    <3>5. len + 1 = p + (g + 1)
      BY <3>3
    <3>6. QED BY <3>4, <3>5
  <2>7. QED BY <1>8, <2>4, <2>6 DEF SlotReserved, x
<1>15. Unfinished(n.active, id)
  BY <1>1, <1>5, <1>13 DEF Unfinished
<1>16. ASSUME NEW q \in DOMAIN n.active
       PROVE  /\ SlotReserved(n.mgr, n.active, q) /\ Unfinished(n.active, q)
              /\ n.active[q] = IF q \in ToSet(n.survivors)
                               THEN [active[q] EXCEPT !.produced = @ + 1] ELSE active[q]
              /\ n.active[q] \in InService
  <2>1. CASE q = id
    <3>1. q \in ToSet(n.survivors)
      BY <1>10, <2>1
    <3>2. QED BY <1>9, <1>13, <1>14, <1>15, <2>1, <3>1
  <2>2. CASE q # id
    <3>1. /\ q \in DOMAIN s.active /\ n.active[q] = s.active[q]
          /\ n.mgr.requests[q] = s.mgr.requests[q]
      BY <1>3, <1>8, <1>9, <2>2
    <3>2. /\ SlotReserved(s.mgr, s.active, q) /\ Unfinished(s.active, q)
          /\ s.active[q] \in InService
      BY <1>3, <3>1
    <3>3. SlotReserved(n.mgr, n.active, q) /\ Unfinished(n.active, q)
      BY <3>1, <3>2 DEF SlotReserved, Unfinished, Table
    <3>4. q \in ToSet(n.survivors) <=> q \in ToSet(s.survivors)
      BY <1>10, <2>2
    <3>5. QED BY <1>3, <3>1, <3>2, <3>3, <3>4
  <2>3. QED BY <2>1, <2>2
<1>17. n.active \in [DOMAIN n.active -> InService]
  <2>1. n.active = [q \in DOMAIN n.active |-> n.active[q]]
    BY <1>3, <1>4
  <2>2. QED BY <1>16, <2>1
<1>18. CommitLoop(n, i)
  BY <1>8, <1>10, <1>11, <1>12, <1>16, <1>17 DEF CommitLoop, Upto, After
<1>19. QED BY <1>18 DEF n, id

\* One turn of the loop.
LEMMA CommitLoopStep ==
  ASSUME SchedulerInv, NEW completed, NEW s, NEW i \in 1 .. Len(active_order), CommitLoop(s, i - 1)
  PROVE  CommitLoop(CommitOne(completed, s, i), i)
<1> DEFINE id == active_order[i]
           eos == id \in completed
<1>1. id \in DOMAIN s.active
  BY CommitLoopNext
<1>2. CASE Ends(s, id, eos)
  <2>1. CommitOne(completed, s, i) = End(s, id, eos)
    BY <1>1, <1>2 DEF CommitOne
  <2>2. QED BY <2>1, EndLoop
<1>3. CASE ~ Ends(s, id, eos)
  <2>1. CommitOne(completed, s, i) = Continue(s, id)
    BY <1>1, <1>3 DEF CommitOne
  <2>2. QED BY <1>3, <2>1, ContinueLoop
<1>4. QED BY <1>2, <1>3

\* The whole loop.
LEMMA CommitLoopOK ==
  ASSUME SchedulerInv, NEW completed
  PROVE  \A i \in 0 .. Len(active_order) : CommitLoop(Committing(completed)[i], i)
<1> DEFINE n == Len(active_order)
           C == Committing(completed)
           S == {i \in Nat : i <= n => CommitLoop(C[i], i)}
<1>1. n \in Nat /\ active_order \in Seq(Nat) /\ DOMAIN active_order = 1 .. n
  BY DEF SchedulerInv
<1>2. C[0] = CommitStart /\ \A i \in 1 .. n : C[i] = CommitOne(completed, C[i - 1], i)
  BY <1>1, CommittingUnfolds
<1>3. CommitLoop(CommitStart, 0)
  <2>1. /\ CommitStart.mgr = mgr /\ CommitStart.active = active /\ CommitStart.survivors = <<>>
    BY DEF CommitStart
  <2>2. ToSet(<<>>) = {} /\ IsInjective(<<>>) /\ <<>> \in Seq(Nat)
    BY DEF ToSet, IsInjective
  <2>3. {active_order[j] : j \in 0 + 1 .. n} = DOMAIN active
    BY <1>1 DEF SchedulerInv, LifecycleConsistent, ToSet
  <2>4. /\ PoolOK(mgr) /\ active \in [DOMAIN active -> InService]
        /\ \A id \in DOMAIN active : SlotReserved(mgr, active, id) /\ Unfinished(active, id)
        /\ DOMAIN mgr.requests = Queued \cup DOMAIN active
        /\ \A id \in Queued : mgr.requests[id] = NoBlocks
    BY DEF SchedulerInv, LifecycleConsistent
  <2>5. QED BY <2>1, <2>2, <2>3, <2>4 DEF CommitLoop
<1>4. 0 \in S
  BY <1>2, <1>3
<1>5. \A i \in Nat : i \in S => i + 1 \in S
  <2>1. SUFFICES ASSUME NEW i \in Nat, CommitLoop(C[i], i), i + 1 <= n
                 PROVE  CommitLoop(C[i + 1], i + 1)
    <3> HIDE DEF C, n
    <3>1. \A i \in Nat : i + 1 <= n => i <= n
      BY <1>1
    <3>2. QED BY <3>1
  <2>2. i + 1 \in 1 .. n /\ (i + 1) - 1 = i
    BY <1>1, <2>1
  <2>3. C[i + 1] = CommitOne(completed, C[i], i + 1)
    BY <1>2, <2>2
  <2> HIDE DEF C
  <2>4. QED BY <2>1, <2>2, <2>3, CommitLoopStep
<1> HIDE DEF S
<1>6. \A i \in Nat : i \in S
  BY <1>4, <1>5, SetInduction
<1>7. QED BY <1>1, <1>6 DEF S

\* What the loop leaves is the state after the step.
LEMMA CommitInv ==
  ASSUME SchedulerInv, NEW completed, CommitStep(completed)
  PROVE  SchedulerInv'
<1> DEFINE n == Len(active_order)
           s == Committing(completed)[n]
<1>1. /\ mgr' = s.mgr /\ active' = s.active /\ active_order' = s.survivors
      /\ queue' = queue /\ stepping' = FALSE /\ submitted' = submitted
  BY DEF CommitStep
<1>2. n \in Nat /\ n \in 0 .. n
  BY DEF SchedulerInv
<1>3. CommitLoop(s, n)
  BY <1>2, CommitLoopOK
<1> HIDE DEF s
<1>4. {active_order[j] : j \in n + 1 .. n} = {}
  BY <1>2
<1>5. /\ PoolOK(mgr') /\ active_order' \in Seq(Nat) /\ IsInjective(active_order')
      /\ ToSet(active_order') \subseteq {active_order[j] : j \in 1 .. n}
      /\ ToSet(active_order') = DOMAIN active'
      /\ DOMAIN mgr'.requests = Queued \cup DOMAIN active'
      /\ \A id \in Queued : mgr'.requests[id] = NoBlocks
      /\ \A id \in DOMAIN active' : SlotReserved(mgr', active', id) /\ Unfinished(active', id)
      /\ active' \in [DOMAIN active' -> InService]
  BY <1>1, <1>3, <1>4 DEF CommitLoop
<1>6. /\ queue \in Seq(Entry) /\ submitted \in Nat
      /\ Queued \cap DOMAIN active = {}
      /\ \A i, j \in DOMAIN queue : queue[i].id = queue[j].id => i = j
      /\ {active_order[j] : j \in 1 .. n} = DOMAIN active
      /\ Cardinality(DOMAIN active) <= MaxConcurrent
  <2>1. active_order \in Seq(Nat) /\ ToSet(active_order) = DOMAIN active
    BY DEF SchedulerInv, LifecycleConsistent
  <2>2. {active_order[j] : j \in 1 .. n} = DOMAIN active
    <3>1. DOMAIN active_order = 1 .. n
      BY <2>1
    <3>2. ToSet(active_order) = {active_order[j] : j \in DOMAIN active_order}
      BY DEF ToSet
    <3>3. QED BY <2>1, <3>1, <3>2
  <2>3. QED BY <2>2 DEF SchedulerInv, LifecycleConsistent
<1>7. Queued' = Queued
  BY <1>1 DEF Queued
<1>8. DOMAIN active' \subseteq DOMAIN active
  BY <1>5, <1>6
<1>9. Cardinality(DOMAIN active') <= MaxConcurrent
  <2>1. IsFiniteSet(DOMAIN active) /\ Cardinality(DOMAIN active) \in Nat
    BY ActiveFinite
  <2>2. IsFiniteSet(DOMAIN active') /\ Cardinality(DOMAIN active') <= Cardinality(DOMAIN active)
    BY <1>8, <2>1, FS_Subset
  <2>3. Cardinality(DOMAIN active') \in Nat
    BY <2>2, FS_CardinalityType
  <2>4. QED BY <1>6, <2>1, <2>2, <2>3, WorkloadAssumption
<1>10. LifecycleConsistent'
  BY <1>1, <1>5, <1>6, <1>7, <1>8, <1>9 DEF LifecycleConsistent
<1>11. QED BY <1>1, <1>5, <1>6, <1>10 DEF SchedulerInv

---------------------------------------------------------------------------
(* The properties. *)

\* Every step keeps the invariant.
LEMMA SchedulerStep == SchedulerInv /\ [Next]_vars => SchedulerInv'
<1> SUFFICES ASSUME SchedulerInv, [Next]_vars PROVE SchedulerInv'
  OBVIOUS
<1>1. CASE \E req \in Requests : Submit(req)
  BY <1>1, SubmitInv
<1>2. CASE PrepareStep
  BY <1>2, PrepareInv
<1>3. CASE Commit
  <2>1. PICK completed \in SUBSET DOMAIN active : CommitStep(completed)
    BY <1>3 DEF Commit
  <2>2. QED BY <2>1, CommitInv
<1>4. CASE UNCHANGED vars
  <2>1. UNCHANGED <<mgr, queue, active, active_order, stepping, view, submitted>>
    BY <1>4 DEF vars, history
  <2>2. QED BY <2>1 DEF SchedulerInv, LifecycleConsistent, Queued
<1>5. QED BY <1>1, <1>2, <1>3, <1>4 DEF Next

\* The invariant holds of every behaviour.
LEMMA SchedulerInvariant == Spec => []SchedulerInv
BY InitScheduler, SchedulerStep, PTL DEF Spec

\* A request is waiting and holds nothing, or is active and has its one place
\* in the order, and at most MaxConcurrent are (the ids that the queue,
\* active_, active_order_ and the manager know).
THEOREM RequestsConsistent == Spec => []LifecycleConsistent
<1>1. SchedulerInv => LifecycleConsistent
  BY DEF SchedulerInv
<1>2. QED BY <1>1, SchedulerInvariant, PTL

\* No block leaks and none is given to two requests, through any admission,
\* growth, completion or early completion.
THEOREM BlocksNeverShared == Spec => []BlocksPartitioned
<1>1. SchedulerInv => BlocksPartitioned
  BY PoolPartitioned DEF SchedulerInv
<1>2. QED BY <1>1, SchedulerInvariant, PTL

\* An active request always has room for its next token, and not a block more
\* than it takes (what prepare_step and commit_step reserve).
THEOREM SlotsReserved == Spec => []DecodeSlotReserved
<1>1. SchedulerInv => DecodeSlotReserved
  BY DEF SchedulerInv, SlotReserved, DecodeSlotReserved
<1>2. QED BY <1>1, SchedulerInvariant, PTL

\* Cell col of a row of the view.
LEMMA ViewCell ==
  ASSUME SchedulerInv, stepping, NEW row \in DOMAIN active_order
  PROVE  LET T == Table(mgr, active_order[row])
         IN  /\ view.max_blocks \in Nat /\ Len(T) \in Nat /\ Len(T) <= view.max_blocks
             /\ \A col \in 1 .. view.max_blocks :
                  view.block_tables[(row - 1) * view.max_blocks + col] =
                    IF col <= Len(T) THEN T[col] ELSE kInvalidBlock
<1> DEFINE T == Table(mgr, active_order[row])
           w == Widest(mgr, active_order)
           n == Len(active_order)
           Cell(i, col) == IF col <= Len(Table(mgr, active_order[i]))
                           THEN Table(mgr, active_order[i])[col] ELSE kInvalidBlock
<1>1. /\ PoolOK(mgr) /\ active_order \in Seq(Nat) /\ n \in Nat /\ DOMAIN active_order = 1 .. n
      /\ \A i \in DOMAIN active_order : active_order[i] \in DOMAIN mgr.requests
      /\ view = ViewOf(mgr, active_order)
  BY DEF SchedulerInv, LifecycleConsistent, ToSet
<1>2. active_order \in Seq(DOMAIN mgr.requests)
  BY <1>1, EntriesIn
<1>3. w \in Nat /\ Len(T) <= w /\ Len(T) \in Nat
  BY <1>1, <1>2, WidestOK, TableFits, LayoutAssumption
<1>4. /\ view.max_blocks = w
      /\ view.block_tables = [c \in 1 .. n * w |-> Cell(((c - 1) \div w) + 1, ((c - 1) % w) + 1)]
  BY <1>1 DEF ViewOf
<1> HIDE DEF w, Cell, n
<1>5. ASSUME NEW col \in 1 .. w
      PROVE  view.block_tables[(row - 1) * w + col] = Cell(row, col)
  <2>1. /\ w \in Nat \ {0} /\ row - 1 \in Nat /\ row - 1 \in 0 .. n - 1 /\ col - 1 \in 0 .. w - 1
        /\ row \in Int
    BY <1>1, <1>3
  <2> DEFINE c == (row - 1) * w + col
             d == (row - 1) * w + (col - 1)
  <2>2. d \in 0 .. n * w - 1
    BY <1>1, <2>1, RadixBound
  <2>3. (row - 1) * w \in Nat
    BY <2>1
  <2>4. c - 1 = d /\ c = d + 1
    BY <2>1, <2>3
  <2>5. d \div w = row - 1 /\ d % w = col - 1
    BY <2>1, DigitsOf
  <2> HIDE DEF c, d
  <2>6. n * w \in Nat
    BY <1>1, <1>3
  <2>7. c \in 1 .. n * w
    BY <2>2, <2>4, <2>6
  <2>8. ((c - 1) \div w) + 1 = row /\ ((c - 1) % w) + 1 = col
    BY <2>1, <2>4, <2>5
  <2>9. view.block_tables[c] = Cell(row, col)
    BY <1>4, <2>7, <2>8
  <2>10. QED BY <2>9 DEF c
<1>6. QED BY <1>3, <1>4, <1>5 DEF Cell

\* The decode slot, and every position before it, is in a block of the table.
LEMMA SlotInTable ==
  ASSUME SchedulerInv, NEW id \in DOMAIN active, NEW pos \in 0 .. mgr.requests[id].seq_len
  PROVE  /\ (pos \div BlockSize) + 1 \in 1 .. Len(Table(mgr, id))
         /\ DOMAIN Table(mgr, id) = 1 .. Len(Table(mgr, id))
         /\ mgr.requests[id].seq_len \in Nat
<1> DEFINE len == mgr.requests[id].seq_len
           n == Len(Table(mgr, id))
           q == pos \div BlockSize
<1>1. PoolOK(mgr) /\ id \in DOMAIN mgr.requests
  BY DEF SchedulerInv, LifecycleConsistent
<1>2. mgr.requests[id] \in RequestBlocks /\ Table(mgr, id) \in Seq(Block)
  BY <1>1 DEF PoolOK, ManagerOK, ManagerTypeOK
<1>3. len \in Nat /\ n \in Nat /\ DOMAIN Table(mgr, id) = 1 .. n
  BY <1>2 DEF RequestBlocks
<1>4. len < n * BlockSize
  BY DEF SchedulerInv, SlotReserved
<1> HIDE DEF len, n
<1>5. pos \in Nat /\ pos <= len /\ BlockSize \in Nat /\ BlockSize > 0
  BY <1>3, LayoutAssumption DEF len
<1>6. n * BlockSize \in Nat
  BY <1>3, <1>5
<1>7. pos + 1 \in 1 .. n * BlockSize
  BY <1>3, <1>4, <1>5, <1>6
<1>8. (((pos + 1) - 1) \div BlockSize) + 1 \in 1 .. n
  BY <1>3, <1>5, <1>7, RowMajor
<1>9. (pos + 1) - 1 = pos
  BY <1>5
<1>10. QED BY <1>3, <1>8, <1>9 DEF n, len

\* The view shows every position of a request where the manager has it, and
\* the block of its decode slot in no other row.
LEMMA ViewIsCurrent == SchedulerInv => ViewCurrent
<1> SUFFICES ASSUME SchedulerInv, stepping, NEW row \in DOMAIN active_order
             PROVE  /\ view.ids = active_order
                    /\ view.seq_lens[row] = mgr.requests[active_order[row]].seq_len
                    /\ \A pos \in 0 .. view.seq_lens[row] :
                         KernelBlock(row, pos) =
                           Table(mgr, active_order[row])[(pos \div BlockSize) + 1]
                    /\ \A other \in DOMAIN active_order \ {row} :
                       \A col \in 1 .. view.max_blocks :
                         KernelBlock(row, view.seq_lens[row])
                           # view.block_tables[(other - 1) * view.max_blocks + col]
  <2>1. SchedulerInv /\ stepping => view.ids = active_order
    BY DEF SchedulerInv, ViewOf
  <2>2. QED BY <2>1 DEF ViewCurrent
<1> DEFINE id == active_order[row]
           T == Table(mgr, id)
           w == view.max_blocks
           len == mgr.requests[id].seq_len
<1>1. view.ids = active_order /\ view.seq_lens[row] = len
  BY DEF SchedulerInv, ViewOf
<1>2. /\ PoolOK(mgr) /\ active_order \in Seq(Nat) /\ IsInjective(active_order)
      /\ DOMAIN active_order = 1 .. Len(active_order) /\ Len(active_order) \in Nat
      /\ \A i \in DOMAIN active_order : /\ active_order[i] \in DOMAIN mgr.requests
                                        /\ active_order[i] \in DOMAIN active
  BY DEF SchedulerInv, LifecycleConsistent, ToSet
<1>3. /\ w \in Nat /\ Len(T) \in Nat /\ Len(T) <= w
      /\ \A col \in 1 .. w :
           view.block_tables[(row - 1) * w + col] = IF col <= Len(T) THEN T[col] ELSE kInvalidBlock
  BY ViewCell
<1> HIDE DEF w
<1>4. ASSUME NEW pos \in 0 .. len
      PROVE  /\ (pos \div BlockSize) + 1 \in DOMAIN T
             /\ KernelBlock(row, pos) = T[(pos \div BlockSize) + 1]
  <2> DEFINE q == pos \div BlockSize
  <2>1. q + 1 \in 1 .. Len(T) /\ DOMAIN T = 1 .. Len(T) /\ len \in Nat
    BY <1>2, SlotInTable
  <2>2. q \in Int
    BY <2>1, LayoutAssumption
  <2> HIDE DEF q, T
  <2>3. q + 1 \in 1 .. w /\ q + 1 <= Len(T)
    BY <1>3, <2>1
  <2>4. view.block_tables[(row - 1) * w + (q + 1)] = T[q + 1]
    BY <1>3, <2>3
  <2>5. row \in Int
    BY <1>2
  <2>6. (row - 1) * w \in Int
    BY <1>3, <2>5
  <2>7. (row - 1) * w + q + 1 = (row - 1) * w + (q + 1)
    BY <2>2, <2>6
  <2>8. KernelBlock(row, pos) = view.block_tables[(row - 1) * w + q + 1]
    BY DEF KernelBlock, w, q
  <2>9. QED BY <2>1, <2>4, <2>7, <2>8 DEF q
<1>5. ASSUME NEW other \in DOMAIN active_order \ {row}, NEW col \in 1 .. w
      PROVE  KernelBlock(row, len) # view.block_tables[(other - 1) * w + col]
  <2> DEFINE U == Table(mgr, active_order[other])
             i == (len \div BlockSize) + 1
  <2>1. len \in Nat
    BY <1>2 DEF PoolOK, ManagerOK, ManagerTypeOK, RequestBlocks
  <2>2. len \in 0 .. len
    BY <2>1
  <2>3. i \in DOMAIN T /\ KernelBlock(row, len) = T[i]
    BY <1>4, <2>2
  <2>4. view.block_tables[(other - 1) * w + col] = IF col <= Len(U) THEN U[col] ELSE kInvalidBlock
    BY ViewCell DEF w
  <2>5. T \in Seq(Block) /\ U \in Seq(Block)
    BY <1>2 DEF PoolOK
  <2>6. id # active_order[other]
    BY <1>2 DEF IsInjective
  <2> HIDE DEF i
  <2>7. CASE col <= Len(U)
    <3>1. col \in DOMAIN U
      BY <1>3, <2>5, <2>7
    <3>2. id \in DOMAIN mgr.requests /\ active_order[other] \in DOMAIN mgr.requests
      BY <1>2
    <3>3. T[i] # U[col]
      BY <1>2, <2>3, <2>6, <3>1, <3>2, PoolExclusive
    <3>4. QED BY <2>3, <2>4, <2>7, <3>3
  <2>8. CASE ~ (col <= Len(U))
    <3>1. T[i] \in Block
      BY <2>3, <2>5
    <3>2. kInvalidBlock \notin Block
      BY LayoutAssumption DEF kInvalidBlock, Block
    <3>3. QED BY <2>3, <2>4, <2>8, <3>1, <3>2
  <2>9. QED BY <2>7, <2>8
<1>6. QED BY <1>1, <1>4, <1>5 DEF w

\* Until it commits, the driver finds every token, and the slot for the next,
\* where the manager put them, whatever is submitted meanwhile (ActiveStep).
THEOREM ViewsStayCurrent == Spec => []ViewCurrent
BY SchedulerInvariant, ViewIsCurrent, PTL

---------------------------------------------------------------------------
(* An ample pool cuts nobody short. *)

\* Shares of a number.
LEMMA Shares ==
  ASSUME NEW c \in Nat \ {0}, NEW n \in Nat
  PROVE  /\ n \div c \in Nat /\ c * (n \div c) <= n
         /\ \A x \in Nat : c * x <= n => x <= n \div c
<1> DEFINE q == n \div c
<1>1. q \in Nat /\ q * c <= n /\ n < q * c + c
  BY DEF q
<1> HIDE DEF q
<1>2. c * q = q * c
  BY <1>1
<1>3. ASSUME NEW x \in Nat, c * x <= n PROVE x <= q
  <2>1. SUFFICES ASSUME x > q PROVE FALSE
    BY <1>1
  <2>2. PICK k \in Nat : x = q + 1 + k
    <3>1. x - (q + 1) \in Nat /\ x = q + 1 + (x - (q + 1))
      BY <1>1, <2>1
    <3>2. QED BY <3>1
  <2>3. c * x = q * c + c + k * c
    BY <1>1, <2>2
  <2>4. k * c \in Nat /\ q * c \in Nat
    BY <1>1
  <2>5. QED BY <1>1, <1>3, <2>3, <2>4
<1>4. QED BY <1>1, <1>2, <1>3 DEF q

\* Blocks that len tokens fill but for the last fit into those of t tokens.
LEMMA TightFits ==
  ASSUME NEW len \in Nat, NEW t \in Nat, NEW n \in Nat, (n - 1) * BlockSize <= len, len < t
  PROVE  n <= BlocksFor(t)
<1> DEFINE b == BlocksFor(t)
<1>1. b \in Nat /\ b * BlockSize >= t
  BY BlocksForNat
<1> HIDE DEF b
<1>2. BlockSize \in Nat
  BY LayoutAssumption
<1>3. SUFFICES ASSUME b < n PROVE FALSE
  BY <1>1 DEF b
<1>4. PICK k \in Nat : n - 1 = b + k
  <2>1. (n - 1) - b \in Nat /\ n - 1 = b + ((n - 1) - b)
    BY <1>1, <1>3
  <2>2. QED BY <2>1
<1>5. (n - 1) * BlockSize = b * BlockSize + k * BlockSize
  BY <1>1, <1>2, <1>4
<1>6. k * BlockSize \in Nat /\ b * BlockSize \in Nat
  BY <1>1, <1>2
<1>7. QED BY <1>1, <1>5, <1>6

\* With no block free, the blocks are entries of the tables.
LEMMA AllInTables ==
  ASSUME NEW m, PoolOK(m), NumFree(m) = 0, NEW b \in Block
  PROVE  \E r \in DOMAIN m.requests : \E i \in DOMAIN Table(m, r) : Table(m, r)[i] = b
<1>1. m.free_list \in Seq(Block) /\ FreeListExact(m) /\ m.refcount[b] \in Nat
  BY DEF PoolOK, ManagerOK, ManagerTypeOK
<1>2. m.free_list = <<>>
  BY <1>1 DEF NumFree
<1>3. b \notin ToSet(m.free_list)
  BY <1>2 DEF ToSet
<1>4. m.refcount[b] # 0
  BY <1>1, <1>3 DEF FreeListExact
<1>5. m.refcount[b] = 0 + Cardinality(Slots(m.requests, b)) /\ IsFiniteSet(Slots(m.requests, b))
  BY DEF PoolOK, Accounted, Unheld
<1>6. Slots(m.requests, b) # {}
  BY <1>4, <1>5, FS_EmptySet
<1>7. PICK x : x \in Slots(m.requests, b)
  BY <1>6
<1>8. QED BY <1>7, SlotsElement DEF Table

\* Every block is among the first w entries of a table of A, and is not entry
\* w of id's.
AllWithin(m, A, w, id) ==
  \A b \in Block : \E r \in A : \E i \in 1 .. w :
    Table(m, r)[i] = b /\ <<r, i>> # <<id, w>>

\* Rows of at most w entries, one of them shorter, and rows in all cannot hold
\* as many blocks as there are.
LEMMA TooFewEntries ==
  ASSUME NEW A, IsFiniteSet(A), NEW c \in Nat, Cardinality(A) <= c,
         NEW w \in Nat \ {0}, c * w <= NumBlocks, NEW id \in A,
         NEW m, AllWithin(m, A, w, id)
  PROVE  FALSE
<1> DEFINE P == (A \X (1 .. w)) \ {<<id, w>>}
           g == [b \in Block |-> CHOOSE p \in P : Table(m, p[1])[p[2]] = b]
<1>1. IsFiniteSet(A \X (1 .. w)) /\ Cardinality(A \X (1 .. w)) = Cardinality(A) * w
  <2>1. IsFiniteSet(1 .. w) /\ Cardinality(1 .. w) = w
    BY FS_Interval
  <2>2. QED BY <2>1, FS_Product
<1>2. <<id, w>> \in A \X (1 .. w)
  OBVIOUS
<1>3. IsFiniteSet(P) /\ Cardinality(P) = Cardinality(A) * w - 1
  <2> DEFINE Q == A \X (1 .. w)
             x == <<id, w>>
  <2>1. IsFiniteSet(Q) /\ Cardinality(Q) = Cardinality(A) * w /\ x \in Q
    BY <1>1, <1>2
  <2> HIDE DEF Q, x
  <2>2. IsFiniteSet(Q \ {x}) /\ Cardinality(Q \ {x}) = Cardinality(A) * w - 1
    BY <2>1, FS_RemoveElement
  <2>3. QED BY <2>2 DEF Q, x
<1>4. \A b \in Block : \E p \in P : Table(m, p[1])[p[2]] = b
  <2>1. SUFFICES ASSUME NEW b \in Block PROVE \E p \in P : Table(m, p[1])[p[2]] = b
    OBVIOUS
  <2>2. PICK r \in A, i \in 1 .. w : Table(m, r)[i] = b /\ <<r, i>> # <<id, w>>
    BY DEF AllWithin
  <2>3. <<r, i>> \in P /\ <<r, i>>[1] = r /\ <<r, i>>[2] = i
    BY <2>2
  <2> HIDE DEF P, g
  <2>4. QED BY <2>2, <2>3
<1> HIDE DEF P
<1>5. \A b \in Block : g[b] \in P /\ Table(m, g[b][1])[g[b][2]] = b
  BY <1>4
<1>6. g \in Injection(Block, P)
  <2>1. g \in [Block -> P]
    BY <1>5
  <2>2. \A a, b \in Block : g[a] = g[b] => a = b
    <3> HIDE DEF g
    <3>1. QED BY <1>5
  <2>3. DOMAIN g = Block
    OBVIOUS
  <2> HIDE DEF g
  <2>4. QED BY <2>1, <2>2, <2>3 DEF Injection, IsInjective
<1>7. Cardinality(Block) = NumBlocks
  BY LayoutAssumption, FS_Interval DEF Block
<1>8. NumBlocks <= Cardinality(A) * w - 1
  BY <1>3, <1>6, <1>7, FS_Injection
<1>9. Cardinality(A) \in Nat
  BY FS_CardinalityType
<1>10. PICK k \in Nat : c = Cardinality(A) + k
  <2>1. c - Cardinality(A) \in Nat /\ c = Cardinality(A) + (c - Cardinality(A))
    BY <1>9
  <2>2. QED BY <2>1
<1>11. c * w = Cardinality(A) * w + k * w
  BY <1>9, <1>10
<1>12. k * w \in Nat /\ Cardinality(A) * w \in Nat
  BY <1>9
<1>13. QED BY <1>8, <1>11, <1>12, LayoutAssumption

\* In an ample pool a request short of its limit finds the block it needs.
LEMMA AmpleCovers ==
  ASSUME SchedulerInv, AmplePool, NEW s, NEW i \in 1 .. Len(active_order), CommitLoop(s, i - 1),
         ~ (Produced(s, active_order[i]) >= s.active[active_order[i]].req.max_new)
  PROVE  CanCover(s.mgr, active_order[i], NewLen(s, active_order[i]) + 1)
<1> DEFINE id == active_order[i]
           A == DOMAIN s.active
           T(r) == Table(s.mgr, r)
           len == s.mgr.requests[id].seq_len
           w == NumBlocks \div MaxConcurrent
           n == Len(T(id))
           x == BlocksFor(len + 2)
<1>1. /\ PoolOK(s.mgr)
      /\ DOMAIN s.mgr.requests = Queued \cup A
      /\ \A r \in Queued : s.mgr.requests[r] = NoBlocks
      /\ \A r \in A : SlotReserved(s.mgr, s.active, r) /\ Unfinished(s.active, r)
      /\ s.active \in [A -> InService]
  BY DEF CommitLoop
<1>2. id \in A /\ id \in DOMAIN s.mgr.requests
  BY CommitLoopNext
<1>3. A \subseteq DOMAIN active
  <2>1. /\ active_order \in Seq(Nat) /\ DOMAIN active_order = 1 .. Len(active_order)
        /\ \A j \in DOMAIN active_order : active_order[j] \in DOMAIN active
    BY DEF SchedulerInv, LifecycleConsistent, ToSet
  <2>2. /\ ToSet(s.survivors) \subseteq {active_order[j] : j \in 1 .. i - 1}
        /\ A = ToSet(s.survivors) \cup {active_order[j] : j \in (i - 1) + 1 .. Len(active_order)}
    BY DEF CommitLoop
  <2>3. /\ \A j \in 1 .. i - 1 : j \in DOMAIN active_order
        /\ \A j \in (i - 1) + 1 .. Len(active_order) : j \in DOMAIN active_order
    BY <2>1
  <2> HIDE DEF A
  <2>4. QED BY <2>1, <2>2, <2>3
<1>4. IsFiniteSet(A) /\ Cardinality(A) <= MaxConcurrent /\ Cardinality(A) \in Nat
  <2> HIDE DEF A
  <2>1. IsFiniteSet(DOMAIN active) /\ Cardinality(DOMAIN active) \in Nat
        /\ Cardinality(DOMAIN active) <= MaxConcurrent
    BY ActiveFinite DEF SchedulerInv, LifecycleConsistent
  <2>2. IsFiniteSet(A) /\ Cardinality(A) <= Cardinality(DOMAIN active)
    BY <1>3, <2>1, FS_Subset
  <2>3. Cardinality(A) \in Nat
    BY <2>2, FS_CardinalityType
  <2>4. QED BY <2>1, <2>2, <2>3, WorkloadAssumption
<1>5. MaxConcurrent \in Nat \ {0}
  <2> HIDE DEF A
  <2>1. Cardinality(A) # 0
    BY <1>2, <1>4, FS_EmptySet
  <2>2. QED BY <1>4, <2>1, WorkloadAssumption
<1>6. w \in Nat /\ MaxConcurrent * w <= NumBlocks
      /\ \A y \in Nat : MaxConcurrent * y <= NumBlocks => y <= w
  BY <1>5, LayoutAssumption, Shares
<1> HIDE DEF w
\* No table is longer than w.
<1>7. ASSUME NEW r \in A
      PROVE  /\ s.active[r].req \in Requests /\ TokensOf(s.active[r].req) \in Nat
             /\ s.active[r].req.prompt \in Nat /\ s.active[r].req.max_new \in Int
             /\ s.active[r].produced \in Nat
             /\ BlocksFor(TokensOf(s.active[r].req)) <= w
             /\ Len(T(r)) \in Nat /\ DOMAIN T(r) = 1 .. Len(T(r)) /\ Len(T(r)) <= w
             /\ s.mgr.requests[r].seq_len = s.active[r].req.prompt + s.active[r].produced
             /\ s.mgr.requests[r].seq_len \in Nat
             /\ (Len(T(r)) - 1) * BlockSize <= s.mgr.requests[r].seq_len
             /\ s.mgr.requests[r].seq_len < Len(T(r)) * BlockSize
  <2> DEFINE a == s.active[r]
             t == TokensOf(a.req)
             l == s.mgr.requests[r].seq_len
             k == Len(T(r))
  <2>1. a \in InService
    BY <1>1
  <2>2. a.req \in Requests /\ a.produced \in Nat
    BY <2>1 DEF InService
  <2>3. a.req.prompt \in Nat /\ a.req.max_new \in Int
    BY <2>2, WorkloadAssumption DEF Requests
  <2>4. t = a.req.prompt + (IF a.req.max_new > 1 THEN a.req.max_new ELSE 1) /\ t \in Nat
    BY <2>3 DEF TokensOf
  <2>5. BlocksFor(t) <= w
    <3>1. MaxConcurrent * BlocksFor(t) <= NumBlocks
      BY <2>2 DEF AmplePool
    <3>2. BlocksFor(t) \in Nat
      BY <2>4, BlocksForNat
    <3>3. QED BY <1>6, <3>1, <3>2
  <2>6. T(r) \in Seq(Block)
    BY <1>1 DEF PoolOK
  <2>7. k \in Nat /\ DOMAIN T(r) = 1 .. k
    BY <2>6
  <2>8. l = a.req.prompt + a.produced /\ (k - 1) * BlockSize <= l /\ l < k * BlockSize
    BY <1>1 DEF SlotReserved
  <2>9. a.produced = 0 \/ a.produced < a.req.max_new
    BY <1>1 DEF Unfinished
  <2> HIDE DEF a, t, l, k
  <2>10. l \in Nat /\ l < t
    <3> DEFINE p == a.req.prompt
               g == a.produced
               mx == a.req.max_new
    <3>1. /\ p \in Nat /\ g \in Nat /\ mx \in Int /\ t = p + (IF mx > 1 THEN mx ELSE 1)
          /\ l = p + g
      BY <2>2, <2>3, <2>4, <2>8
    <3>2. g = 0 \/ g < mx
      BY <2>9
    <3> HIDE DEF p, g, mx
    <3>3. QED BY ONLY <3>1, <3>2
  <2>11. k <= BlocksFor(t) /\ BlocksFor(t) \in Nat
    <3>1. k \in Nat /\ t \in Nat
      BY <2>4, <2>7
    <3>2. (k - 1) * BlockSize <= l
      BY ONLY <2>8
    <3>3. k <= BlocksFor(t)
      BY ONLY <2>10, <3>1, <3>2, TightFits
    <3>4. QED BY <3>1, <3>3, BlocksForNat
  <2>12. k <= w
    BY <1>6, <2>5, <2>7, <2>11
  <2>13. QED BY <2>2, <2>3, <2>4, <2>5, <2>7, <2>8, <2>10, <2>12 DEF a, t, l, k
<1>8. len \in Nat /\ n \in Nat
  BY <1>2, <1>7
<1>9. x \in Nat /\ (x - 1) * BlockSize < len + 2 /\ x * BlockSize >= len + 2
  <2> HIDE DEF len
  <2>1. len + 2 \in Nat
    BY <1>8
  <2>2. QED BY <2>1, BlocksForNat, BlocksForTight
<1>10. x <= w
  <2> DEFINE a == s.active[id]
             t == TokensOf(a.req)
  <2>1. /\ t = a.req.prompt + (IF a.req.max_new > 1 THEN a.req.max_new ELSE 1)
        /\ t \in Nat /\ a.req.prompt \in Nat /\ a.req.max_new \in Int /\ a.produced \in Nat
        /\ len = a.req.prompt + a.produced /\ BlocksFor(t) <= w
    BY <1>2, <1>7 DEF TokensOf
  <2>2. ~ (a.produced + 1 >= a.req.max_new)
    BY DEF Produced
  <2> DEFINE p == a.req.prompt
             g == a.produced
             mx == a.req.max_new
  <2>7. /\ t = p + (IF mx > 1 THEN mx ELSE 1) /\ p \in Nat /\ mx \in Int /\ g \in Nat
        /\ len = p + g /\ ~ (g + 1 >= mx)
    BY <2>1, <2>2
  <2> HIDE DEF p, g, mx, a, t, len
  <2>3. len + 1 \in Nat /\ len + 1 < t
    BY <2>7
  <2> HIDE DEF x
  <2>4. (x - 1) * BlockSize <= len + 1
    <3>1. (x - 1) * BlockSize \in Int
      BY <1>9, LayoutAssumption
    <3>2. QED BY <1>8, <1>9, <3>1
  <2>5. x <= BlocksFor(t) /\ BlocksFor(t) \in Nat
    <3>1. x \in Nat /\ t \in Nat
      BY <1>9, <2>1
    <3>2. x <= BlocksFor(t)
      BY ONLY <2>3, <2>4, <3>1, TightFits
    <3>3. QED BY <3>1, <3>2, BlocksForNat
  <2>6. QED BY <1>6, <1>9, <2>1, <2>5
<1>11. NewLen(s, id) + 1 = len + 2
  BY <1>8 DEF NewLen
<1>12. SUFFICES ASSUME ~ (x <= n), ~ (x - n <= NumFree(s.mgr)) PROVE FALSE
  BY <1>11 DEF CanCover
<1>13. NumFree(s.mgr) \in Nat
  BY <1>1 DEF PoolOK, ManagerOK, ManagerTypeOK, NumFree
<1>14. len < n * BlockSize
  BY <1>2, <1>7
<1> HIDE DEF x, n, len
\* One block more is wanted, and none is free.
<1>15. x <= n + 1
  <2>1. SUFFICES ASSUME x > n + 1 PROVE FALSE
    BY <1>8, <1>9
  <2>2. PICK k \in Nat : x - 1 = n + 1 + k
    <3>1. x - 1 - (n + 1) \in Nat /\ x - 1 = n + 1 + (x - 1 - (n + 1))
      BY <1>8, <1>9, <2>1
    <3>2. QED BY <3>1
  <2>3. (x - 1) * BlockSize = n * BlockSize + BlockSize + k * BlockSize
    BY <1>8, <2>2, LayoutAssumption
  <2>4. k * BlockSize \in Nat /\ n * BlockSize \in Nat /\ BlockSize \in Nat /\ BlockSize > 0
    BY <1>8, LayoutAssumption
  <2>5. len \in Nat /\ (x - 1) * BlockSize < len + 2 /\ len < n * BlockSize
    BY <1>8, <1>9, <1>14
  <2> DEFINE nb == n * BlockSize
             kb == k * BlockSize
             xb == (x - 1) * BlockSize
  <2>6. nb \in Nat /\ kb \in Nat /\ BlockSize \in Nat /\ BlockSize > 0
        /\ xb = nb + BlockSize + kb /\ xb < len + 2 /\ len < nb /\ len \in Nat
    BY <2>3, <2>4, <2>5
  <2> HIDE DEF nb, kb, xb
  <2>7. QED BY ONLY <2>6
<1>16. NumFree(s.mgr) = 0 /\ n < w /\ w \in Nat \ {0}
  BY <1>6, <1>8, <1>9, <1>10, <1>12, <1>13, <1>15
<1>17. ASSUME NEW b \in Block
       PROVE  \E r \in A : \E j \in 1 .. w : Table(s.mgr, r)[j] = b /\ <<r, j>> # <<id, w>>
  <2>0. PICK r \in DOMAIN s.mgr.requests :
          \E j \in DOMAIN Table(s.mgr, r) : Table(s.mgr, r)[j] = b
    BY <1>1, <1>16, AllInTables
  <2>1. PICK j \in DOMAIN Table(s.mgr, r) : Table(s.mgr, r)[j] = b
    BY <2>0
  <2>2. r \in A
    <3>1. ASSUME r \in Queued PROVE FALSE
      <4>1. Table(s.mgr, r) = <<>>
        BY <1>1, <3>1 DEF Table, NoBlocks
      <4>2. QED BY <2>1, <4>1
    <3>2. QED BY <1>1, <3>1
  <2>3. j \in 1 .. Len(T(r)) /\ Len(T(r)) \in Nat /\ Len(T(r)) <= w
    BY <1>7, <2>1, <2>2
  <2>4. j \in 1 .. w
    BY <1>6, <2>3
  <2>5. r = id => j # w
    <3>1. r = id => Len(T(r)) = n
      BY DEF n
    <3>2. QED BY <1>8, <1>16, <2>3, <3>1
  <2>6. QED BY <2>1, <2>2, <2>4, <2>5
<1> HIDE DEF A, id
<1>18. /\ IsFiniteSet(A) /\ MaxConcurrent \in Nat /\ Cardinality(A) <= MaxConcurrent
       /\ w \in Nat \ {0} /\ MaxConcurrent * w <= NumBlocks /\ id \in A
  BY <1>2, <1>4, <1>6, <1>16, WorkloadAssumption
<1>19. AllWithin(s.mgr, A, w, id)
  BY <1>17 DEF AllWithin
<1>20. QED BY <1>18, <1>19, TooFewEntries

\* Nobody among the finished was cut short.
NoneCut(f) == \A n \in DOMAIN f : f[n].eos \/ f[n].produced >= f[n].req.max_new

\* One turn of the loop cuts nobody.
LEMMA NoneCutStep ==
  ASSUME SchedulerInv, AmplePool, NEW completed, NEW s, NEW i \in 1 .. Len(active_order),
         CommitLoop(s, i - 1), NoneCut(s.finished)
  PROVE  NoneCut(CommitOne(completed, s, i).finished)
<1> DEFINE id == active_order[i]
           eos == id \in completed
           a == s.active[id]
           rec == [req |-> a.req, produced |-> Produced(s, id), eos |-> eos]
           f == CommitOne(completed, s, i).finished
<1>1. id \in DOMAIN s.active
  BY CommitLoopNext
<1>2. CASE Ends(s, id, eos)
  <2>1. eos \/ Produced(s, id) >= a.req.max_new
    BY <1>2, AmpleCovers DEF Ends
  <2>2. f = [n \in DOMAIN s.finished \cup {a.no} |-> IF n = a.no THEN rec ELSE s.finished[n]]
    BY <1>1, <1>2 DEF CommitOne, End, Finishing
  <2>3. /\ DOMAIN f = {a.no} \cup DOMAIN s.finished
        /\ \A n \in DOMAIN f : f[n] = IF n = a.no THEN rec ELSE s.finished[n]
    BY <2>2
  <2>4. rec.eos \/ rec.produced >= rec.req.max_new
    BY <2>1
  <2> HIDE DEF rec, f
  <2>5. NoneCut(f)
    BY <2>3, <2>4 DEF NoneCut
  <2>6. QED BY <2>5 DEF f
<1>3. CASE ~ Ends(s, id, eos)
  BY <1>1, <1>3 DEF CommitOne, Continue
<1>4. QED BY <1>2, <1>3

\* Nor does a step.
LEMMA NeverCutStep == SchedulerInv /\ NeverCutShort /\ [Next]_vars => NeverCutShort'
<1> SUFFICES ASSUME SchedulerInv, NeverCutShort, [Next]_vars, AmplePool PROVE NoneCut(finished')
  BY DEF NeverCutShort, NoneCut, AmplePool
<1>1. NoneCut(finished)
  BY DEF NeverCutShort, NoneCut
<1>2. CASE Commit
  <2>1. PICK completed \in SUBSET DOMAIN active : CommitStep(completed)
    BY <1>2 DEF Commit
  <2> DEFINE n == Len(active_order)
             C == Committing(completed)
             S == {i \in Nat : i <= n => NoneCut(C[i].finished)}
  <2>2. n \in Nat
    BY DEF SchedulerInv
  <2>3. C[0] = CommitStart /\ \A i \in 1 .. n : C[i] = CommitOne(completed, C[i - 1], i)
    BY <2>2, CommittingUnfolds
  <2>4. \A i \in 0 .. n : CommitLoop(C[i], i)
    BY CommitLoopOK
  <2>5. finished' = C[n].finished
    BY <2>1 DEF CommitStep
  <2> HIDE DEF C, n
  <2>6. 0 \in S
    BY <1>1, <2>3 DEF CommitStart
  <2>7. \A i \in Nat : i \in S => i + 1 \in S
    <3>1. SUFFICES ASSUME NEW i \in Nat, NoneCut(C[i].finished), i + 1 <= n
                   PROVE  NoneCut(C[i + 1].finished)
      <4>1. \A i \in Nat : i + 1 <= n => i <= n
        BY <2>2
      <4>2. QED BY <4>1
    <3>2. i + 1 \in 1 .. n /\ (i + 1) - 1 = i /\ i \in 0 .. n
      BY <2>2, <3>1
    <3>3. C[i + 1] = CommitOne(completed, C[i], i + 1) /\ CommitLoop(C[i], (i + 1) - 1)
      BY <2>3, <2>4, <3>2
    <3>4. QED BY <3>1, <3>2, <3>3, NoneCutStep DEF n
  <2> HIDE DEF S
  <2>8. \A i \in Nat : i \in S
    BY <2>6, <2>7, SetInduction
  <2>9. QED BY <2>2, <2>5, <2>8 DEF S
<1>3. CASE UNCHANGED finished
  BY <1>1, <1>3
<1>4. QED BY <1>2, <1>3 DEF Next, Submit, PrepareStep, vars, history

\* A request that ends early did so at its end of sequence, when the pool has
\* room for as many of the largest requests as may be active (the third of
\* commit_step's reasons to end a request does not arise).
THEOREM NobodyCutShort == Spec => []NeverCutShort
<1>1. Init => NeverCutShort
  BY DEF Init, NeverCutShort
<1>2. QED BY <1>1, NeverCutStep, SchedulerInvariant, PTL DEF Spec

---------------------------------------------------------------------------
(* The scheduler implements the batch service. *)

QueueNos == {queue[i].no : i \in DOMAIN queue}
ActiveNos == {active[id].no : id \in DOMAIN active}

\* Each serial number given out is that of one request, which is waiting, or
\* active, or finished.
Numbered ==
  /\ QueueNos \cup ActiveNos \cup DOMAIN finished = 0 .. submitted - 1
  /\ QueueNos \cap ActiveNos = {}
  /\ (QueueNos \cup ActiveNos) \cap DOMAIN finished = {}
  /\ \A i, j \in DOMAIN queue : queue[i].no = queue[j].no => i = j
  /\ \A i, j \in DOMAIN active : active[i].no = active[j].no => i = j
  /\ finished = [n \in DOMAIN finished |-> finished[n]]

\* No number has been given out at first.
LEMMA InitNumbered == Init => Numbered
<1> SUFFICES ASSUME Init PROVE Numbered
  OBVIOUS
<1>1. queue = <<>> /\ active = <<>> /\ finished = <<>> /\ submitted = 0
  BY DEF Init
<1>2. DOMAIN queue = {} /\ DOMAIN active = {} /\ DOMAIN finished = {} /\ 0 .. 0 - 1 = {}
  BY <1>1
<1>3. finished = [n \in DOMAIN finished |-> finished[n]]
  BY <1>1
<1>4. QED BY <1>1, <1>2, <1>3 DEF Numbered, QueueNos, ActiveNos

\* submit gives out the next number.
LEMMA SubmitNumbered ==
  ASSUME SchedulerInv, Numbered, NEW req \in Requests, Submit(req)
  PROVE  Numbered'
<1>1. /\ queue' = Append(queue, [id |-> FreshId(mgr), req |-> req, no |-> submitted])
      /\ UNCHANGED <<active, finished>> /\ submitted' = submitted + 1
  BY DEF Submit
<1>2. FreshId(mgr) \in Nat /\ submitted \in Nat
  BY CreatePool DEF SchedulerInv
<1> DEFINE e == [id |-> FreshId(mgr), req |-> req, no |-> submitted]
<1>3. e \in Entry /\ e.no = submitted
  BY <1>2 DEF Entry
<1> HIDE DEF e
<1>4. /\ DOMAIN queue' = DOMAIN queue \cup {Len(queue) + 1}
      /\ queue'[Len(queue) + 1] = e
      /\ \A i \in DOMAIN queue : queue'[i] = queue[i] /\ i # Len(queue) + 1
  BY <1>1, <1>3, AppendedQueue DEF SchedulerInv, e
<1>5. QueueNos' = QueueNos \cup {submitted}
  BY <1>3, <1>4 DEF QueueNos
<1>6. ActiveNos' = ActiveNos
  BY <1>1 DEF ActiveNos
<1>7. submitted \notin 0 .. submitted - 1 /\ 0 .. (submitted + 1) - 1 = (0 .. submitted - 1) \cup {submitted}
  BY <1>2
<1>8. submitted \notin QueueNos \cup ActiveNos \cup DOMAIN finished
  BY <1>7 DEF Numbered
<1>9. \A i \in DOMAIN queue : queue[i].no # submitted
  BY <1>8 DEF QueueNos
<1>10. \A i, j \in DOMAIN queue' : queue'[i].no = queue'[j].no => i = j
  BY <1>3, <1>4, <1>9 DEF Numbered
<1>11. /\ QueueNos' \cup ActiveNos' \cup DOMAIN finished' = 0 .. submitted' - 1
       /\ QueueNos' \cap ActiveNos' = {}
       /\ (QueueNos' \cup ActiveNos') \cap DOMAIN finished' = {}
  <2>1. QueueNos \cup ActiveNos \cup DOMAIN finished = 0 .. submitted - 1
    BY DEF Numbered
  <2>2. QueueNos' \cup ActiveNos' \cup DOMAIN finished' = 0 .. submitted' - 1
    BY <1>1, <1>5, <1>6, <1>7, <2>1
  <2>3. /\ QueueNos' \cap ActiveNos' = {}
        /\ (QueueNos' \cup ActiveNos') \cap DOMAIN finished' = {}
    BY <1>1, <1>5, <1>6, <1>8 DEF Numbered
  <2>4. QED BY <2>2, <2>3
<1>12. QED BY <1>1, <1>10, <1>11 DEF Numbered

\* What prepare_step does to the queue and to active_.
LEMMA PrepareMoves ==
  ASSUME SchedulerInv, PrepareStep
  PROVE  \E k \in 0 .. Len(queue) :
           /\ Admissible(k)
           /\ queue' = SubSeq(queue, k + 1, Len(queue))
           /\ DOMAIN queue' = 1 .. Len(queue) - k
           /\ \A j \in 1 .. Len(queue) - k : queue'[j] = queue[k + j] /\ k + j \in DOMAIN queue
           /\ \A i \in 1 .. k : i \in DOMAIN queue /\ queue[i].id \notin DOMAIN active
           /\ DOMAIN active' = DOMAIN active \cup {queue[i].id : i \in 1 .. k}
           /\ \A id \in DOMAIN active : active'[id] = active[id]
           /\ \A i \in 1 .. k :
                active'[queue[i].id] = [req |-> queue[i].req, produced |-> 0, no |-> queue[i].no]
           /\ k = 0 => active' = active
<1> DEFINE k == NumAdmitted
           New == {queue[i].id : i \in 1 .. k}
           P(l) ==
             /\ active' = [id \in DOMAIN active \cup {queue[i].id : i \in 1 .. l} |->
                             IF id \in DOMAIN active THEN active[id]
                             ELSE LET e == queue[CHOOSE i \in 1 .. l : queue[i].id = id]
                                  IN  [req |-> e.req, produced |-> 0, no |-> e.no]]
             /\ queue' = SubSeq(queue, l + 1, Len(queue))
<1>1. \E l \in {NumAdmitted} : P(l)
  BY DEF PrepareStep
<1>2. P(k)
  <2> HIDE DEF P
  <2>1. QED BY <1>1
<1>3. k \in 0 .. Len(queue) /\ Admissible(k)
  BY NumAdmittedOK
<1> HIDE DEF k
<1>4. /\ queue \in Seq(Entry) /\ Len(queue) \in Nat /\ DOMAIN queue = 1 .. Len(queue)
      /\ active \in [DOMAIN active -> InService] /\ k \in Nat
  BY <1>3 DEF SchedulerInv
<1>5. /\ Queued \cap DOMAIN active = {}
      /\ \A i, j \in DOMAIN queue : queue[i].id = queue[j].id => i = j
  BY DEF SchedulerInv, LifecycleConsistent
<1>6. \A i \in 1 .. k : i \in DOMAIN queue /\ queue[i].id \notin DOMAIN active
  BY <1>3, <1>4, <1>5 DEF Queued
<1>7. /\ DOMAIN queue' = 1 .. Len(queue) - k
      /\ \A j \in 1 .. Len(queue) - k : queue'[j] = queue[k + j]
  BY <1>2, <1>3, <1>4, RestOfQueue
<1>8. \A j \in 1 .. Len(queue) - k : k + j \in DOMAIN queue
  BY <1>4
<1>9. DOMAIN active' = DOMAIN active \cup New /\ \A id \in DOMAIN active : active'[id] = active[id]
  BY <1>2
<1>10. ASSUME NEW i \in 1 .. k
       PROVE  active'[queue[i].id] = [req |-> queue[i].req, produced |-> 0, no |-> queue[i].no]
  <2>1. (CHOOSE j \in 1 .. k : queue[j].id = queue[i].id) = i
    BY <1>5, <1>6
  <2>2. queue[i].id \in {queue[j].id : j \in 1 .. k} /\ queue[i].id \notin DOMAIN active
    BY <1>6
  <2>3. QED BY <1>2, <2>1, <2>2
<1>11. k = 0 => active' = active
  <2>1. ASSUME k = 0 PROVE active' = active
    <3>1. New = {}
      BY <2>1
    <3>2. DOMAIN active' = DOMAIN active
      BY <1>9, <3>1
    <3>3. active' = [id \in DOMAIN active' |-> active'[id]]
      BY <1>2
    <3>4. active = [id \in DOMAIN active |-> active[id]]
      BY <1>4
    <3> HIDE DEF P
    <3>5. QED BY <1>9, <3>2, <3>3, <3>4
  <2>2. QED BY <2>1
<1>12. queue' = SubSeq(queue, k + 1, Len(queue))
  BY <1>2
<1> HIDE DEF P
<1>13. QED BY <1>3, <1>6, <1>7, <1>8, <1>9, <1>10, <1>11, <1>12

\* A request admitted keeps its number.
LEMMA PrepareNumbered ==
  ASSUME SchedulerInv, Numbered, PrepareStep
  PROVE  Numbered'
<1>1. PICK k \in 0 .. Len(queue) :
        /\ DOMAIN queue' = 1 .. Len(queue) - k
        /\ \A j \in 1 .. Len(queue) - k : queue'[j] = queue[k + j] /\ k + j \in DOMAIN queue
        /\ \A i \in 1 .. k : i \in DOMAIN queue /\ queue[i].id \notin DOMAIN active
        /\ DOMAIN active' = DOMAIN active \cup {queue[i].id : i \in 1 .. k}
        /\ \A id \in DOMAIN active : active'[id] = active[id]
        /\ \A i \in 1 .. k :
             active'[queue[i].id] = [req |-> queue[i].req, produced |-> 0, no |-> queue[i].no]
  BY PrepareMoves
<1>13. /\ DOMAIN queue' = 1 .. Len(queue) - k
       /\ \A j \in 1 .. Len(queue) - k : queue'[j] = queue[k + j] /\ k + j \in DOMAIN queue
  BY <1>1
<1>14. \A i \in 1 .. k : i \in DOMAIN queue /\ queue[i].id \notin DOMAIN active
  BY <1>1
<1>15. DOMAIN active' = DOMAIN active \cup {queue[i].id : i \in 1 .. k}
  BY <1>1
<1>16. \A id \in DOMAIN active : active'[id] = active[id]
  BY <1>1
<1>17. ASSUME NEW i \in 1 .. k
       PROVE  queue[i].id \in DOMAIN active' /\ active'[queue[i].id].no = queue[i].no
  <2>1. active'[queue[i].id] = [req |-> queue[i].req, produced |-> 0, no |-> queue[i].no]
    BY <1>1
  <2>2. QED BY <1>15, <2>1
<1>2. UNCHANGED <<submitted, finished>>
  BY DEF PrepareStep, history
<1>3. Len(queue) \in Nat /\ k \in Nat /\ DOMAIN queue = 1 .. Len(queue)
  BY DEF SchedulerInv
<1> DEFINE Taken == {queue[i].no : i \in 1 .. k}
           Rest == {queue[k + j].no : j \in 1 .. Len(queue) - k}
<1>4. QueueNos' = Rest
  BY <1>13 DEF QueueNos
<1>5. ActiveNos' = ActiveNos \cup Taken
  <2>1. ASSUME NEW id \in DOMAIN active' PROVE active'[id].no \in ActiveNos \cup Taken
    <3>1. CASE id \in DOMAIN active
      BY <1>16, <3>1 DEF ActiveNos
    <3>2. CASE \E i \in 1 .. k : id = queue[i].id
      BY <1>17, <3>2
    <3>3. QED BY <1>15, <3>1, <3>2
  <2>2. ASSUME NEW id \in DOMAIN active PROVE active[id].no \in ActiveNos'
    BY <1>15, <1>16 DEF ActiveNos
  <2>3. ASSUME NEW i \in 1 .. k PROVE queue[i].no \in ActiveNos'
    <3>1. QED BY <1>17 DEF ActiveNos
  <2>4. QED BY <2>1, <2>2, <2>3 DEF ActiveNos
<1>6. QueueNos = Taken \cup Rest
  <2>1. ASSUME NEW i \in DOMAIN queue PROVE queue[i].no \in Taken \cup Rest
    <3>1. CASE i <= k
      <4>1. i \in 1 .. k
        BY <1>3, <3>1
      <4>2. QED BY <4>1
    <3>2. CASE i > k
      <4>1. i - k \in 1 .. Len(queue) - k /\ i = k + (i - k)
        BY <1>3, <3>2
      <4>2. QED BY <4>1
    <3>3. i <= k \/ i > k
      BY <1>3
    <3>4. QED BY <3>1, <3>2, <3>3
  <2>2. (\A i \in 1 .. k : i \in DOMAIN queue) /\ (\A j \in 1 .. Len(queue) - k : k + j \in DOMAIN queue)
    BY <1>1
  <2>3. QED BY <2>1, <2>2 DEF QueueNos
<1>7. Taken \cap Rest = {}
  <2>1. SUFFICES ASSUME NEW i \in 1 .. k, NEW j \in 1 .. Len(queue) - k, queue[i].no = queue[k + j].no
                 PROVE  FALSE
    OBVIOUS
  <2>2. i = k + j
    BY <1>1, <2>1 DEF Numbered
  <2>3. QED BY <1>3, <2>2
<1> HIDE DEF Taken, Rest
<1>8. /\ QueueNos' \cup ActiveNos' \cup DOMAIN finished' = 0 .. submitted' - 1
      /\ QueueNos' \cap ActiveNos' = {}
      /\ (QueueNos' \cup ActiveNos') \cap DOMAIN finished' = {}
  BY <1>2, <1>4, <1>5, <1>6, <1>7 DEF Numbered
<1>9. ASSUME NEW i \in DOMAIN queue', NEW j \in DOMAIN queue', queue'[i].no = queue'[j].no
      PROVE  i = j
  <2>1. k + i \in DOMAIN queue /\ k + j \in DOMAIN queue /\ queue[k + i].no = queue[k + j].no
    BY <1>1, <1>9
  <2>2. k + i = k + j
    BY <2>1 DEF Numbered
  <2>3. i \in Int /\ j \in Int
    BY <1>1, <1>9
  <2>4. QED BY <1>3, <2>2, <2>3
<1>10. ASSUME NEW p \in DOMAIN active', NEW q \in DOMAIN active', active'[p].no = active'[q].no
       PROVE  p = q
  <2>1. ASSUME NEW x \in DOMAIN active', x \notin DOMAIN active
        PROVE  \E i \in 1 .. k : x = queue[i].id /\ i \in DOMAIN queue /\ active'[x].no = queue[i].no
                                 /\ active'[x].no \in QueueNos
    <3>1. PICK i \in 1 .. k : x = queue[i].id
      BY <1>15, <2>1
    <3>2. i \in DOMAIN queue /\ active'[x].no = queue[i].no
      BY <1>14, <1>17, <3>1
    <3>3. QED BY <3>1, <3>2 DEF QueueNos
  <2>2. ASSUME NEW x \in DOMAIN active PROVE active'[x].no = active[x].no /\ active[x].no \notin QueueNos
    BY <1>1 DEF Numbered, ActiveNos
  <2>3. CASE p \in DOMAIN active /\ q \in DOMAIN active
    BY <1>10, <2>2, <2>3 DEF Numbered
  <2>4. CASE p \notin DOMAIN active /\ q \notin DOMAIN active
    <3>1. PICK i \in 1 .. k : p = queue[i].id /\ i \in DOMAIN queue /\ active'[p].no = queue[i].no
      BY <2>1, <2>4
    <3>2. PICK j \in 1 .. k : q = queue[j].id /\ j \in DOMAIN queue /\ active'[q].no = queue[j].no
      BY <2>1, <2>4
    <3>3. i = j
      BY <1>10, <3>1, <3>2 DEF Numbered
    <3>4. QED BY <3>1, <3>2, <3>3
  <2>5. QED BY <1>10, <2>1, <2>2, <2>3, <2>4
<1>11. finished' = [n \in DOMAIN finished' |-> finished'[n]]
  BY <1>2 DEF Numbered
<1>12. QED BY <1>8, <1>9, <1>10, <1>11 DEF Numbered

\* After i requests of the order, the ones that are gone have their entries in
\* the history, and the survivors are short of their limits.
ServiceLoop(completed, s, i) ==
  LET Gone == DOMAIN active \ DOMAIN s.active
  IN  /\ s.finished = [n \in DOMAIN s.finished |-> s.finished[n]]
      /\ DOMAIN s.finished = DOMAIN finished \cup {active[id].no : id \in Gone}
      /\ \A n \in DOMAIN finished : s.finished[n] = finished[n]
      /\ \A id \in Gone :
           s.finished[active[id].no] = [req      |-> active[id].req,
                                        produced |-> active[id].produced + 1,
                                        eos      |-> id \in completed]
      /\ \A id \in ToSet(s.survivors) : ~ (active[id].produced + 1 >= active[id].req.max_new)

\* One turn of the loop.
LEMMA ServiceLoopStep ==
  ASSUME SchedulerInv, Numbered, NEW completed, NEW s, NEW i \in 1 .. Len(active_order),
         CommitLoop(s, i - 1), ServiceLoop(completed, s, i - 1)
  PROVE  ServiceLoop(completed, CommitOne(completed, s, i), i)
<1> DEFINE id == active_order[i]
           eos == id \in completed
           t == CommitOne(completed, s, i)
           Gone == DOMAIN active \ DOMAIN s.active
<1>1. /\ id \in DOMAIN s.active /\ id \notin ToSet(s.survivors)
      /\ s.active[id] = active[id]
  BY CommitLoopNext
<1>2. id \in DOMAIN active
  BY DEF SchedulerInv, LifecycleConsistent, ToSet
<1>3. /\ s.finished = [n \in DOMAIN s.finished |-> s.finished[n]]
      /\ DOMAIN s.finished = DOMAIN finished \cup {active[q].no : q \in Gone}
      /\ \A n \in DOMAIN finished : s.finished[n] = finished[n]
      /\ \A q \in Gone :
           s.finished[active[q].no] = [req      |-> active[q].req,
                                       produced |-> active[q].produced + 1,
                                       eos      |-> q \in completed]
      /\ \A q \in ToSet(s.survivors) : ~ (active[q].produced + 1 >= active[q].req.max_new)
  BY DEF ServiceLoop
<1>4. /\ \A q \in DOMAIN active : q # id => active[q].no # active[id].no
      /\ active[id].no \notin DOMAIN finished
  BY <1>2 DEF Numbered, ActiveNos
<1>5. CASE Ends(s, id, eos)
  <2> DEFINE rec == [req |-> active[id].req, produced |-> active[id].produced + 1, eos |-> eos]
  <2>1. t = End(s, id, eos)
    BY <1>1, <1>5 DEF CommitOne
  <2>2. /\ t.active = [q \in DOMAIN s.active \ {id} |-> s.active[q]]
        /\ t.survivors = s.survivors
        /\ t.finished = [n \in DOMAIN s.finished \cup {active[id].no} |->
                           IF n = active[id].no THEN rec ELSE s.finished[n]]
    BY <1>1, <2>1 DEF End, Restrict, Finishing, Produced
  <2> HIDE DEF t, rec
  <2>3. DOMAIN active \ DOMAIN t.active = Gone \cup {id} /\ id \notin Gone
    BY <1>1, <1>2, <2>2
  <2>4. /\ DOMAIN t.finished = DOMAIN s.finished \cup {active[id].no}
        /\ t.finished = [n \in DOMAIN t.finished |-> t.finished[n]]
        /\ t.finished[active[id].no] = rec
        /\ \A n \in DOMAIN s.finished : n # active[id].no => t.finished[n] = s.finished[n]
    BY <2>2
  <2>5. DOMAIN t.finished = DOMAIN finished \cup {active[q].no : q \in Gone \cup {id}}
    BY <1>3, <2>4
  <2>6. \A n \in DOMAIN finished : t.finished[n] = finished[n]
    BY <1>3, <1>4, <2>4
  <2>7. ASSUME NEW q \in Gone \cup {id}
        PROVE  t.finished[active[q].no] = [req      |-> active[q].req,
                                           produced |-> active[q].produced + 1,
                                           eos      |-> q \in completed]
    <3>1. CASE q = id
      BY <2>4, <3>1 DEF rec
    <3>2. CASE q \in Gone /\ q # id
      <4>1. active[q].no \in DOMAIN s.finished /\ active[q].no # active[id].no
        BY <1>3, <1>4, <3>2
      <4>2. t.finished[active[q].no] = s.finished[active[q].no]
        BY <2>4, <4>1
      <4>3. s.finished[active[q].no] = [req      |-> active[q].req,
                                        produced |-> active[q].produced + 1,
                                        eos      |-> q \in completed]
        BY <1>3, <3>2
      <4>4. QED BY <4>2, <4>3
    <3>3. QED BY <3>1, <3>2
  <2>8. \A q \in ToSet(t.survivors) : ~ (active[q].produced + 1 >= active[q].req.max_new)
    BY <1>3, <2>2
  <2> HIDE DEF Gone
  <2>9. ServiceLoop(completed, t, i)
    BY <2>3, <2>4, <2>5, <2>6, <2>7, <2>8 DEF ServiceLoop
  <2>10. QED BY <2>9 DEF t
<1>6. CASE ~ Ends(s, id, eos)
  <2>1. t = Continue(s, id)
    BY <1>1, <1>6 DEF CommitOne
  <2>2. /\ DOMAIN t.active = DOMAIN s.active
        /\ t.survivors = Append(s.survivors, id)
        /\ t.finished = s.finished
    BY <2>1 DEF Continue
  <2>3. ~ (active[id].produced + 1 >= active[id].req.max_new)
    BY <1>1, <1>6 DEF Ends, Produced
  <2>4. ToSet(t.survivors) = ToSet(s.survivors) \cup {id}
    <3>1. s.survivors \in Seq(Nat) /\ IsInjective(s.survivors)
      BY DEF CommitLoop
    <3>2. id \in Nat
      BY CommitLoopNext
    <3> HIDE DEF t, id
    <3>3. QED BY <1>1, <2>2, <3>1, <3>2, AppendNew
  <2> HIDE DEF t
  <2>5. DOMAIN active \ DOMAIN t.active = Gone
    BY <2>2
  <2>6. \A q \in ToSet(t.survivors) : ~ (active[q].produced + 1 >= active[q].req.max_new)
    BY <1>3, <2>3, <2>4
  <2> HIDE DEF Gone
  <2>7. ServiceLoop(completed, t, i)
    BY <1>3, <2>2, <2>5, <2>6 DEF ServiceLoop
  <2>8. QED BY <2>7 DEF t
<1>7. QED BY <1>5, <1>6

\* The whole loop.
LEMMA ServiceLoopOK ==
  ASSUME SchedulerInv, Numbered, NEW completed
  PROVE  LET n == Len(active_order)
         IN  ServiceLoop(completed, Committing(completed)[n], n)
<1> DEFINE n == Len(active_order)
           C == Committing(completed)
           S == {i \in Nat : i <= n => ServiceLoop(completed, C[i], i)}
<1>1. n \in Nat
  BY DEF SchedulerInv
<1>2. C[0] = CommitStart /\ \A i \in 1 .. n : C[i] = CommitOne(completed, C[i - 1], i)
  BY <1>1, CommittingUnfolds
<1>3. \A i \in 0 .. n : CommitLoop(C[i], i)
  BY CommitLoopOK
<1>4. ServiceLoop(completed, CommitStart, 0)
  <2>1. CommitStart.active = active /\ CommitStart.finished = finished /\ CommitStart.survivors = <<>>
    BY DEF CommitStart
  <2>2. ToSet(<<>>) = {} /\ DOMAIN active \ DOMAIN active = {}
    BY DEF ToSet
  <2>3. finished = [m \in DOMAIN finished |-> finished[m]]
    BY DEF Numbered
  <2>4. {active[id].no : id \in DOMAIN active \ DOMAIN active} = {}
    BY <2>2
  <2>5. QED BY <2>1, <2>2, <2>3, <2>4 DEF ServiceLoop
<1> HIDE DEF C, n
<1>5. 0 \in S
  BY <1>2, <1>4
<1>6. \A i \in Nat : i \in S => i + 1 \in S
  <2>1. SUFFICES ASSUME NEW i \in Nat, ServiceLoop(completed, C[i], i), i + 1 <= n
                 PROVE  ServiceLoop(completed, C[i + 1], i + 1)
    <3>1. \A i \in Nat : i + 1 <= n => i <= n
      BY <1>1
    <3>2. QED BY <3>1
  <2>2. i + 1 \in 1 .. n /\ (i + 1) - 1 = i /\ i \in 0 .. n
    BY <1>1, <2>1
  <2>3. C[i + 1] = CommitOne(completed, C[i], i + 1) /\ CommitLoop(C[i], (i + 1) - 1)
    BY <1>2, <1>3, <2>2
  <2>4. QED BY <2>1, <2>2, <2>3, ServiceLoopStep DEF n
<1> HIDE DEF S
<1>7. \A i \in Nat : i \in S
  BY <1>5, <1>6, SetInduction
<1>8. ServiceLoop(completed, C[n], n)
  BY <1>1, <1>7 DEF S
<1>9. QED BY <1>8 DEF C, n

\* What commit_step does to active_ and to the history: the requests that are
\* gone have entries in the history, the others a token more, below the limit.
LEMMA CommitMoves ==
  ASSUME SchedulerInv, Numbered, NEW completed, CommitStep(completed)
  PROVE  LET Gone == DOMAIN active \ DOMAIN active'
         IN  /\ DOMAIN active' \subseteq DOMAIN active
             /\ \A id \in DOMAIN active' :
                  /\ active'[id] = [active[id] EXCEPT !.produced = @ + 1]
                  /\ ~ (active[id].produced + 1 >= active[id].req.max_new)
             /\ finished' = [n \in DOMAIN finished' |-> finished'[n]]
             /\ DOMAIN finished' = DOMAIN finished \cup {active[id].no : id \in Gone}
             /\ \A n \in DOMAIN finished : finished'[n] = finished[n]
             /\ \A id \in Gone :
                  finished'[active[id].no] = [req      |-> active[id].req,
                                              produced |-> active[id].produced + 1,
                                              eos      |-> id \in completed]
             /\ UNCHANGED <<queue, submitted>>
<1> DEFINE n == Len(active_order)
           s == Committing(completed)[n]
<1>1. /\ active' = s.active /\ finished' = s.finished /\ UNCHANGED <<queue, submitted>>
  BY DEF CommitStep
<1>2. n \in Nat /\ n \in 0 .. n /\ n + 1 .. n = {} /\ active_order \in Seq(Nat)
      /\ DOMAIN active_order = 1 .. n
  BY DEF SchedulerInv
<1>3. CommitLoop(s, n) /\ ServiceLoop(completed, s, n)
  BY <1>2, CommitLoopOK, ServiceLoopOK
<1> HIDE DEF s
<1>4. DOMAIN s.active = ToSet(s.survivors)
  <2>1. {active_order[j] : j \in n + 1 .. n} = {}
    BY <1>2
  <2>2. QED BY <1>3, <2>1 DEF CommitLoop
<1>5. DOMAIN s.active \subseteq DOMAIN active
  <2>1. ToSet(s.survivors) \subseteq {active_order[j] : j \in 1 .. n}
    BY <1>3 DEF CommitLoop
  <2>2. \A j \in 1 .. n : active_order[j] \in DOMAIN active
    BY <1>2 DEF SchedulerInv, LifecycleConsistent, ToSet
  <2>3. QED BY <1>4, <2>1, <2>2
<1>6. ASSUME NEW id \in DOMAIN s.active
      PROVE  /\ s.active[id] = [active[id] EXCEPT !.produced = @ + 1]
             /\ ~ (active[id].produced + 1 >= active[id].req.max_new)
  <2>1. s.active[id] = IF id \in ToSet(s.survivors)
                       THEN [active[id] EXCEPT !.produced = @ + 1] ELSE active[id]
    BY <1>3 DEF CommitLoop
  <2>2. \A q \in ToSet(s.survivors) : ~ (active[q].produced + 1 >= active[q].req.max_new)
    BY <1>3 DEF ServiceLoop
  <2>3. QED BY <1>4, <2>1, <2>2
<1>7. LET Gone == DOMAIN active \ DOMAIN s.active
      IN  /\ s.finished = [m \in DOMAIN s.finished |-> s.finished[m]]
          /\ DOMAIN s.finished = DOMAIN finished \cup {active[id].no : id \in Gone}
          /\ \A m \in DOMAIN finished : s.finished[m] = finished[m]
          /\ \A id \in Gone :
               s.finished[active[id].no] = [req      |-> active[id].req,
                                            produced |-> active[id].produced + 1,
                                            eos      |-> id \in completed]
  BY <1>3 DEF ServiceLoop
<1>8. QED BY <1>1, <1>5, <1>6, <1>7

\* A request that ends keeps its number.
LEMMA CommitNumbered ==
  ASSUME SchedulerInv, Numbered, NEW completed, CommitStep(completed)
  PROVE  Numbered'
<1> DEFINE Gone == DOMAIN active \ DOMAIN active'
           Ended == {active[id].no : id \in Gone}
<1>1. /\ DOMAIN active' \subseteq DOMAIN active
      /\ \A id \in DOMAIN active' : active'[id] = [active[id] EXCEPT !.produced = @ + 1]
      /\ finished' = [n \in DOMAIN finished' |-> finished'[n]]
      /\ DOMAIN finished' = DOMAIN finished \cup Ended
      /\ UNCHANGED <<queue, submitted>>
  BY CommitMoves
<1>2. \A id \in DOMAIN active' : id \in DOMAIN active /\ active'[id].no = active[id].no
  <2>1. ASSUME NEW id \in DOMAIN active' PROVE id \in DOMAIN active /\ active'[id].no = active[id].no
    <3>1. id \in DOMAIN active /\ active[id] \in InService
      BY <1>1 DEF SchedulerInv
    <3>2. active'[id] = [active[id] EXCEPT !.produced = @ + 1]
      BY <1>1
    <3>3. QED BY <3>1, <3>2 DEF InService
  <2>2. QED BY <2>1
<1>3. \A p, q \in DOMAIN active : active[p].no = active[q].no => p = q
  BY DEF Numbered
<1>4. ActiveNos = ActiveNos' \cup Ended /\ ActiveNos' \cap Ended = {}
  <2>1. ASSUME NEW id \in DOMAIN active PROVE active[id].no \in ActiveNos' \cup Ended
    <3>1. CASE id \in DOMAIN active'
      BY <1>2, <3>1 DEF ActiveNos
    <3>2. CASE id \notin DOMAIN active'
      BY <3>2
    <3>3. QED BY <3>1, <3>2
  <2>2. \A id \in DOMAIN active' : active'[id].no \in ActiveNos /\ active'[id].no \notin Ended
    BY <1>2, <1>3 DEF ActiveNos
  <2>3. \A n \in Ended : n \in ActiveNos
    BY DEF ActiveNos
  <2> HIDE DEF Ended
  <2>4. \A n \in ActiveNos : n \in ActiveNos' \cup Ended
    BY <2>1 DEF ActiveNos
  <2>5. \A n \in ActiveNos' : n \in ActiveNos /\ n \notin Ended
    BY <2>2 DEF ActiveNos
  <2>6. QED BY <2>3, <2>4, <2>5
<1> HIDE DEF Ended, Gone
<1>5. QueueNos' = QueueNos
  BY <1>1 DEF QueueNos
<1>6. /\ QueueNos' \cup ActiveNos' \cup DOMAIN finished' = 0 .. submitted' - 1
      /\ QueueNos' \cap ActiveNos' = {}
      /\ (QueueNos' \cup ActiveNos') \cap DOMAIN finished' = {}
  BY <1>1, <1>4, <1>5 DEF Numbered
<1>7. /\ \A i, j \in DOMAIN queue' : queue'[i].no = queue'[j].no => i = j
      /\ \A i, j \in DOMAIN active' : active'[i].no = active'[j].no => i = j
  BY <1>1, <1>2, <1>3 DEF Numbered
<1>8. QED BY <1>1, <1>6, <1>7 DEF Numbered

\* Every step keeps the numbering.
LEMMA NumberedStep == SchedulerInv /\ Numbered /\ [Next]_vars => Numbered'
<1> SUFFICES ASSUME SchedulerInv, Numbered, [Next]_vars PROVE Numbered'
  OBVIOUS
<1>1. CASE \E req \in Requests : Submit(req)
  BY <1>1, SubmitNumbered
<1>2. CASE PrepareStep
  BY <1>2, PrepareNumbered
<1>3. CASE Commit
  <2>1. PICK completed \in SUBSET DOMAIN active : CommitStep(completed)
    BY <1>3 DEF Commit
  <2>2. QED BY <2>1, CommitNumbered
<1>4. CASE UNCHANGED vars
  <2>1. UNCHANGED <<queue, active, finished, submitted>>
    BY <1>4 DEF vars, history
  <2>2. QED BY <2>1 DEF Numbered, QueueNos, ActiveNos
<1>5. QED BY <1>1, <1>2, <1>3, <1>4 DEF Next

\* The refinement mapping, of the state it depends on.
WaitingOf(q) == [i \in DOMAIN q |-> [no |-> q[i].no, req |-> q[i].req]]
RunningOf(a) ==
  [n \in {a[id].no : id \in DOMAIN a} |->
     LET id == CHOOSE id \in DOMAIN a : a[id].no = n
     IN  [req |-> a[id].req, produced |-> a[id].produced]]

\* Who is running under a number.
LEMMA RunningAt ==
  ASSUME NEW a, \A p, q \in DOMAIN a : a[p].no = a[q].no => p = q, NEW id \in DOMAIN a
  PROVE  /\ a[id].no \in DOMAIN RunningOf(a)
         /\ RunningOf(a)[a[id].no] = [req |-> a[id].req, produced |-> a[id].produced]
<1>1. (CHOOSE q \in DOMAIN a : a[q].no = a[id].no) = id
  OBVIOUS
<1>2. QED BY <1>1 DEF RunningOf

\* As many requests have arrived as were submitted.
LEMMA ArrivedAll ==
  ASSUME SchedulerInv, Numbered
  PROVE  Len(WaitingOf(queue)) + Cardinality(DOMAIN RunningOf(active)) + Cardinality(DOMAIN finished)
           = submitted
<1> DEFINE n == Len(queue)
           g == [i \in 1 .. n |-> queue[i].no]
<1>1. n \in Nat /\ DOMAIN queue = 1 .. n /\ submitted \in Nat
  BY DEF SchedulerInv
<1>2. Len(WaitingOf(queue)) = n
  BY <1>1 DEF WaitingOf
<1>3. DOMAIN RunningOf(active) = ActiveNos
  BY DEF RunningOf, ActiveNos
<1> HIDE DEF n
<1>4. IsFiniteSet(1 .. n) /\ Cardinality(1 .. n) = n
  BY <1>1, FS_Interval
<1>5. g \in Surjection(1 .. n, QueueNos) /\ g \in Injection(1 .. n, QueueNos)
  <2>1. g \in [1 .. n -> QueueNos]
    BY <1>1 DEF QueueNos
  <2>2. \A t \in QueueNos : \E i \in 1 .. n : g[i] = t
    BY <1>1 DEF QueueNos
  <2>3. \A i, j \in DOMAIN g : g[i] = g[j] => i = j
    BY <1>1 DEF Numbered
  <2> HIDE DEF g
  <2>4. QED BY <2>1, <2>2, <2>3 DEF Surjection, Injection, IsInjective
<1> HIDE DEF g
<1>6. IsFiniteSet(QueueNos) /\ Cardinality(QueueNos) = n
  BY <1>4, <1>5, FS_Surjection
<1>7. IsFiniteSet(0 .. submitted - 1) /\ Cardinality(0 .. submitted - 1) = submitted
  BY <1>1, FS_Interval
<1>8. /\ QueueNos \cup ActiveNos \cup DOMAIN finished = 0 .. submitted - 1
      /\ QueueNos \cap ActiveNos = {} /\ (QueueNos \cup ActiveNos) \cap DOMAIN finished = {}
  BY DEF Numbered
<1>9. ActiveNos \subseteq 0 .. submitted - 1 /\ DOMAIN finished \subseteq 0 .. submitted - 1
  BY <1>8
<1>10. IsFiniteSet(ActiveNos) /\ IsFiniteSet(DOMAIN finished)
  BY <1>7, <1>9, FS_Subset
<1>11. /\ IsFiniteSet(QueueNos \cup ActiveNos)
       /\ Cardinality(QueueNos \cup ActiveNos) = n + Cardinality(ActiveNos) - Cardinality({})
  BY <1>6, <1>8, <1>10, FS_Union
<1>12. Cardinality((QueueNos \cup ActiveNos) \cup DOMAIN finished) =
         Cardinality(QueueNos \cup ActiveNos) + Cardinality(DOMAIN finished) - Cardinality({})
  BY <1>8, <1>10, <1>11, FS_Union
<1>13. Cardinality({}) = 0
  BY FS_EmptySet
<1>14. Cardinality(ActiveNos) \in Nat /\ Cardinality(DOMAIN finished) \in Nat
  BY <1>10, FS_CardinalityType
<1>15. n + Cardinality(ActiveNos) + Cardinality(DOMAIN finished) = submitted
  <2> DEFINE a == Cardinality(ActiveNos)
             b == Cardinality(DOMAIN finished)
             c == Cardinality(QueueNos \cup ActiveNos)
  <2>1. a \in Nat /\ b \in Nat
    BY <1>14
  <2>2. c = n + a - 0
    BY <1>11, <1>13
  <2>3. submitted = c + b - 0
    BY <1>7, <1>8, <1>12, <1>13
  <2>4. n + a + b = submitted
    <3> HIDE DEF a, b, c
    <3>1. QED BY <1>1, <2>1, <2>2, <2>3
  <2>5. QED BY <2>4
<1>16. QED BY <1>2, <1>3, <1>15

\* As many are running as are active.
LEMMA RunningCount ==
  ASSUME SchedulerInv, Numbered
  PROVE  Cardinality(DOMAIN RunningOf(active)) = Cardinality(DOMAIN active)
<1> DEFINE g == [id \in DOMAIN active |-> active[id].no]
           D == DOMAIN RunningOf(active)
<1>1. D = {active[id].no : id \in DOMAIN active}
  BY DEF RunningOf
<1>2. g \in Surjection(DOMAIN active, D) /\ g \in Injection(DOMAIN active, D)
  <2>1. g \in [DOMAIN active -> D]
    BY <1>1
  <2>2. \A t \in D : \E i \in DOMAIN active : g[i] = t
    BY <1>1
  <2>3. \A i, j \in DOMAIN g : g[i] = g[j] => i = j
    BY DEF Numbered
  <2> HIDE DEF g, D
  <2>4. QED BY <2>1, <2>2, <2>3 DEF Surjection, Injection, IsInjective
<1>3. IsFiniteSet(DOMAIN active)
  BY ActiveFinite
<1> HIDE DEF g, D
<1>4. Cardinality(D) = Cardinality(DOMAIN active)
  BY <1>2, <1>3, FS_Surjection
<1>5. QED BY <1>4 DEF D

\* The mapping is the one of the property.
LEMMA MappingOf ==
  /\ Waiting = WaitingOf(queue) /\ Running = RunningOf(active)
  /\ Waiting' = WaitingOf(queue') /\ Running' = RunningOf(active')
<1>1. Waiting = WaitingOf(queue) /\ Waiting' = WaitingOf(queue')
  BY DEF Waiting, WaitingOf
<1>2. Running = RunningOf(active) /\ Running' = RunningOf(active')
  BY DEF Running, ById, RunningOf
<1>3. QED BY <1>1, <1>2

\* The service counts as everyone else does.
LEMMA SameCount == \A S : Service!Cardinality(S) = Cardinality(S)
BY DEF Service!Cardinality, Cardinality

\* What appending does to each place of a sequence.
LEMMA AppendAt ==
  ASSUME NEW S, NEW s \in Seq(S), NEW x \in S
  PROVE  /\ DOMAIN Append(s, x) = 1 .. Len(s) + 1
         /\ Append(s, x)[Len(s) + 1] = x
         /\ \A i \in 1 .. Len(s) : Append(s, x)[i] = s[i]
         /\ Append(s, x) = [i \in DOMAIN Append(s, x) |-> Append(s, x)[i]]
<1>1. Append(s, x) \in Seq(S) /\ Len(Append(s, x)) = Len(s) + 1 /\ Len(s) \in Nat
  OBVIOUS
<1>2. DOMAIN Append(s, x) = 1 .. Len(s) + 1
  BY <1>1
<1>3. \A u \in Seq(S) : u = [i \in DOMAIN u |-> u[i]]
  OBVIOUS
<1>4. Append(s, x) = [i \in DOMAIN Append(s, x) |-> Append(s, x)[i]]
  BY <1>1, <1>3
<1>5. Append(s, x)[Len(s) + 1] = x /\ \A i \in 1 .. Len(s) : Append(s, x)[i] = s[i]
  OBVIOUS
<1>6. QED BY <1>2, <1>4, <1>5

\* A submission is an arrival.
LEMMA SubmitArrives ==
  ASSUME SchedulerInv, Numbered, NEW req \in Requests, Submit(req)
  PROVE  Service!Arrive(req)
<1> DEFINE e == [id |-> FreshId(mgr), req |-> req, no |-> submitted]
           x == [no |-> submitted, req |-> req]
           n == Len(queue)
<1>1. queue' = Append(queue, e) /\ active' = active /\ finished' = finished
  BY DEF Submit
<1>2. queue \in Seq(Entry) /\ n \in Nat /\ DOMAIN queue = 1 .. n
  BY DEF SchedulerInv
<1>3. WaitingOf(queue) \in Seq([no : Nat, req : Requests]) /\ Len(WaitingOf(queue)) = n
  <2>1. ASSUME NEW i \in 1 .. n PROVE queue[i].no \in Nat /\ queue[i].req \in Requests
    <3>1. queue[i] \in Entry
      BY <1>2
    <3>2. QED BY <3>1 DEF Entry
  <2>2. QED BY <1>2, <2>1 DEF WaitingOf
<1>4. submitted \in Nat /\ x \in [no : Nat, req : Requests]
  BY DEF SchedulerInv
<1>5. FreshId(mgr) \in Nat
  BY CreatePool DEF SchedulerInv
<1>6. e \in Entry /\ e.no = submitted /\ e.req = req
  BY <1>4, <1>5 DEF Entry
<1> HIDE DEF e, x
<1>7. /\ DOMAIN queue' = 1 .. n + 1
      /\ queue'[n + 1] = e
      /\ \A i \in 1 .. n : queue'[i] = queue[i]
  BY <1>1, <1>2, <1>6
<1>8. WaitingOf(queue') = Append(WaitingOf(queue), x)
  <2> DEFINE W == WaitingOf(queue)
             V == WaitingOf(queue')
  <2>1. /\ DOMAIN Append(W, x) = 1 .. n + 1 /\ Append(W, x)[n + 1] = x
        /\ \A i \in 1 .. n : Append(W, x)[i] = W[i]
        /\ Append(W, x) = [i \in DOMAIN Append(W, x) |-> Append(W, x)[i]]
    <3> DEFINE R == [no : Nat, req : Requests]
    <3>1. W \in Seq(R) /\ Len(W) = n
      BY <1>3
    <3>2. x \in R
      BY <1>4
    <3> HIDE DEF W, n, R
    <3>3. /\ DOMAIN Append(W, x) = 1 .. Len(W) + 1
          /\ Append(W, x)[Len(W) + 1] = x
          /\ \A i \in 1 .. Len(W) : Append(W, x)[i] = W[i]
          /\ Append(W, x) = [i \in DOMAIN Append(W, x) |-> Append(W, x)[i]]
      BY ONLY <3>1, <3>2, AppendAt
    <3>4. QED BY ONLY <3>1, <3>3
  <2>2. DOMAIN V = 1 .. n + 1 /\ V = [i \in DOMAIN V |-> V[i]]
    BY <1>7 DEF WaitingOf
  <2>3. n + 1 \in 1 .. n + 1 /\ \A i \in 1 .. n : i \in 1 .. n + 1
    BY <1>2
  <2>4. V[n + 1] = x
    BY <1>6, <1>7, <2>3 DEF WaitingOf, x
  <2>5. \A i \in 1 .. n : V[i] = W[i]
    BY <1>2, <1>7, <2>3 DEF WaitingOf
  <2> HIDE DEF V, W
  <2>6. \A i \in 1 .. n + 1 : V[i] = Append(W, x)[i]
    <3>1. \A i \in 1 .. n + 1 : i \in 1 .. n \/ i = n + 1
      BY <1>2
    <3>2. QED BY <2>1, <2>4, <2>5, <3>1
  <2>7. V = Append(W, x)
    BY <2>1, <2>2, <2>6, SameFunction
  <2>8. QED BY <2>7 DEF V, W
<1>9. Service!Arrived = submitted
  BY ArrivedAll, MappingOf, SameCount DEF Service!Arrived
<1>10. Waiting' = Append(Waiting, [no |-> Service!Arrived, req |-> req])
  BY <1>8, <1>9, MappingOf DEF x
<1>11. Running' = Running
  BY <1>1, MappingOf
<1>12. QED BY <1>1, <1>10, <1>11 DEF Service!Arrive

\* An admission starts the requests that have waited longest.
LEMMA PrepareStarts ==
  ASSUME SchedulerInv, Numbered, PrepareStep
  PROVE  \/ UNCHANGED <<Waiting, Running, finished>>
         \/ \E k \in 1 .. Len(Waiting) : Service!Start(k)
<1>1. PICK k \in 0 .. Len(queue) :
        /\ Admissible(k)
        /\ queue' = SubSeq(queue, k + 1, Len(queue))
        /\ DOMAIN queue' = 1 .. Len(queue) - k
        /\ \A j \in 1 .. Len(queue) - k : queue'[j] = queue[k + j] /\ k + j \in DOMAIN queue
        /\ \A i \in 1 .. k : i \in DOMAIN queue /\ queue[i].id \notin DOMAIN active
        /\ DOMAIN active' = DOMAIN active \cup {queue[i].id : i \in 1 .. k}
        /\ \A id \in DOMAIN active : active'[id] = active[id]
        /\ \A i \in 1 .. k :
             active'[queue[i].id] = [req |-> queue[i].req, produced |-> 0, no |-> queue[i].no]
        /\ k = 0 => active' = active
  BY PrepareMoves
<1>2. queue \in Seq(Entry) /\ Len(queue) \in Nat /\ DOMAIN queue = 1 .. Len(queue) /\ k \in Nat
  BY DEF SchedulerInv
<1>3. finished' = finished
  BY DEF PrepareStep, history
<1>4. Len(Waiting) = Len(queue) /\ DOMAIN Waiting = 1 .. Len(queue)
      /\ \A i \in 1 .. Len(queue) : Waiting[i] = [no |-> queue[i].no, req |-> queue[i].req]
  BY <1>2 DEF Waiting
<1>5. CASE k = 0
  <2>1. SubSeq(queue, 0 + 1, Len(queue)) = queue
    BY <1>2
  <2>2. queue' = queue /\ active' = active
    BY <1>1, <1>5, <2>1
  <2>3. QED BY <1>3, <2>2, MappingOf
<1>6. CASE k > 0
  <2> DEFINE n == Len(queue)
             Taken == {queue[i].id : i \in 1 .. k}
  <2>1. k \in 1 .. n
    BY <1>2, <1>6
  <2>2. Cardinality(DOMAIN Running) + k <= MaxConcurrent
    <3>1. Cardinality(DOMAIN active) + k - 1 < MaxConcurrent
      BY <1>1, <2>1 DEF Admissible
    <3>2. Cardinality(DOMAIN active) \in Nat
      BY ActiveFinite
    <3>3. Cardinality(DOMAIN Running) = Cardinality(DOMAIN active)
      BY RunningCount, MappingOf
    <3>4. QED BY <1>2, <3>1, <3>2, <3>3, WorkloadAssumption
  <2>3. Waiting' = SubSeq(Waiting, k + 1, Len(Waiting))
    <3> DEFINE V == WaitingOf(queue')
               W == SubSeq(Waiting, k + 1, n)
    <3>1. DOMAIN V = 1 .. n - k /\ V = [i \in DOMAIN V |-> V[i]]
      BY <1>1 DEF WaitingOf
    <3>2. /\ DOMAIN W = 1 .. n - k /\ W = [i \in DOMAIN W |-> W[i]]
          /\ \A j \in 1 .. n - k : W[j] = Waiting[k + j]
      <4>1. W = [i \in 1 .. n - k |-> Waiting[i + (k + 1) - 1]]
        BY <1>2, <1>4, <2>1
      <4>2. \A j \in 1 .. n - k : j + (k + 1) - 1 = k + j
        BY <1>2
      <4> HIDE DEF W
      <4>3. QED BY <4>1, <4>2
    <3>3. \A j \in 1 .. n - k : V[j] = Waiting[k + j]
      <4>1. \A j \in 1 .. n - k : queue'[j] = queue[k + j] /\ k + j \in 1 .. n
        BY <1>1, <1>2
      <4>2. \A j \in 1 .. n - k : V[j] = [no |-> queue'[j].no, req |-> queue'[j].req]
        BY <1>1 DEF WaitingOf
      <4> HIDE DEF V
      <4>3. QED BY <1>4, <4>1, <4>2
    <3> HIDE DEF V, W
    <3>4. DOMAIN V = DOMAIN W /\ \A j \in DOMAIN V : V[j] = W[j]
      BY <3>1, <3>2, <3>3
    <3>5. V = [i \in DOMAIN V |-> V[i]] /\ W = [i \in DOMAIN W |-> W[i]]
      BY <3>1, <3>2
    <3>6. V = W
      BY ONLY <3>4, <3>5, SameFunction
    <3>7. QED BY <1>4, <3>6, MappingOf DEF V, W
  <2>4. \A p, q \in DOMAIN active' : active'[p].no = active'[q].no => p = q
    BY PrepareNumbered DEF Numbered
  <2>5. \A p, q \in DOMAIN active : active[p].no = active[q].no => p = q
    BY DEF Numbered
  <2>6. ASSUME NEW id \in DOMAIN active'
        PROVE  /\ active'[id].no \in DOMAIN Running'
               /\ Running'[active'[id].no] = [req |-> active'[id].req, produced |-> active'[id].produced]
    BY <2>4, RunningAt, MappingOf
  <2>7. ASSUME NEW id \in DOMAIN active
        PROVE  /\ active[id].no \in DOMAIN Running
               /\ Running[active[id].no] = [req |-> active[id].req, produced |-> active[id].produced]
    BY <2>5, RunningAt, MappingOf
  <2>8. /\ DOMAIN active' = DOMAIN active \cup Taken
        /\ \A id \in DOMAIN active : active'[id] = active[id]
    BY <1>1
  <2>9. ASSUME NEW i \in 1 .. k
        PROVE  /\ queue[i].id \in DOMAIN active' /\ i \in 1 .. n
               /\ active'[queue[i].id].no = queue[i].no
               /\ active'[queue[i].id].req = queue[i].req
               /\ active'[queue[i].id].produced = 0
    <3>1. active'[queue[i].id] = [req |-> queue[i].req, produced |-> 0, no |-> queue[i].no]
      BY <1>1
    <3>2. queue[i].id \in DOMAIN active' /\ i \in 1 .. n
      BY <1>1, <1>2
    <3>3. QED BY <3>1, <3>2
  <2>10. DOMAIN Running' = DOMAIN Running \cup {Waiting[i].no : i \in 1 .. k}
    <3>1. /\ DOMAIN Running = {active[id].no : id \in DOMAIN active}
          /\ DOMAIN Running' = {active'[id].no : id \in DOMAIN active'}
      BY DEF Running
    <3>2. \A i \in 1 .. k : Waiting[i].no = queue[i].no
      BY <1>4, <2>9
    <3>3. ASSUME NEW id \in DOMAIN active'
          PROVE  active'[id].no \in DOMAIN Running \cup {Waiting[i].no : i \in 1 .. k}
      <4>1. CASE id \in DOMAIN active
        BY <2>7, <2>8, <4>1
      <4>2. CASE id \in Taken
        <5>1. PICK i \in 1 .. k : id = queue[i].id
          BY <4>2
        <5>2. active'[id].no = Waiting[i].no
          BY <2>9, <3>2, <5>1
        <5>3. QED BY <5>2
      <4> HIDE DEF Taken
      <4>3. QED BY <2>8, <4>1, <4>2
    <3>4. ASSUME NEW id \in DOMAIN active PROVE active[id].no \in DOMAIN Running'
      BY <2>6, <2>8
    <3>5. ASSUME NEW i \in 1 .. k PROVE Waiting[i].no \in DOMAIN Running'
      <4>1. queue[i].id \in DOMAIN active' /\ active'[queue[i].id].no = Waiting[i].no
        BY <2>9, <3>2
      <4>2. QED BY <3>1, <4>1
    <3>6. QED BY <3>1, <3>3, <3>4, <3>5
  <2>11. \A m \in DOMAIN Running : Running'[m] = Running[m]
    <3>1. ASSUME NEW m \in DOMAIN Running PROVE Running'[m] = Running[m]
      <4>1. PICK id \in DOMAIN active : m = active[id].no
        BY DEF Running
      <4>2. id \in DOMAIN active' /\ active'[id] = active[id]
        BY <2>8
      <4>3. Running'[active'[id].no] = [req |-> active'[id].req, produced |-> active'[id].produced]
        BY <2>6, <4>2
      <4>4. QED BY <2>7, <4>1, <4>2, <4>3
    <3>2. QED BY <3>1
  <2>12. ASSUME NEW i \in 1 .. k
         PROVE  Running'[Waiting[i].no] = [req |-> Waiting[i].req, produced |-> 0]
    <3>1. Waiting[i].no = queue[i].no /\ Waiting[i].req = queue[i].req
      BY <1>4, <2>9
    <3>2. Running'[active'[queue[i].id].no] =
            [req |-> active'[queue[i].id].req, produced |-> active'[queue[i].id].produced]
      BY <2>6, <2>9
    <3>3. QED BY <2>9, <3>1, <3>2
  <2>13. Service!Start(k)
    BY <1>3, <2>2, <2>3, <2>10, <2>11, <2>12, SameCount DEF Service!Start
  <2>14. k \in 1 .. Len(Waiting)
    BY <1>4, <2>1
  <2>15. QED BY <2>13, <2>14
<1>7. QED BY <1>2, <1>5, <1>6

\* A commit is a round: those that are gone end, the others get a token.
LEMMA CommitRounds ==
  ASSUME SchedulerInv, Numbered, NEW completed, CommitStep(completed)
  PROVE  \E ending \in SUBSET DOMAIN Running : \E eos \in SUBSET ending :
           Service!Round(ending, eos)
<1> DEFINE Gone == DOMAIN active \ DOMAIN active'
           ending == {active[id].no : id \in Gone}
           eos == {active[id].no : id \in Gone \cap completed}
<1>1. /\ DOMAIN active' \subseteq DOMAIN active
      /\ \A id \in DOMAIN active' :
           /\ active'[id] = [active[id] EXCEPT !.produced = @ + 1]
           /\ ~ (active[id].produced + 1 >= active[id].req.max_new)
      /\ finished' = [n \in DOMAIN finished' |-> finished'[n]]
      /\ DOMAIN finished' = DOMAIN finished \cup ending
      /\ \A n \in DOMAIN finished : finished'[n] = finished[n]
      /\ \A id \in Gone :
           finished'[active[id].no] = [req      |-> active[id].req,
                                       produced |-> active[id].produced + 1,
                                       eos      |-> id \in completed]
      /\ UNCHANGED <<queue, submitted>>
  BY CommitMoves
<1>2. \A p, q \in DOMAIN active : active[p].no = active[q].no => p = q
  BY DEF Numbered
<1>3. Numbered'
  BY CommitNumbered
<1>4. \A p, q \in DOMAIN active' : active'[p].no = active'[q].no => p = q
  BY <1>3 DEF Numbered
<1>5. ASSUME NEW id \in DOMAIN active
      PROVE  /\ active[id].no \in DOMAIN Running
             /\ Running[active[id].no] = [req |-> active[id].req, produced |-> active[id].produced]
  BY <1>2, RunningAt, MappingOf
<1>6. ASSUME NEW id \in DOMAIN active'
      PROVE  /\ active'[id].no \in DOMAIN Running'
             /\ Running'[active'[id].no] = [req |-> active'[id].req, produced |-> active'[id].produced]
  BY <1>4, RunningAt, MappingOf
<1>7. ASSUME NEW id \in DOMAIN active'
      PROVE  /\ active'[id].no = active[id].no /\ active'[id].req = active[id].req
             /\ active'[id].produced = active[id].produced + 1
  <2>1. active[id] \in InService
    BY <1>1 DEF SchedulerInv
  <2>2. active'[id] = [active[id] EXCEPT !.produced = @ + 1]
    BY <1>1
  <2>3. QED BY <2>1, <2>2 DEF InService
<1>8. ASSUME NEW n \in DOMAIN Running PROVE \E id \in DOMAIN active : n = active[id].no
  BY DEF Running
<1>9. ending \subseteq DOMAIN Running /\ eos \subseteq ending
  BY <1>5
<1>10. ASSUME NEW n \in DOMAIN Running, Running[n].produced + 1 >= Running[n].req.max_new
       PROVE  n \in ending
  <2>1. PICK id \in DOMAIN active : n = active[id].no
    BY <1>8
  <2>2. Running[n] = [req |-> active[id].req, produced |-> active[id].produced]
    BY <1>5, <2>1
  <2>3. active[id].produced + 1 >= active[id].req.max_new
    BY <1>10, <2>2
  <2>4. id \notin DOMAIN active'
    BY <1>1, <2>3
  <2>5. QED BY <2>1, <2>4
<1>11. DOMAIN Running' = DOMAIN Running \ ending
  <2>1. DOMAIN Running' = {active'[id].no : id \in DOMAIN active'}
    BY DEF Running
  <2>2. ASSUME NEW id \in DOMAIN active' PROVE active'[id].no \in DOMAIN Running \ ending
    <3>1. id \in DOMAIN active /\ active'[id].no = active[id].no
      BY <1>1, <1>7
    <3>2. active[id].no \in DOMAIN Running
      BY <1>5, <3>1
    <3>3. ASSUME NEW q \in Gone PROVE active[q].no # active[id].no
      BY <1>2, <3>1
    <3>4. QED BY <3>1, <3>2, <3>3
  <2>3. ASSUME NEW n \in DOMAIN Running \ ending PROVE n \in DOMAIN Running'
    <3>1. PICK id \in DOMAIN active : n = active[id].no
      BY <1>8
    <3>2. id \in DOMAIN active'
      BY <2>3, <3>1
    <3>3. QED BY <1>6, <1>7, <3>1, <3>2
  <2> HIDE DEF ending
  <2>4. QED BY <2>1, <2>2, <2>3
<1>12. ASSUME NEW n \in DOMAIN Running \ ending
       PROVE  Running'[n] = [Running[n] EXCEPT !.produced = @ + 1]
  <2>1. PICK id \in DOMAIN active : n = active[id].no
    BY <1>8
  <2>2. id \in DOMAIN active'
    BY <1>12, <2>1
  <2>3. Running'[n] = [req |-> active[id].req, produced |-> active[id].produced + 1]
    BY <1>6, <1>7, <2>1, <2>2
  <2>4. Running[n] = [req |-> active[id].req, produced |-> active[id].produced]
    BY <1>5, <2>1
  <2>5. QED BY <2>3, <2>4
<1>13. Running' = [n \in DOMAIN Running \ ending |-> [Running[n] EXCEPT !.produced = @ + 1]]
  <2> DEFINE G == [n \in DOMAIN Running \ ending |-> [Running[n] EXCEPT !.produced = @ + 1]]
  <2>1. Running' = [n \in DOMAIN Running' |-> Running'[n]]
    BY DEF Running
  <2>2. DOMAIN G = DOMAIN Running \ ending /\ G = [n \in DOMAIN G |-> G[n]]
        /\ \A n \in DOMAIN G : G[n] = [Running[n] EXCEPT !.produced = @ + 1]
    OBVIOUS
  <2> HIDE DEF G, ending
  <2>3. DOMAIN Running' = DOMAIN G /\ \A n \in DOMAIN Running' : Running'[n] = G[n]
    BY <1>11, <1>12, <2>2
  <2>4. Running' = G
    BY ONLY <2>1, <2>2, <2>3, SameFunction
  <2>5. QED BY <2>4 DEF G
<1>14. ASSUME NEW n \in ending
       PROVE  finished'[n] = [req      |-> Running[n].req,
                              produced |-> Running[n].produced + 1,
                              eos      |-> n \in eos]
  <2>1. PICK id \in Gone : n = active[id].no
    OBVIOUS
  <2>2. Running[n] = [req |-> active[id].req, produced |-> active[id].produced]
    BY <1>5, <2>1
  <2>3. (n \in eos) = (id \in completed)
    <3>1. id \in completed => n \in eos
      BY <2>1
    <3>2. ASSUME n \in eos PROVE id \in completed
      <4>1. PICK q \in Gone \cap completed : n = active[q].no
        BY <3>2
      <4>2. q = id
        BY <1>2, <2>1, <4>1
      <4>3. QED BY <4>1, <4>2
    <3> HIDE DEF eos
    <3>3. QED BY <3>1, <3>2
  <2>4. finished'[n] = [req      |-> active[id].req,
                        produced |-> active[id].produced + 1,
                        eos      |-> id \in completed]
    BY <1>1, <2>1
  <2> HIDE DEF eos
  <2>5. QED BY <2>2, <2>3, <2>4
<1>15. ASSUME NEW n \in DOMAIN finished PROVE n \notin ending
  <2>1. DOMAIN finished \cap ActiveNos = {}
    BY DEF Numbered
  <2>2. ending \subseteq ActiveNos
    BY DEF ActiveNos
  <2> HIDE DEF ending
  <2>3. QED BY <2>1, <2>2
<1>16. finished' = [n \in DOMAIN finished \cup ending |->
                      IF n \in ending
                      THEN [req      |-> Running[n].req,
                            produced |-> Running[n].produced + 1,
                            eos      |-> n \in eos]
                      ELSE finished[n]]
  <2> HIDE DEF ending, eos
  <2>1. \A n \in DOMAIN finished' :
          finished'[n] = IF n \in ending
                         THEN [req      |-> Running[n].req,
                               produced |-> Running[n].produced + 1,
                               eos      |-> n \in eos]
                         ELSE finished[n]
    BY <1>1, <1>14
  <2>2. QED BY <1>1, <2>1
<1>17. UNCHANGED Waiting
  BY <1>1, MappingOf
<1> HIDE DEF ending, eos
<1>18. Service!Round(ending, eos)
  BY <1>9, <1>10, <1>13, <1>16, <1>17 DEF Service!Round
<1>19. QED BY <1>9, <1>18

\* Each step of the scheduler is one of the service, or hidden from it.
LEMMA ServiceStep ==
  SchedulerInv /\ Numbered /\ [Next]_vars => [Service!ServiceNext]_(Service!serviceVars)
<1> SUFFICES ASSUME SchedulerInv, Numbered, [Next]_vars
             PROVE  [Service!ServiceNext]_(Service!serviceVars)
  OBVIOUS
<1>1. ASSUME NEW req \in Requests, Submit(req) PROVE Service!ServiceNext
  BY <1>1, SubmitArrives DEF Service!ServiceNext
<1>2. ASSUME PrepareStep PROVE [Service!ServiceNext]_(Service!serviceVars)
  <2>1. CASE UNCHANGED <<Waiting, Running, finished>>
    BY <2>1 DEF Service!serviceVars
  <2>2. CASE \E k \in 1 .. Len(Waiting) : Service!Start(k)
    BY <2>2 DEF Service!ServiceNext
  <2>3. QED BY <1>2, <2>1, <2>2, PrepareStarts
<1>3. ASSUME Commit PROVE Service!ServiceNext
  <2>1. PICK completed \in SUBSET DOMAIN active : CommitStep(completed)
    BY <1>3 DEF Commit
  <2>2. QED BY <2>1, CommitRounds DEF Service!ServiceNext
<1>4. CASE UNCHANGED vars
  <2>1. UNCHANGED <<queue, active, finished>>
    BY <1>4 DEF vars, history
  <2>2. UNCHANGED <<Waiting, Running>>
    BY <2>1, MappingOf
  <2>3. QED BY <2>1, <2>2 DEF Service!serviceVars
<1>5. QED BY <1>1, <1>2, <1>3, <1>4 DEF Next

\* The service starts with nobody.
LEMMA ServiceStart == Init => Service!ServiceInit
<1> SUFFICES ASSUME Init PROVE Service!ServiceInit
  OBVIOUS
<1>1. queue = <<>> /\ active = <<>> /\ finished = <<>>
  BY DEF Init
<1>2. Waiting = <<>>
  BY <1>1 DEF Waiting
<1>3. Running = <<>>
  <2>1. {active[id].no : id \in DOMAIN active} = {}
    BY <1>1
  <2>2. DOMAIN Running = {} /\ Running = [n \in DOMAIN Running |-> Running[n]]
    BY <2>1 DEF Running
  <2>3. \A f : DOMAIN f = {} /\ f = [n \in DOMAIN f |-> f[n]] => f = <<>>
    <3>1. SUFFICES ASSUME NEW f, DOMAIN f = {}, f = [n \in DOMAIN f |-> f[n]] PROVE f = <<>>
      OBVIOUS
    <3>2. <<>> = [n \in DOMAIN <<>> |-> <<>>[n]] /\ DOMAIN <<>> = {}
      OBVIOUS
    <3>3. QED BY ONLY <3>1, <3>2, SameFunction
  <2>4. QED BY <2>2, <2>3
<1>4. QED BY <1>1, <1>2, <1>3 DEF Service!ServiceInit

\* The scheduler is a first-come service (ServiceRefined): whatever the
\* pool does, requests start in the order they came and each of those running
\* is given one token in every round, until it ends.
THEOREM FirstComeService == Spec => ServiceRefined
<1>1. Init => SchedulerInv /\ Numbered
  BY InitScheduler, InitNumbered
<1>2. SchedulerInv /\ Numbered /\ [Next]_vars => SchedulerInv' /\ Numbered'
  BY SchedulerStep, NumberedStep
<1>3. SchedulerInv /\ Numbered /\ [Next]_vars => [Service!ServiceNext]_(Service!serviceVars)
  BY ServiceStep
<1>4. QED BY <1>1, <1>2, <1>3, ServiceStart, PTL DEF Spec, ServiceRefined, Service!Spec

---------------------------------------------------------------------------
(* The tables that the appends went by are only ever extended. *)

\* The entries of table t are the first of table u.
Starts(t, u) == \A k \in 1 .. Len(t) : k <= Len(u) /\ u[k] = t[k]

\* Growth leaves the entries of a table where they are.
LEMMA GrowPrefix ==
  ASSUME NEW m, PoolOK(m), NEW id \in DOMAIN m.requests, NEW need \in Nat, NEW len \in Nat
  PROVE  Starts(Table(m, id), Table(SetSeqLen(EnsureCapacity(m, id, need), id, len), id))
<1> DEFINE e == EnsureCapacity(m, id, need)
           n == SetSeqLen(e, id, len)
           extra == BlocksFor(need) - Len(Table(m, id))
           T == Table(m, id)
           top == TopBlocks(m, extra)
<1>1. ManagerOK(m) /\ T \in Seq(Block)
  BY DEF PoolOK
<1>2. /\ ManagerOK(e) /\ DOMAIN e.requests = DOMAIN m.requests
      /\ e = m \/ Extended(m, e, id, extra)
  BY <1>1, EnsureCapacityOK
<1>3. n.requests = [e.requests EXCEPT ![id] = [block_table |-> @.block_table, seq_len |-> len]]
  <2>1. ManagerOK(e) /\ id \in DOMAIN e.requests
    BY <1>2
  <2> HIDE DEF e
  <2>2. QED BY <2>1, SetSeqLenOK
<1>4. Table(n, id) = Table(e, id)
  <2> HIDE DEF e, n
  <2>1. QED BY <1>2, <1>3 DEF Table
<1>5. Starts(T, Table(e, id))
  <2>1. CASE e = m
    BY <1>1, <2>1 DEF Starts
  <2>2. CASE Extended(m, e, id, extra)
    <3> HIDE DEF e
    <3>1. extra \in 0 .. NumFree(m)
      BY <1>1, <2>2 DEF Extended, ManagerOK, ManagerTypeOK, NumFree
    <3>2. top \in Seq(Block)
      BY <1>1, <3>1, AllocateBlocksOK
    <3>3. Table(e, id) = T \o top
      BY <2>2 DEF Extended
    <3> HIDE DEF T, top
    <3>4. QED BY <1>1, <3>2, <3>3 DEF Starts
  <2>3. QED BY <1>2, <2>1, <2>2
<1> HIDE DEF e, n, T
<1>6. QED BY <1>4, <1>5 DEF n, e, T

\* In the loop of commit_step, the requests still active have their entries.
KeepLoop(s) == \A id \in DOMAIN s.active : Starts(Table(mgr, id), Table(s.mgr, id))

\* One turn of the loop.
LEMMA KeepLoopStep ==
  ASSUME SchedulerInv, NEW completed, NEW s, NEW i \in 1 .. Len(active_order),
         CommitLoop(s, i - 1), KeepLoop(s)
  PROVE  KeepLoop(CommitOne(completed, s, i))
<1> DEFINE id == active_order[i]
           eos == id \in completed
           n == CommitOne(completed, s, i)
<1>1. id \in DOMAIN s.active /\ id \in DOMAIN s.mgr.requests
  BY CommitLoopNext
<1>2. PoolOK(s.mgr) /\ DOMAIN s.active \subseteq DOMAIN s.mgr.requests
  BY DEF CommitLoop
<1>3. \A r \in DOMAIN s.active : Starts(Table(mgr, r), Table(s.mgr, r))
  BY DEF KeepLoop
<1> HIDE DEF id
<1>4. CASE Ends(s, id, eos)
  <2>1. n = End(s, id, eos)
    BY <1>1, <1>4 DEF CommitOne, id
  <2> HIDE DEF n
  <2>2. DOMAIN n.active = DOMAIN s.active \ {id} /\ n.mgr = ReleaseRequest(s.mgr, id)
    BY <2>1 DEF End, Restrict
  <2>3. ReleaseRequest(s.mgr, id).requests = [r \in DOMAIN s.mgr.requests \ {id} |-> s.mgr.requests[r]]
    BY <1>1, <1>2, ReleasePool
  <2>4. \A r \in DOMAIN n.active : Table(n.mgr, r) = Table(s.mgr, r)
    BY <1>2, <2>2, <2>3 DEF Table
  <2>5. KeepLoop(n)
    BY <1>3, <2>2, <2>4 DEF KeepLoop
  <2>6. QED BY <2>5 DEF n
<1>5. CASE ~ Ends(s, id, eos)
  <2> DEFINE need == NewLen(s, id) + 1
             len == NewLen(s, id)
  <2>1. n = Continue(s, id)
    BY <1>1, <1>5 DEF CommitOne, id
  <2> HIDE DEF n
  <2>2. /\ DOMAIN n.active = DOMAIN s.active
        /\ n.mgr = SetSeqLen(EnsureCapacity(s.mgr, id, need), id, len)
    BY <2>1 DEF Continue
  <2>3. need \in Nat /\ len \in Nat
    <3>1. s.mgr.requests[id] \in RequestBlocks
      BY <1>1, <1>2 DEF PoolOK, ManagerOK, ManagerTypeOK
    <3>2. s.mgr.requests[id].seq_len \in Nat
      BY <3>1 DEF RequestBlocks
    <3> DEFINE x == s.mgr.requests[id].seq_len
    <3>3. len = x + 1 /\ need = (x + 1) + 1 /\ x \in Nat
      BY <3>2 DEF NewLen
    <3> HIDE DEF x, len, need
    <3>4. QED BY <3>3
  <2>4. CanCover(s.mgr, id, need)
    BY <1>5 DEF Ends
  <2> HIDE DEF need, len
  <2>5. \A r \in DOMAIN s.mgr.requests : r # id => n.mgr.requests[r] = s.mgr.requests[r]
    BY <1>1, <1>2, <2>2, <2>3, <2>4, GrowPool
  <2>6. Starts(Table(s.mgr, id), Table(n.mgr, id))
    BY <1>1, <1>2, <2>2, <2>3, GrowPrefix
  <2>7. ASSUME NEW r \in DOMAIN n.active PROVE Starts(Table(mgr, r), Table(n.mgr, r))
    <3>1. CASE r = id
      <4>1. Starts(Table(mgr, id), Table(s.mgr, id)) /\ Table(s.mgr, id) \in Seq(Block)
        BY <1>1, <1>2, <1>3 DEF PoolOK
      <4>2. QED BY <2>6, <3>1, <4>1 DEF Starts
    <3>2. CASE r # id
      <4>1. Table(n.mgr, r) = Table(s.mgr, r)
        BY <1>2, <2>2, <2>5, <3>2 DEF Table
      <4>2. QED BY <1>3, <2>2, <4>1
    <3>3. QED BY <3>1, <3>2
  <2>8. KeepLoop(n)
    BY <2>7 DEF KeepLoop
  <2>9. QED BY <2>8 DEF n
<1>6. QED BY <1>4, <1>5 DEF n

\* The whole loop.
LEMMA KeepLoopOK ==
  ASSUME SchedulerInv, NEW completed
  PROVE  KeepLoop(Committing(completed)[Len(active_order)])
<1> DEFINE n == Len(active_order)
           C == Committing(completed)
           S == {i \in Nat : i <= n => KeepLoop(C[i])}
<1>1. n \in Nat /\ active_order \in Seq(Nat)
  BY DEF SchedulerInv
<1>2. C[0] = CommitStart /\ \A i \in 1 .. n : C[i] = CommitOne(completed, C[i - 1], i)
  BY <1>1, CommittingUnfolds
<1>3. \A i \in 0 .. n : CommitLoop(C[i], i)
  BY CommitLoopOK
<1>4. 0 \in S
  <2>1. CommitStart.mgr = mgr /\ CommitStart.active = active
    BY DEF CommitStart
  <2>2. \A id \in DOMAIN active : Table(mgr, id) \in Seq(Block)
    BY DEF SchedulerInv, LifecycleConsistent, PoolOK
  <2>3. QED BY <1>2, <2>1, <2>2 DEF KeepLoop, Starts
<1>5. \A i \in Nat : i \in S => i + 1 \in S
  <2>1. SUFFICES ASSUME NEW i \in Nat, KeepLoop(C[i]), i + 1 <= n
                 PROVE  KeepLoop(C[i + 1])
    <3> HIDE DEF C, n
    <3>1. \A i \in Nat : i + 1 <= n => i <= n
      BY <1>1
    <3>2. QED BY <3>1
  <2>2. i + 1 \in 1 .. n /\ (i + 1) - 1 = i /\ i \in 0 .. n
    BY <1>1, <2>1
  <2>3. C[i + 1] = CommitOne(completed, C[i], i + 1) /\ CommitLoop(C[i], i)
    BY <1>2, <1>3, <2>2
  <2> HIDE DEF C
  <2>4. QED BY <2>1, <2>2, <2>3, KeepLoopStep
<1> HIDE DEF S
<1>6. n \in S
  BY <1>1, <1>4, <1>5, SetInduction
<1>7. QED BY <1>1, <1>6 DEF S


\* A step of the loop, for the requests that go on: a token more, and the
\* entries of their tables where they were.
LEMMA CommitKeeps ==
  ASSUME SchedulerInv, NEW completed, CommitStep(completed)
  PROVE  \A id \in DOMAIN active' :
           /\ id \in DOMAIN active /\ id \in DOMAIN mgr.requests /\ id \in DOMAIN mgr'.requests
           /\ Starts(Table(mgr, id), Table(mgr', id))
           /\ active'[id].no = active[id].no
           /\ active'[id].produced = active[id].produced + 1
           /\ active[id].produced \in Nat
           /\ mgr'.requests[id].seq_len = mgr.requests[id].seq_len + 1
<1> DEFINE n == Len(active_order)
           s == Committing(completed)[n]
<1>1. mgr' = s.mgr /\ active' = s.active
  BY DEF CommitStep
<1>2. n \in Nat /\ n \in 0 .. n
  BY DEF SchedulerInv
<1>3. CommitLoop(s, n) /\ KeepLoop(s)
  BY <1>2, CommitLoopOK, KeepLoopOK
<1> HIDE DEF s
<1>4. {active_order[j] : j \in n + 1 .. n} = {}
  BY <1>2
<1>5. ASSUME NEW id \in DOMAIN s.active
      PROVE  /\ id \in ToSet(s.survivors) /\ id \in ToSet(active_order)
             /\ id \in DOMAIN s.mgr.requests
             /\ s.active[id] = [active[id] EXCEPT !.produced = @ + 1]
             /\ SlotReserved(s.mgr, s.active, id)
             /\ Starts(Table(mgr, id), Table(s.mgr, id))
  <2>1. id \in ToSet(s.survivors)
    BY <1>3, <1>4 DEF CommitLoop
  <2>2. ToSet(s.survivors) \subseteq {active_order[j] : j \in 1 .. n}
    BY <1>3 DEF CommitLoop
  <2>3. {active_order[j] : j \in 1 .. n} \subseteq ToSet(active_order)
    <3>1. DOMAIN active_order = 1 .. n
      BY <1>2 DEF SchedulerInv
    <3>2. QED BY <3>1 DEF ToSet
  <2>4. QED BY <1>3, <2>1, <2>2, <2>3 DEF CommitLoop, KeepLoop
<1>6. ASSUME NEW id \in DOMAIN s.active
      PROVE  /\ id \in DOMAIN active /\ id \in DOMAIN mgr.requests
             /\ active[id] \in InService /\ SlotReserved(mgr, active, id)
  BY <1>5 DEF SchedulerInv, LifecycleConsistent
<1>7. ASSUME NEW id \in DOMAIN s.active
      PROVE  /\ s.active[id].no = active[id].no
             /\ s.active[id].req = active[id].req
             /\ s.active[id].produced = active[id].produced + 1
             /\ active[id].produced \in Nat /\ active[id].req.prompt \in Nat
  <2>1. active[id] \in [req : Requests, produced : Nat, no : Nat]
    BY <1>6 DEF InService
  <2>2. active[id].req \in Requests
    BY <2>1
  <2>3. active[id].req.prompt \in Nat
    BY <2>2, WorkloadAssumption DEF Requests
  <2>4. QED BY <1>5, <2>1, <2>3
<1>8. ASSUME NEW id \in DOMAIN s.active
      PROVE  s.mgr.requests[id].seq_len = mgr.requests[id].seq_len + 1
  <2>1. s.mgr.requests[id].seq_len = s.active[id].req.prompt + s.active[id].produced
    BY <1>5 DEF SlotReserved
  <2>2. mgr.requests[id].seq_len = active[id].req.prompt + active[id].produced
    BY <1>6 DEF SlotReserved
  <2>3. QED BY <1>7, <2>1, <2>2
<1>9. QED BY <1>1, <1>5, <1>6, <1>7, <1>8

\* A step of prepare_step, for the requests that were active before it: nothing
\* of theirs moves.
LEMMA PrepareKeeps ==
  ASSUME SchedulerInv, PrepareStep
  PROVE  /\ \A id \in DOMAIN active : /\ mgr'.requests[id] = mgr.requests[id]
                                      /\ id \in DOMAIN active' /\ active'[id] = active[id]
         /\ \A id \in DOMAIN active' : id \notin DOMAIN active => active'[id].produced = 0
<1>1. NumAdmitted \in 0 .. Len(queue) /\ Admissible(NumAdmitted)
  BY NumAdmittedOK
<1>2. AdmitLoop(Admitting[NumAdmitted], NumAdmitted)
  BY <1>1, AdmitLoopOK
<1>3. mgr' = Admitting[NumAdmitted]
  BY DEF PrepareStep
<1>4. \A id \in DOMAIN active : mgr'.requests[id] = mgr.requests[id]
  BY <1>2, <1>3 DEF AdmitLoop
<1>5. PICK k \in 0 .. Len(queue) :
        /\ DOMAIN active' = DOMAIN active \cup {queue[i].id : i \in 1 .. k}
        /\ \A id \in DOMAIN active : active'[id] = active[id]
        /\ \A i \in 1 .. k :
             active'[queue[i].id] = [req |-> queue[i].req, produced |-> 0, no |-> queue[i].no]
  BY PrepareMoves
<1>6. ASSUME NEW id \in DOMAIN active', id \notin DOMAIN active PROVE active'[id].produced = 0
  <2>1. PICK i \in 1 .. k : id = queue[i].id
    BY <1>5, <1>6
  <2>2. active'[id] = [req |-> queue[i].req, produced |-> 0, no |-> queue[i].no]
    BY <1>5, <2>1
  <2>3. QED BY <2>2
<1>7. \A id \in DOMAIN active : id \in DOMAIN active' /\ active'[id] = active[id]
  BY <1>5
<1>8. QED BY <1>4, <1>6, <1>7

\* A submission leaves the requests that are active alone.
LEMMA SubmitKeeps ==
  ASSUME SchedulerInv, NEW req \in Requests, Submit(req)
  PROVE  /\ UNCHANGED <<active, stepping, view>>
         /\ \A id \in DOMAIN active : mgr'.requests[id] = mgr.requests[id]
<1>1. PoolOK(mgr) /\ DOMAIN active \subseteq DOMAIN mgr.requests
  BY DEF SchedulerInv, LifecycleConsistent
<1>2. mgr' = CreateRequest(mgr) /\ UNCHANGED <<active, stepping, view>>
  BY DEF Submit
<1>3. CreateRequest(mgr).requests =
        [r \in DOMAIN mgr.requests \cup {FreshId(mgr)} |->
           IF r \in DOMAIN mgr.requests THEN mgr.requests[r] ELSE NoBlocks]
  BY <1>1, CreatePool
<1>4. QED BY <1>1, <1>2, <1>3


---------------------------------------------------------------------------
(* Where the view has the positions of a request. *)

\* The block of position pos, by table t.
BlockAt(t, pos) == t[(pos \div BlockSize) + 1]

\* Every position up to the decode slot has a block of the table.
LEMMA BlockAtTyped ==
  ASSUME SchedulerInv, NEW id \in DOMAIN active, NEW pos \in 0 .. mgr.requests[id].seq_len
  PROVE  /\ (pos \div BlockSize) + 1 \in DOMAIN Table(mgr, id)
         /\ (pos \div BlockSize) + 1 \in 1 .. Len(Table(mgr, id))
         /\ BlockAt(Table(mgr, id), pos) \in Block
<1>1. /\ (pos \div BlockSize) + 1 \in 1 .. Len(Table(mgr, id))
      /\ DOMAIN Table(mgr, id) = 1 .. Len(Table(mgr, id))
  BY SlotInTable
<1>2. Table(mgr, id) \in Seq(Block)
  BY DEF SchedulerInv, LifecycleConsistent, PoolOK
<1>3. QED BY <1>1, <1>2 DEF BlockAt

\* No two positions, of one request or of two, have the same place.
LEMMA OnePlace ==
  ASSUME SchedulerInv, NEW r \in DOMAIN active, NEW q \in DOMAIN active,
         NEW a \in 0 .. mgr.requests[r].seq_len, NEW b \in 0 .. mgr.requests[q].seq_len,
         BlockAt(Table(mgr, r), a) = BlockAt(Table(mgr, q), b), SlotOf(a) = SlotOf(b)
  PROVE  r = q /\ a = b
<1>1. /\ (a \div BlockSize) + 1 \in DOMAIN Table(mgr, r)
      /\ (b \div BlockSize) + 1 \in DOMAIN Table(mgr, q)
  BY BlockAtTyped
<1>2. PoolOK(mgr) /\ r \in DOMAIN mgr.requests /\ q \in DOMAIN mgr.requests
  BY DEF SchedulerInv, LifecycleConsistent
<1>3. r = q /\ (a \div BlockSize) + 1 = (b \div BlockSize) + 1
  BY <1>1, <1>2, PoolExclusive DEF BlockAt
<1>4. a \in Nat /\ b \in Nat /\ BlockSize \in Nat /\ BlockSize > 0
  BY LayoutAssumption
<1>5. a \div BlockSize \in Int /\ b \div BlockSize \in Int
  BY <1>4
<1>6. a \div BlockSize = b \div BlockSize
  BY <1>3, <1>5
<1>7. QED BY <1>3, <1>4, <1>6, QuotientAndRest

\* What is known of a row of the view.
LEMMA ViewPlaces ==
  ASSUME SchedulerInv, stepping, NEW row \in DOMAIN active_order
  PROVE  LET id == active_order[row]
         IN  /\ view.ids = active_order /\ view.seq_lens[row] = mgr.requests[id].seq_len
             /\ id \in DOMAIN active /\ mgr.requests[id].seq_len \in Nat
             /\ \A pos \in 0 .. mgr.requests[id].seq_len :
                  PhysAt(view.block_tables, RowBase(row), pos) = BlockAt(Table(mgr, id), pos)
             /\ PastLen(row) \in Nat /\ SeqNew(row) \in Nat
             /\ PastLen(row) + SeqNew(row) = mgr.requests[id].seq_len
             /\ PastLen(row) = IF active[id].produced = 0 THEN 0 ELSE mgr.requests[id].seq_len - 1
<1> DEFINE id == active_order[row]
           len == mgr.requests[id].seq_len
<1>1. id \in DOMAIN active
  BY DEF SchedulerInv, LifecycleConsistent, ToSet
<1>2. ViewCurrent
  BY ViewIsCurrent
<1>3. view.ids = active_order /\ view.seq_lens[row] = len
  BY <1>2 DEF ViewCurrent
<1>4. /\ active[id].req.prompt \in Nat /\ active[id].produced \in Nat
      /\ len = active[id].req.prompt + active[id].produced
  <2>1. active[id] \in [req : Requests, produced : Nat, no : Nat]
    BY <1>1 DEF SchedulerInv, InService
  <2>2. active[id].req \in Requests /\ active[id].produced \in Nat
    BY <2>1
  <2>3. active[id].req.prompt \in Nat
    BY <2>2, WorkloadAssumption DEF Requests
  <2>4. SlotReserved(mgr, active, id)
    BY <1>1 DEF SchedulerInv
  <2>5. QED BY <2>2, <2>3, <2>4 DEF SlotReserved
<1>5. \A pos \in 0 .. len : PhysAt(view.block_tables, RowBase(row), pos) = BlockAt(Table(mgr, id), pos)
  <2>1. \A pos \in 0 .. len : KernelBlock(row, pos) = BlockAt(Table(mgr, id), pos)
    BY <1>2, <1>3 DEF ViewCurrent, BlockAt
  <2>2. \A pos : PhysAt(view.block_tables, RowBase(row), pos) = KernelBlock(row, pos)
    BY DEF PhysAt, RowBase, KernelBlock
  <2>3. QED BY <2>1, <2>2
<1>6. PastLen(row) = IF active[id].produced = 0 THEN 0 ELSE len - 1
  BY <1>3 DEF PastLen
<1>7. SeqNew(row) = len - PastLen(row)
  BY <1>3 DEF SeqNew
<1> DEFINE p == active[id].produced
<1> HIDE DEF len, p
<1>8. len \in Nat /\ (p # 0 => len >= 1) /\ p \in Nat
  BY <1>4 DEF p
<1>9. PastLen(row) \in Nat /\ SeqNew(row) \in Nat /\ PastLen(row) + SeqNew(row) = len
  <2>1. PastLen(row) = IF p = 0 THEN 0 ELSE len - 1
    BY <1>6 DEF p
  <2>2. QED BY <1>7, <1>8, <2>1
<1>10. QED BY <1>1, <1>3, <1>5, <1>6, <1>8, <1>9 DEF len


---------------------------------------------------------------------------
(* The appends of a step. *)

\* The rows of positions 0 .. n - 1, by table t, are those of the request with
\* number no; and so are their scales.
KvHolds(pl, t, no, n) ==
  \A pos \in 0 .. n - 1 : \A h \in KvHead : \A d \in Dim :
    pl[PagedOffset(BlockAt(t, pos), h, SlotOf(pos), d)] = <<no, pos, h, d>>
ScaleHolds(sc, t, no, n) ==
  \A pos \in 0 .. n - 1 : \A h \in KvHead :
    sc[PagedScaleOffset(BlockAt(t, pos), h, SlotOf(pos))] = <<no, pos, h>>

\* After the appends of the first i rows, those rows are whole; the others have
\* what the steps before appended.
HeldLen(row, i) == IF row <= i THEN mgr.requests[active_order[row]].seq_len ELSE PastLen(row)
PoolLoop(pl, i) ==
  /\ DOMAIN pl = 0 .. PoolSize - 1
  /\ \A row \in DOMAIN active_order :
       LET id == active_order[row]
       IN  KvHolds(pl, Table(mgr, id), active[id].no, HeldLen(row, i))
ScalesLoop(sc, i) ==
  /\ DOMAIN sc = 0 .. ScalesSize - 1
  /\ \A row \in DOMAIN active_order :
       LET id == active_order[row]
       IN  ScaleHolds(sc, Table(mgr, id), active[id].no, HeldLen(row, i))

\* The appends of one row of the view.
PoolOne(pl, row) ==
  KvAppend(pl, view.block_tables, RowBase(row), PastLen(row), SeqNew(row), active[view.ids[row]].no)
ScalesOne(sc, row) ==
  ScaleAppend(sc, view.block_tables, RowBase(row), PastLen(row), SeqNew(row), active[view.ids[row]].no)

\* The recursion of PoolAfter, unfolded.
LEMMA PoolAfterUnfolds ==
  ASSUME Len(view.ids) \in Nat
  PROVE  /\ PoolAfter[0] = pool
         /\ \A row \in 1 .. Len(view.ids) : PoolAfter[row] = PoolOne(PoolAfter[row - 1], row)
<1> DEFINE L == Len(view.ids)
           Run(f, k) == f = [row \in 0 .. k |->
                               IF row = 0 THEN pool ELSE PoolOne(f[row - 1], row)]
           S == {k \in Nat : \E f : Run(f, k)}
<1>0. PoolAfter = CHOOSE f : Run(f, L)
  BY DEF PoolAfter, PoolOne
<1>1. 0 \in S
  <2>1. Run([i \in 0 .. 0 |-> pool], 0)
    OBVIOUS
  <2>2. QED BY <2>1
<1>2. \A k \in Nat : k \in S => k + 1 \in S
  <2>1. SUFFICES ASSUME NEW k \in Nat, NEW f, Run(f, k)
                 PROVE  \E g : Run(g, k + 1)
    <3> HIDE DEF Run
    <3>1. QED OBVIOUS
  <2>2. DEFINE g == [i \in 0 .. k + 1 |-> IF i <= k THEN f[i] ELSE PoolOne(f[k], k + 1)]
  <2>3. ASSUME NEW i \in 0 .. k + 1
        PROVE  g[i] = IF i = 0 THEN pool ELSE PoolOne(g[i - 1], i)
    <3>1. CASE i = 0
      BY <2>1, <3>1
    <3>2. CASE i \in 1 .. k
      <4>1. g[i] = f[i] /\ g[i - 1] = f[i - 1]
        BY <3>2
      <4>2. f[i] = PoolOne(f[i - 1], i)
        BY <2>1, <3>2
      <4>3. QED BY <4>1, <4>2, <3>2
    <3>3. CASE i = k + 1
      BY <3>3
    <3>4. QED BY <3>1, <3>2, <3>3
  <2>4. Run(g, k + 1)
    <3> HIDE DEF g
    <3>1. g = [i \in 0 .. k + 1 |-> g[i]]
      BY DEF g
    <3>2. QED BY <3>1, <2>3
  <2>5. QED BY <2>4
<1>3. \E f : Run(f, L)
  <2> HIDE DEF S
  <2>1. L \in S
    BY <1>1, <1>2, SetInduction
  <2>2. QED BY <2>1 DEF S
<1>4. Run(PoolAfter, L)
  BY <1>0, <1>3
<1> DEFINE A == PoolAfter
<1>5. A = [row \in 0 .. L |-> IF row = 0 THEN pool ELSE PoolOne(A[row - 1], row)]
  BY <1>4
<1> HIDE DEF A, L
<1>6. L \in Nat
  BY DEF L
<1>7. A[0] = pool /\ \A row \in 1 .. L : A[row] = PoolOne(A[row - 1], row)
  BY <1>5, <1>6
<1>8. QED BY <1>7 DEF A, L

\* The recursion of ScalesAfter, unfolded.
LEMMA ScalesAfterUnfolds ==
  ASSUME Len(view.ids) \in Nat
  PROVE  /\ ScalesAfter[0] = scales
         /\ \A row \in 1 .. Len(view.ids) : ScalesAfter[row] = ScalesOne(ScalesAfter[row - 1], row)
<1> DEFINE L == Len(view.ids)
           Run(f, k) == f = [row \in 0 .. k |->
                               IF row = 0 THEN scales ELSE ScalesOne(f[row - 1], row)]
           S == {k \in Nat : \E f : Run(f, k)}
<1>0. ScalesAfter = CHOOSE f : Run(f, L)
  BY DEF ScalesAfter, ScalesOne
<1>1. 0 \in S
  <2>1. Run([i \in 0 .. 0 |-> scales], 0)
    OBVIOUS
  <2>2. QED BY <2>1
<1>2. \A k \in Nat : k \in S => k + 1 \in S
  <2>1. SUFFICES ASSUME NEW k \in Nat, NEW f, Run(f, k)
                 PROVE  \E g : Run(g, k + 1)
    <3> HIDE DEF Run
    <3>1. QED OBVIOUS
  <2>2. DEFINE g == [i \in 0 .. k + 1 |-> IF i <= k THEN f[i] ELSE ScalesOne(f[k], k + 1)]
  <2>3. ASSUME NEW i \in 0 .. k + 1
        PROVE  g[i] = IF i = 0 THEN scales ELSE ScalesOne(g[i - 1], i)
    <3>1. CASE i = 0
      BY <2>1, <3>1
    <3>2. CASE i \in 1 .. k
      <4>1. g[i] = f[i] /\ g[i - 1] = f[i - 1]
        BY <3>2
      <4>2. f[i] = ScalesOne(f[i - 1], i)
        BY <2>1, <3>2
      <4>3. QED BY <4>1, <4>2, <3>2
    <3>3. CASE i = k + 1
      BY <3>3
    <3>4. QED BY <3>1, <3>2, <3>3
  <2>4. Run(g, k + 1)
    <3> HIDE DEF g
    <3>1. g = [i \in 0 .. k + 1 |-> g[i]]
      BY DEF g
    <3>2. QED BY <3>1, <2>3
  <2>5. QED BY <2>4
<1>3. \E f : Run(f, L)
  <2> HIDE DEF S
  <2>1. L \in S
    BY <1>1, <1>2, SetInduction
  <2>2. QED BY <2>1 DEF S
<1>4. Run(ScalesAfter, L)
  BY <1>0, <1>3
<1> DEFINE A == ScalesAfter
<1>5. A = [row \in 0 .. L |-> IF row = 0 THEN scales ELSE ScalesOne(A[row - 1], row)]
  BY <1>4
<1> HIDE DEF A, L
<1>6. L \in Nat
  BY DEF L
<1>7. A[0] = scales /\ \A row \in 1 .. L : A[row] = ScalesOne(A[row - 1], row)
  BY <1>5, <1>6
<1>8. QED BY <1>7 DEF A, L

\* One append of the loop: its row is then whole, and the others keep what
\* they have, as no two positions have the same place.
LEMMA PoolOneLoop ==
  ASSUME SchedulerInv, stepping, NEW j \in 1 .. Len(active_order), NEW pl, PoolLoop(pl, j - 1)
  PROVE  PoolLoop(PoolOne(pl, j), j)
<1> DEFINE me == active_order[j]
           past == PastLen(j)
           new == SeqNew(j)
           base == RowBase(j)
           tabs == view.block_tables
           len == mgr.requests[me].seq_len
           q == PoolOne(pl, j)
<1>1. DOMAIN pl = 0 .. PoolSize - 1 /\ j \in Nat /\ j >= 1 /\ j \in DOMAIN active_order
      /\ DOMAIN active_order = 1 .. Len(active_order) /\ Len(active_order) \in Nat
  BY DEF SchedulerInv, PoolLoop
<1>2. /\ view.ids = active_order /\ me \in DOMAIN active /\ len \in Nat
      /\ past \in Nat /\ new \in Nat /\ past + new = len
      /\ \A pos \in 0 .. len : PhysAt(tabs, base, pos) = BlockAt(Table(mgr, me), pos)
  BY <1>1, ViewPlaces
<1>3. q = KvAppend(pl, tabs, base, past, new, active[me].no)
  BY <1>2 DEF PoolOne
<1> HIDE DEF q, me, past, new, base, tabs, len
<1>4. \A s \in 0 .. new - 1 : past + s \in 0 .. len /\ past + s < len
  BY <1>2
<1>5. Wanted(tabs, base, past, new)
  <2>1. \A pos \in 0 .. len : BlockAt(Table(mgr, me), pos) \in Block
    BY <1>2, BlockAtTyped DEF len
  <2>2. QED BY <1>2, <1>4, <2>1 DEF Wanted
<1>6. DOMAIN q = 0 .. PoolSize - 1
  <2>1. DOMAIN q = DOMAIN pl
    BY <1>3 DEF KvAppend
  <2>2. QED BY <1>1, <2>1
<1>7. ASSUME NEW row \in DOMAIN active_order,
             NEW pos \in 0 .. HeldLen(row, j) - 1, NEW h \in KvHead, NEW d \in Dim
      PROVE  LET id == active_order[row]
                 a == PagedOffset(BlockAt(Table(mgr, id), pos), h, SlotOf(pos), d)
             IN  q[a] = <<active[id].no, pos, h, d>>
  <2> DEFINE id == active_order[row]
             b == BlockAt(Table(mgr, id), pos)
             a == PagedOffset(b, h, SlotOf(pos), d)
  <2>1. /\ id \in DOMAIN active /\ mgr.requests[id].seq_len \in Nat
        /\ PastLen(row) \in Nat /\ PastLen(row) <= mgr.requests[id].seq_len
    BY ViewPlaces
  <2>2. pos \in 0 .. mgr.requests[id].seq_len /\ pos \in Nat
    BY <2>1 DEF HeldLen
  <2>3. b \in Block /\ SlotOf(pos) \in Slot
    BY <2>1, <2>2, BlockAtTyped, SlotOfTyped
  <2>4. ASSUME NEW s \in 0 .. new - 1, Hits(tabs, base, past, s, b, SlotOf(pos))
        PROVE  row = j /\ pos = past + s
    <3>1. past + s \in 0 .. len
      BY <1>4
    <3>2. BlockAt(Table(mgr, me), past + s) = b /\ SlotOf(past + s) = SlotOf(pos)
      BY <1>2, <2>4, <3>1 DEF Hits
    <3>3. me = id /\ past + s = pos
      <4>1. /\ me \in DOMAIN active /\ id \in DOMAIN active
            /\ past + s \in 0 .. mgr.requests[me].seq_len
            /\ pos \in 0 .. mgr.requests[id].seq_len
        BY <1>2, <2>1, <2>2, <3>1 DEF len
      <4>2. BlockAt(Table(mgr, me), past + s) = BlockAt(Table(mgr, id), pos)
        BY <3>2
      <4> HIDE DEF id
      <4>3. QED BY <3>2, <4>1, <4>2, OnePlace
    <3>4. QED BY <1>1, <3>3 DEF SchedulerInv, LifecycleConsistent, IsInjective, me
  <2> DEFINE sl == SlotOf(pos)
             no == active[me].no
             z == KvAppend(pl, tabs, base, past, new, no)
             az == PagedOffset(b, h, sl, d)
  <2>50. /\ NoHit(tabs, base, past, new, b, sl) => z[az] = pl[az]
         /\ \A s \in 0 .. new - 1 :
              OnlyHit(tabs, base, past, new, b, sl, s) => z[az] = <<no, past + s, h, d>>
    <3>1. b \in Block /\ sl \in Slot
      BY <2>3
    <3> HIDE DEF b, sl, no
    <3>2. DOMAIN pl = 0 .. PoolSize - 1 /\ past \in Nat /\ new \in Nat /\ h \in KvHead /\ d \in Dim
      BY <1>1, <1>2
    <3>3. KvLeft(pl, tabs, base, past, new, no, b, h, sl, d)
      BY ONLY <1>5, <3>1, <3>2, KvAppendAt
    <3>4. QED BY ONLY <3>3 DEF KvLeft
  <2>51. z = q /\ az = a
    BY <1>3
  <2>5. (\A s \in 0 .. new - 1 : ~ Hits(tabs, base, past, s, b, SlotOf(pos))) => q[a] = pl[a]
    BY <2>50, <2>51 DEF NoHit, OnlyHit
  <2>6. \A s \in 0 .. new - 1 :
          /\ Hits(tabs, base, past, s, b, SlotOf(pos))
          /\ \A u \in 0 .. new - 1 : Hits(tabs, base, past, u, b, SlotOf(pos)) => u = s
          => q[a] = <<active[me].no, past + s, h, d>>
    BY <2>50, <2>51 DEF NoHit, OnlyHit
  <2>7. CASE row = j /\ pos >= past
    <3> DEFINE s == pos - past
    <3>1. pos < len
      BY <1>1, <1>2, <2>2, <2>7 DEF HeldLen, len, me
    <3>2. s \in 0 .. new - 1 /\ past + s = pos
      BY <1>2, <2>2, <2>7, <3>1
    <3>3. id = me
      BY <2>7 DEF me
    <3>4. PhysAt(tabs, base, pos) = b
      BY <1>2, <2>2, <3>3 DEF len
    <3>5. Hits(tabs, base, past, s, b, SlotOf(pos))
      BY <3>2, <3>4 DEF Hits
    <3> HIDE DEF s, a, b
    <3>6. \A u \in 0 .. new - 1 : Hits(tabs, base, past, u, b, SlotOf(pos)) => u = s
      <4>1. ASSUME NEW u \in 0 .. new - 1, Hits(tabs, base, past, u, b, SlotOf(pos)) PROVE u = s
        <5>1. pos = past + u
          BY <2>4, <4>1
        <5>2. QED BY <1>2, <3>2, <5>1
      <4>2. QED BY <4>1
    <3>7. q[a] = <<active[me].no, past + s, h, d>>
      BY <2>6, <3>2, <3>5, <3>6
    <3>8. QED BY <3>2, <3>3, <3>7 DEF a, b
  <2>8. CASE ~ (row = j /\ pos >= past)
    <3>1. \A s \in 0 .. new - 1 : ~ Hits(tabs, base, past, s, b, SlotOf(pos))
      BY <1>2, <2>2, <2>4, <2>8
    <3>2. q[a] = pl[a]
      BY <2>5, <3>1
    <3>3. pos \in 0 .. HeldLen(row, j - 1) - 1
      <4>1. row \in Nat /\ pos \in 0 .. HeldLen(row, j) - 1
        BY <1>1
      <4>2. CASE row = j
        BY <1>1, <1>2, <2>2, <2>8, <4>2 DEF HeldLen, past
      <4>3. CASE row # j
        BY <1>1, <4>1, <4>3 DEF HeldLen
      <4>4. QED BY <4>2, <4>3
    <3>4. pl[a] = <<active[id].no, pos, h, d>>
      BY <3>3 DEF PoolLoop, KvHolds
    <3>5. QED BY <3>2, <3>4
  <2>9. QED BY <2>7, <2>8
<1>8. PoolLoop(q, j)
  BY <1>6, <1>7 DEF PoolLoop, KvHolds
<1>9. QED BY <1>8 DEF q

\* And so for the scales.
LEMMA ScalesOneLoop ==
  ASSUME SchedulerInv, stepping, NEW j \in 1 .. Len(active_order), NEW pl, ScalesLoop(pl, j - 1)
  PROVE  ScalesLoop(ScalesOne(pl, j), j)
<1> DEFINE me == active_order[j]
           past == PastLen(j)
           new == SeqNew(j)
           base == RowBase(j)
           tabs == view.block_tables
           len == mgr.requests[me].seq_len
           q == ScalesOne(pl, j)
<1>1. DOMAIN pl = 0 .. ScalesSize - 1 /\ j \in Nat /\ j >= 1 /\ j \in DOMAIN active_order
      /\ DOMAIN active_order = 1 .. Len(active_order) /\ Len(active_order) \in Nat
  BY DEF SchedulerInv, ScalesLoop
<1>2. /\ view.ids = active_order /\ me \in DOMAIN active /\ len \in Nat
      /\ past \in Nat /\ new \in Nat /\ past + new = len
      /\ \A pos \in 0 .. len : PhysAt(tabs, base, pos) = BlockAt(Table(mgr, me), pos)
  BY <1>1, ViewPlaces
<1>3. q = ScaleAppend(pl, tabs, base, past, new, active[me].no)
  BY <1>2 DEF ScalesOne
<1> HIDE DEF q, me, past, new, base, tabs, len
<1>4. \A s \in 0 .. new - 1 : past + s \in 0 .. len /\ past + s < len
  BY <1>2
<1>5. Wanted(tabs, base, past, new)
  <2>1. \A pos \in 0 .. len : BlockAt(Table(mgr, me), pos) \in Block
    BY <1>2, BlockAtTyped DEF len
  <2>2. QED BY <1>2, <1>4, <2>1 DEF Wanted
<1>6. DOMAIN q = 0 .. ScalesSize - 1
  <2>1. DOMAIN q = DOMAIN pl
    BY <1>3 DEF ScaleAppend
  <2>2. QED BY <1>1, <2>1
<1>7. ASSUME NEW row \in DOMAIN active_order,
             NEW pos \in 0 .. HeldLen(row, j) - 1, NEW h \in KvHead
      PROVE  LET id == active_order[row]
                 a == PagedScaleOffset(BlockAt(Table(mgr, id), pos), h, SlotOf(pos))
             IN  q[a] = <<active[id].no, pos, h>>
  <2> DEFINE id == active_order[row]
             b == BlockAt(Table(mgr, id), pos)
             a == PagedScaleOffset(b, h, SlotOf(pos))
  <2>1. /\ id \in DOMAIN active /\ mgr.requests[id].seq_len \in Nat
        /\ PastLen(row) \in Nat /\ PastLen(row) <= mgr.requests[id].seq_len
    BY ViewPlaces
  <2>2. pos \in 0 .. mgr.requests[id].seq_len /\ pos \in Nat
    BY <2>1 DEF HeldLen
  <2>3. b \in Block /\ SlotOf(pos) \in Slot
    BY <2>1, <2>2, BlockAtTyped, SlotOfTyped
  <2>4. ASSUME NEW s \in 0 .. new - 1, Hits(tabs, base, past, s, b, SlotOf(pos))
        PROVE  row = j /\ pos = past + s
    <3>1. past + s \in 0 .. len
      BY <1>4
    <3>2. BlockAt(Table(mgr, me), past + s) = b /\ SlotOf(past + s) = SlotOf(pos)
      BY <1>2, <2>4, <3>1 DEF Hits
    <3>3. me = id /\ past + s = pos
      <4>1. /\ me \in DOMAIN active /\ id \in DOMAIN active
            /\ past + s \in 0 .. mgr.requests[me].seq_len
            /\ pos \in 0 .. mgr.requests[id].seq_len
        BY <1>2, <2>1, <2>2, <3>1 DEF len
      <4>2. BlockAt(Table(mgr, me), past + s) = BlockAt(Table(mgr, id), pos)
        BY <3>2
      <4> HIDE DEF id
      <4>3. QED BY <3>2, <4>1, <4>2, OnePlace
    <3>4. QED BY <1>1, <3>3 DEF SchedulerInv, LifecycleConsistent, IsInjective, me
  <2> DEFINE sl == SlotOf(pos)
             no == active[me].no
             z == ScaleAppend(pl, tabs, base, past, new, no)
             az == PagedScaleOffset(b, h, sl)
  <2>50. /\ NoHit(tabs, base, past, new, b, sl) => z[az] = pl[az]
         /\ \A s \in 0 .. new - 1 :
              OnlyHit(tabs, base, past, new, b, sl, s) => z[az] = <<no, past + s, h>>
    <3>1. b \in Block /\ sl \in Slot
      BY <2>3
    <3> HIDE DEF b, sl, no
    <3>2. DOMAIN pl = 0 .. ScalesSize - 1 /\ past \in Nat /\ new \in Nat /\ h \in KvHead
      BY <1>1, <1>2
    <3>3. ScaleLeft(pl, tabs, base, past, new, no, b, h, sl)
      BY ONLY <1>5, <3>1, <3>2, ScaleAppendAt
    <3>4. QED BY ONLY <3>3 DEF ScaleLeft
  <2>51. z = q /\ az = a
    BY <1>3
  <2>5. (\A s \in 0 .. new - 1 : ~ Hits(tabs, base, past, s, b, SlotOf(pos))) => q[a] = pl[a]
    BY <2>50, <2>51 DEF NoHit, OnlyHit
  <2>6. \A s \in 0 .. new - 1 :
          /\ Hits(tabs, base, past, s, b, SlotOf(pos))
          /\ \A u \in 0 .. new - 1 : Hits(tabs, base, past, u, b, SlotOf(pos)) => u = s
          => q[a] = <<active[me].no, past + s, h>>
    BY <2>50, <2>51 DEF NoHit, OnlyHit
  <2>7. CASE row = j /\ pos >= past
    <3> DEFINE s == pos - past
    <3>1. pos < len
      BY <1>1, <1>2, <2>2, <2>7 DEF HeldLen, len, me
    <3>2. s \in 0 .. new - 1 /\ past + s = pos
      BY <1>2, <2>2, <2>7, <3>1
    <3>3. id = me
      BY <2>7 DEF me
    <3>4. PhysAt(tabs, base, pos) = b
      BY <1>2, <2>2, <3>3 DEF len
    <3>5. Hits(tabs, base, past, s, b, SlotOf(pos))
      BY <3>2, <3>4 DEF Hits
    <3> HIDE DEF s, a, b
    <3>6. \A u \in 0 .. new - 1 : Hits(tabs, base, past, u, b, SlotOf(pos)) => u = s
      <4>1. ASSUME NEW u \in 0 .. new - 1, Hits(tabs, base, past, u, b, SlotOf(pos)) PROVE u = s
        <5>1. pos = past + u
          BY <2>4, <4>1
        <5>2. QED BY <1>2, <3>2, <5>1
      <4>2. QED BY <4>1
    <3>7. q[a] = <<active[me].no, past + s, h>>
      BY <2>6, <3>2, <3>5, <3>6
    <3>8. QED BY <3>2, <3>3, <3>7 DEF a, b
  <2>8. CASE ~ (row = j /\ pos >= past)
    <3>1. \A s \in 0 .. new - 1 : ~ Hits(tabs, base, past, s, b, SlotOf(pos))
      BY <1>2, <2>2, <2>4, <2>8
    <3>2. q[a] = pl[a]
      BY <2>5, <3>1
    <3>3. pos \in 0 .. HeldLen(row, j - 1) - 1
      <4>1. row \in Nat /\ pos \in 0 .. HeldLen(row, j) - 1
        BY <1>1
      <4>2. CASE row = j
        BY <1>1, <1>2, <2>2, <2>8, <4>2 DEF HeldLen, past
      <4>3. CASE row # j
        BY <1>1, <4>1, <4>3 DEF HeldLen
      <4>4. QED BY <4>2, <4>3
    <3>4. pl[a] = <<active[id].no, pos, h>>
      BY <3>3 DEF ScalesLoop, ScaleHolds
    <3>5. QED BY <3>2, <3>4
  <2>9. QED BY <2>7, <2>8
<1>8. ScalesLoop(q, j)
  BY <1>6, <1>7 DEF ScalesLoop, ScaleHolds
<1>9. QED BY <1>8 DEF q

\* The whole loop.
LEMMA PoolAfterHolds ==
  ASSUME SchedulerInv, stepping, PoolLoop(pool, 0)
  PROVE  PoolLoop(PoolAfter[Len(view.ids)], Len(active_order))
<1> DEFINE n == Len(active_order)
           S == {i \in Nat : i <= n => PoolLoop(PoolAfter[i], i)}
<1>1. n \in Nat /\ view.ids = active_order
  BY DEF SchedulerInv, ViewOf
<1>2. PoolAfter[0] = pool /\ \A i \in 1 .. n : PoolAfter[i] = PoolOne(PoolAfter[i - 1], i)
  BY <1>1, PoolAfterUnfolds
<1>3. 0 \in S
  BY <1>2
<1>4. \A i \in Nat : i \in S => i + 1 \in S
  <2>1. SUFFICES ASSUME NEW i \in Nat, PoolLoop(PoolAfter[i], i), i + 1 <= n
                 PROVE  PoolLoop(PoolAfter[i + 1], i + 1)
    <3> HIDE DEF n
    <3>1. \A i \in Nat : i + 1 <= n => i <= n
      BY <1>1
    <3>2. QED BY <3>1
  <2>2. i + 1 \in 1 .. n /\ (i + 1) - 1 = i
    BY <1>1, <2>1
  <2>3. PoolAfter[i + 1] = PoolOne(PoolAfter[i], i + 1)
    BY <1>2, <2>2
  <2>4. QED BY <2>1, <2>2, <2>3, PoolOneLoop
<1> HIDE DEF S
<1>5. n \in S
  BY <1>1, <1>3, <1>4, SetInduction
<1>6. QED BY <1>1, <1>5 DEF S

\* And of the scales.
LEMMA ScalesAfterHolds ==
  ASSUME SchedulerInv, stepping, ScalesLoop(scales, 0)
  PROVE  ScalesLoop(ScalesAfter[Len(view.ids)], Len(active_order))
<1> DEFINE n == Len(active_order)
           S == {i \in Nat : i <= n => ScalesLoop(ScalesAfter[i], i)}
<1>1. n \in Nat /\ view.ids = active_order
  BY DEF SchedulerInv, ViewOf
<1>2. ScalesAfter[0] = scales /\ \A i \in 1 .. n : ScalesAfter[i] = ScalesOne(ScalesAfter[i - 1], i)
  BY <1>1, ScalesAfterUnfolds
<1>3. 0 \in S
  BY <1>2
<1>4. \A i \in Nat : i \in S => i + 1 \in S
  <2>1. SUFFICES ASSUME NEW i \in Nat, ScalesLoop(ScalesAfter[i], i), i + 1 <= n
                 PROVE  ScalesLoop(ScalesAfter[i + 1], i + 1)
    <3> HIDE DEF n
    <3>1. \A i \in Nat : i + 1 <= n => i <= n
      BY <1>1
    <3>2. QED BY <3>1
  <2>2. i + 1 \in 1 .. n /\ (i + 1) - 1 = i
    BY <1>1, <2>1
  <2>3. ScalesAfter[i + 1] = ScalesOne(ScalesAfter[i], i + 1)
    BY <1>2, <2>2
  <2>4. QED BY <2>1, <2>2, <2>3, ScalesOneLoop
<1> HIDE DEF S
<1>5. n \in S
  BY <1>1, <1>3, <1>4, SetInduction
<1>6. QED BY <1>1, <1>5 DEF S


---------------------------------------------------------------------------
(* The inductive invariant of the driver loop. *)

\* What is in the pools of each active request: all that the view shows once
\* the appends are done, and before that all but the token decoded last.
DecodeInv ==
  /\ SchedulerInv
  /\ DOMAIN pool = 0 .. PoolSize - 1
  /\ DOMAIN scales = 0 .. ScalesSize - 1
  /\ decoded => stepping
  /\ \A id \in DOMAIN active :
       /\ KvHolds(pool, Table(mgr, id), active[id].no, Cached(id))
       /\ ScaleHolds(scales, Table(mgr, id), active[id].no, Cached(id))

\* Nothing is active at first.
LEMMA DecodeStart == DecodeInit => DecodeInv
<1> SUFFICES ASSUME DecodeInit PROVE DecodeInv
  OBVIOUS
<1>1. SchedulerInv
  BY InitScheduler DEF DecodeInit
<1>2. DOMAIN active = {} /\ decoded = FALSE
  BY DEF DecodeInit, Init
<1>3. DOMAIN pool = 0 .. PoolSize - 1 /\ DOMAIN scales = 0 .. ScalesSize - 1
  BY DEF DecodeInit
<1>4. QED BY <1>1, <1>2, <1>3 DEF DecodeInv

\* What is cached is at most what the view shows.
LEMMA CachedBound ==
  ASSUME SchedulerInv, NEW id \in DOMAIN active
  PROVE  /\ mgr.requests[id].seq_len \in Nat
         /\ \A pos \in 0 .. Cached(id) - 1 : pos \in 0 .. mgr.requests[id].seq_len
<1>1. mgr.requests[id] \in RequestBlocks
  BY DEF SchedulerInv, LifecycleConsistent, PoolOK, ManagerOK, ManagerTypeOK
<1>2. mgr.requests[id].seq_len \in Nat
  BY <1>1 DEF RequestBlocks
<1> DEFINE len == mgr.requests[id].seq_len
<1>3. Cached(id) \in {len, 0, len - 1}
  BY DEF Cached
<1> HIDE DEF len
<1>4. len \in Nat
  BY <1>2 DEF len
<1>5. \A c \in {len, 0, len - 1} : \A pos \in 0 .. c - 1 : pos \in 0 .. len
  BY <1>4
<1>6. QED BY <1>2, <1>3, <1>5 DEF len

\* Rows found by one table are found by any that starts with its entries.
LEMMA HoldsOn ==
  ASSUME NEW t, NEW u, Starts(t, u), NEW n, NEW no, NEW pl, NEW sc,
         \A pos \in 0 .. n - 1 : (pos \div BlockSize) + 1 \in 1 .. Len(t),
         KvHolds(pl, t, no, n), ScaleHolds(sc, t, no, n)
  PROVE  KvHolds(pl, u, no, n) /\ ScaleHolds(sc, u, no, n)
<1>1. \A pos \in 0 .. n - 1 : BlockAt(u, pos) = BlockAt(t, pos)
  BY DEF Starts, BlockAt
<1>2. QED BY <1>1 DEF KvHolds, ScaleHolds

\* An arrival moves nobody.
LEMMA ArrivalKeeps == ASSUME DecodeInv, Arrival PROVE DecodeInv'
<1>1. PICK req \in Requests : Submit(req)
  BY DEF Arrival
<1>2. SchedulerInv'
  BY <1>1, SubmitInv DEF DecodeInv
<1>3. /\ UNCHANGED <<active, stepping, pool, scales, decoded>>
      /\ \A id \in DOMAIN active : mgr'.requests[id] = mgr.requests[id]
  BY <1>1, SubmitKeeps DEF DecodeInv, Arrival
<1>4. ASSUME NEW id \in DOMAIN active'
      PROVE  /\ KvHolds(pool, Table(mgr, id), active[id].no, Cached(id))
             /\ ScaleHolds(scales, Table(mgr, id), active[id].no, Cached(id))
             /\ Table(mgr', id) = Table(mgr, id) /\ Cached(id)' = Cached(id)
  BY <1>3 DEF DecodeInv, Table, Cached
<1>5. \A id \in DOMAIN active' :
        /\ KvHolds(pool', Table(mgr', id), active'[id].no, Cached(id)')
        /\ ScaleHolds(scales', Table(mgr', id), active'[id].no, Cached(id)')
  BY <1>3, <1>4
<1>6. QED BY <1>2, <1>3, <1>5 DEF DecodeInv

\* An admission moves nobody either, and who is admitted has nothing cached.
LEMMA PreparedKeeps == ASSUME DecodeInv, Prepare PROVE DecodeInv'
<1>1. SchedulerInv /\ PrepareStep /\ ~ stepping /\ UNCHANGED <<pool, scales>> /\ decoded' = FALSE
  BY DEF Prepare, PrepareStep, DecodeInv
<1>2. SchedulerInv'
  BY <1>1, PrepareInv
<1>3. decoded = FALSE \/ ~ decoded
  BY <1>1 DEF DecodeInv
<1>4. ~ decoded
  BY <1>1 DEF DecodeInv
<1>5. ASSUME NEW id \in DOMAIN active', id \in DOMAIN active
      PROVE  /\ KvHolds(pool', Table(mgr', id), active'[id].no, Cached(id)')
             /\ ScaleHolds(scales', Table(mgr', id), active'[id].no, Cached(id)')
  <2>1. mgr'.requests[id] = mgr.requests[id] /\ active'[id] = active[id]
    BY <1>1, <1>5, PrepareKeeps
  <2>2. Table(mgr', id) = Table(mgr, id) /\ Cached(id)' = Cached(id)
    BY <1>1, <1>4, <2>1 DEF Table, Cached
  <2>3. /\ KvHolds(pool, Table(mgr, id), active[id].no, Cached(id))
        /\ ScaleHolds(scales, Table(mgr, id), active[id].no, Cached(id))
    BY <1>5 DEF DecodeInv
  <2>4. QED BY <1>1, <2>1, <2>2, <2>3
<1>6. ASSUME NEW id \in DOMAIN active', id \notin DOMAIN active
      PROVE  /\ KvHolds(pool', Table(mgr', id), active'[id].no, Cached(id)')
             /\ ScaleHolds(scales', Table(mgr', id), active'[id].no, Cached(id)')
  <2>1. active'[id].produced = 0
    BY <1>1, <1>6, PrepareKeeps
  <2>2. Cached(id)' = 0
    BY <1>1, <2>1 DEF Cached
  <2>3. 0 .. Cached(id)' - 1 = {}
    BY <2>2
  <2>4. QED BY <2>3 DEF KvHolds, ScaleHolds
<1>7. QED BY <1>1, <1>2, <1>5, <1>6 DEF DecodeInv

\* A commit keeps what the step appended, of those that go on: all but the
\* token it decoded.
LEMMA CommittedKeeps == ASSUME DecodeInv, CommitDecoded PROVE DecodeInv'
<1>1. PICK completed \in SUBSET DOMAIN active : CommitStep(completed)
  BY DEF CommitDecoded, Commit
<1>2. SchedulerInv /\ decoded /\ ~ decoded' /\ UNCHANGED <<pool, scales>>
  BY DEF CommitDecoded, DecodeInv
<1>3. SchedulerInv'
  BY <1>1, <1>2, CommitInv
<1>4. ASSUME NEW id \in DOMAIN active'
      PROVE  /\ KvHolds(pool', Table(mgr', id), active'[id].no, Cached(id)')
             /\ ScaleHolds(scales', Table(mgr', id), active'[id].no, Cached(id)')
  <2>1. /\ id \in DOMAIN active /\ Starts(Table(mgr, id), Table(mgr', id))
        /\ active'[id].no = active[id].no
        /\ active'[id].produced = active[id].produced + 1 /\ active[id].produced \in Nat
        /\ mgr'.requests[id].seq_len = mgr.requests[id].seq_len + 1
    BY <1>1, <1>2, CommitKeeps
  <2>2. mgr.requests[id].seq_len \in Nat
    BY <1>2, <2>1, CachedBound
  <2>3. Cached(id) = mgr.requests[id].seq_len
    BY <1>2 DEF Cached
  <2>4. Cached(id)' = mgr.requests[id].seq_len
    <3>1. Cached(id)' = IF active'[id].produced = 0 THEN 0 ELSE mgr'.requests[id].seq_len - 1
      BY <1>2 DEF Cached
    <3> DEFINE c == Cached(id)'
               p == active[id].produced
               u == active'[id].produced
               len == mgr.requests[id].seq_len
               next == mgr'.requests[id].seq_len
    <3>2. c = (IF u = 0 THEN 0 ELSE next - 1) /\ u = p + 1 /\ next = len + 1
          /\ p \in Nat /\ len \in Nat
      BY <2>1, <2>2, <3>1
    <3> HIDE DEF c, p, u, len, next
    <3>3. c = len
      BY <3>2
    <3>4. QED BY <3>3 DEF c, len
  <2>5. /\ KvHolds(pool, Table(mgr, id), active[id].no, Cached(id))
        /\ ScaleHolds(scales, Table(mgr, id), active[id].no, Cached(id))
    BY <2>1 DEF DecodeInv
  <2>6. \A pos \in 0 .. Cached(id) - 1 : (pos \div BlockSize) + 1 \in 1 .. Len(Table(mgr, id))
    BY <1>2, <2>1, CachedBound, BlockAtTyped
  <2> HIDE DEF Cached
  <2>7. /\ KvHolds(pool, Table(mgr', id), active[id].no, Cached(id))
        /\ ScaleHolds(scales, Table(mgr', id), active[id].no, Cached(id))
    BY <2>1, <2>5, <2>6, HoldsOn
  <2>8. QED BY <1>2, <2>1, <2>3, <2>4, <2>7
<1>5. QED BY <1>2, <1>3, <1>4 DEF DecodeInv

\* The appends make every row of the view whole.
LEMMA DecodeKeeps == ASSUME DecodeInv, Decode PROVE DecodeInv'
<1> DEFINE n == Len(active_order)
<1>1. /\ SchedulerInv /\ stepping /\ ~ decoded /\ decoded'
      /\ pool' = PoolAfter[Len(view.ids)] /\ scales' = ScalesAfter[Len(view.ids)]
      /\ UNCHANGED vars
  BY DEF Decode, DecodeInv
<1>2. /\ n \in Nat /\ DOMAIN active_order = 1 .. n
      /\ ToSet(active_order) = DOMAIN active
  BY <1>1 DEF SchedulerInv, LifecycleConsistent
<1>3. ASSUME NEW row \in DOMAIN active_order
      PROVE  /\ active_order[row] \in DOMAIN active
             /\ HeldLen(row, 0) = Cached(active_order[row])
             /\ HeldLen(row, n) = mgr.requests[active_order[row]].seq_len
  <2>1. /\ active_order[row] \in DOMAIN active
        /\ PastLen(row) = IF active[active_order[row]].produced = 0 THEN 0
                          ELSE mgr.requests[active_order[row]].seq_len - 1
    BY <1>1, ViewPlaces
  <2>2. row \in 1 .. n /\ ~ (row <= 0) /\ row <= n
    BY <1>2
  <2>3. QED BY <1>1, <2>1, <2>2 DEF HeldLen, Cached
<1>4. PoolLoop(pool, 0) /\ ScalesLoop(scales, 0)
  BY <1>3 DEF PoolLoop, ScalesLoop, DecodeInv
<1>5. PoolLoop(pool', n) /\ ScalesLoop(scales', n)
  <2>1. PoolLoop(PoolAfter[Len(view.ids)], n)
    BY <1>1, <1>4, PoolAfterHolds
  <2>2. ScalesLoop(ScalesAfter[Len(view.ids)], n)
    BY <1>1, <1>4, ScalesAfterHolds
  <2>3. QED BY <1>1, <2>1, <2>2
<1>6. UNCHANGED <<mgr, active, stepping>>
  BY <1>1 DEF vars
<1>7. ASSUME NEW id \in DOMAIN active'
      PROVE  /\ KvHolds(pool', Table(mgr', id), active'[id].no, Cached(id)')
             /\ ScaleHolds(scales', Table(mgr', id), active'[id].no, Cached(id)')
  <2>1. PICK row \in DOMAIN active_order : active_order[row] = id
    BY <1>2, <1>6 DEF ToSet
  <2>2. HeldLen(row, n) = mgr.requests[id].seq_len
    BY <1>3, <2>1
  <2>3. /\ KvHolds(pool', Table(mgr, id), active[id].no, HeldLen(row, n))
        /\ ScaleHolds(scales', Table(mgr, id), active[id].no, HeldLen(row, n))
    BY <1>5, <2>1 DEF PoolLoop, ScalesLoop
  <2>4. Cached(id)' = mgr.requests[id].seq_len
    BY <1>1, <1>6 DEF Cached
  <2>5. QED BY <1>6, <2>2, <2>3, <2>4
<1>8. SchedulerInv'
  <2>1. [Next]_vars
    BY <1>1
  <2>2. QED BY <1>1, <2>1, SchedulerStep
<1>9. DOMAIN pool' = 0 .. PoolSize - 1 /\ DOMAIN scales' = 0 .. ScalesSize - 1
  BY <1>5 DEF PoolLoop, ScalesLoop
<1>10. QED BY <1>1, <1>6, <1>7, <1>8, <1>9 DEF DecodeInv

\* Every step of the loop keeps the invariant.
LEMMA DecodeStep == DecodeInv /\ [DecodeNext]_decodeVars => DecodeInv'
<1> SUFFICES ASSUME DecodeInv, [DecodeNext]_decodeVars PROVE DecodeInv'
  OBVIOUS
<1>1. CASE Arrival
  BY <1>1, ArrivalKeeps
<1>2. CASE Prepare
  BY <1>2, PreparedKeeps
<1>3. CASE Decode
  BY <1>3, DecodeKeeps
<1>4. CASE CommitDecoded
  BY <1>4, CommittedKeeps
<1>5. CASE UNCHANGED decodeVars
  <2>1. UNCHANGED vars /\ UNCHANGED <<mgr, active, stepping, pool, scales, decoded>>
    BY <1>5 DEF decodeVars, vars
  <2>2. SchedulerInv'
    BY <2>1, SchedulerStep DEF DecodeInv
  <2>3. \A id : Cached(id)' = Cached(id)
    BY <2>1 DEF Cached
  <2>4. \A id \in DOMAIN active' :
          /\ KvHolds(pool', Table(mgr', id), active'[id].no, Cached(id)')
          /\ ScaleHolds(scales', Table(mgr', id), active'[id].no, Cached(id)')
    BY <2>1, <2>3 DEF DecodeInv
  <2>5. QED BY <2>1, <2>2, <2>4 DEF DecodeInv
<1>6. QED BY <1>1, <1>2, <1>3, <1>4, <1>5 DEF DecodeNext

\* The invariant holds of every behaviour.
LEMMA DecodeInvariant == DecodeSpec => []DecodeInv
BY DecodeStart, DecodeStep, PTL DEF DecodeSpec

\* The manager's tables find what was appended.
LEMMA InvKeepsRows == DecodeInv => CachedRowsKept
<1> SUFFICES ASSUME DecodeInv, NEW id \in DOMAIN active, NEW pos \in 0 .. Cached(id) - 1,
                    NEW h \in KvHead
             PROVE  KvRow(pool, Table(mgr, id), 0, pos, h) =
                      [d \in Dim |-> <<active[id].no, pos, h, d>>]
  BY DEF CachedRowsKept
<1>1. KvHolds(pool, Table(mgr, id), active[id].no, Cached(id)) /\ SchedulerInv
  BY DEF DecodeInv
<1>2. pos \in Nat /\ pos \div BlockSize \in Int
  BY <1>1, CachedBound, LayoutAssumption
<1> DEFINE q == pos \div BlockSize
<1>3. 0 + q + 1 = q + 1
  BY <1>2
<1> HIDE DEF q
<1>4. PhysAt(Table(mgr, id), 0, pos) = BlockAt(Table(mgr, id), pos)
  BY <1>3 DEF PhysAt, BlockAt, q
<1>5. \A d \in Dim : pool[PagedOffset(BlockAt(Table(mgr, id), pos), h, SlotOf(pos), d)] =
                       <<active[id].no, pos, h, d>>
  BY <1>1 DEF KvHolds
<1>6. QED BY <1>4, <1>5 DEF KvRow

\* No append overwrites what an active request has cached, whatever blocks
\* pass from one request to another (paged_kv_append, through the tables that
\* prepare_step flattens and commit_step grows).
THEOREM RowsKept == DecodeSpec => []CachedRowsKept
BY DecodeInvariant, InvKeepsRows, PTL


---------------------------------------------------------------------------
(* What batched attention reads. *)

\* The attention of a decode step: one query a row, causal.
OneQuery == [causal |-> TRUE, window |-> 0, chunk |-> 0, seq_q |-> 1, seq_k |-> 1]

\* The one query of a decode step attends to all of the request's positions.
LEMMA AllAttended ==
  ASSUME NEW len \in Nat
  PROVE  AttendedKeys([OneQuery EXCEPT !.seq_k = len], 0) = 0 .. len - 1
<1> DEFINE c == [OneQuery EXCEPT !.seq_k = len]
<1>1. /\ c.causal = TRUE /\ c.window = 0 /\ c.chunk = 0 /\ c.seq_q = 1 /\ c.seq_k = len
  BY DEF OneQuery
<1> HIDE DEF c
<1>2. Position(c, 0) = len - 1
  BY <1>1 DEF Position
<1>3. FirstKey(c, 0) = 0 /\ LastKey(c, 0) = len - 1
  BY <1>1, <1>2 DEF FirstKey, LastKey, Smaller
<1>4. \A j \in 0 .. len - 1 : MaskAllows(c, 0, j)
  BY <1>1, <1>2 DEF MaskAllows
<1>5. AttendedKeys(c, 0) = 0 .. len - 1
  BY <1>3, <1>4 DEF AttendedKeys, AllowedIn
<1>6. QED BY <1>5 DEF c

\* By the view, a row whose appends are done is found whole.
LEMMA RowRead ==
  ASSUME DecodeInv, decoded, NEW row \in DOMAIN view.ids, NEW h \in KvHead,
         NEW pos \in 0 .. view.seq_lens[row] - 1
  PROVE  /\ KvRow(pool, view.block_tables, RowBase(row), pos, h) =
              [d \in Dim |-> <<active[view.ids[row]].no, pos, h, d>>]
         /\ ScaleOf(scales, view.block_tables, RowBase(row), pos, h) =
              <<active[view.ids[row]].no, pos, h>>
<1> DEFINE id == active_order[row]
           len == mgr.requests[id].seq_len
<1>1. SchedulerInv /\ stepping
  BY DEF DecodeInv
<1>2. view.ids = active_order
  BY <1>1 DEF SchedulerInv, ViewOf
<1>3. row \in DOMAIN active_order
  BY <1>2
<1>4. /\ view.seq_lens[row] = len /\ id \in DOMAIN active /\ len \in Nat
      /\ \A p \in 0 .. len :
           PhysAt(view.block_tables, RowBase(row), p) = BlockAt(Table(mgr, id), p)
  BY <1>1, <1>3, ViewPlaces
<1>5. Cached(id) = len
  BY DEF Cached
<1>6. KvHolds(pool, Table(mgr, id), active[id].no, len) /\ ScaleHolds(scales, Table(mgr, id), active[id].no, len)
  BY <1>4, <1>5 DEF DecodeInv
<1> HIDE DEF len
<1>7. pos \in 0 .. len - 1 /\ pos \in 0 .. len
  BY <1>4
<1>8. PhysAt(view.block_tables, RowBase(row), pos) = BlockAt(Table(mgr, id), pos)
  BY <1>4, <1>7
<1>9. /\ \A d \in Dim : pool[PagedOffset(BlockAt(Table(mgr, id), pos), h, SlotOf(pos), d)] =
                          <<active[id].no, pos, h, d>>
      /\ scales[PagedScaleOffset(BlockAt(Table(mgr, id), pos), h, SlotOf(pos))] =
           <<active[id].no, pos, h>>
  BY <1>6, <1>7 DEF KvHolds, ScaleHolds
<1>10. QED BY <1>2, <1>8, <1>9 DEF KvRow, ScaleOf

\* All that a row reads.
LEMMA InvAttendsOwn == DecodeInv => AttendsOwn
<1> SUFFICES ASSUME DecodeInv, decoded, NEW row \in DOMAIN view.ids, NEW qh \in QHead
             PROVE  LET no == active[view.ids[row]].no
                        h  == KvHeadOf(qh, QHeads, KvHeads)
                        reads == AttendBatched(pool, view.block_tables, view.max_blocks,
                                               view.seq_lens, OneQuery)
                    IN  /\ reads[row][qh][0] =
                             [pos \in 0 .. view.seq_lens[row] - 1 |-> [d \in Dim |-> <<no, pos, h, d>>]]
                        /\ \A pos \in 0 .. view.seq_lens[row] - 1 :
                             ScaleOf(scales, view.block_tables, RowBase(row), pos, h) = <<no, pos, h>>
  BY DEF AttendsOwn, OneQuery
<1> DEFINE no == active[view.ids[row]].no
           h == KvHeadOf(qh, QHeads, KvHeads)
           len == view.seq_lens[row]
           reads == AttendBatched(pool, view.block_tables, view.max_blocks, view.seq_lens, OneQuery)
<1>1. h \in KvHead
  BY HeadRead
<1>2. SchedulerInv /\ stepping
  BY DEF DecodeInv
<1>3. view.ids = active_order /\ DOMAIN view.seq_lens = DOMAIN active_order
  BY <1>2 DEF SchedulerInv, ViewOf
<1>4. len \in Nat
  BY <1>2, <1>3, ViewPlaces
<1>5. reads[row][qh][0] =
        AttendOne(pool, view.block_tables, (row - 1) * view.max_blocks, len, OneQuery, 0, h)
  <2>1. row \in DOMAIN view.seq_lens
    BY <1>3
  <2>2. 0 \in 0 .. OneQuery.seq_q - 1
    BY DEF OneQuery
  <2>3. QED BY <2>1, <2>2 DEF AttendBatched
<1> HIDE DEF h, len, reads
<1>6. reads[row][qh][0] =
        [pos \in 0 .. len - 1 |-> KvRow(pool, view.block_tables, RowBase(row), pos, h)]
  BY <1>4, <1>5, AllAttended DEF AttendOne, RowBase
<1>7. \A pos \in 0 .. len - 1 :
        /\ KvRow(pool, view.block_tables, RowBase(row), pos, h) = [d \in Dim |-> <<no, pos, h, d>>]
        /\ ScaleOf(scales, view.block_tables, RowBase(row), pos, h) = <<no, pos, h>>
  BY <1>1, RowRead DEF len
<1> HIDE DEF no
<1>8. reads[row][qh][0] = [pos \in 0 .. len - 1 |-> [d \in Dim |-> <<no, pos, h, d>>]]
  BY <1>6, <1>7
<1>9. QED BY <1>7, <1>8 DEF no, h, len, reads

\* Attention over the shared pools reads, of each request of the batch, the
\* rows that request appended and their scales, every position of every head
\* and no other (paged_attention_batched on the arrays of ActiveStep).
THEOREM AttentionReadsOwn == DecodeSpec => []AttendsOwn
BY DecodeInvariant, InvAttendsOwn, PTL
=============================================================================
