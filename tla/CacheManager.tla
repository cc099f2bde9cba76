---------------------------- MODULE CacheManager ----------------------------
(***************************************************************************)
(* The KV block pool of src/src/runtime/cache_manager.{hpp,cpp}: a LIFO    *)
(* free list of physical blocks, a reference count per block, and the      *)
(* block table and length of every live request.                           *)
(*                                                                         *)
(* The manager's state is one record m, and each method is an operator     *)
(* from the state before the call to the state after it, so that the       *)
(* modules of its callers (CacheClients, Scheduler, PrefixCache) can run   *)
(* several calls inside one of their own steps.  The pools of K and V      *)
(* values are not part of m: no method reads or writes them.               *)
(***************************************************************************)
EXTENDS Integers, Sequences, FiniteSets, SequencesExt

CONSTANTS NumBlocks, \* layout_.num_blocks: physical blocks in the pool
          BlockSize  \* layout_.block_size: tokens a block holds

ASSUME LayoutAssumption == NumBlocks \in Nat /\ BlockSize \in Nat \ {0}

kInvalidBlock == -1
Block == 0 .. NumBlocks - 1

\* RequestBlocks.  A table entry is a physical block or the padding that
\* reference_block leaves in the entries it skips.
RequestBlocks == [block_table : Seq(Block \cup {kInvalidBlock}), seq_len : Nat]

NoBlocks == [block_table |-> <<>>, seq_len |-> 0]

\* Mutant: the blocks pushed are numbered from 1.
InitManagerFromOne ==
  [free_list    |-> [i \in 1 .. NumBlocks |-> NumBlocks + 1 - i],
   refcount     |-> [b \in Block |-> 0],
   requests     |-> [r \in {} |-> NoBlocks],
   recycled_ids |-> <<>>,
   next_id      |-> 0]

\* CacheManager::CacheManager.  Blocks are pushed from the last to the first,
\* so that they are popped in ascending order.
InitManager ==
  [free_list    |-> [i \in 1 .. NumBlocks |-> NumBlocks - i],
   refcount     |-> [b \in Block |-> 0],
   requests     |-> [r \in {} |-> NoBlocks],
   recycled_ids |-> <<>>,
   next_id      |-> 0]

Table(m, id) == m.requests[id].block_table
NumFree(m) == Len(m.free_list)

---------------------------------------------------------------------------
(* Single blocks *)

WithPool(m, fl, rc) == [m EXCEPT !.free_list = fl, !.refcount = rc]

\* The blocks that n calls of allocate_block would return, in that order.
TopBlocks(m, n) == [i \in 1 .. n |-> m.free_list[NumFree(m) + 1 - i]]

\* Mutant: blocks are taken from one end of the free list, dropped from the other.
AllocateWrongEnd(m, n) ==
  WithPool(m, SubSeq(m.free_list, n + 1, NumFree(m)),
           [b \in Block |-> IF b \in ToSet(TopBlocks(m, n)) THEN 1 ELSE m.refcount[b]])

\* The state after n calls of allocate_block, none of which finds the free
\* list empty: each pops a block and sets its count to 1.
AllocateBlocks(m, n) ==
  WithPool(m, SubSeq(m.free_list, 1, NumFree(m) - n),
           [b \in Block |-> IF b \in ToSet(TopBlocks(m, n)) THEN 1 ELSE m.refcount[b]])

\* Mutant: a block goes back to the free list when one reference is left.
ReleaseBlockEarly(m, b) ==
  IF b \notin Block \/ m.refcount[b] <= 0
  THEN m
  ELSE WithPool(m, IF m.refcount[b] <= 2 THEN Append(m.free_list, b) ELSE m.free_list,
                [m.refcount EXCEPT ![b] = @ - 1])

ReleaseBlock(m, b) ==
  IF b \notin Block \/ m.refcount[b] <= 0
  THEN m
  ELSE WithPool(m, IF m.refcount[b] = 1 THEN Append(m.free_list, b) ELSE m.free_list,
                [m.refcount EXCEPT ![b] = @ - 1])

RetainBlock(m, b) ==
  IF b \in Block
  THEN WithPool(m, m.free_list, [m.refcount EXCEPT ![b] = @ + 1])
  ELSE m

\* The states that release_block, called on the entries of tbl in order,
\* goes through; Releasing(m, tbl)[i] is the state after i calls.
Releasing(m, tbl) ==
  LET after[i \in 0 .. Len(tbl)] ==
        IF i = 0 THEN m ELSE ReleaseBlock(after[i - 1], tbl[i])
  IN  after

---------------------------------------------------------------------------
(* Requests *)

WithRequests(m, rs) == [m EXCEPT !.requests = rs]
WithIds(m, recycled, next) == [m EXCEPT !.recycled_ids = recycled, !.next_id = next]

FreshId(m) == IF m.recycled_ids # <<>> THEN Last(m.recycled_ids) ELSE m.next_id

\* Mutant: a recycled id is used but not popped.
CreateRequestNoPop(m) ==
  WithIds(WithRequests(m, [r \in DOMAIN m.requests \cup {FreshId(m)} |->
                             IF r \in DOMAIN m.requests THEN m.requests[r] ELSE NoBlocks]),
          m.recycled_ids,
          IF m.recycled_ids # <<>> THEN m.next_id ELSE m.next_id + 1)

\* emplace leaves an entry that already exists as it is.
CreateRequest(m) ==
  WithIds(WithRequests(m, [r \in DOMAIN m.requests \cup {FreshId(m)} |->
                             IF r \in DOMAIN m.requests THEN m.requests[r] ELSE NoBlocks]),
          IF m.recycled_ids # <<>> THEN Front(m.recycled_ids) ELSE <<>>,
          IF m.recycled_ids # <<>> THEN m.next_id ELSE m.next_id + 1)

\* Mutant: the request goes, its references stay.
ReleaseRequestLeaking(m, id) ==
  IF id \notin DOMAIN m.requests
  THEN m
  ELSE WithIds(WithRequests(m, [r \in DOMAIN m.requests \ {id} |-> m.requests[r]]),
               Append(m.recycled_ids, id), m.next_id)

ReleaseRequest(m, id) ==
  IF id \notin DOMAIN m.requests
  THEN m
  ELSE WithIds(WithRequests(Releasing(m, Table(m, id))[Len(Table(m, id))],
                            [r \in DOMAIN m.requests \ {id} |-> m.requests[r]]),
               Append(m.recycled_ids, id), m.next_id)

WithTable(m, id, tbl) ==
  WithRequests(m, [m.requests EXCEPT ![id] = [block_table |-> tbl, seq_len |-> @.seq_len]])

\* Mutant: the last, partly filled block is not counted.
BlocksForFloor(n) == n \div BlockSize

BlocksFor(n) == (n + BlockSize - 1) \div BlockSize

\* What ensure_capacity returns ...
CanCover(m, id, n) ==
  BlocksFor(n) <= Len(Table(m, id)) \/ BlocksFor(n) - Len(Table(m, id)) <= NumFree(m)

\* Mutant: the blocks there are, when they are too few, are taken all the same.
EnsureCapacityPartial(m, id, n) ==
  LET missing == BlocksFor(n) - Len(Table(m, id))
      extra   == IF missing < NumFree(m) THEN missing ELSE NumFree(m)
  IN  IF extra <= 0
      THEN m
      ELSE WithTable(AllocateBlocks(m, extra), id, Table(m, id) \o TopBlocks(m, extra))

\* ... and what it leaves: either every missing block or none.
EnsureCapacity(m, id, n) ==
  LET extra == BlocksFor(n) - Len(Table(m, id))
  IN  IF extra <= 0 \/ extra > NumFree(m)
      THEN m
      ELSE WithTable(AllocateBlocks(m, extra), id, Table(m, id) \o TopBlocks(m, extra))

SetSeqLen(m, id, n) ==
  WithRequests(m, [m.requests EXCEPT ![id] = [block_table |-> @.block_table, seq_len |-> n]])

\* tbl with entry idx (counted from 0, as in the code) set to b, the entries
\* skipped on the way padded.
PointedAt(tbl, idx, b) ==
  [i \in 1 .. (IF idx < Len(tbl) THEN Len(tbl) ELSE idx + 1) |->
     IF i = idx + 1 THEN b ELSE IF i <= Len(tbl) THEN tbl[i] ELSE kInvalidBlock]

EntryAt(tbl, idx) == IF idx < Len(tbl) THEN tbl[idx + 1] ELSE kInvalidBlock

\* Mutant: the block replaced keeps the entry's reference.
ReferenceBlockLeaking(m, id, idx, b) ==
  IF idx < 0
  THEN m
  ELSE WithTable(RetainBlock(m, b), id, PointedAt(Table(m, id), idx, b))

\* The entry replaced is released first, then b is retained.
ReferenceBlock(m, id, idx, b) ==
  IF idx < 0
  THEN m
  ELSE WithTable(RetainBlock(ReleaseBlock(m, EntryAt(Table(m, id), idx)), b), id,
                 PointedAt(Table(m, id), idx, b))

---------------------------------------------------------------------------
(* What a state of the manager should satisfy *)

ManagerTypeOK(m) ==
  /\ m \in [free_list : Seq(Block), refcount : [Block -> Nat],
            requests : {m.requests}, recycled_ids : Seq(Nat), next_id : Nat]
  /\ DOMAIN m.requests \subseteq Nat
  /\ m.requests \in [DOMAIN m.requests -> RequestBlocks]

\* The table entries, over all live requests, that name block b.
Slots(rs, b) ==
  {s \in UNION {{r} \X DOMAIN rs[r].block_table : r \in DOMAIN rs} :
     rs[s[1]].block_table[s[2]] = b}

\* The free list is exactly the unreferenced blocks, each once.
FreeListExact(m) ==
  /\ IsInjective(m.free_list)
  /\ ToSet(m.free_list) = {b \in Block : m.refcount[b] = 0}

\* The live ids and the recycled ids split the ids handed out so far.
IdsPartitioned(m) ==
  /\ IsInjective(m.recycled_ids)
  /\ DOMAIN m.requests \cap ToSet(m.recycled_ids) = {}
  /\ DOMAIN m.requests \cup ToSet(m.recycled_ids) = 0 .. m.next_id - 1

\* Every token of every request lies in a block somebody references.
TokensBacked(m) ==
  \A r \in DOMAIN m.requests : \A pos \in 0 .. m.requests[r].seq_len - 1 :
    LET i == (pos \div BlockSize) + 1
    IN  /\ i \in DOMAIN Table(m, r)
        /\ Table(m, r)[i] \in Block /\ m.refcount[Table(m, r)[i]] > 0
=============================================================================
