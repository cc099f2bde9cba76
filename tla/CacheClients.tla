---------------------------- MODULE CacheClients ----------------------------
(***************************************************************************)
(* The cache manager driven by callers that keep to its header's contract: *)
(* they release only references they own, share only blocks that are in    *)
(* use, and fill the padded entries of a table before they grow it.        *)
(*                                                                         *)
(* held[b] counts the references on b that callers own outside any         *)
(* request (allocate_block, retain_block); it is a history of the calls,   *)
(* not a variable of the program.                                          *)
(***************************************************************************)
EXTENDS CacheManager

CONSTANTS MaxLive,   \* bound: live requests
          MaxHeld,   \* bound: references per block owned outside requests
          MaxTable,  \* bound: entries of a block table
          MaxTokens  \* bound: tokens of a request

ASSUME BoundsAssumption ==
  MaxLive \in Nat /\ MaxHeld \in Nat /\ MaxTable \in Nat /\ MaxTokens \in Nat

VARIABLES mgr, held

vars == <<mgr, held>>

Live == DOMAIN mgr.requests

TypeOK == ManagerTypeOK(mgr) /\ held \in [Block -> Nat]

Init == mgr = InitManager /\ held = [b \in Block |-> 0]

Create ==
  /\ Cardinality(Live) < MaxLive
  /\ mgr' = CreateRequest(mgr)
  /\ UNCHANGED held

Release(id) ==
  /\ mgr' = ReleaseRequest(mgr, id)
  /\ UNCHANGED held

Padded(id) == \E i \in DOMAIN Table(mgr, id) : Table(mgr, id)[i] = kInvalidBlock

\* ensure_capacity and, when it succeeds, set_seq_len ...
Cover(id, n) ==
  /\ mgr' = IF CanCover(mgr, id, n)
            THEN SetSeqLen(EnsureCapacity(mgr, id, n), id, n)
            ELSE EnsureCapacity(mgr, id, n)
  /\ UNCHANGED held

\* ... of a table without a gap.
Grow(id, n) == ~ Padded(id) /\ Cover(id, n)

\* reference_block on any block in use ...
Point(id, idx, b) ==
  /\ mgr.refcount[b] > 0
  /\ mgr' = ReferenceBlock(mgr, id, idx, b)
  /\ UNCHANGED held

\* ... that the entry does not name already.
Share(id, idx, b) ==
  /\ EntryAt(Table(mgr, id), idx) # b
  /\ Point(id, idx, b)

\* allocate_block by a caller of its own; OOM returns kInvalidBlock.
Allocate ==
  /\ NumFree(mgr) > 0
  /\ mgr' = AllocateBlocks(mgr, 1)
  /\ held' = [held EXCEPT ![TopBlocks(mgr, 1)[1]] = @ + 1]

Retain(b) ==
  /\ mgr.refcount[b] > 0
  /\ held[b] < MaxHeld
  /\ mgr' = RetainBlock(mgr, b)
  /\ held' = [held EXCEPT ![b] = @ + 1]

\* A caller drops a reference of its own, or drops a free block again.
Drop(b) ==
  /\ held[b] > 0 \/ mgr.refcount[b] = 0
  /\ mgr' = ReleaseBlock(mgr, b)
  /\ held' = IF held[b] > 0 THEN [held EXCEPT ![b] = @ - 1] ELSE held

Next ==
  \/ Create
  \/ \E id \in Live : Release(id)
  \/ \E id \in Live, n \in 0 .. MaxTokens : Grow(id, n)
  \/ \E id \in Live, idx \in 0 .. MaxTable - 1, b \in Block : Share(id, idx, b)
  \/ Allocate
  \/ \E b \in Block : Retain(b)
  \/ \E b \in Block : Drop(b)

Spec == Init /\ [][Next]_vars

---------------------------------------------------------------------------
(* Properties *)

\* The free list and the reference counts, which release_block and
\* allocate_block update side by side, never disagree: a block is on the
\* free list, and once, exactly when nothing references it.
FreeIffUnreferenced == FreeListExact(mgr)

\* A block's count is the number of references there are: one per table
\* entry that names it, in any request, and one per reference a caller owns.
RefcountsAccounted ==
  \A b \in Block :
    mgr.refcount[b] = held[b] + Cardinality(Slots(mgr.requests, b))

\* create_request never hands out the id of a live request, and every id
\* released is handed out again.
IdsRecycled == IdsPartitioned(mgr)

\* The blocks attention reads for a request's seq_len tokens exist and have
\* not gone back to the pool.
TokensInBlocks == TokensBacked(mgr)

\* The manager, its counts and its free list hidden, behaves as a pool that
\* knows who refers to a block and hands out only blocks nobody refers to; a
\* table grows to all the blocks its new length needs or, when ensure_capacity
\* runs out of blocks, by none.
Tables == [r \in Live |-> Table(mgr, r)]
Lengths == [r \in Live |-> mgr.requests[r].seq_len]
Pool == INSTANCE BlockPool WITH table <- Tables, length <- Lengths
PoolRefined == Pool!Spec
=============================================================================
