----------------------------- MODULE PagedCache -----------------------------
(***************************************************************************)
(* The storage of the paged KV cache, in floats (src/src/kernels/kvcache)  *)
(* and in int8 with a scale per row (kvcache_quant): where an element of   *)
(* the pool lives, what an append writes, and what attention reads.        *)
(*                                                                         *)
(* A pool is a flat array from addresses to what was written there.  The K *)
(* and the V pool are written and read at the same addresses, so one pool  *)
(* stands for both.                                                        *)
(***************************************************************************)
EXTENDS CacheManager

CONSTANTS KvHeads, \* layout_.n_kv_heads
          HeadDim  \* layout_.head_dim

ASSUME HeadsAssumption == KvHeads \in Nat \ {0} /\ HeadDim \in Nat \ {0}

KvHead == 0 .. KvHeads - 1
Slot == 0 .. BlockSize - 1
Dim == 0 .. HeadDim - 1

\* Mutant: the heads of a block are not told apart by their whole rows.
PagedOffsetNarrow(block, head, slot, d) ==
  ((block * KvHeads + head) * (BlockSize - 1) + slot) * HeadDim + d

\* Address of element (block, head, slot, d) of a pool ...
PagedOffset(block, head, slot, d) ==
  ((block * KvHeads + head) * BlockSize + slot) * HeadDim + d

\* ... and of the scale of a row, of the int8 cache.
PagedScaleOffset(block, head, slot) == (block * KvHeads + head) * BlockSize + slot

PoolSize == NumBlocks * KvHeads * BlockSize * HeadDim
ScalesSize == NumBlocks * KvHeads * BlockSize

---------------------------------------------------------------------------

\* The block that position pos is in, by a table that starts at entry base
\* of the array tables, and its slot there.
PhysAt(tables, base, pos) == tables[base + (pos \div BlockSize) + 1]
SlotOf(pos) == pos % BlockSize

\* Mutant: the slot is counted from the first position appended.
AppendedFromZero(tables, base, past_len, seq_new) ==
  {[phys |-> PhysAt(tables, base, past_len + s), slot |-> SlotOf(s),
    pos |-> past_len + s, head |-> h] : s \in 0 .. seq_new - 1, h \in KvHead}

\* The rows that an append of seq_new positions writes, and where.
Appended(tables, base, past_len, seq_new) ==
  {[phys |-> PhysAt(tables, base, past_len + s), slot |-> SlotOf(past_len + s),
    pos |-> past_len + s, head |-> h] : s \in 0 .. seq_new - 1, h \in KvHead}

\* Of several writes to one address, the one for the latest position.
LastOf(writes) == CHOOSE r \in writes : \A q \in writes : r.pos >= q.pos

\* paged_kv_append, of K or V computed for owner: all elements of each row.
KvAppend(pool, tables, base, past_len, seq_new, owner) ==
  LET From(r)   == PagedOffset(r.phys, r.head, r.slot, 0)
      Writes(a) == {r \in Appended(tables, base, past_len, seq_new) :
                      From(r) <= a /\ a < From(r) + HeadDim}
  IN  [a \in DOMAIN pool |->
         IF Writes(a) = {} THEN pool[a]
         ELSE LET r == LastOf(Writes(a)) IN <<owner, r.pos, r.head, a - From(r)>>]

\* What paged_kv_append_q8 adds to it: the scale of each row.
ScaleAppend(scales, tables, base, past_len, seq_new, owner) ==
  LET Writes(a) == {r \in Appended(tables, base, past_len, seq_new) :
                      PagedScaleOffset(r.phys, r.head, r.slot) = a}
  IN  [a \in DOMAIN scales |->
         IF Writes(a) = {} THEN scales[a]
         ELSE LET r == LastOf(Writes(a)) IN <<owner, r.pos, r.head>>]

\* What attention reads for position pos and head h: the row and, in the int8
\* cache, its scale.
KvRow(pool, tables, base, pos, h) ==
  [d \in Dim |-> pool[PagedOffset(PhysAt(tables, base, pos), h, SlotOf(pos), d)]]
ScaleOf(scales, tables, base, pos, h) ==
  scales[PagedScaleOffset(PhysAt(tables, base, pos), h, SlotOf(pos))]
=============================================================================
