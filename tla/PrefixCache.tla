---------------------------- MODULE PrefixCache ----------------------------
(***************************************************************************)
(* The prefix cache of src/src/runtime/prefix_cache.{hpp,cpp}: a tree of   *)
(* token prefixes whose nodes at multiples of BlockSize carry KV blocks of *)
(* the cache manager.                                                      *)
(*                                                                         *)
(* The tree is the function node: a node is named by the tokens on the way *)
(* to it, so parent and children need no pointers.  The root, <<>>, is     *)
(* left out; it never carries a block.                                     *)
(***************************************************************************)
EXTENDS CacheManager

Invalid == [block |-> kInvalidBlock, tick |-> 0]

FirstN(seq, n) == SubSeq(seq, 1, n)

\* The node at the end of the i-th block of seq.
BlockEnd(seq, i) == FirstN(seq, i * BlockSize)

EmptyCache == [node |-> <<>>, tick |-> 0, count |-> 0]

\* The nodes of tree t that carry a block.
Cached(t) == {p \in DOMAIN t.node : t.node[p].block # kInvalidBlock}

---------------------------------------------------------------------------
(* lookup *)

\* How many tokens of seq the walk down the tree matches, and how many blocks
\* that makes.
Matched(t, seq) ==
  Max({n \in 0 .. Len(seq) : \A k \in 1 .. n : FirstN(seq, k) \in DOMAIN t.node})
MatchedBlocks(t, seq) == Matched(t, seq) \div BlockSize

\* The blocks that the nodes at the ends of the first i blocks of seq carry.
Collected(t, seq) ==
  LET upto[i \in 0 .. MatchedBlocks(t, seq)] ==
        IF i = 0 THEN <<>>
        ELSE IF BlockEnd(seq, i) \in Cached(t)
             THEN Append(upto[i - 1], t.node[BlockEnd(seq, i)].block)
             ELSE upto[i - 1]
  IN  upto

\* Mutant: the blocks are left in the order they were collected.
MatchUnreversed(t, seq) ==
  [matched_tokens |-> MatchedBlocks(t, seq) * BlockSize,
   blocks         |-> Reverse(Collected(t, seq)[MatchedBlocks(t, seq)])]

\* The Match returned: on the way back up, a block is collected from each
\* node that carries one; in the end they are reversed.
Match(t, seq) ==
  [matched_tokens |-> MatchedBlocks(t, seq) * BlockSize,
   blocks         |-> Collected(t, seq)[MatchedBlocks(t, seq)]]

\* retain_block on each entry of blocks.
Retaining(m, blocks) ==
  WithPool(m, m.free_list,
           [b \in Block |-> m.refcount[b] + Cardinality({i \in DOMAIN blocks : blocks[i] = b})])

\* Mutant: only the deepest node is touched.
TouchedDeepest(t, seq) ==
  LET p == BlockEnd(seq, MatchedBlocks(t, seq))
  IN  IF p \notin Cached(t) THEN t
      ELSE [t EXCEPT !.tick = @ + 1,
                     !.node[p] = [block |-> @.block, tick |-> t.tick + 1]]

\* The tree after the lookup, the nodes that gave a block touched.
Touched(t, seq) ==
  IF MatchedBlocks(t, seq) = 0 THEN t
  ELSE LET ends == {BlockEnd(seq, i) : i \in 1 .. MatchedBlocks(t, seq)}
       IN  [t EXCEPT !.tick = @ + 1,
                     !.node = [p \in DOMAIN t.node |->
                                 IF p \in ends \cap Cached(t)
                                 THEN [block |-> t.node[p].block, tick |-> t.tick + 1]
                                 ELSE t.node[p]]]

---------------------------------------------------------------------------
(* insert *)

\* The blocks of insert(seq, blocks, n) that the tree does not have yet.
Missing(t, seq, n) == {i \in 1 .. n : BlockEnd(seq, i) \notin Cached(t)}

\* The tree after insert: the path is completed, block ends without a block
\* get theirs, the others keep the one they have, and all are touched.
Inserted(t, seq, blocks, n) ==
  IF n <= 0 THEN t
  ELSE [node |-> [p \in DOMAIN t.node \cup {FirstN(seq, k) : k \in 1 .. n * BlockSize} |->
                    IF \E i \in 1 .. n : p = BlockEnd(seq, i)
                    THEN [block |-> IF p \in Cached(t) THEN t.node[p].block
                                    ELSE blocks[Len(p) \div BlockSize],
                          tick  |-> t.tick + 1]
                    ELSE IF p \in DOMAIN t.node THEN t.node[p] ELSE Invalid],
        tick  |-> t.tick + 1,
        count |-> t.count + Cardinality(Missing(t, seq, n))]

\* Mutant: insert takes no reference of its own.
AdoptedUncounted(m, t, seq, blocks, n) == m

\* The manager after insert: one reference of the cache's own for each block
\* it took.
Adopted(m, t, seq, blocks, n) ==
  LET taken == [i \in Missing(t, seq, n) |-> blocks[i]]
  IN  IF n <= 0 THEN m ELSE Retaining(m, taken)

---------------------------------------------------------------------------
(* evict_until_free *)

\* Mutant: the most recently touched.
VictimsNewest(t) ==
  {p \in Cached(t) : \A q \in Cached(t) : t.node[p].tick >= t.node[q].tick}

\* What find_lru may return.  It keeps the first node it meets with the least
\* tick, and meets a node before its descendants; the order among siblings is
\* the hash map's.
Victims(t) ==
  {p \in Cached(t) :
     \A q \in Cached(t) :
       /\ t.node[p].tick <= t.node[q].tick
       /\ IsStrictPrefix(q, p) => t.node[p].tick < t.node[q].tick}

\* Mutant: only the victim's own node is removed.
PrunedVictim(t, p) ==
  IF \E q \in DOMAIN t.node : IsStrictPrefix(p, q) THEN t
  ELSE [t EXCEPT !.node = Restrict(@, DOMAIN @ \ {p})]

\* prune_empty removes, from victim p upwards, the nodes that have neither a
\* block nor a child left.
Pruned(t, p) ==
  LET dead == {q \in DOMAIN t.node :
                 /\ IsPrefix(q, p)
                 /\ \A r \in DOMAIN t.node :
                      IsPrefix(q, r) => IsPrefix(r, p) /\ r \notin Cached(t)}
  IN  [t EXCEPT !.node = Restrict(@, DOMAIN @ \ dead)]

\* One round of the loop, with victim p.
EvictOne(s, p) ==
  LET bare == [s.tree EXCEPT !.node[p].block = kInvalidBlock,
                             !.count = IF @ > 0 THEN @ - 1 ELSE @]
  IN  [mgr   |-> ReleaseBlock(s.mgr, s.tree.node[p].block),
       tree  |-> Pruned(bare, p),
       freed |-> s.freed + 1]

\* The states evict_until_free(min_free) may end in.  Rounds[i] are those it
\* may be in after i rounds.
Evictions(m, t, min_free) ==
  LET Goes(s)  == NumFree(s.mgr) < min_free /\ Cached(s.tree) # {}
      Rounds[i \in 0 .. Cardinality(Cached(t))] ==
        IF i = 0 THEN {[mgr |-> m, tree |-> t, freed |-> 0]}
        ELSE UNION {{EvictOne(s, p) : p \in Victims(s.tree)} : s \in {r \in Rounds[i - 1] : Goes(r)}}
  IN  {s \in UNION {Rounds[i] : i \in 0 .. Cardinality(Cached(t))} : ~ Goes(s)}
=============================================================================
