--------------------------- MODULE PrefixClients ---------------------------
(***************************************************************************)
(* Requests that share KV blocks through the prefix cache, as its header   *)
(* and src/tests/test_prefix_cache.cpp use it: look the prompt up, take    *)
(* the matched blocks, allocate and fill the rest, insert the whole, and   *)
(* release every reference in the end.  The requests of a batch interleave *)
(* at these calls, and evict_until_free may run between any two.           *)
(***************************************************************************)
EXTENDS PrefixCache

CONSTANTS Clients, \* requests in flight at a time
          Prompts, \* the prompts they come with, sequences of tokens
          MaxTick  \* bound: lookups and inserts

ASSUME PromptsAssumption ==
  MaxTick \in Nat /\ \A seq \in Prompts : seq \in Seq(Nat)

VARIABLES mgr,     \* the cache manager
          tree,    \* the prefix cache: node, tick_ and cached_block_count_
          phase,   \* phase[c] of each client
          prompt,  \* its prompt
          blocks,  \* the blocks it holds a reference on, in prompt order
          content  \* history: whose prefix the K and V in a block are for

vars == <<mgr, tree, phase, prompt, blocks, content>>

Init ==
  /\ mgr = InitManager
  /\ tree = EmptyCache
  /\ phase = [c \in Clients |-> "idle"]
  /\ prompt = [c \in Clients |-> <<>>]
  /\ blocks = [c \in Clients |-> <<>>]
  /\ content = [b \in Block |-> <<>>]

\* The blocks of a prompt that can be cached: the whole ones.
Whole(seq) == Len(seq) \div BlockSize

IsWhole(match) == Len(match.blocks) * BlockSize = match.matched_tokens

\* A client looks its prompt up.  One that finds fewer blocks than the tokens
\* said to match cannot place them: it releases them and starts from nothing.
Lookup(c, seq) ==
  LET match == Match(tree, seq)
      found == Retaining(mgr, match.blocks)
  IN  /\ phase[c] = "idle" /\ tree.tick < MaxTick
      /\ tree' = Touched(tree, seq)
      /\ mgr' = IF IsWhole(match) THEN found
                ELSE Releasing(found, match.blocks)[Len(match.blocks)]
      /\ phase' = [phase EXCEPT ![c] = "filling"]
      /\ prompt' = [prompt EXCEPT ![c] = seq]
      /\ blocks' = [blocks EXCEPT ![c] = IF IsWhole(match) THEN match.blocks ELSE <<>>]
      /\ UNCHANGED content

\* It computes the K and V of its next block.
Fill(c) ==
  LET b == TopBlocks(mgr, 1)[1]
      n == Len(blocks[c]) + 1
  IN  /\ phase[c] = "filling" /\ n <= Whole(prompt[c])
      /\ NumFree(mgr) > 0
      /\ mgr' = AllocateBlocks(mgr, 1)
      /\ blocks' = [blocks EXCEPT ![c] = Append(@, b)]
      /\ content' = [content EXCEPT ![b] = BlockEnd(prompt[c], n)]
      /\ UNCHANGED <<tree, phase, prompt>>

Insert(c) ==
  LET n == Whole(prompt[c])
  IN  /\ phase[c] = "filling" /\ Len(blocks[c]) = n /\ tree.tick < MaxTick
      /\ tree' = Inserted(tree, prompt[c], blocks[c], n)
      /\ mgr' = Adopted(mgr, tree, prompt[c], blocks[c], n)
      /\ phase' = [phase EXCEPT ![c] = "serving"]
      /\ UNCHANGED <<prompt, blocks, content>>

\* A client ends, having inserted its prompt or not.
Finish(c) ==
  /\ phase[c] # "idle"
  /\ mgr' = Releasing(mgr, blocks[c])[Len(blocks[c])]
  /\ phase' = [phase EXCEPT ![c] = "idle"]
  /\ prompt' = [prompt EXCEPT ![c] = <<>>]
  /\ blocks' = [blocks EXCEPT ![c] = <<>>]
  /\ UNCHANGED <<tree, content>>

EvictUntilFree(min_free) ==
  /\ \E s \in Evictions(mgr, tree, min_free) : mgr' = s.mgr /\ tree' = s.tree
  /\ UNCHANGED <<phase, prompt, blocks, content>>

Next ==
  \/ \E c \in Clients :
       (\E seq \in Prompts : Lookup(c, seq)) \/ Fill(c) \/ Insert(c) \/ Finish(c)
  \/ \E min_free \in 1 .. NumBlocks : EvictUntilFree(min_free)

Spec == Init /\ [][Next]_vars

---------------------------------------------------------------------------
(* Properties *)

\* Over every interleaving of lookups, inserts, completions and evictions the
\* count of a block is one per node of the tree that carries it and one per
\* client that holds it, and the block is free exactly when that is none.
ReferencesAccounted ==
  /\ FreeListExact(mgr)
  /\ \A b \in Block :
       mgr.refcount[b] = Cardinality({p \in Cached(tree) : tree.node[p].block = b})
                         + Cardinality({c \in Clients : b \in ToSet(blocks[c])})

\* Bit-exact reuse: what a client reads in its i-th block was computed for
\* exactly the tokens of its prompt up to there, whoever computed it, and
\* what the tree offers for a prefix was computed for that prefix.
BitExact ==
  /\ \A c \in Clients : \A i \in DOMAIN blocks[c] :
       content[blocks[c][i]] = BlockEnd(prompt[c], i)
  /\ \A p \in Cached(tree) : content[tree.node[p].block] = p

\* The tree holds no garbage: its nodes are closed under parents, blocks sit
\* at block ends only, every branch ends in a block, and cached_block_count_
\* is the number of blocks.
TreePruned ==
  /\ \A p \in DOMAIN tree.node : Len(p) > 1 => Front(p) \in DOMAIN tree.node
  /\ \A p \in Cached(tree) : Len(p) % BlockSize = 0
  /\ \A p \in DOMAIN tree.node : \E q \in Cached(tree) : IsPrefix(p, q)
  /\ tree.count = Cardinality(Cached(tree))

\* Eviction is by least recent use: a block that leaves the tree was touched
\* no later than any block that stays.
EvictsLeastRecent ==
  [][ \A p \in Cached(tree) \ Cached(tree)', q \in Cached(tree) \cap Cached(tree)' :
        tree.node[p].tick <= tree.node[q].tick ]_vars

\* A prefix is never staler than what extends it, whatever lookups stop
\* half-way and inserts refill: least-recent-use eviction takes the ends of
\* branches before their beginnings, ticks being equal excepted.
PrefixesFresher ==
  \A p, q \in Cached(tree) : IsPrefix(p, q) => tree.node[p].tick >= tree.node[q].tick

\* What lookup returns is "the longest block-aligned prefix and its physical
\* blocks": a block for every matched_tokens / block_size.
MatchHasItsBlocks == \A seq \in Prompts : IsWhole(Match(tree, seq))

\* evict_until_free "returns the number of blocks freed".
EvictionCounted ==
  \A min_free \in 1 .. NumBlocks : \A s \in Evictions(mgr, tree, min_free) :
    s.freed = NumFree(s.mgr) - NumFree(mgr)
=============================================================================
