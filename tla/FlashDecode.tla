---------------------------- MODULE FlashDecode ----------------------------
(***************************************************************************)
(* flash_decode_attention for one query row: the keys are cut into splits, *)
(* a split into blocks, and partial softmaxes are rescaled and merged.     *)
(* With one split it is flash_attention, whose result is then the partial  *)
(* softmax of that split.                                                  *)
(***************************************************************************)
EXTENDS Attention

CONSTANTS SeqLens,    \* seq_q and seq_k
          Windows, Chunks, BlockSizes, SplitCounts,
          HardMasked  \* the bias may mask every key that a query attends to

ASSUME FlashAssumption ==
  /\ SeqLens \subseteq Nat \ {0} /\ Windows \subseteq Nat /\ Chunks \subseteq Nat
  /\ BlockSizes \subseteq Int /\ SplitCounts \subseteq Int /\ HardMasked \in BOOLEAN

VARIABLES q,      \* the call: AttnConfig, query, scores, block_k and splits
          pc,
          split,  \* splits begun and merged
          j0,     \* next block of the split starts here
          part,   \* softmax of the split's blocks so far
          merged, \* softmax of the splits so far
          added   \* history: how often a row of V was added

vars == <<q, pc, split, j0, part, merged, added>>

Keys == 0 .. q.seq_k - 1
FirstSeen == FirstKey(q, q.i)
LastSeen == LastKey(q, q.i)

\* Mutant: the division of the keys among the splits rounds down.
PerSplitFloor == (LastSeen - FirstSeen + 1) \div Larger(1, q.splits)

PerSplit == (LastSeen - FirstSeen + Larger(1, q.splits)) \div Larger(1, q.splits)
SplitFrom(s) == FirstSeen + s * PerSplit
SplitTo(s) == Smaller(SplitFrom(s) + PerSplit - 1, LastSeen)

Empty == [m |-> NegInf, l |-> 0, acc |-> [j \in Keys |-> 0]]

---------------------------------------------------------------------------

\* One block of online_block, with the keys js the masks leave of it.
AddBlock(p, js) ==
  LET m_new == Larger(MaxScoreOf(q.score, js), p.m)
      w     == [j \in Keys |-> IF j \in js THEN Exp(q.score[j], m_new) ELSE 0]
  IN  IF js = {} THEN p
      ELSE [m   |-> m_new,
            l   |-> Rescale(p.l, p.m, m_new) + SumFunctionOnSet(w, js),
            acc |-> [j \in Keys |-> Rescale(p.acc[j], p.m, m_new) + w[j]]]

\* Mutant: an empty split is merged like any other and forgets the rest.
MergeForgets(g, p) == p

\* Splits merged so far and one more, which may be empty after masking.
Merge(g, p) ==
  LET m_new == Larger(g.m, p.m)
  IN  IF p.l <= 0 THEN g
      ELSE [m   |-> m_new,
            l   |-> Rescale(g.l, g.m, m_new) + Rescale(p.l, p.m, m_new),
            acc |-> [j \in Keys |-> Rescale(g.acc[j], g.m, m_new)
                                      + Rescale(p.acc[j], p.m, m_new)]]

\* flash_attention: the blocks from the first key to the last, in one split.
FlashOutput == part

---------------------------------------------------------------------------

\* Calls for n query rows and k keys, with a score for every key.
CallsOf(n, k) ==
  [causal : BOOLEAN, window : Windows, chunk : Chunks, seq_q : {n}, seq_k : {k},
   i : 0 .. n - 1, block_k : BlockSizes, splits : SplitCounts,
   score : [0 .. k - 1 -> NegInf .. MaxScore]]

Calls == UNION {UNION {CallsOf(n, k) : k \in SeqLens} : n \in SeqLens}

\* Unless HardMasked, a query that attends to any key attends to one with a
\* finite score.
Init ==
  /\ q \in Calls
  /\ HardMasked \/ LET js == AttendedKeys(q, q.i)
                   IN  js # {} => \E j \in js : q.score[j] # NegInf
  /\ pc = IF LastSeen < FirstSeen THEN "done" ELSE "split"
  /\ split = 0 /\ j0 = FirstSeen
  /\ part = Empty /\ merged = Empty
  /\ added = [j \in Keys |-> 0]

BeginSplit ==
  /\ pc = "split" /\ split < Larger(1, q.splits) /\ SplitFrom(split) <= LastSeen
  /\ pc' = "block"
  /\ j0' = SplitFrom(split)
  /\ part' = Empty
  /\ UNCHANGED <<q, split, merged, added>>

BlockStep ==
  /\ pc = "block"
  /\ LET block_k == Larger(1, q.block_k)
         js == AllowedIn(q, q.i, j0 .. Smaller(j0 + block_k - 1, SplitTo(split)))
     IN  /\ part' = AddBlock(part, js)
         /\ added' = [j \in Keys |->
                        IF j \in js /\ q.score[j] # NegInf THEN added[j] + 1 ELSE added[j]]
         /\ j0' = j0 + block_k
         /\ pc' = IF j0 + block_k > SplitTo(split) THEN "merge" ELSE "block"
  /\ UNCHANGED <<q, split, merged>>

MergeSplit ==
  /\ pc = "merge"
  /\ merged' = Merge(merged, part)
  /\ split' = split + 1
  /\ pc' = "split"
  /\ UNCHANGED <<q, j0, part, added>>

Finish ==
  /\ pc = "split" /\ (split >= Larger(1, q.splits) \/ SplitFrom(split) > LastSeen)
  /\ pc' = "done"
  /\ UNCHANGED <<q, split, j0, part, merged, added>>

Next == BeginSplit \/ BlockStep \/ MergeSplit \/ Finish

Spec == Init /\ [][Next]_vars

---------------------------------------------------------------------------
(* Properties *)

\* "FlashAttention-style tiled attention ... must match sdpa", and flash
\* decoding with it, whatever the masks, the block size and the splits.
FlashMatchesSdpa ==
  /\ pc = "done" => SameOutput(merged, Sdpa(q, q.i, q.score))
  /\ pc = "merge" /\ q.splits <= 1 => SameOutput(FlashOutput, Sdpa(q, q.i, q.score))

\* No row of V is added twice or past a mask, and in the end none that the
\* masks leave is missing: the splits and blocks tile the keys.
EachKeyOnce ==
  LET wanted == {j \in AttendedKeys(q, q.i) : q.score[j] # NegInf}
  IN  /\ \A j \in Keys : added[j] > 0 => added[j] = 1 /\ j \in wanted
      /\ pc = "done" => \A j \in wanted : added[j] = 1
=============================================================================
