--------------------------- MODULE ChunkedDecode ---------------------------
(***************************************************************************)
(* One sequence decoded in calls of any size, as prefill in chunks, one    *)
(* token at a time, or drafts of which some are taken back: each call      *)
(* appends the K/V of its tokens to the dense and to the paged caches and  *)
(* attends to what is there.  This is how the tests of attention, of paged *)
(* attention and of the int8 cache call them; a token taken back is        *)
(* overwritten when the next call passes a smaller past_len.               *)
(***************************************************************************)
EXTENDS PagedAttention

CONSTANTS MaxSeq,    \* max_seq of the dense cache, at most NumBlocks * BlockSize
          SeqWindows, SeqChunks,
          MaxCalls   \* bound on the number of calls

VARIABLES cfg, table,          \* AttnConfig and block table, fixed
          stamps,              \* which call computed the token at each position
          calls,
          cache, pool, scales, \* the dense cache, the paged pool and its scales
          seen                 \* history: what each token's queries read

chunkedVars == <<cfg, table, stamps, calls, cache, pool, scales, seen>>

Nothing == <<>>

ChunkedInit ==
  /\ cfg \in [causal : {TRUE}, window : SeqWindows, chunk : SeqChunks, seq_q : {1}, seq_k : {1}]
  /\ table \in {t \in [1 .. NumBlocks -> 0 .. NumBlocks - 1] :
                  \A a, b \in 1 .. NumBlocks : t[a] = t[b] => a = b}
  /\ stamps = <<>> /\ calls = 0
  /\ cache = [a \in 0 .. KvHeads * MaxSeq - 1 |-> Nothing]
  /\ pool = [a \in 0 .. PoolSize - 1 |-> Nothing]
  /\ scales = [a \in 0 .. ScalesSize - 1 |-> Nothing]
  /\ seen = <<>>

Past == Len(stamps)

\* The K/V of n new tokens, as [n_kv_heads, n] rows.
NewRows(n) == [a \in 0 .. KvHeads * n - 1 |-> <<calls, Past + (a % n), a \div n>>]

\* The caller packs the front of the cache for sdpa.
PackedView(rows, total) ==
  [a \in 0 .. KvHeads * total - 1 |-> rows[(a \div total) * MaxSeq + (a % total)]]

Call(n) ==
  /\ calls < MaxCalls /\ Past + n <= MaxSeq
  /\ LET total == Past + n
         c     == [cfg EXCEPT !.seq_q = n, !.seq_k = total]
         dense == DenseAppend(cache, NewRows(n), MaxSeq, Past, n)
         paged == KvAppend(pool, table, 0, Past, n, calls)
         q8    == ScaleAppend(scales, table, 0, Past, n, calls)
         reads == AttendBatched(paged, table, NumBlocks, <<total>>, c)[1]
         Read(i) == [qh \in QHead |->
           LET kvh == KvHeadOf(qh, QHeads, KvHeads)
           IN  [dense |-> SdpaRows(PackedView(dense, total), c, i, kvh),
                paged |-> reads[qh][i],
                q8    |-> AttendOneQ8(paged, q8, table, 0, total, c, i, kvh)]]
     IN  /\ stamps' = stamps \o [k \in 1 .. n |-> calls]
         /\ seen' = seen \o [k \in 1 .. n |-> Read(k - 1)]
         /\ cache' = dense /\ pool' = paged /\ scales' = q8
  /\ calls' = calls + 1
  /\ UNCHANGED <<cfg, table>>

\* The last n tokens were drafts that verification rejected.
TakeBack(n) ==
  /\ calls < MaxCalls /\ n <= Past
  /\ stamps' = SubSeq(stamps, 1, Past - n)
  /\ seen' = SubSeq(seen, 1, Past - n)
  /\ UNCHANGED <<cfg, table, calls, cache, pool, scales>>

ChunkedNext == \E n \in 1 .. MaxSeq : Call(n) \/ TakeBack(n)

ChunkedSpec == ChunkedInit /\ [][ChunkedNext]_chunkedVars

---------------------------------------------------------------------------
(* Properties *)

\* A token decoded by any sequence of calls attended to exactly the rows it
\* would in one prefill of the whole sequence: its own head's, of the tokens
\* that stand, none of a token that was taken back.
ChunksMatchPrefill ==
  LET whole == [cfg EXCEPT !.seq_q = Past, !.seq_k = Past]
  IN  \A pos \in 0 .. Past - 1, qh \in QHead :
        seen[pos + 1][qh].dense =
          [j \in AttendedKeys(whole, pos) |->
             <<stamps[j + 1], j, (qh * KvHeads) \div QHeads>>]

\* Attention reads the same rows of the paged pools as of the dense cache,
\* whatever the block table, and each row with its own scale.
PagedMatchesDense ==
  \A pos \in 0 .. Past - 1, qh \in QHead :
    LET s == seen[pos + 1][qh]
        Row(j) == [d \in Dim |-> s.dense[j] \o <<d>>]
    IN  /\ s.paged = [j \in DOMAIN s.dense |-> Row(j)]
        /\ s.q8 = [j \in DOMAIN s.dense |-> <<Row(j), s.dense[j]>>]
=============================================================================
