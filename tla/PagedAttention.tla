--------------------------- MODULE PagedAttention ---------------------------
(***************************************************************************)
(* What attention reads of a KV cache: of the paged pools, in floats       *)
(* (paged_attention.cpp) and in int8 (kvcache_quant.cpp), and of the dense *)
(* cache that kv_cache_append fills (attention.cpp).  The weights of what  *)
(* is read are those of Attention's Sdpa.                                  *)
(***************************************************************************)
EXTENDS PagedCache, Attention

CONSTANT QHeads \* cfg.n_q_heads

ASSUME QHeadsAssumption == QHeads \in Nat \ {0} /\ QHeads % KvHeads = 0

QHead == 0 .. QHeads - 1

\* The rows that query i and K/V head kvh read, by position, and so attend to.
AttendOne(pool, tables, base, seq_len, cfg, i, kvh) ==
  [j \in AttendedKeys([cfg EXCEPT !.seq_k = seq_len], i) |->
     KvRow(pool, tables, base, j, kvh)]

\* The same in int8: a row with its scale.
AttendOneQ8(pool, scales, tables, base, seq_len, cfg, i, kvh) ==
  [j \in AttendedKeys([cfg EXCEPT !.seq_k = seq_len], i) |->
     <<KvRow(pool, tables, base, j, kvh), ScaleOf(scales, tables, base, j, kvh)>>]

\* paged_attention_batched, and with one request paged_attention.
AttendBatched(pool, tables, max_blocks, seq_lens, cfg) ==
  [r \in DOMAIN seq_lens |-> [qh \in QHead |-> [i \in 0 .. cfg.seq_q - 1 |->
     AttendOne(pool, tables, (r - 1) * max_blocks, seq_lens[r], cfg, i,
               KvHeadOf(qh, QHeads, KvHeads))]]]

---------------------------------------------------------------------------
(* The dense cache: [n_kv_heads, max_seq] rows. *)

\* kv_cache_append: row (h, past_len + s) becomes row (h, s) of k_new.
DenseAppend(cache, k_new, max_seq, past_len, seq_new) ==
  [a \in DOMAIN cache |->
     LET h == a \div max_seq
         s == (a % max_seq) - past_len
     IN  IF s \in 0 .. seq_new - 1 THEN k_new[h * seq_new + s] ELSE cache[a]]

\* The rows sdpa reads of keys laid out as [n_kv_heads, seq_k].
SdpaRows(keys, cfg, i, kvh) ==
  [j \in AttendedKeys(cfg, i) |-> keys[kvh * cfg.seq_k + j]]
=============================================================================
