---------------------------- MODULE PagedDecode ----------------------------
(***************************************************************************)
(* A whole step of the driver loop: the scheduler's view, the appends the  *)
(* driver makes with it to the paged pools, and the rows that batched      *)
(* paged attention then reads.                                             *)
(*                                                                         *)
(* The driver is the caller that scheduler.hpp describes.  In a request's  *)
(* first step it appends the whole prompt, after that the one token that   *)
(* the step before decoded, so that attention finds all of seq_len.        *)
(***************************************************************************)
EXTENDS Scheduler, PagedAttention

VARIABLES pool,   \* K and V pools: whose element is at each address
          scales, \* scale arrays of the int8 cache
          decoded \* the step's appends are done

decodeVars == <<vars, pool, scales, decoded>>

Nothing == <<>>

DecodeInit ==
  /\ Init
  /\ pool = [a \in 0 .. PoolSize - 1 |-> Nothing]
  /\ scales = [a \in 0 .. ScalesSize - 1 |-> Nothing]
  /\ decoded = FALSE

Prepare == PrepareStep /\ decoded' = FALSE /\ UNCHANGED <<pool, scales>>

\* Where the table of a row of the view starts, and what the row appends.
RowBase(row) == (row - 1) * view.max_blocks
PastLen(row) ==
  IF active[view.ids[row]].produced = 0 THEN 0 ELSE view.seq_lens[row] - 1
SeqNew(row) == view.seq_lens[row] - PastLen(row)

\* The pools after the appends of the first rows of the view.
PoolAfter ==
  LET after[row \in 0 .. Len(view.ids)] ==
        IF row = 0 THEN pool
        ELSE KvAppend(after[row - 1], view.block_tables, RowBase(row), PastLen(row), SeqNew(row),
                      active[view.ids[row]].no)
  IN  after

ScalesAfter ==
  LET after[row \in 0 .. Len(view.ids)] ==
        IF row = 0 THEN scales
        ELSE ScaleAppend(after[row - 1], view.block_tables, RowBase(row), PastLen(row), SeqNew(row),
                         active[view.ids[row]].no)
  IN  after

Decode ==
  /\ stepping /\ ~ decoded
  /\ pool' = PoolAfter[Len(view.ids)]
  /\ scales' = ScalesAfter[Len(view.ids)]
  /\ decoded' = TRUE
  /\ UNCHANGED vars

CommitDecoded == decoded /\ Commit /\ decoded' = FALSE /\ UNCHANGED <<pool, scales>>

Arrival == (\E req \in Requests : Submit(req)) /\ UNCHANGED <<pool, scales, decoded>>

DecodeNext == Arrival \/ Prepare \/ Decode \/ CommitDecoded

DecodeSpec == DecodeInit /\ [][DecodeNext]_decodeVars

---------------------------------------------------------------------------
(* Properties *)

\* Attention over the shared pools equals attention over a cache of the
\* request's own: whatever blocks were passed from one request to another,
\* every row that batched decoding reads is the one this request appended for
\* that position and head, whole, and so is its scale.
AttendsOwn ==
  decoded =>
    LET decode == [causal |-> TRUE, window |-> 0, chunk |-> 0, seq_q |-> 1, seq_k |-> 1]
        reads  == AttendBatched(pool, view.block_tables, view.max_blocks, view.seq_lens, decode)
    IN  \A row \in DOMAIN view.ids, qh \in QHead :
          LET no == active[view.ids[row]].no
              h  == KvHeadOf(qh, QHeads, KvHeads)
          IN  /\ reads[row][qh][0] =
                   [pos \in 0 .. view.seq_lens[row] - 1 |-> [d \in Dim |-> <<no, pos, h, d>>]]
              /\ \A pos \in 0 .. view.seq_lens[row] - 1 :
                   ScaleOf(scales, view.block_tables, RowBase(row), pos, h) = <<no, pos, h>>

\* No append reaches a row that an active request has already appended, by
\* the manager's tables: what was decoded stays readable through admissions,
\* growth and early completion of the others until the request ends.
Cached(id) ==
  IF decoded THEN mgr.requests[id].seq_len
  ELSE IF active[id].produced = 0 THEN 0 ELSE mgr.requests[id].seq_len - 1
CachedRowsKept ==
  \A id \in DOMAIN active : \A pos \in 0 .. Cached(id) - 1, h \in KvHead :
    KvRow(pool, Table(mgr, id), 0, pos, h) = [d \in Dim |-> <<active[id].no, pos, h, d>>]
=============================================================================
