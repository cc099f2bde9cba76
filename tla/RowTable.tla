------------------------------ MODULE RowTable ------------------------------
(***************************************************************************)
(* Kernels that take rows by index (kernels/transform.cpp,                 *)
(* kernels/embedding.cpp), on a table of Vocab rows that batches are added *)
(* to by index and read from by index.  Rows have one element: the kernels *)
(* treat each on its own.                                                  *)
(***************************************************************************)
EXTENDS Integers, Sequences, SequencesExt

CONSTANTS Vocab, Ids, Xs, BatchSizes, MaxBatches

VARIABLES y,      \* the table
          batch,  \* the last batch, [idx, x]
          sums,   \* ghost: row -> all that was to be added to it
          n       \* batches so far

vars == <<y, batch, sums, n>>

Total(xs) == FoldLeft(LAMBDA u, v : u + v, 0, xs)

---------------------------------------------------------------------------
(* x, table and target are functions from row to value. *)

InVocab(id, vocab) == id >= 0 /\ id < vocab

\* gather_rows, and embedding, its scaled form.
GatherRows(x, idx, vocab) ==
  [i \in DOMAIN idx |-> IF InVocab(idx[i], vocab) THEN x[idx[i]] ELSE 0]
Embedding(table, ids, vocab, scale) ==
  [i \in DOMAIN ids |-> IF InVocab(ids[i], vocab) THEN table[ids[i]] * scale ELSE 0]

Added(target, id, v) == [target EXCEPT ![id] = target[id] + v]

\* scatter_add_rows, one row after the other.
ScatterAddRows(x, idx, target, vocab) ==
  FoldLeft(LAMBDA acc, i : IF InVocab(idx[i], vocab) THEN Added(acc, idx[i], x[i]) ELSE acc,
           target, [i \in DOMAIN idx |-> i])

---------------------------------------------------------------------------

Zeros == [r \in 0 .. Vocab - 1 |-> 0]

Init == y = Zeros /\ batch = [idx |-> <<>>, x |-> <<>>] /\ sums = Zeros /\ n = 0

Scatter(idx, x) ==
  /\ n < MaxBatches
  /\ n' = n + 1
  /\ y' = ScatterAddRows(x, idx, y, Vocab)
  /\ batch' = [idx |-> idx, x |-> x]
  /\ sums' = [r \in 0 .. Vocab - 1 |->
                sums[r] + Total([i \in DOMAIN idx |-> IF idx[i] = r THEN x[i] ELSE 0])]

Next == \E b \in BatchSizes : \E idx \in [1 .. b -> Ids], x \in [1 .. b -> Xs] : Scatter(idx, x)

Spec == Init /\ [][Next]_vars

---------------------------------------------------------------------------
(* Properties *)

\* Duplicates accumulate and what is out of range is dropped
\* (transform.hpp:48-49): a row is the sum of all that was added to it.
RowsAccumulate == y = sums

\* Gathering and scattering are adjoint, so that the gradient of an embedding
\* is a scatter of the gradients of its rows:
\* <embedding(y, idx), x> = scale * <y, scatter_add(x, idx)>.
GatherAdjoint ==
  LET idx == batch.idx
      x == batch.x
      scattered == ScatterAddRows(x, idx, Zeros, Vocab)
      Against(rows) == Total([i \in DOMAIN idx |-> rows[i] * x[i]])
      dual == Total([r \in 1 .. Vocab |-> y[r - 1] * scattered[r - 1]])
  IN  /\ Against(GatherRows(y, idx, Vocab)) = dual
      /\ Against(Embedding(y, idx, Vocab, 3)) = 3 * dual
=============================================================================
