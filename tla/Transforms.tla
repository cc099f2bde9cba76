----------------------------- MODULE Transforms -----------------------------
(***************************************************************************)
(* Row-major layout (core/tensor.hpp, kernels/tensor_view.hpp) and the     *)
(* kernels that only move elements (kernels/transform.cpp), used on a      *)
(* tensor that is permuted, transposed, split along an axis, its parts     *)
(* permuted on their own, and put together again, in any order.            *)
(*                                                                         *)
(* A shape is a sequence of dimensions, a buffer a function on 0 .. n - 1; *)
(* axes count from 1, one more than in the code.                           *)
(***************************************************************************)
EXTENDS Integers, Sequences, SequencesExt

CONSTANTS Tile,                    \* TM and TN of transpose2d, 32
          MaxDim, Ranks, MaxOps    \* MaxOps bounds the operations of a behavior

VARIABLES
  parts,  \* sequence of [shape, buf]: one, or the pieces of a split
  axis,   \* the axis they were split along, if there is more than one
  order,  \* ghost: order[i] is the original axis that axis i now is
  ops     \* operations done

vars == <<parts, axis, order, ops>>

---------------------------------------------------------------------------
(* Layout *)

Product(dims) == FoldLeft(LAMBDA x, y : x * y, 1, dims)
Numel(shape) == IF shape = <<>> THEN 0 ELSE Product(shape)
Strides(shape) == [i \in 1 .. Len(shape) |-> Product(SubSeq(shape, i + 1, Len(shape)))]
Total(dims) == FoldLeft(LAMBDA x, y : x + y, 0, dims)

\* TensorView::offset of an index whose axes count from 0.
Offset(shape, idx) == Total([i \in 1 .. Len(shape) |-> idx[i] * Strides(shape)[i]])

\* Indices of a shape.
Indices(shape) == {idx \in [1 .. Len(shape) -> 0 .. Total(shape)] :
                     \A i \in 1 .. Len(shape) : idx[i] < shape[i]}

\* Mutant: the last, partial tiles are left out.
TileRowsFull(i0, n) == IF i0 + Tile <= n THEN i0 .. i0 + Tile - 1 ELSE {}

TileRows(i0, n) == i0 .. (IF i0 + Tile < n THEN i0 + Tile ELSE n) - 1

\* transpose2d: y[j, i] = x[i, j], tile by tile; what no tile covers is unset.
Transpose2d(x, M, N) ==
  LET Starts(n) == {i \in 0 .. n - 1 : i % Tile = 0}
      done == UNION {TileRows(i0, M) \X TileRows(j0, N) : i0 \in Starts(M), j0 \in Starts(N)}
  IN  [at \in 0 .. M * N - 1 |->
         IF <<at % M, at \div M>> \in done THEN x[(at % M) * N + at \div M] ELSE <<>>]

\* Where in the input the element of an output index is.
SourceOf(in_strides, out_strides, perm, out_idx) ==
  Total([i \in 1 .. Len(perm) |-> out_idx[i] * in_strides[perm[i]]])

\* permute: walks the output in linear order, decomposes each position.
Permute(x, shape, perm) ==
  LET out_shape   == [i \in 1 .. Len(shape) |-> shape[perm[i]]]
      out_strides == Strides(out_shape)
      OutIdx(lin) == [i \in 1 .. Len(shape) |->
                        (IF i = 1 THEN lin ELSE lin % out_strides[i - 1]) \div out_strides[i]]
  IN  [lin \in 0 .. Product(shape) - 1 |->
         x[SourceOf(Strides(shape), out_strides, perm, OutIdx(lin))]]

Outer(shape, ax) == Product(SubSeq(shape, 1, ax - 1))
Inner(shape, ax) == Product(SubSeq(shape, ax + 1, Len(shape)))
Before(sizes, t) == Total(SubSeq(sizes, 1, t - 1))

\* concat of n buffers whose sizes along axis are in sizes: each row of a part
\* is copied to its place.
Concat(xs, shape_out, sizes, ax) ==
  LET inner == Inner(shape_out, ax)
      Places == {p \in (1 .. Len(xs)) \X (0 .. Outer(shape_out, ax) - 1) \X (0 .. shape_out[ax] - 1) :
                   p[3] < sizes[p[1]]}
      Dst(p) == p[2] * (shape_out[ax] * inner) + (Before(sizes, p[1]) + p[3]) * inner
      Src(p) == p[2] * (sizes[p[1]] * inner) + p[3] * inner
  IN  [at \in 0 .. Product(shape_out) - 1 |->
         LET p == CHOOSE p \in Places : Dst(p) = at - (at % inner)
         IN  xs[p[1]][Src(p) + (at % inner)]]

\* axis_offset of part t.
SplitAt(sizes, t) == Before(sizes, t)

\* split, part t.
Split(x, shape_in, sizes, ax, t) ==
  LET inner == Inner(shape_in, ax)
      k == sizes[t]
  IN  [dst \in 0 .. Outer(shape_in, ax) * k * inner - 1 |->
         LET o == dst \div (k * inner)
             a == (dst % (k * inner)) \div inner
         IN  x[o * (shape_in[ax] * inner) + (SplitAt(sizes, t) + a) * inner + (dst % inner)]]

---------------------------------------------------------------------------
(* A tensor *)

\* An element is named by the index it had at first.
Init ==
  \E r \in Ranks : \E shape \in [1 .. r -> 1 .. MaxDim] :
    /\ parts = <<[shape |-> shape,
                  buf |-> [at \in 0 .. Product(shape) - 1 |->
                             CHOOSE idx \in Indices(shape) : Offset(shape, idx) = at]]>>
    /\ axis = 1
    /\ order = [i \in 1 .. r |-> i]
    /\ ops = 0

Rank == Len(order)
Perms == {p \in [1 .. Rank -> 1 .. Rank] : \A i, j \in 1 .. Rank : p[i] = p[j] => i = j}

Permuted(p, perm) ==
  [shape |-> [i \in 1 .. Rank |-> p.shape[perm[i]]], buf |-> Permute(p.buf, p.shape, perm)]

\* permute() of every part.
PermuteAll(perm) ==
  /\ ops < MaxOps /\ ops' = ops + 1
  /\ parts' = [t \in DOMAIN parts |-> Permuted(parts[t], perm)]
  /\ order' = [i \in 1 .. Rank |-> order[perm[i]]]
  /\ axis' = CHOOSE i \in 1 .. Rank : perm[i] = axis

\* transpose2d() of every part of a matrix.
TransposeAll ==
  /\ ops < MaxOps /\ ops' = ops + 1
  /\ Rank = 2
  /\ parts' = [t \in DOMAIN parts |->
                 LET s == parts[t].shape
                 IN  [shape |-> <<s[2], s[1]>>, buf |-> Transpose2d(parts[t].buf, s[1], s[2])]]
  /\ order' = <<order[2], order[1]>>
  /\ axis' = 3 - axis

\* split() into parts of the given sizes.
SplitAll(ax, sizes) ==
  /\ ops < MaxOps /\ ops' = ops + 1
  /\ Len(parts) = 1 /\ Total(sizes) = parts[1].shape[ax]
  /\ parts' = [t \in DOMAIN sizes |->
                 [shape |-> [parts[1].shape EXCEPT ![ax] = sizes[t]],
                  buf |-> Split(parts[1].buf, parts[1].shape, sizes, ax, t)]]
  /\ axis' = ax
  /\ UNCHANGED order

\* concat() of the parts along the axis they were split on.
ConcatAll ==
  /\ ops < MaxOps /\ ops' = ops + 1
  /\ Len(parts) > 1
  /\ LET sizes == [t \in DOMAIN parts |-> parts[t].shape[axis]]
         shape == [parts[1].shape EXCEPT ![axis] = Total(sizes)]
     IN  parts' = <<[shape |-> shape,
                     buf |-> Concat([t \in DOMAIN parts |-> parts[t].buf], shape, sizes, axis)]>>
  /\ UNCHANGED <<axis, order>>

Next ==
  \/ \E perm \in Perms : PermuteAll(perm)
  \/ TransposeAll
  \/ \E ax \in 1 .. Rank, n \in 2 .. 3 : \E sizes \in [1 .. n -> 1 .. MaxDim] : SplitAll(ax, sizes)
  \/ ConcatAll

Spec == Init /\ [][Next]_vars

---------------------------------------------------------------------------
(* Properties *)

\* Wherever the operations took it, an element is where the layout of its part
\* says its index is: TensorView::at of the permuted index, less the parts
\* before on the split axis, finds it.
ElementsTracked ==
  LET sizes == [t \in DOMAIN parts |-> parts[t].shape[axis]]
  IN  \A t \in DOMAIN parts : \A idx \in Indices(parts[t].shape) :
        LET home == parts[t].buf[Offset(parts[t].shape, idx)]
        IN  /\ home # <<>>
            /\ \A i \in 1 .. Rank :
                 home[order[i]] = idx[i] + (IF i = axis THEN Before(sizes, t) ELSE 0)
=============================================================================
