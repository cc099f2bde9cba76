-------------------------------- MODULE Gemm --------------------------------
(***************************************************************************)
(* The cache-blocked GEMM (gemm.cpp), over a batch or a group of products. *)
(*                                                                         *)
(* An element of C is what has become of its old value and the sequence of *)
(* the products that were added to it, each as its k: floating-point sums  *)
(* depend on the order.                                                    *)
(***************************************************************************)
EXTENDS Integers, Sequences

CONSTANTS BM, BN, BK,  \* the tile, 64 by 64 by 64 in the code
          Sizes,       \* of M, N and K
          Groups,      \* bound on the number of products of a call
          Unset        \* C may come unset, as NaN

VARIABLES shapes, beta, nan, \* the call: [m, n, k] of each product, beta, whether C is NaN
          g, pc,             \* the product at work, and what of it
          tile,              \* its next tile: <<i0, k0, j0>>
          C

vars == <<shapes, beta, nan, g, pc, tile, C>>

\* What beta times the old value is.
Scaled == IF nan THEN "nan" ELSE IF beta = 0 THEN "zero" ELSE "scaled"

\* gemm_ref: all products in the order of k, and beta times the old value.
Ref(shape) ==
  [i \in 0 .. shape.m - 1 |-> [j \in 0 .. shape.n - 1 |->
     [old |-> Scaled, adds |-> [k \in 1 .. shape.k |-> k - 1]]]]

Init ==
  /\ \E n \in 1 .. Groups : shapes \in [1 .. n -> [m : Sizes, n : Sizes, k : Sizes]]
  /\ beta \in {0, 1, 2} /\ nan \in (IF Unset THEN BOOLEAN ELSE {FALSE})
  /\ g = 1 /\ pc = "beta" /\ tile = <<0, 0, 0>>
  /\ C = [h \in DOMAIN shapes |->
           [i \in 0 .. shapes[h].m - 1 |-> [j \in 0 .. shapes[h].n - 1 |->
              [old |-> "old", adds |-> <<>>]]]]

Shape == shapes[g]

\* beta is applied up front; 0 overwrites whatever C holds.
ApplyBeta ==
  /\ g \in DOMAIN shapes /\ pc = "beta"
  /\ C' = [C EXCEPT ![g] = [i \in DOMAIN @ |-> [j \in DOMAIN @[i] |->
             [old |-> IF beta = 0 THEN "zero" ELSE Scaled, adds |-> <<>>]]]]
  /\ pc' = "tiles" /\ tile' = <<0, 0, 0>>
  /\ UNCHANGED <<shapes, beta, nan, g>>

\* Where a tile ends, by its size or at the edge, and its indices.
End(from, size, n) == IF from + size < n THEN from + size ELSE n
UpTo(from, size, n) == from .. End(from, size, n) - 1

\* Mutant: the last tile of k is left out if it is not the first.
NextTileSkipping(t) ==
  IF t[3] + BN < Shape.n THEN <<t[1], t[2], t[3] + BN>>
  ELSE IF t[2] + 2 * BK < Shape.k THEN <<t[1], t[2] + BK, 0>>
  ELSE <<t[1] + BM, 0, 0>>

\* The loops over tiles: i0 outermost, then k0, then j0.
NextTile(t) ==
  IF t[3] + BN < Shape.n THEN <<t[1], t[2], t[3] + BN>>
  ELSE IF t[2] + BK < Shape.k THEN <<t[1], t[2] + BK, 0>>
  ELSE <<t[1] + BM, 0, 0>>

Tile ==
  /\ g \in DOMAIN shapes /\ pc = "tiles"
  /\ tile[1] < Shape.m /\ Shape.k > 0 /\ Shape.n > 0
  /\ LET Adds == [n \in 1 .. End(tile[2], BK, Shape.k) - tile[2] |-> tile[2] + n - 1]
     IN  C' = [C EXCEPT ![g] = [i \in DOMAIN C[g] |-> [j \in DOMAIN C[g][i] |->
                IF i \in UpTo(tile[1], BM, Shape.m) /\ j \in UpTo(tile[3], BN, Shape.n)
                THEN [old |-> C[g][i][j].old, adds |-> C[g][i][j].adds \o Adds]
                ELSE C[g][i][j]]]]
  /\ tile' = NextTile(tile)
  /\ UNCHANGED <<shapes, beta, nan, g, pc>>

\* gemm_batched and gemm_grouped: on to the next product.
NextProduct ==
  /\ g \in DOMAIN shapes /\ pc = "tiles"
  /\ tile[1] >= Shape.m \/ Shape.k = 0 \/ Shape.n = 0
  /\ g' = g + 1 /\ pc' = "beta"
  /\ UNCHANGED <<shapes, beta, nan, tile, C>>

Next == ApplyBeta \/ Tile \/ NextProduct

Spec == Init /\ [][Next]_vars

---------------------------------------------------------------------------
(* Properties *)

\* "A cache-blocked implementation that must match" gemm_ref: whatever the
\* sizes, tiles that divide them or not, every product is added once, in the
\* reference's order, to the reference's start.
MatchesRef == \A h \in 1 .. g - 1 : C[h] = Ref(shapes[h])
=============================================================================
