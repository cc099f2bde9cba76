------------------------------- MODULE Quant -------------------------------
(***************************************************************************)
(* Quantization (quant.cpp) to int8, to packed int4 and to fp8 E4M3, and   *)
(* the quantized products (gemm_quant.cpp).                                *)
(*                                                                         *)
(* A number is an integer, and a scale is the largest magnitude it stands  *)
(* for: the scale of the code is max / Levels, or 1 if the max is 0, and a *)
(* dequantized number is kept as Levels times itself.  That makes all of   *)
(* it exact; for fp8, whose 448 * x / max has to be an integer, as long as *)
(* every max divides 448.                                                  *)
(***************************************************************************)
EXTENDS Floats, FiniteSetsExt

CONSTANTS Rows, Depth, Cols, AValues, BValues, GroupSizes

VARIABLES act, weight, scheme, group, \* the layer
          old_share,              \* beta, in whole numbers
          qa, qb,                 \* quantized operands
          out, stage

vars == <<act, weight, scheme, group, old_share, qa, qb, out, stage>>

Abs(n) == IF n < 0 THEN -n ELSE n

Levels(dtype) == CASE dtype = "q8" -> 127 [] dtype = "q4" -> 7 [] dtype = "fp8" -> 448

\* lrintf(n / d): to nearest, halves to the even.
Round(n, d) ==
  LET q == n \div d
      r == n % d
  IN  IF 2 * r > d \/ (2 * r = d /\ q % 2 = 1) THEN q + 1 ELSE q

\* sat_round_i8 and sat_round_i4 of n / d.
SatRound(n, d, max_abs) ==
  IF n >= max_abs * d THEN max_abs
  ELSE IF n <= -max_abs * d THEN -max_abs
  ELSE Round(n, d)

\* The fp32 of an integer, and the integer that fp8 bits stand for.
FloatOf(n) ==
  LET e == Max({k \in 0 .. 9 : 2 ^ k <= Abs(n) \/ k = 0})
  IN  [sign |-> IF n < 0 THEN 1 ELSE 0, exp |-> IF n = 0 THEN 0 ELSE 127 + e,
       mant |-> IF n = 0 THEN 0 ELSE (Abs(n) - 2 ^ e) * 2 ^ (MantBits - e)]
IntOf(f) ==
  LET m == (((2 ^ MantBits + f.mant) \div 2 ^ 14) * 2 ^ (f.exp - 127)) \div 2 ^ 9
  IN  IF f.exp = 0 THEN 0 ELSE IF f.sign = 1 THEN -m ELSE m

\* x in the scale of max, and what it stands for there.
Code(dtype, x, max) ==
  LET n == x * Levels(dtype)
      d == IF max > 0 THEN max ELSE Levels(dtype)
  IN  IF dtype = "fp8" THEN E4M3Bits(FloatOf(n \div d)) ELSE SatRound(n, d, Levels(dtype))
Meaning(dtype, code) == IF dtype = "fp8" THEN IntOf(E4M3Float(code)) ELSE code

---------------------------------------------------------------------------
(* Scopes of a scale.  The first index of a matrix is its row. *)

MaxAbs(src, at) == Max({Abs(src[p[1]][p[2]]) : p \in at} \cup {0})
Cells(src) == {<<r, c>> : r \in DOMAIN src, c \in DOMAIN src[0]}

\* One scale for the whole buffer, one per row, one per column.
QuantizePerTensor(dtype, src) ==
  LET m == MaxAbs(src, Cells(src))
  IN  [q |-> [r \in DOMAIN src |-> [c \in DOMAIN src[0] |-> Code(dtype, src[r][c], m)]], s |-> m]

QuantizePerRow(dtype, src) ==
  LET m == [r \in DOMAIN src |-> MaxAbs(src, {r} \X (DOMAIN src[0]))]
  IN  [q |-> [r \in DOMAIN src |-> [c \in DOMAIN src[0] |-> Code(dtype, src[r][c], m[r])]], s |-> m]

QuantizePerCol(dtype, src) ==
  LET m == [c \in DOMAIN src[0] |-> MaxAbs(src, (DOMAIN src) \X {c})]
  IN  [q |-> [r \in DOMAIN src |-> [c \in DOMAIN src[0] |-> Code(dtype, src[r][c], m[c])]], s |-> m]

\* Levels times the numbers that come back.
ScaleOr1(dtype, m) == IF m > 0 THEN m ELSE Levels(dtype)
DequantizePerTensor(dtype, x) ==
  [r \in DOMAIN x.q |-> [c \in DOMAIN x.q[0] |->
     Meaning(dtype, x.q[r][c]) * ScaleOr1(dtype, x.s)]]
DequantizePerRow(dtype, x) ==
  [r \in DOMAIN x.q |-> [c \in DOMAIN x.q[0] |->
     Meaning(dtype, x.q[r][c]) * ScaleOr1(dtype, x.s[r])]]
DequantizePerCol(dtype, x) ==
  [r \in DOMAIN x.q |-> [c \in DOMAIN x.q[0] |->
     Meaning(dtype, x.q[r][c]) * ScaleOr1(dtype, x.s[c])]]

\* fp8 has its own copy of each, with 448 levels and the conversions of dtypes.
Fp8QuantizePerTensor(src) == QuantizePerTensor("fp8", src)
Fp8QuantizePerRow(src) == QuantizePerRow("fp8", src)
Fp8QuantizePerCol(src) == QuantizePerCol("fp8", src)
Fp8DequantizePerTensor(x) == DequantizePerTensor("fp8", x)
Fp8DequantizePerRow(x) == DequantizePerRow("fp8", x)
Fp8DequantizePerCol(x) == DequantizePerCol("fp8", x)

---------------------------------------------------------------------------
(* int4: two rows to a byte, and a scale for each group of G rows and each *)
(* column. *)

PackNibbles(lo, hi) == (lo % 16) + 16 * (hi % 16)

Q4Get(packed, k, n) ==
  LET b   == packed[k \div 2][n]
      nib == IF k % 2 = 1 THEN b \div 16 ELSE b % 16
  IN  IF nib >= 8 THEN nib - 16 ELSE nib

\* Mutant: both rows of a byte use the scale of the lower one.
GroupOfPair(k, G) == (k - (k % 2)) \div G

GroupOf(k, G) == k \div G

Q4Quantize(src, G) ==
  LET K == Cardinality(DOMAIN src)
      m == [g \in 0 .. (K \div G) - 1 |-> [n \in DOMAIN src[0] |->
              MaxAbs(src, (g * G .. g * G + G - 1) \X {n})]]
      V(k, n) == Code("q4", src[k][n], m[GroupOf(k, G)][n])
  IN  [q |-> [p \in 0 .. (K \div 2) - 1 |-> [n \in DOMAIN src[0] |->
               PackNibbles(V(2 * p, n), V(2 * p + 1, n))]],
       s |-> m]

Q4Dequantize(x, K, G) ==
  [k \in 0 .. K - 1 |-> [n \in DOMAIN x.q[0] |->
     Q4Get(x.q, k, n) * ScaleOr1("q4", x.s[k \div G][n])]]

---------------------------------------------------------------------------
(* Products, of alpha = 1: A is M by K, B is K by N, old is what C was. *)

SumOver(f) == MapThenSumSet(LAMBDA k : f[k], DOMAIN f)

\* apply_beta; 0 overwrites what was there.
ApplyBeta(old, beta) == IF beta = 0 THEN 0 ELSE old * beta

\* In units of 1 / 127^2: integer products in an integer accumulator, then
\* both scales.
GemmW8A8(a, b, old, beta) ==
  [i \in DOMAIN a.q |-> [j \in DOMAIN b.q[0] |->
     LET acc == SumOver([k \in DOMAIN b.q |-> a.q[i][k] * b.q[k][j]])
     IN  ApplyBeta(old, beta) * 127 * 127
           + ScaleOr1("q8", a.s[i]) * ScaleOr1("q8", b.s[j]) * acc]]

\* In units of 1 / 7: the weights are dequantized group by group, and each
\* group is accumulated into C.
GemmW4A16(A, b, K, G, old, beta) ==
  [i \in DOMAIN A |-> [j \in DOMAIN b.q[0] |->
     ApplyBeta(old, beta) * 7
       + SumOver([g \in 0 .. (K \div G) - 1 |->
           SumOver([kk \in 0 .. G - 1 |->
             A[i][g * G + kk] * (Q4Get(b.q, g * G + kk, j) * ScaleOr1("q4", b.s[g][j]))])])]]

\* In units of 1 / 448^2: one scale for each operand.
GemmFp8(a, b, old, beta) ==
  [i \in DOMAIN a.q |-> [j \in DOMAIN b.q[0] |->
     ApplyBeta(old, beta) * 448 * 448
       + ScaleOr1("fp8", a.s) * ScaleOr1("fp8", b.s)
           * SumOver([k \in DOMAIN b.q |->
               Meaning("fp8", a.q[i][k]) * Meaning("fp8", b.q[k][j])])]]

---------------------------------------------------------------------------
(* A linear layer *)

Old == 3

Init ==
  /\ act \in [0 .. Rows - 1 -> [0 .. Depth - 1 -> AValues]]
  /\ weight \in [0 .. Depth - 1 -> [0 .. Cols - 1 -> BValues]]
  /\ scheme \in {"q8", "q4", "fp8"}
  /\ group \in GroupSizes /\ (scheme # "q4" => group = Depth)
  /\ old_share \in {0, 2}
  /\ qa = <<>> /\ qb = <<>> /\ out = <<>> /\ stage = "quantize"

Quantize ==
  /\ stage = "quantize"
  /\ qa' = IF scheme = "q8" THEN QuantizePerRow("q8", act)
          ELSE IF scheme = "fp8" THEN Fp8QuantizePerTensor(act) ELSE <<>>
  /\ qb' = IF scheme = "q8" THEN QuantizePerCol("q8", weight)
          ELSE IF scheme = "fp8" THEN Fp8QuantizePerTensor(weight) ELSE Q4Quantize(weight, group)
  /\ stage' = "multiply"
  /\ UNCHANGED <<act, weight, scheme, group, old_share, out>>

Multiply ==
  /\ stage = "multiply"
  /\ out' = IF scheme = "q8" THEN GemmW8A8(qa, qb, Old, old_share)
          ELSE IF scheme = "fp8" THEN GemmFp8(qa, qb, Old, old_share)
          ELSE GemmW4A16(act, qb, Depth, group, Old, old_share)
  /\ stage' = "done"
  /\ UNCHANGED <<act, weight, scheme, group, old_share, qa, qb>>

Next == Quantize \/ Multiply

Spec == Init /\ [][Next]_vars

---------------------------------------------------------------------------
(* Properties *)

\* A number comes back to within half a step of the scale it belongs to; an
\* fp8 number to within a sixteenth of itself.
Close(dtype, x, back, max) ==
  IF dtype = "fp8" THEN 16 * Abs(back - 448 * x) <= 448 * Abs(x)
  ELSE 2 * Abs(back - Levels(dtype) * x) <= max

\* Every scale serves its own row, column or group: what comes back is close
\* by that scope's largest magnitude, however large the others are, and a
\* number quantized again from what came back is the same.
ComesBackClose ==
  stage = "multiply" =>
    CASE scheme = "q8" ->
           /\ \A p \in Cells(act) :
                Close("q8", act[p[1]][p[2]], DequantizePerRow("q8", qa)[p[1]][p[2]],
                      MaxAbs(act, {p[1]} \X (DOMAIN act[0])))
           /\ \A p \in Cells(weight) :
                Close("q8", weight[p[1]][p[2]], DequantizePerCol("q8", qb)[p[1]][p[2]],
                      MaxAbs(weight, (DOMAIN weight) \X {p[2]}))
           /\ QuantizePerCol("q8", DequantizePerCol("q8", qb)).q = qb.q
      [] scheme = "q4" ->
           /\ \A p \in Cells(weight) :
                Close("q4", weight[p[1]][p[2]], Q4Dequantize(qb, Depth, group)[p[1]][p[2]],
                      MaxAbs(weight, {k \in DOMAIN weight : k \div group = p[1] \div group} \X {p[2]}))
           /\ Q4Quantize(Q4Dequantize(qb, Depth, group), group).q = qb.q
      [] scheme = "fp8" ->
           \A p \in Cells(weight), y \in {Fp8DequantizePerTensor(qb),
                 Fp8DequantizePerRow(Fp8QuantizePerRow(weight)),
                 Fp8DequantizePerCol(Fp8QuantizePerCol(weight))} :
             Close("fp8", weight[p[1]][p[2]], y[p[1]][p[2]], 0)

\* A matrix quantized with one scale.
Alone(dtype, src) == IF dtype = "q8" THEN QuantizePerTensor("q8", src) ELSE Fp8QuantizePerTensor(src)
\* The rows of a matrix quantized one scale per row are quantized as if alone,
\* and so are its columns, in int8 and in fp8: no scope leaks into another.
ScopesIndependent ==
  stage = "quantize" /\ old_share = 0 =>
    \A dtype \in {"q8", "fp8"} :
      /\ LET x == IF dtype = "q8" THEN QuantizePerRow("q8", act) ELSE Fp8QuantizePerRow(act)
         IN  \A r \in DOMAIN act :
               LET alone == Alone(dtype, [z \in {0} |-> act[r]])
               IN  x.s[r] = alone.s /\ x.q[r] = alone.q[0]
      /\ LET x == IF dtype = "q8" THEN QuantizePerCol("q8", weight) ELSE Fp8QuantizePerCol(weight)
         IN  \A n \in DOMAIN weight[0] :
               LET alone == Alone(dtype, [k \in DOMAIN weight |-> [z \in {0} |-> weight[k][n]]])
               IN  x.s[n] = alone.s /\ \A k \in DOMAIN weight : x.q[k][n] = alone.q[k][0]

\* The product differs from the exact one, beta * C + A B, by no more than the
\* errors of the operands allow: scales meet the rows and columns they are of.
ProductClose ==
  stage = "done" =>
    \A i \in DOMAIN act, j \in DOMAIN weight[0] :
      LET exact == ApplyBeta(Old, old_share) + SumOver([k \in DOMAIN weight |-> act[i][k] * weight[k][j]])
          aMax  == MaxAbs(act, {i} \X (DOMAIN act[0]))
          bMax  == MaxAbs(weight, (DOMAIN weight) \X {j})
      IN  CASE scheme = "q8" ->
                 4 * Abs(out[i][j] - exact * 127 * 127)
                   <= SumOver([k \in DOMAIN weight |->
                        254 * (Abs(act[i][k]) * bMax + Abs(weight[k][j]) * aMax) + aMax * bMax])
            [] scheme = "q4" ->
                 2 * Abs(out[i][j] - exact * 7)
                   <= SumOver([k \in DOMAIN weight |-> Abs(act[i][k]) *
                        MaxAbs(weight, {h \in DOMAIN weight : h \div group = k \div group} \X {j})])
            [] scheme = "fp8" ->
                 256 * (Abs(out[i][j] - exact * 448 * 448) \div (448 * 448))
                   <= SumOver([k \in DOMAIN weight |-> 33 * Abs(act[i][k]) * Abs(weight[k][j])])
=============================================================================
