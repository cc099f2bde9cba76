------------------------------ MODULE RowPass ------------------------------
(***************************************************************************)
(* One pass over a row, for the kernels that have a reference to match:    *)
(* softmax (kernels/softmax.cpp), layernorm (kernels/normalization.cpp),   *)
(* and the reductions (kernels/reduction.cpp).                             *)
(*                                                                         *)
(* exp(n) is 2^n and a sum of exponentials is an integer, One times its    *)
(* value, or NaN; the arithmetic is exact.                                 *)
(***************************************************************************)
EXTENDS Integers, Sequences, FiniteSetsExt

CONSTANTS Elements, MaxDim

NegInf == -1000
NaN == -1
One == 4096

VARIABLES
  x,           \* the row so far
  m, sum,      \* softmax: running maximum and normaliser
  mean, m2,    \* layernorm_ref: Welford's, as [num, den]
  s, sumsq     \* layernorm, and reduce_sum

vars == <<x, m, sum, mean, m2, s, sumsq>>

Exp(n) == IF n < -100 THEN 0 ELSE One \div 2 ^ (-n)   \* One * 2^n, n <= 0
Larger(a, b) == IF a > b THEN a ELSE b

Frac(num, den) == [num |-> num, den |-> den]
Plus(p, q) == Frac(p.num * q.den + q.num * p.den, p.den * q.den)
Times(p, q) == Frac(p.num * q.num, p.den * q.den)
Minus(v, p) == Frac(v * p.den - p.num, p.den)
Reduced(p) ==
  LET d == Max({k \in 1 .. p.den : p.num % k = 0 /\ p.den % k = 0}) IN Frac(p.num \div d, p.den \div d)

Init ==
  /\ x = <<>> /\ m = NegInf /\ sum = 0
  /\ mean = Frac(0, 1) /\ m2 = Frac(0, 1) /\ s = 0 /\ sumsq = 0

\* sum after v: exp(-inf - -inf) is NaN, and so is all that follows.
Normaliser(v) ==
  IF sum = NaN \/ (v = NegInf /\ m = NegInf) THEN NaN
  ELSE IF v > m THEN (IF m = NegInf THEN 0 ELSE sum \div 2 ^ (v - m)) + One
  ELSE sum + Exp(v - m)

\* m2 += delta * (x - mean), delta to the old mean and mean the new one.
Squares(v, new_mean) == Plus(m2, Times(Minus(v, mean), Minus(v, new_mean)))

\* The next element of the row; a row with -inf is not normalized.
Element(v) ==
  /\ x' = Append(x, v)
  /\ sum' = Normaliser(v)
  /\ m' = Larger(m, v)
  /\ IF v = NegInf THEN UNCHANGED <<mean, m2, s, sumsq>>
     ELSE LET new_mean == Reduced(Plus(mean, Times(Minus(v, mean), Frac(1, Len(x) + 1))))
          IN  /\ mean' = new_mean
              /\ m2' = Reduced(Squares(v, new_mean))
              /\ s' = s + v
              /\ sumsq' = sumsq + v * v

Next == Len(x) < MaxDim /\ \E v \in Elements : Element(v)

Spec == Init /\ [][Next]_vars

---------------------------------------------------------------------------
(* Properties *)

Dim == Len(x)
Finite == \A i \in 1 .. Dim : x[i] # NegInf
RefMax == Max({x[i] : i \in 1 .. Dim})
SumOf(f) == MapThenSumSet(LAMBDA i : f[i], DOMAIN f)

\* The running maximum and normaliser are those of the two passes of
\* softmax_ref over the row so far, which does not begin with -inf.
OnlineIsTwoPass ==
  Dim > 0 /\ x[1] # NegInf =>
    /\ m = RefMax
    /\ sum = SumOf([i \in 1 .. Dim |-> Exp(x[i] - RefMax)])

\* Welford's mean and squares are those of their definition, about the mean of
\* the whole row so far, and the sums of layernorm give the same variance.
WelfordIsVariance ==
  Dim > 0 /\ Finite =>
    LET total   == SumOf(x)
        squares == (Dim * SumOf([i \in 1 .. Dim |-> x[i] * x[i]])) - total * total
    IN  /\ mean.num * Dim = total * mean.den
        /\ m2.num * Dim = squares * m2.den
        /\ Dim * sumsq - s * s = squares
=============================================================================
