---------------------------- MODULE Accumulator ----------------------------
(***************************************************************************)
(* The 32-bit accumulator of one element of the int8 product               *)
(* (gemm_quant.cpp, gemm_w8a8).  A row has K = Blocks * Run entries; in a  *)
(* block of Run entries all products are the same, so that rows as long as *)
(* real ones are a few steps.                                              *)
(***************************************************************************)
EXTENDS Integers

CONSTANTS Blocks, Run, Products

MaxProduct == 127 * 127

ASSUME AccumulatorAssumption ==
  /\ Blocks \in Nat /\ Run \in Nat \ {0}
  /\ Products \subseteq -MaxProduct .. MaxProduct

VARIABLES k,      \* blocks done
          acc,    \* int32_t acc
          total   \* sum of the products, one of each block, as integers

accumulatorVars == <<k, acc, total>>

AccMax == 2147483647
AccMin == -AccMax - 1

\* Mutant: an accumulator of 31 bits.
WrappedShort(a, p) ==
  IF p > 0 /\ a > 1073741823 - p THEN (a - 1073741824) + (p - 1073741824)
  ELSE IF p < 0 /\ a < -1073741824 - p THEN (a + 1073741824) + (p + 1073741824)
  ELSE a + p

\* acc += p, as the two's complement sum the build makes of it.
Wrapped(a, p) ==
  IF p > 0 /\ a > AccMax - p THEN (a - AccMax - 1) + (p - AccMax - 1)
  ELSE IF p < 0 /\ a < AccMin - p THEN (a + AccMax + 1) + (p + AccMax + 1)
  ELSE a + p

AccumulatorInit == k = 0 /\ acc = 0 /\ total = 0

Mac(p) ==
  /\ k < Blocks
  /\ k' = k + 1
  /\ acc' = Wrapped(acc, Run * p)
  /\ total' = total + p

AccumulatorNext == \E p \in Products : Mac(p)

AccumulatorSpec == AccumulatorInit /\ [][AccumulatorNext]_accumulatorVars

---------------------------------------------------------------------------
(* Properties *)

\* The accumulator is precise (gemm_quant.cpp:27): it holds Run times the
\* total.
AccumulatorPrecise == acc % Run = 0 /\ acc \div Run = total

=============================================================================
