------------------------------- MODULE Floats -------------------------------
(***************************************************************************)
(* The storage formats of dtypes.hpp: binary16, bfloat16 and the two fp8   *)
(* formats, encoded from and decoded to fp32.                              *)
(*                                                                         *)
(* An fp32 is its fields [sign, exp, mant].  A stored number is its sign   *)
(* and the rest of its bits as one number, so that the fields of exponent  *)
(* and mantissa carry into each other as in the code.                      *)
(***************************************************************************)
EXTENDS Integers

MantBits == 23
IsNaN(f) == f.exp = 255 /\ f.mant # 0
IsInf(f) == f.exp = 255 /\ f.mant = 0

\* A format: bits of the mantissa, bias and largest value of the exponent
\* field, the least biased exponent that is not flushed to zero, and what
\* NaN, infinity and too large a number become.
Half == [mbits |-> 10, bias |-> 15, emax |-> 31, low |-> -10,
         nan |-> 32256, inf |-> 31744, over |-> 31744, ieee |-> TRUE]
E4M3 == [mbits |-> 3, bias |-> 7, emax |-> 15, low |-> -2,
         nan |-> 127, inf |-> 127, over |-> 126, ieee |-> FALSE]
E5M2 == [mbits |-> 2, bias |-> 15, emax |-> 31, low |-> -1,
         nan |-> 127, inf |-> 124, over |-> 124, ieee |-> TRUE]

---------------------------------------------------------------------------

\* Mutant: halves round up.
RoundShiftUp(m, shift) == (m + 2 ^ (shift - 1)) \div 2 ^ shift

\* m / 2^shift to the nearest, halves to the even.
RoundShift(m, shift) ==
  LET kept == m \div 2 ^ shift
      rem  == m % 2 ^ shift
      half == 2 ^ (shift - 1)
  IN  IF rem > half \/ (rem = half /\ kept % 2 = 1) THEN kept + 1 ELSE kept

\* Past the largest finite number; in E4M3, whose exponent field has no value
\* for infinity, past 1.75 * 2^8.
Overflows(fmt, exp, mant) ==
  IF fmt.ieee THEN exp >= fmt.emax
  ELSE exp > fmt.emax \/ (exp = fmt.emax /\ mant > 6 * 2 ^ 20)

Magnitude(fmt, f) ==
  LET exp   == f.exp - 127 + fmt.bias
      shift == MantBits - fmt.mbits
  IN  IF IsNaN(f) THEN fmt.nan
      ELSE IF IsInf(f) THEN fmt.inf
      ELSE IF Overflows(fmt, exp, f.mant) THEN fmt.over
      ELSE IF exp >= 1 THEN RoundShift(exp * 2 ^ MantBits + f.mant, shift)
      ELSE IF exp < fmt.low THEN 0
      ELSE RoundShift(f.mant + 2 ^ MantBits, 1 - exp + shift)

\* A subnormal number's position of the leading bit, from the implicit one.
Shifted(m, mbits) == CHOOSE n \in 1 .. mbits : (m * 2 ^ n) \div 2 ^ mbits = 1

\* The value of the bits mag: subnormal numbers are normalised.
Value(fmt, sign, mag) ==
  LET exp  == mag \div 2 ^ fmt.mbits
      mant == mag % 2 ^ fmt.mbits
      up   == 2 ^ (MantBits - fmt.mbits)
  IN  IF ~ fmt.ieee /\ mag = fmt.nan THEN [sign |-> sign, exp |-> 255, mant |-> 2 ^ 22]
      ELSE IF fmt.ieee /\ exp = fmt.emax THEN [sign |-> sign, exp |-> 255, mant |-> mant * up]
      ELSE IF mag = 0 THEN [sign |-> sign, exp |-> 0, mant |-> 0]
      ELSE IF exp = 0 THEN
        LET n == Shifted(mant, fmt.mbits)
        IN  [sign |-> sign, exp |-> 127 - fmt.bias + 1 - n,
             mant |-> ((mant * 2 ^ n) % 2 ^ fmt.mbits) * up]
      ELSE [sign |-> sign, exp |-> exp - fmt.bias + 127, mant |-> mant * up]

---------------------------------------------------------------------------
(* The conversions, by type. *)

HalfBits(f) == <<f.sign, Magnitude(Half, f)>>
E4M3Bits(f) == <<f.sign, Magnitude(E4M3, f)>>
E5M2Bits(f) == <<f.sign, Magnitude(E5M2, f)>>

HalfFloat(b) == Value(Half, b[1], b[2])
E4M3Float(b) == Value(E4M3, b[1], b[2])
E5M2Float(b) == Value(E5M2, b[1], b[2])

\* bfloat16 is the upper half of an fp32, which the lower half is rounded
\* into by adding; a carry may reach infinity.
Bf16Bits(f) ==
  LET upper == f.exp * 2 ^ 7 + f.mant \div 2 ^ 16
      lower == f.mant % 2 ^ 16
      sum   == lower + 32767 + (upper % 2)
  IN  IF IsNaN(f) THEN <<f.sign, IF (f.mant \div 2 ^ 22) = 1 THEN upper ELSE upper + 2 ^ 6>>
      ELSE <<f.sign, upper + sum \div 2 ^ 16>>

Bf16Float(b) ==
  [sign |-> b[1], exp |-> b[2] \div 2 ^ 7, mant |-> (b[2] % 2 ^ 7) * 2 ^ 16]
=============================================================================
