---------------------------- MODULE FloatStorage ----------------------------
(***************************************************************************)
(* A number that passes from storage to storage: stored in one type,       *)
(* loaded and stored in another, as weights and activations are when       *)
(* kernels that compute in fp32 keep them in fewer bits.                   *)
(***************************************************************************)
EXTENDS Floats

CONSTANTS Types, \* among "half", "bf16", "e4m3", "e5m2"
          Exps, Mants \* fields of the numbers that are stored

VARIABLES x, type, \* the number and the type it is stored as
          bits,    \* what is stored
          y        \* what was loaded, or None

vars == <<x, type, bits, y>>

None == [sign |-> 0, exp |-> -1, mant |-> 0]

Stored(t, f) ==
  CASE t = "half" -> HalfBits(f) [] t = "e4m3" -> E4M3Bits(f)
    [] t = "e5m2" -> E5M2Bits(f) [] t = "bf16" -> Bf16Bits(f)

Loaded(t, b) ==
  CASE t = "half" -> HalfFloat(b) [] t = "e4m3" -> E4M3Float(b)
    [] t = "e5m2" -> E5M2Float(b) [] t = "bf16" -> Bf16Float(b)

Init ==
  /\ x \in [sign : {0, 1}, exp : Exps, mant : Mants]
  /\ type \in Types
  /\ bits = Stored(type, x) /\ y = None

Load == y = None /\ y' = Loaded(type, bits) /\ UNCHANGED <<x, type, bits>>

Store ==
  /\ y # None
  /\ \E t \in Types : type' = t /\ bits' = Stored(t, y)
  /\ x' = y /\ y' = None

Next == Load \/ Store

Spec == Init /\ [][Next]_vars

---------------------------------------------------------------------------
(* Properties *)

Fmt(t) ==
  CASE t = "half" -> Half [] t = "e4m3" -> E4M3 [] t = "e5m2" -> E5M2
    [] t = "bf16" -> [mbits |-> 7, bias |-> 127, emax |-> 255, low |-> 0, ieee |-> TRUE]

\* The magnitude of the stored bits mag in units of the last place of x, the
\* bits of infinity standing for the power of two they continue.
InUlps(fmt, mag) ==
  LET exp  == mag \div 2 ^ fmt.mbits
      full == (mag % 2 ^ fmt.mbits) + IF exp = 0 THEN 0 ELSE 2 ^ fmt.mbits
      e    == (IF exp = 0 THEN 1 ELSE exp) - fmt.bias - fmt.mbits
      unit == (IF x.exp = 0 THEN 1 ELSE x.exp) - 127 - MantBits
  IN  full * 2 ^ (e - unit)

\* The distance of x from the number stored as mag.
Error(fmt, mag) ==
  LET full == x.mant + IF x.exp = 0 THEN 0 ELSE 2 ^ MantBits
      d    == full - InUlps(fmt, mag)
  IN  IF d < 0 THEN -d ELSE d

\* Numbers within a factor of the format's range, where nearest is computed.
Near(fmt) ==
  /\ x.exp < 255 /\ x.exp - 127 + fmt.bias <= fmt.emax - (IF fmt.ieee THEN 1 ELSE 0)
  /\ x.exp - 127 + fmt.bias >= -fmt.mbits - 4
Smallest(fmt) == x.exp - 127 + fmt.bias = -fmt.mbits

\* What is stored is a nearest number of the format, the even one of two.
Nearest(fmt, mag) ==
  /\ Error(fmt, mag) <= Error(fmt, mag + 1)
  /\ Error(fmt, mag) = Error(fmt, mag + 1) => mag % 2 = 0
  /\ mag > 0 => /\ Error(fmt, mag) <= Error(fmt, mag - 1)
                /\ Error(fmt, mag) = Error(fmt, mag - 1) => mag % 2 = 0

\* Every conversion rounds to nearest even over the normal and the subnormal
\* range, through the carry into the exponent and into infinity, except that
\* fp8 flushes the binade below its smallest number.
StoredNearest ==
  LET fmt == Fmt(type)
  IN  y = None /\ Near(fmt) =>
        \/ Nearest(fmt, bits[2])
        \/ type \in {"e4m3", "e5m2"} /\ Smallest(fmt) /\ bits[2] = 0
        \/ ~ fmt.ieee /\ bits[2] = fmt.over

\* Loading is exact: storing what was loaded gives the bits it was loaded
\* from, and the sign, NaN and infinity survive where the format has them.
ReloadExact ==
  /\ y # None /\ ~ IsNaN(y) => Stored(type, y) = bits
  /\ y # None => /\ IsNaN(y) <=> IsNaN(x) \/ (type = "e4m3" /\ IsInf(x))
                 /\ IsInf(x) /\ type # "e4m3" => y = x
                 /\ y.sign = x.sign
=============================================================================
