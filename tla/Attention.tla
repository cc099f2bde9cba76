----------------------------- MODULE Attention -----------------------------
(***************************************************************************)
(* Attention of one query row over its keys (src/src/kernels/attention):   *)
(* which keys the masks leave, and the weights the softmax gives them.     *)
(*                                                                         *)
(* cfg is an AttnConfig; the scores of the keys (dot product, scale and    *)
(* bias together) are integers, NegInf where the bias is -inf.  2 is the   *)
(* base of the exponential, and weights are counted in units of            *)
(* 2^-MaxScore, so that they are exact.  V is the identity: the output is  *)
(* the weight of every key, from which any V gives the code's output.      *)
(***************************************************************************)
EXTENDS Integers, FiniteSetsExt

CONSTANT MaxScore \* finite scores are in 0 .. MaxScore

ASSUME ScoreAssumption == MaxScore \in Nat

NegInf == -1

Larger(a, b) == IF a > b THEN a ELSE b
Smaller(a, b) == IF a < b THEN a ELSE b

\* C++ integer division: towards zero.
Quotient(a, b) == IF a >= 0 THEN a \div b ELSE -((-a) \div b)

\* Where query i of cfg.seq_q stands among the cfg.seq_k keys.
Position(cfg, i) == cfg.seq_k - cfg.seq_q + i

\* Mutant: the causal bound forgets the keys before the first query.
MaskUnshifted(cfg, i, j) ==
  /\ cfg.causal => j <= i
  /\ cfg.window > 0 => j >= Position(cfg, i) - cfg.window + 1
  /\ cfg.chunk > 0 => Quotient(Position(cfg, i), cfg.chunk) = Quotient(j, cfg.chunk)

MaskAllows(cfg, i, j) ==
  /\ cfg.causal => j <= Position(cfg, i)
  /\ cfg.window > 0 => j >= Position(cfg, i) - cfg.window + 1
  /\ cfg.chunk > 0 => Quotient(Position(cfg, i), cfg.chunk) = Quotient(j, cfg.chunk)

FirstKey(cfg, i) ==
  IF cfg.window > 0 THEN Larger(0, Position(cfg, i) - cfg.window + 1) ELSE 0
LastKey(cfg, i) ==
  IF cfg.causal THEN Smaller(cfg.seq_k - 1, Position(cfg, i)) ELSE cfg.seq_k - 1

\* The keys among js that query i attends to, and all of them.
AllowedIn(cfg, i, js) == {j \in js : MaskAllows(cfg, i, j)}
AttendedKeys(cfg, i) == AllowedIn(cfg, i, FirstKey(cfg, i) .. LastKey(cfg, i))

\* The K/V head a query head reads.
KvHeadOf(qh, q_heads, kv_heads) == qh \div (q_heads \div kv_heads)

---------------------------------------------------------------------------

\* The powers of the base.
Pow2[n \in Nat] == IF n = 0 THEN 1 ELSE 2 * Pow2[n - 1]

\* exp(a - b) for a score a and a maximum b >= a.
Exp(a, b) == IF a = NegInf THEN 0 ELSE Pow2[MaxScore - (b - a)]

\* A weight relative to a maximum of old, relative to one of new >= old.
Rescale(w, old, new) == IF old = NegInf THEN 0 ELSE w \div Pow2[new - old]

MaxScoreOf(score, js) == Max({score[j] : j \in js} \cup {NegInf})

\* The two passes of the reference softmax over the keys js: the largest
\* score, then the weights and their sum.  Weights relative to a maximum of
\* -inf are exp(nan), which a sum of -1 stands for.
Softmax(score, js) ==
  LET m   == MaxScoreOf(score, js)
      acc == [j \in DOMAIN score |-> IF j \in js THEN Exp(score[j], m) ELSE 0]
  IN  [m |-> m, acc |-> acc,
       l |-> IF js # {} /\ m = NegInf THEN -1 ELSE SumFunctionOnSet(acc, js)]

Sdpa(cfg, i, score) == Softmax(score, AttendedKeys(cfg, i))

\* The same output: the weights divided by their sum, all zero if the sum is.
SameOutput(x, y) ==
  /\ x.l = 0 <=> y.l = 0
  /\ x.l < 0 <=> y.l < 0
  /\ \A j \in DOMAIN x.acc : x.acc[j] * y.l = y.acc[j] * x.l
=============================================================================
