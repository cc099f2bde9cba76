------------------------------ MODULE Sampling ------------------------------
(***************************************************************************)
(* The sampling pipeline (sampling.cpp): temperature, top-k, top-p, min-p  *)
(* and typical-p in turn mask tokens of a row of logits, and one of the    *)
(* others is drawn by its softmax.                                         *)
(*                                                                         *)
(* Logits are integers and 2 is the base of the exponential, which makes   *)
(* every weight exact; the probabilities of a policy are <<num, den>>.     *)
(* std::sort and std::nth_element leave the order of what compares equal   *)
(* open, and so does the model.                                            *)
(***************************************************************************)
EXTENDS Attention, Sequences

CONSTANTS Vocab,     \* vocabulary size
          MaxLogit,  \* logits of the model are 0 .. MaxLogit, or NegInf
          InvTemps,  \* values of 1 / temperature
          TopKs, TopPs, MinPs, TypicalPs,
          Drift      \* what rounding may take from the sum of the weights

\* A probability of a policy is <<num, den>>; the scores that temperature makes
\* of the logits are in the range of the weights.  typical_p is positive: at 0
\* the walk stops at its first token, which may be a masked one.
ASSUME SamplingAssumption ==
  /\ Vocab \in Nat \ {0} /\ MaxLogit \in Nat /\ Drift \in Nat
  /\ InvTemps \subseteq Nat \ {0} /\ \A t \in InvTemps : MaxLogit * t <= MaxScore
  /\ TopKs \subseteq Int
  /\ \A p \in TopPs \cup MinPs \cup TypicalPs : p \in Nat \X (Nat \ {0})
  /\ (\A p \in MinPs : p[1] <= p[2]) /\ (\A p \in TypicalPs : p[1] > 0)

Token == 0 .. Vocab - 1

VARIABLES policy, input, \* the call
          logits,        \* the scratch row
          stage,
          token          \* what sample returns

samplingVars == <<policy, input, logits, stage, token>>

Stages == <<"temperature", "top_k", "top_p", "min_p", "typical", "draw", "done">>

Alive(row) == {i \in Token : row[i] # NegInf}
Masked(row, kept) == [i \in Token |-> IF i \in kept THEN row[i] ELSE NegInf]

\* The weights of a row and their sum over a set of tokens.
Weight(row) == Softmax(row, Token)
Mass(row, s) == SumFunctionOnSet(Weight(row).acc, s)
Covers(row, s, p) == Mass(row, s) * p[2] >= p[1] * Mass(row, Token)

\* argmax_sample: the first of the largest.
ArgmaxSample(row) ==
  Min({i \in Token : \A j \in Token : row[j] <= row[i]})

---------------------------------------------------------------------------
(* The filters: what may be kept. *)

\* nth_element leaves any of the k largest logits just before position k.
TopKPivots(row, k) ==
  {row[i] : i \in {j \in Token : Cardinality({h \in Token : row[h] > row[j]}) < k}}

TopKKept(row, k) ==
  IF k <= 0 \/ k >= Vocab THEN {Token}
  ELSE {{i \in Token : row[i] >= pivot} : pivot \in TopKPivots(row, k)}

\* The sets that walking the tokens in an order by key keeps until it covers
\* p: what is walked comes before what is not, and without the last token
\* walked it did not cover p yet.
WalkKept(row, key, p) ==
  {s \in SUBSET Token :
     /\ \A a \in s, b \in Token \ s : key[a] <= key[b]
     /\ Covers(row, s, p)
     /\ \E last \in s : /\ \A a \in s : key[a] <= key[last]
                        /\ ~ Covers(row, s \ {last}, p)}

\* Mutant: the token that reaches the mass is cut off too.
TopPKeptShort(row, p) ==
  IF p[1] >= p[2] THEN {Token}
  ELSE IF p[1] = 0 THEN {{ArgmaxSample(row)}}
  ELSE {s \in SUBSET Token : \E w \in WalkKept(row, [i \in Token |-> -row[i]], p) :
          \E last \in w : (\A a \in w : row[a] >= row[last]) /\ s = w \ {last}}

TopPKept(row, p) ==
  IF p[1] >= p[2] THEN {Token}
  ELSE IF p[1] = 0 THEN {{ArgmaxSample(row)}}
  ELSE WalkKept(row, [i \in Token |-> -row[i]], p)

MinPKept(row, p) ==
  IF p[1] = 0 THEN {Token}
  ELSE LET m == MaxScoreOf(row, Token)
       IN  {{i \in Token : Exp(row[i], m) * p[2] >= p[1] * Exp(m, m)}}

\* |H - (-log p)| of each token, times the sum of the weights: the distance of
\* its logit from the mean logit.  A masked token makes the mean 0 * -inf.
TypicalGap(row) ==
  LET w    == Weight(row)
      mean == SumFunction([i \in Token |-> w.acc[i] * row[i]])
      Abs(n) == IF n < 0 THEN -n ELSE n
  IN  [i \in Token |-> Abs(row[i] * w.l - mean)]

\* With the mean not a number no gap is less than another, and the tokens are
\* walked in any order.
TypicalKept(row, p) ==
  IF p[1] >= p[2] THEN {Token}
  ELSE IF Alive(row) # Token THEN WalkKept(row, [i \in Token |-> 0], p)
  ELSE WalkKept(row, TypicalGap(row), p)

---------------------------------------------------------------------------
(* Drawing *)

\* Inverse CDF: the first token at which the cumulative weight exceeds u, the
\* last one if rounding has left the sum short of it.
SampleAt(w, u) ==
  LET hit == {i \in DOMAIN w : u < SumFunctionOnSet(w, 0 .. i)}
  IN  IF hit = {} THEN Max(DOMAIN w) ELSE Min(hit)

---------------------------------------------------------------------------

SamplingInit ==
  /\ policy \in [inv_temp : InvTemps, greedy : BOOLEAN, top_k : TopKs, top_p : TopPs,
                 min_p : MinPs, typical_p : TypicalPs]
  /\ input \in [Token -> NegInf .. MaxLogit] /\ Alive(input) # {}
  /\ logits = input /\ stage = 1 /\ token = -1

\* temperature <= 0: argmax of the logits as they come, without a filter.
Greedy ==
  /\ stage = 1 /\ policy.greedy
  /\ token' = ArgmaxSample(input)
  /\ stage' = Len(Stages)
  /\ UNCHANGED <<policy, input, logits>>

Temperature ==
  /\ stage = 1 /\ ~ policy.greedy
  /\ logits' = [i \in Token |->
       IF logits[i] = NegInf THEN NegInf ELSE logits[i] * policy.inv_temp]
  /\ stage' = 2
  /\ UNCHANGED <<policy, input, token>>

Filter(name, keeps) ==
  /\ Stages[stage] = name
  /\ \E kept \in keeps : logits' = Masked(logits, kept)
  /\ stage' = stage + 1
  /\ UNCHANGED <<policy, input, token>>

Draw ==
  /\ Stages[stage] = "draw"
  /\ \E u \in 0 .. Mass(logits, Token) + Drift - 1 : token' = SampleAt(Weight(logits).acc, u)
  /\ stage' = stage + 1
  /\ UNCHANGED <<policy, input, logits>>

SamplingNext ==
  \/ Greedy
  \/ Temperature
  \/ Filter("top_k", TopKKept(logits, policy.top_k))
  \/ Filter("top_p", TopPKept(logits, policy.top_p))
  \/ Filter("min_p", MinPKept(logits, policy.min_p))
  \/ Filter("typical", TypicalKept(logits, policy.typical_p))
  \/ Draw

SamplingSpec == SamplingInit /\ [][SamplingNext]_samplingVars

---------------------------------------------------------------------------
(* Properties *)

\* The filters compose: whatever the policy, they never mask every token, and
\* up to min-p they keep a most likely one and no token less likely than one
\* they mask, so that none of them undoes what another meant.
FiltersCompose ==
  /\ Alive(logits) # {}
  /\ \A i, j \in Token :
       i \in Alive(logits) /\ Stages[stage] \in {"top_k", "top_p", "min_p", "typical"} =>
         \/ input[j] <= input[i]
         \/ j \in Alive(logits)

\* A draw returns each token by its weight, so that a masked token and one
\* that the model gave no probability are never returned.
DrawsByWeight ==
  /\ Stages[stage] = "draw" =>
       LET w == Weight(logits).acc
       IN  \A i \in Token :
             Cardinality({u \in 0 .. Mass(logits, Token) - 1 : SampleAt(w, u) = i}) = w[i]
  /\ Stages[stage] = "done" => token \in Alive(logits)

\* "Keep the smallest set whose softmax probability mass is >= p": of the
\* mass that top-k has left.
TopPSmallest ==
  Stages[stage] = "top_p" /\ policy.top_p[1] \in 1 .. policy.top_p[2] - 1 =>
    /\ Covers(logits, Alive(logits'), policy.top_p)
    /\ \A s \in SUBSET Token :
         Covers(logits, s, policy.top_p) =>
           Cardinality(s) >= Cardinality(Alive(logits'))

\* "Keep tokens whose surprisal is closest to the distribution entropy until
\* the cumulative mass reaches p".
ClosestKept(row, kept) ==
  LET gap == TypicalGap(row)
  IN  \A a \in kept, b \in Alive(row) \ kept : gap[a] <= gap[b]
TypicalClosest ==
  Stages[stage] = "typical" /\ Alive(logits) = Token =>
    ClosestKept(logits, Alive(logits'))

\* Nucleus sampling keeps a smallest set that covers p of what top-k left, and
\* typical sampling the tokens of the surprisal closest to the entropy.
FiltersKeepBest == [][TopPSmallest /\ TypicalClosest]_samplingVars
=============================================================================
