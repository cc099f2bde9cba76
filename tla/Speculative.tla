----------------------------- MODULE Speculative -----------------------------
(***************************************************************************)
(* speculative_verify (speculative.cpp): K draft tokens are accepted or    *)
(* rejected in turn against the target model's distributions.              *)
(*                                                                         *)
(* A row of probabilities is a function of weights with the sum Whole.  A  *)
(* uniform random number is a point of a grid of Fine, which every weight  *)
(* and every sum of weights up to Whole divides, so that counting points   *)
(* is exact probability.                                                   *)
(***************************************************************************)
EXTENDS Sampling

CONSTANTS Words, Drafts, \* vocab and K
          Whole, Fine,
          Coarse  \* weights of the rows after the first are multiples of it

ASSUME VerifyAssumption ==
  /\ Words \in Nat \ {0} /\ Drafts \in Nat /\ Whole \in Nat \ {0} /\ Coarse \in Nat \ {0}
  /\ Fine \in Nat \ {0} /\ \A n \in 1 .. Whole : Fine % n = 0

Word == 0 .. Words - 1
Distributions(step) ==
  {row \in [Word -> {step * n : n \in 0 .. Whole \div step}] : SumFunction(row) = Whole}

\* n rows of probabilities, for the calls that are checked.
RowsOf(n) ==
  {rows \in [0 .. n - 1 -> Distributions(1)] :
     \A j \in 1 .. n - 1 : rows[j] \in Distributions(Coarse)}

VARIABLES draft_probs, target_probs, draft_tokens, \* the call
          verified, n_accepted, bonus_token, done

verifyVars == <<draft_probs, target_probs, draft_tokens, verified, n_accepted, bonus_token, done>>

\* The rows and the token at work.
Trow == target_probs[verified]
Drow == draft_probs[verified]
Drafted == draft_tokens[verified]

\* sample_from_probs, the walk of softmax_sample over weights with the sum
\* total: u / Fine against what they add up to of it.
SampleFromProbs(w, total, u) == SampleAt([i \in DOMAIN w |-> w[i] * Fine], u * total)

\* What the target has more than the draft; the target itself where the draft
\* has everything.
Corrected(trow, drow) ==
  LET pos == [i \in Word |-> IF trow[i] > drow[i] THEN trow[i] - drow[i] ELSE 0]
  IN  IF SumFunction(pos) = 0 THEN trow ELSE pos

\* Mutant: the ratio is upside down.
AcceptsInverse(trow, drow, x, u) == u * trow[x] < drow[x] * Fine

\* u < min(1, target / draft); a token that the draft gives no mass is taken
\* if the target gives it some.
Accepts(trow, drow, x, u) ==
  IF drow[x] = 0 THEN trow[x] > 0 ELSE u * drow[x] < trow[x] * Fine

VerifyInit ==
  /\ draft_probs \in RowsOf(Drafts)
  /\ target_probs \in RowsOf(Drafts + 1)
  /\ draft_tokens \in [0 .. Drafts - 1 -> Word]
  /\ verified = 0 /\ n_accepted = 0 /\ bonus_token = -1 /\ done = FALSE

Accept ==
  /\ ~ done /\ verified < Drafts
  /\ \E u \in 0 .. Fine - 1 : Accepts(Trow, Drow, Drafted, u)
  /\ n_accepted' = n_accepted + 1
  /\ verified' = verified + 1
  /\ UNCHANGED <<draft_probs, target_probs, draft_tokens, bonus_token, done>>

\* A rejected token ends the call with one from the corrected distribution.
Reject ==
  /\ ~ done /\ verified < Drafts
  /\ \E u \in 0 .. Fine - 1 : ~ Accepts(Trow, Drow, Drafted, u)
  /\ LET w == Corrected(Trow, Drow)
     IN  \E u \in 0 .. Fine - 1 : bonus_token' = SampleFromProbs(w, SumFunction(w), u)
  /\ done' = TRUE
  /\ UNCHANGED <<draft_probs, target_probs, draft_tokens, verified, n_accepted>>

\* All are accepted: one more token from the row after the last.
Bonus ==
  /\ ~ done /\ verified = Drafts
  /\ \E u \in 0 .. Fine - 1 : bonus_token' = SampleFromProbs(target_probs[Drafts], Whole, u)
  /\ done' = TRUE
  /\ UNCHANGED <<draft_probs, target_probs, draft_tokens, verified, n_accepted>>

VerifyNext == Accept \/ Reject \/ Bonus

VerifySpec == VerifyInit /\ [][VerifyNext]_verifyVars

---------------------------------------------------------------------------
(* Properties *)

\* How many of the ways to draw a draft token by its distribution, to decide
\* on it and to correct it end with token i at its position.
Ways(trow, drow, i) ==
  LET U == 0 .. Fine - 1
      w == Corrected(trow, drow)
      Yes(x) == Cardinality({u \in U : Accepts(trow, drow, x, u)})
      Drawn == Cardinality({u \in U : SampleFromProbs(w, SumFunction(w), u) = i})
  IN  drow[i] * Yes(i) * Fine
        + SumFunction([x \in Word |-> drow[x] * (Fine - Yes(x)) * Drawn])

\* "The output distribution provably matches sampling directly from the
\* target model": whatever the draft model, accepting and correcting together
\* give each token exactly its target probability.
LawIsTarget ==
  verified < Drafts /\ ~ done =>
    \A i \in Word : Ways(Trow, Drow, i) = Trow[i] * Fine * Fine

\* No token that comes out, accepted or drawn at the end, is one the target
\* model rules out, and a rejected token is not drawn again in its place.
OnlyTargetTokens ==
  /\ \A j \in 0 .. n_accepted - 1 : target_probs[j][draft_tokens[j]] > 0
  /\ done => /\ target_probs[n_accepted][bonus_token] > 0
             /\ n_accepted < Drafts => bonus_token # draft_tokens[n_accepted]

\* A token is drawn by the law it should be: by the weights the filters leave,
\* which together mask no token more likely than one they keep, or, after the
\* verifier, by exactly the target model's probabilities.
TokenLaw == FiltersCompose /\ DrawsByWeight /\ LawIsTarget /\ OnlyTargetTokens
=============================================================================
