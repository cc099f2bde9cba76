----------------------------- MODULE LayerCalls -----------------------------
(***************************************************************************)
(* The other kernels of a layer and of the step that picks a token, called *)
(* by a caller that uses one of them: top-k and the router, the experts,   *)
(* the sampler and the speculative verifier, dense and quantized products, *)
(* the recurrences, and the passes over a row.  As in AttentionCalls, the  *)
(* kernels keep no state between calls, `kernel' says which one a behaviour *)
(* looks at, and its variables are in slots.  The variables of             *)
(* Accumulator, MoE, TopK, Sampling and Speculative are their own, and     *)
(* stay as they were when they are not used.                               *)
(***************************************************************************)
EXTENDS Accumulator, MoE, TopK, Speculative

VARIABLES kernel, s1, s2, s3, s4, s5, s6, s7, s8, s9, s10, s11

slots == <<s1, s2, s3, s4, s5, s6, s7, s8, s9, s10, s11>>
sampledVars == <<samplingVars, verifyVars>>
own == <<accumulatorVars, moeVars, topKVars, sampledVars>>
allVars == <<kernel, own, slots>>

None == "none"

\* The largest products of two int8 numbers there are, and small ones.
ExtremeProducts == {-MaxProduct, -1, 0, 1, MaxProduct}

\* Probabilities of the policies, the ends among them.
SomeTopPs == {<<0, 1>>, <<1, 2>>, <<3, 4>>, <<1, 1>>}
SomeMinPs == {<<0, 1>>, <<1, 2>>}
SomeTypicalPs == {<<1, 2>>, <<1, 1>>}

Products2 == INSTANCE Gemm WITH
  BM <- 2, BN <- 2, BK <- 2, Sizes <- {0, 1, 3, 4}, Groups <- 2, Unset <- FALSE,
  shapes <- s1, beta <- s2, nan <- s3, g <- s4, pc <- s5, tile <- s6, C <- s7

Scan == INSTANCE SelectiveScan WITH
  Batch <- 2, L <- 4, Di <- 2, Ds <- 2, K <- 2, ChunkSizes <- {0, 1, 2, 4}, Deltas <- {0, 1},
  delta <- s1, chunk <- s2, ch <- s3, stage <- s4, t0 <- s5, s <- s6,
  h <- s7, hh <- s8, Abar <- s9, Bbar <- s10, y <- s11

Rwkv == INSTANCE Wkv WITH
  L <- 3, Channels <- 2, Keys <- {-2, 1}, Vals <- {-1, 3}, Decays <- {0, 1}, Bonuses <- {2},
  k <- s1, v <- s2, w <- s3, u <- s4, c <- s5, t <- s6, a <- s7, b <- s8, p <- s9, y <- s10

Linear == INSTANCE LinearAttention WITH
  L <- 2, Heads <- 2, Df <- 2, Dv <- 2, Feats <- {-1, 2},
  Q <- s1, K <- s2, normalize <- s3, hd <- s4, t <- s5, S <- s6, z <- s7, y <- s8

Row == INSTANCE RowPass WITH
  Elements <- {-1000, -3, 0, 4}, MaxDim <- 5,
  x <- s1, m <- s2, sum <- s3, mean <- s4, m2 <- s5, s <- s6, sumsq <- s7

Quantized == INSTANCE Quant WITH
  Rows <- 2, Depth <- 2, Cols <- 2, AValues <- {-2, 7}, BValues <- {-2, 0, 7},
  GroupSizes <- {1, 2},
  act <- s1, weight <- s2, scheme <- s3, group <- s4, old_share <- s5,
  qa <- s6, qb <- s7, out <- s8, stage <- s9

From11None == s11 = None
From10None == s10 = None /\ From11None
From9None == s9 = None /\ From10None
From8None == s8 = None /\ From9None
From7None == s7 = None /\ From8None
From6None == s6 = None /\ From7None

\* Every token to the first experts.
ExpertsIdle == MoEInit /\ \A s \in Slots : expert_ids[s] = s % Chosen

\* No row to scan.
TopKIdle == TopKInit /\ dim = 0 /\ keep = 0

\* A row of equal logits, under a policy that filters nothing.
SamplerIdle ==
  /\ policy = [inv_temp |-> 1, greedy |-> FALSE, top_k |-> 0, top_p |-> <<1, 1>>,
               min_p |-> <<0, 1>>, typical_p |-> <<1, 1>>]
  /\ input = [i \in Token |-> 0]
  /\ SamplingInit

\* What a call leaves whose drafts were all the one token there is.
VerifierIdle ==
  LET row == [i \in Word |-> IF i = 0 THEN Whole ELSE 0]
  IN  /\ draft_probs = [j \in 0 .. Drafts - 1 |-> row]
      /\ target_probs = [j \in 0 .. Drafts |-> row]
      /\ draft_tokens = [j \in 0 .. Drafts - 1 |-> 0]
      /\ verified = Drafts /\ n_accepted = Drafts /\ bonus_token = 0 /\ done = TRUE

SampledIdle == SamplerIdle /\ VerifierIdle

NoSlots ==
  s1 = None /\ s2 = None /\ s3 = None /\ s4 = None /\ s5 = None /\ From6None

CallInit ==
  \/ kernel = "moe" /\ AccumulatorInit /\ TopKIdle /\ SampledIdle /\ MoEInit /\ NoSlots
  \/ kernel = "topk" /\ AccumulatorInit /\ ExpertsIdle /\ SampledIdle /\ TopKInit /\ NoSlots
  \/ /\ AccumulatorInit /\ ExpertsIdle /\ TopKIdle /\ NoSlots
     /\ \/ kernel = "sampling" /\ VerifierIdle /\ SamplingInit
        \/ kernel = "verify" /\ SamplerIdle /\ VerifyInit
  \/ /\ AccumulatorInit /\ ExpertsIdle /\ TopKIdle /\ SampledIdle
     /\ \/ kernel = "accumulator" /\ NoSlots
        \/ kernel = "gemm" /\ Products2!Init /\ From8None
        \/ kernel = "scan" /\ Scan!Init
        \/ kernel = "wkv" /\ Rwkv!Init /\ From11None
        \/ kernel = "linear" /\ Linear!Init /\ From9None
        \/ kernel = "row" /\ Row!Init /\ From8None
        \/ kernel = "quant" /\ Quantized!Init /\ From10None

CallAccumulator ==
  /\ kernel = "accumulator" /\ AccumulatorNext
  /\ UNCHANGED <<kernel, moeVars, topKVars, sampledVars, slots>>
CallTopK ==
  /\ kernel = "topk" /\ TopKNext
  /\ UNCHANGED <<kernel, accumulatorVars, moeVars, sampledVars, slots>>
CallExperts ==
  /\ kernel = "moe" /\ MoENext
  /\ UNCHANGED <<kernel, accumulatorVars, topKVars, sampledVars, slots>>
CallSampler ==
  /\ kernel = "sampling" /\ SamplingNext
  /\ UNCHANGED <<kernel, accumulatorVars, moeVars, topKVars, verifyVars, slots>>
CallVerifier ==
  /\ kernel = "verify" /\ VerifyNext
  /\ UNCHANGED <<kernel, accumulatorVars, moeVars, topKVars, samplingVars, slots>>
CallGemm ==
  /\ kernel = "gemm" /\ Products2!Next
  /\ UNCHANGED <<kernel, own, s8, s9, s10, s11>>
CallScan == kernel = "scan" /\ Scan!Next /\ UNCHANGED <<kernel, own>>
CallWkv == kernel = "wkv" /\ Rwkv!Next /\ UNCHANGED <<kernel, own, s11>>
CallLinear ==
  /\ kernel = "linear" /\ Linear!Next
  /\ UNCHANGED <<kernel, own, s9, s10, s11>>
CallRow == kernel = "row" /\ Row!Next /\ UNCHANGED <<kernel, own, s8, s9, s10, s11>>
CallQuantized ==
  /\ kernel = "quant" /\ Quantized!Next
  /\ UNCHANGED <<kernel, own, s10, s11>>

CallNext ==
  \/ CallAccumulator
  \/ CallTopK \/ CallExperts
  \/ CallSampler \/ CallVerifier
  \/ CallGemm \/ CallQuantized
  \/ CallScan \/ CallWkv \/ CallLinear
  \/ CallRow

CallSpec == CallInit /\ [][CallNext]_allVars

---------------------------------------------------------------------------
(* Properties, beside those of the modules it extends *)

\* Quantized numbers come back as close as their own scale allows, no scale
\* reaches beyond its row, column or group, and products of them differ from
\* the exact product by no more than those errors.
QuantizationClose ==
  kernel = "quant" =>
    Quantized!ComesBackClose /\ Quantized!ScopesIndependent /\ Quantized!ProductClose

\* The blocked and one-pass kernels do what their references do
\* (README.md:10-12 of the sources): the tiles of the GEMM, the online softmax
\* and Welford's variance.
MatchesReference ==
  /\ kernel = "gemm" => Products2!MatchesRef
  /\ kernel = "row" => Row!OnlineIsTwoPass /\ Row!WelfordIsVariance

\* The state a recurrent kernel carries stands for the sum over all the steps
\* before, of its own channel or head and of no other: the chunks of the scan,
\* whatever their size, the WKV recurrence with its running maximum, and linear
\* attention, whose outputs are those of attention over the steps so far.
RecurrencesMatch ==
  /\ kernel = "scan" => Scan!ChunkedMatchesRef
  /\ kernel = "wkv" => Rwkv!WkvMatchesFormula
  /\ kernel = "linear" => Linear!RecurrenceIsAttention
=============================================================================
