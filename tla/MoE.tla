-------------------------------- MODULE MoE --------------------------------
(***************************************************************************)
(* A mixture-of-experts block after routing (moe.cpp): dispatch shuffles   *)
(* the tokens into one lane per expert, each expert computes its lane, and *)
(* combine scatters the results back, weighted by their gates.             *)
(*                                                                         *)
(* A row of activations is the token it belongs to, a row an expert        *)
(* computed is a pair of expert and token, a gate is its index in          *)
(* gate_weights, and a row of the output is the sequence of what was added *)
(* to it: gate, expert and token.                                          *)
(***************************************************************************)
EXTENDS Integers, Sequences, Functions, FiniteSetsExt

CONSTANTS Tokens, Experts, Chosen  \* n_tokens, n_experts, top_k

T == 0 .. Tokens - 1
E == 0 .. Experts - 1
Slots == 0 .. Tokens * Chosen - 1

VARIABLES expert_ids,  \* what the router chose, [n_tokens, top_k]
          pc, at,      \* step of the block, and its loop counter
          counts, offsets, token_idx, slot_idx, inputs, outputs, output

dispatched == <<token_idx, slot_idx, inputs>>
moeVars == <<expert_ids, pc, at, counts, offsets, dispatched, outputs, output>>

Unset == <<>>

MoEInit ==
  /\ expert_ids \in {ids \in [Slots -> E] :
       \A s1, s2 \in Slots : s1 # s2 /\ s1 \div Chosen = s2 \div Chosen => ids[s1] # ids[s2]}
  /\ pc = "count" /\ at = 0
  /\ counts = [e \in E |-> 0]
  /\ offsets = [e \in 0 .. Experts |-> 0]
  /\ token_idx = [s \in Slots |-> -1] /\ slot_idx = [s \in Slots |-> -1]
  /\ inputs = [s \in Slots |-> Unset] /\ outputs = [s \in Slots |-> Unset]
  /\ output = [t \in T |-> <<>>]

\* To the next turn of a loop of n turns, or else to the step that follows.
Turn(n, following) ==
  IF at + 1 < n THEN pc' = pc /\ at' = at + 1 ELSE pc' = following /\ at' = 0

Count ==
  /\ pc = "count"
  /\ counts' = [counts EXCEPT ![expert_ids[at]] = @ + 1]
  /\ Turn(Tokens * Chosen, "prefix")
  /\ UNCHANGED <<expert_ids, offsets, dispatched, outputs, output>>

\* What the lane of expert e adds to the offset of the lane after it.
Offset(e) == counts[e]

\* The counts are reset to serve as cursors of the lanes.
Prefix ==
  /\ pc = "prefix"
  /\ offsets' = [offsets EXCEPT ![at + 1] = offsets[at] + Offset(at)]
  /\ Turn(Experts, "place")
  /\ counts' = IF pc' = "place" THEN [e \in E |-> 0] ELSE counts
  /\ UNCHANGED <<expert_ids, dispatched, outputs, output>>

LanePos(e) == offsets[e] + counts[e]

Place ==
  /\ pc = "place"
  /\ LET e == expert_ids[at]
         p == LanePos(e)
     IN  /\ token_idx' = [token_idx EXCEPT ![p] = at \div Chosen]
         /\ slot_idx' = [slot_idx EXCEPT ![p] = at % Chosen]
         /\ inputs' = [inputs EXCEPT ![p] = <<at \div Chosen>>]
         /\ counts' = [counts EXCEPT ![e] = @ + 1]
  /\ Turn(Tokens * Chosen, "mlp")
  /\ UNCHANGED <<expert_ids, offsets, outputs, output>>

\* One expert computes its lane; an empty lane is skipped.
ExpertMlp ==
  /\ pc = "mlp"
  /\ outputs' = [s \in Slots |->
       IF s \in offsets[at] .. offsets[at + 1] - 1 THEN <<at, inputs[s]>> ELSE outputs[s]]
  /\ Turn(Experts, "combine")
  /\ UNCHANGED <<expert_ids, counts, offsets, dispatched, output>>

\* Mutant: the gate is looked up at the slot.
GateOfSlot(s) == s

\* Where in gate_weights the gate of a slot is.
GateOf(s) == token_idx[s] * Chosen + slot_idx[s]

Combine ==
  /\ pc = "combine"
  /\ output' = [output EXCEPT ![token_idx[at]] = Append(@, <<GateOf(at), outputs[at]>>)]
  /\ Turn(Tokens * Chosen, "done")
  /\ UNCHANGED <<expert_ids, counts, offsets, dispatched, outputs>>

MoENext == Count \/ Prefix \/ Place \/ ExpertMlp \/ Combine

MoESpec == MoEInit /\ [][MoENext]_moeVars

---------------------------------------------------------------------------
(* Properties *)

\* "For each expert e a contiguous block of rows ... Slot order within an
\* expert preserves token order": the layout the experts compute on.
LanesOrdered ==
  pc \in {"mlp", "combine"} =>
    /\ offsets[Experts] = Tokens * Chosen
    /\ \A e \in E : \A s \in offsets[e] .. offsets[e + 1] - 1 :
         /\ expert_ids[GateOf(s)] = e
         /\ inputs[s] = <<token_idx[s]>>
         /\ s > offsets[e] => token_idx[s - 1] < token_idx[s]

\* output[t] = sum over k of gate[t, k] times expert ids[t, k] of token t: no
\* term is lost, doubled or given to another token, and the terms are added
\* in the order of the experts, whatever order the router chose them in.
EveryTermOnce ==
  pc = "done" =>
    \A t \in T :
      /\ Len(output[t]) = Chosen
      /\ Range(output[t]) = {<<t * Chosen + j, <<expert_ids[t * Chosen + j], <<t>>>>>> : j \in 0 .. Chosen - 1}
      /\ \A j \in 2 .. Chosen : output[t][j - 1][2][1] < output[t][j][2][1]

\* Every token comes back from the experts as the sum of what its experts made
\* of it by its own gates, each once and in a fixed order, from lanes that
\* kept the order of the tokens.
CombineExact == LanesOrdered /\ EveryTermOnce
=============================================================================
