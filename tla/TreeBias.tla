------------------------------ MODULE TreeBias ------------------------------
(***************************************************************************)
(* build_tree_attention_bias (speculative.cpp): the mask under which the   *)
(* nodes of a tree of candidate continuations go through one forward pass, *)
(* and the attention of a node under it.                                   *)
(***************************************************************************)
EXTENDS Attention

CONSTANTS MaxNodes, MaxHistory

ASSUME TreeAssumption == MaxNodes \in Nat /\ MaxHistory \in Nat

VARIABLES parents, n_history, \* the call; parents in topological order
          self_loops,         \* a root is its own parent, and not -1
          bias_out,           \* its rows; TRUE is 0, FALSE is -inf
          row, node           \* the row being built; the node of its walk

treeVars == <<parents, n_history, self_loops, bias_out, row, node>>

Nodes == DOMAIN parents
TreeKeys == 0 .. n_history + Cardinality(Nodes) - 1

\* Mutant: the tree positions start without the history.
ColumnShifted(n) == n

Column(n) == n_history + n

\* A row before its walk: the history is visible.
Blank == [j \in TreeKeys |-> j < n_history]

TreeInit ==
  /\ n_history \in 0 .. MaxHistory
  /\ self_loops \in BOOLEAN
  /\ \E n \in 1 .. MaxNodes :
       parents \in {f \in [0 .. n - 1 -> -1 .. n - 1] :
         \A c \in 0 .. n - 1 : IF self_loops THEN f[c] \in 0 .. c ELSE f[c] < c}
  /\ bias_out = [c \in Nodes |-> Blank]
  /\ row = 0 /\ node = 0

NextUp(n) == IF parents[n] = n THEN -1 ELSE parents[n]

\* The walk is at node: mark it, and go to the parent.
Walk ==
  /\ row \in Nodes /\ node >= 0
  /\ bias_out' = [bias_out EXCEPT ![row][Column(node)] = TRUE]
  /\ node' = NextUp(node)
  /\ UNCHANGED <<parents, n_history, self_loops, row>>

NextRow ==
  /\ row \in Nodes /\ node < 0
  /\ row' = row + 1 /\ node' = row + 1
  /\ UNCHANGED <<parents, n_history, self_loops, bias_out>>

TreeNext == Walk \/ NextRow

TreeSpec == TreeInit /\ [][TreeNext]_treeVars

---------------------------------------------------------------------------
(* Properties *)

\* The path from node c to its root.
PathOf(c) ==
  LET up[n \in 0 .. c] ==
        IF parents[n] \in {-1, n} THEN {n} ELSE {n} \cup up[parents[n]]
  IN  up[c]

\* Attention of a node with this bias is attention over the history and its
\* root-to-self path alone: what decoding that candidate by itself, without
\* the other branches, would see.
TreeMatchesPath ==
  \A c \in Nodes : c < row =>
    LET tree  == [causal |-> FALSE, window |-> 0, chunk |-> 0,
                  seq_q |-> Cardinality(Nodes), seq_k |-> Cardinality(TreeKeys)]
        raw   == [j \in TreeKeys |-> j % (MaxScore + 1)]
        path  == (0 .. n_history - 1) \cup {n_history + n : n \in PathOf(c)}
    IN  SameOutput(Sdpa(tree, c, [j \in TreeKeys |-> IF bias_out[c][j] THEN raw[j] ELSE NegInf]),
                   Softmax(raw, path))
=============================================================================
