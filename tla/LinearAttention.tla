-------------------------- MODULE LinearAttention --------------------------
(***************************************************************************)
(* Causal linear attention as a recurrence (kernels/linear_attn.cpp): one  *)
(* state, the buffers S and z, serves every head in turn.                  *)
(*                                                                         *)
(* Numbers are integers; an output is [num, den], num for each of the Dv   *)
(* dimensions.  All heads share their queries here.                        *)
(***************************************************************************)
EXTENDS Integers, FiniteSetsExt

CONSTANTS L, Heads, Df, Dv, Feats

VARIABLES Q, K, normalize,  \* inputs: [time][feature], [head][time][feature]
          hd, t,            \* where the loops are
          S, z,             \* state: [feature][dim] and [feature]
          y                 \* [head][time], or None

vars == <<Q, K, normalize, hd, t, S, z, y>>

F == 0 .. Df - 1
D == 0 .. Dv - 1
V(head, time, d) == 1 + d + Dv * (time + L * head)
None == [num |-> <<>>, den |-> 0]
SumFor(f) == MapThenSumSet(LAMBDA i : f[i], DOMAIN f)

ZeroS == [f \in F |-> [d \in D |-> 0]]
ZeroZ == [f \in F |-> 0]

Init ==
  /\ Q \in [0 .. L - 1 -> [F -> Feats]]
  /\ K \in [0 .. Heads - 1 -> [0 .. L - 1 -> [F -> Feats]]]
  /\ normalize \in BOOLEAN
  /\ hd = 0 /\ t = 0 /\ S = ZeroS /\ z = ZeroZ
  /\ y = [h \in 0 .. Heads - 1 |-> [i \in 0 .. L - 1 |-> None]]

\* The output for a query from the state: 0 where the weights do not sum to
\* more than 0.
Out(q, s, zs) ==
  LET num  == [d \in D |-> SumFor([f \in F |-> q[f] * s[f][d]])]
      zsum == SumFor([f \in F |-> q[f] * zs[f]])
  IN  IF ~normalize THEN [num |-> num, den |-> 1]
      ELSE IF zsum > 0 THEN [num |-> num, den |-> zsum]
      ELSE [num |-> [d \in D |-> 0], den |-> 1]

\* One token: the rank-1 update, then the output from what it gave.
Step ==
  /\ hd < Heads /\ t < L
  /\ S' = [f \in F |-> [d \in D |-> S[f][d] + K[hd][t][f] * V(hd, t, d)]]
  /\ z' = [f \in F |-> z[f] + K[hd][t][f]]
  /\ y' = [y EXCEPT ![hd][t] = Out(Q[t], S', z')]
  /\ t' = t + 1
  /\ UNCHANGED <<Q, K, normalize, hd>>

\* The next head: both buffers are filled with 0.
NextHead ==
  /\ hd < Heads /\ t = L
  /\ hd' = hd + 1 /\ t' = 0 /\ S' = ZeroS /\ z' = ZeroZ
  /\ UNCHANGED <<Q, K, normalize, y>>

Next == Step \/ NextHead

Spec == Init /\ [][Next]_vars

---------------------------------------------------------------------------
(* Properties *)

\* The recurrence is attention (linear_attn.hpp:3-10): every output is the sum
\* of the values up to it, each weighted by its key against the query, over
\* the sum of those weights if normalized and that sum is positive.
RecurrenceIsAttention ==
  \A h \in 0 .. Heads - 1, i \in 0 .. L - 1 :
    y[h][i] # None =>
      LET weight == [j \in 0 .. i |-> SumFor([f \in F |-> Q[i][f] * K[h][j][f]])]
          total  == SumFor(weight)
      IN  \A d \in D :
            y[h][i].num[d] * (IF normalize THEN total ELSE 1)
              = (IF normalize /\ total <= 0 THEN 0
                 ELSE SumFor([j \in 0 .. i |-> weight[j] * V(h, j, d)])) * y[h][i].den
=============================================================================
