-------------------------------- MODULE Wkv --------------------------------
(***************************************************************************)
(* The WKV recurrence of RWKV (kernels/rwkv.cpp): sums whose exponents are *)
(* kept relative to the largest one.                                       *)
(*                                                                         *)
(* exp(n) is 2^n, and a running sum is an integer, One times its value:    *)
(* One is so large that no shift of it loses a bit.                        *)
(***************************************************************************)
EXTENDS Integers, FiniteSetsExt

CONSTANTS L, Channels, Keys, Vals, Decays, Bonuses

VARIABLES k, v, w, u,   \* inputs: [channel][time], and of the channel
          c, t,         \* where the loops are
          a, b, p,      \* running state of the channel
          y             \* outputs: [channel][time], [num, den] or None

vars == <<k, v, w, u, c, t, a, b, p, y>>

One == 4 ^ 6
NegInf == -1000                  \* less than every exponent there is
None == [num |-> 0, den |-> -1]

\* n times exp(by) for by <= 0.
Scaled(n, by) == IF by < -100 THEN 0 ELSE n \div 2 ^ (-by)
Larger(m, n) == IF m > n THEN m ELSE n

Inputs(S) == [0 .. Channels - 1 -> [0 .. L - 1 -> S]]

Init ==
  /\ k \in Inputs(Keys) /\ v \in Inputs(Vals)
  /\ w \in [0 .. Channels - 1 -> Decays] /\ u \in [0 .. Channels - 1 -> Bonuses]
  /\ c = 0 /\ t = 0 /\ a = 0 /\ b = 0 /\ p = NegInf
  /\ y = [ch \in 0 .. Channels - 1 |-> [i \in 0 .. L - 1 |-> None]]

p_decayed == IF p = NegInf THEN NegInf ELSE p - w[c]

\* p_new: the next step sees this one without its bonus.
p_new == Larger(p_decayed, k[c][t])

\* y at t, from the state before it and the bonus, then the state after it.
Step ==
  /\ c < Channels /\ t < L
  /\ LET ukt == u[c] + k[c][t]
         q   == Larger(p_decayed, ukt)
         ek  == Scaled(One, ukt - q)
     IN  y' = [y EXCEPT ![c][t] =
                 LET den == Scaled(b, p_decayed - q) + ek
                 IN  [num |-> IF den > 0 THEN Scaled(a, p_decayed - q) + ek * v[c][t] ELSE 0,
                      den |-> IF den > 0 THEN den ELSE 1]]
  /\ LET ek2 == Scaled(One, k[c][t] - p_new)
     IN  /\ a' = Scaled(a, p_decayed - p_new) + ek2 * v[c][t]
         /\ b' = Scaled(b, p_decayed - p_new) + ek2
  /\ p' = p_new
  /\ t' = t + 1
  /\ UNCHANGED <<k, v, w, u, c>>

\* The next channel starts from nothing.
NextChannel ==
  /\ c < Channels /\ t = L
  /\ c' = c + 1 /\ t' = 0 /\ a' = 0 /\ b' = 0 /\ p' = NegInf
  /\ UNCHANGED <<k, v, w, u, y>>

Next == Step \/ NextChannel

Spec == Init /\ [][Next]_vars

---------------------------------------------------------------------------
(* Properties *)

\* The weights of the formula, all One times 2^Least too large: decayed for
\* the steps before i, with the bonus for i itself.
Least == 10
Weight(ch, i, j) ==
  2 ^ (Least + k[ch][j] + (IF j = i THEN u[ch] ELSE -((i - j) * w[ch])))
SumTo(i, f) == MapThenSumSet(LAMBDA j : f[j], 0 .. i)

\* Every output is the weighted mean of the formula (rwkv.hpp:7-8), not one
\* rescaled or carried over from another channel, and no weight is lost to
\* the shift: the guard on an empty sum is never needed.
WkvMatchesFormula ==
  \A ch \in 0 .. Channels - 1, i \in 0 .. L - 1 :
    y[ch][i] # None =>
      LET num == SumTo(i, [j \in 0 .. i |-> Weight(ch, i, j) * v[ch][j]])
          den == SumTo(i, [j \in 0 .. i |-> Weight(ch, i, j)])
      IN  y[ch][i].num * den = num * y[ch][i].den
=============================================================================
