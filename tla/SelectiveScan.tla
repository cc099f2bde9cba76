--------------------------- MODULE SelectiveScan ---------------------------
(***************************************************************************)
(* The scan of Mamba over chunks (kernels/ssm.cpp), fed by the causal      *)
(* convolution in front of it (kernels/conv1d.cpp).                        *)
(*                                                                         *)
(* Numbers are integers and exp(n) is 2^n; time, channels and state        *)
(* dimensions count from 0.  The scan walks one channel of a batch after   *)
(* the other and keeps buffers that are reused from chunk to chunk.        *)
(***************************************************************************)
EXTENDS Integers, FiniteSetsExt

CONSTANTS
  Batch, L, Di, Ds,   \* sizes
  K,                  \* taps of the convolution
  ChunkSizes,         \* chunk_size, as the caller passes it
  Deltas              \* values of delta

VARIABLES
  delta,      \* [batch][seq][channel]
  chunk,      \* chunk_size, clamped
  ch,         \* channel being scanned, counted over the batches
  stage,      \* "load", "discretize", "step" or "store"
  t0, s,      \* start of the chunk, step in it
  h, hh,      \* carries of all channels, and of this one
  Abar, Bbar, \* tables of the chunk, with what the last one left
  y           \* output, by channel and time

vars == <<delta, chunk, ch, stage, t0, s, h, hh, Abar, Bbar, y>>

SumFor(f) == MapThenSumSet(LAMBDA i : f[i], DOMAIN f)
Exp(n) == 2 ^ n

\* Input of the convolution, flat over [batch, seq, channel], and parameters.
Raw(at) == 1 + at
W(c, k) == 1 + k + 2 * c
A(d, n) == (d + n) % 2
B(b, t, n) == 1 + b + t + 3 * n
C(b, t, n) == 1 + 2 * b + t * (n + 1)
Skip(d) == 5 + d

\* for k in 0 .. K - 1, until t - k < 0.
Taps(b, t) == {k \in 0 .. K - 1 : t - k >= 0}

\* conv1d_causal_depthwise, without bias.
Conv1d(b, t, c) == SumFor([k \in Taps(b, t) |-> Raw(((b * L + (t - k)) * Di) + c) * W(c, k)])

\* The same by its definition (conv1d.hpp:28-29): the input of batch b and
\* channel c is 0 before the sequence.
Padded(b, t, c) == IF t < 0 THEN 0 ELSE 1 + c + Di * t + Di * L * b
Filtered(b, t, c) == SumFor([k \in 0 .. K - 1 |-> Padded(b, t - k, c) * W(c, k)])

\* selective_scan_ref: the state and the output of a channel at time t.
RefState(b, d) ==
  LET st[t \in -1 .. L - 1] ==
        IF t = -1 THEN [n \in 0 .. Ds - 1 |-> 0]
        ELSE [n \in 0 .. Ds - 1 |->
                Exp(delta[b][t][d] * A(d, n)) * st[t - 1][n]
                  + (delta[b][t][d] * B(b, t, n)) * Filtered(b, t, d)]
  IN  st
RefOut(b, t, d) ==
  SumFor([n \in 0 .. Ds - 1 |-> C(b, t, n) * RefState(b, d)[t][n]]) + Skip(d) * Filtered(b, t, d)

---------------------------------------------------------------------------
(* selective_scan_chunked *)

None == -1

Clamped(size) == IF size < 1 THEN 1 ELSE size

Init ==
  /\ \E f \in [0 .. L - 1 -> [0 .. Di - 1 -> Deltas]] : delta = [b \in 0 .. Batch - 1 |-> f]
  /\ chunk \in {Clamped(size) : size \in ChunkSizes}
  /\ ch = 0 /\ stage = "load" /\ t0 = 0 /\ s = 0
  /\ h = [c \in 0 .. Batch * Di - 1 |-> [n \in 0 .. Ds - 1 |-> 0]]
  /\ hh = [n \in 0 .. Ds - 1 |-> 0]
  /\ Abar = [i \in 0 .. chunk - 1 |-> [n \in 0 .. Ds - 1 |-> 0]]
  /\ Bbar = Abar
  /\ y = [c \in 0 .. Batch * Di - 1 |-> [t \in 0 .. L - 1 |-> None]]

b_ == ch \div Di
d_ == ch % Di
Length == IF chunk < L - t0 THEN chunk ELSE L - t0

\* Mutant: a channel goes on from the state the one before it left.
LoadKept ==
  /\ stage = "load" /\ ch < Batch * Di
  /\ t0' = 0 /\ stage' = "discretize"
  /\ UNCHANGED <<delta, chunk, ch, s, h, hh, Abar, Bbar, y>>

Load ==
  /\ stage = "load" /\ ch < Batch * Di
  /\ hh' = h[ch]
  /\ t0' = 0 /\ stage' = "discretize"
  /\ UNCHANGED <<delta, chunk, ch, s, h, Abar, Bbar, y>>

\* The tables of the steps that are in the chunk.
Discretize ==
  /\ stage = "discretize" /\ t0 < L
  /\ Abar' = [i \in 0 .. chunk - 1 |->
                IF i < Length THEN [n \in 0 .. Ds - 1 |-> Exp(delta[b_][t0 + i][d_] * A(d_, n))]
                ELSE Abar[i]]
  /\ Bbar' = [i \in 0 .. chunk - 1 |->
                IF i < Length THEN [n \in 0 .. Ds - 1 |-> delta[b_][t0 + i][d_] * B(b_, t0 + i, n)]
                ELSE Bbar[i]]
  /\ s' = 0 /\ stage' = "step"
  /\ UNCHANGED <<delta, chunk, ch, t0, h, hh, y>>

\* One step: the carry, then the output from the new carry.
Step ==
  /\ stage = "step" /\ s < Length
  /\ LET xt == Conv1d(b_, t0 + s, d_)
         new == [n \in 0 .. Ds - 1 |-> Abar[s][n] * hh[n] + Bbar[s][n] * xt]
     IN  /\ hh' = new
         /\ y' = [y EXCEPT ![ch][t0 + s] =
                    SumFor([n \in 0 .. Ds - 1 |-> C(b_, t0 + s, n) * new[n]]) + Skip(d_) * xt]
  /\ s' = s + 1
  /\ UNCHANGED <<delta, chunk, ch, stage, t0, h, Abar, Bbar>>

NextChunk ==
  /\ stage = "step" /\ s = Length
  /\ t0' = t0 + chunk /\ stage' = IF t0 + chunk < L THEN "discretize" ELSE "store"
  /\ UNCHANGED <<delta, chunk, ch, s, h, hh, Abar, Bbar, y>>

Store ==
  /\ stage = "store"
  /\ h' = [h EXCEPT ![ch] = hh]
  /\ ch' = ch + 1 /\ stage' = "load"
  /\ UNCHANGED <<delta, chunk, t0, s, hh, Abar, Bbar, y>>

Next == Load \/ Discretize \/ Step \/ NextChunk \/ Store

Spec == Init /\ [][Next]_vars

---------------------------------------------------------------------------
(* Properties *)

\* The chunked scan over the convolved input has the numerics of the reference
\* over the filtered one, for any chunk size (ssm.hpp:52-53): every output
\* written so far, and the carry of every finished channel.
ChunkedMatchesRef ==
  \A c \in 0 .. Batch * Di - 1 :
    /\ \A t \in 0 .. L - 1 : y[c][t] # None => y[c][t] = RefOut(c \div Di, t, c % Di)
    /\ c < ch => h[c] = RefState(c \div Di, c % Di)[L - 1]
=============================================================================
