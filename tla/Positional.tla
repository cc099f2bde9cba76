----------------------------- MODULE Positional -----------------------------
(***************************************************************************)
(* Positional schemes (kernels/positional.cpp, kernels/rope.cpp), ALiBi    *)
(* bias and rotary embedding, called as prefill and decode call them: a    *)
(* sequence is rotated and cached chunk by chunk, each at the position it  *)
(* starts at, and biased against all that is cached.  Angles are quarter   *)
(* turns.                                                                  *)
(***************************************************************************)
EXTENDS Integers, Sequences

CONSTANTS MaxLen, Freqs, FreqScales

VARIABLES freq, freq_scale, interleaved,  \* the model
          ks, qs,                         \* rotated keys and queries so far
          bias                            \* row of distances of each query

rotaryVars == <<freq, freq_scale, interleaved, ks, qs, bias>>

Abs(n) == IF n < 0 THEN -n ELSE n
Clamp(n) == IF n < 0 THEN 0 ELSE n

---------------------------------------------------------------------------
(* ALiBi *)

QPos(seq_q, seq_k, i) == (seq_k - seq_q) + i

\* alibi_bias of one head, without its factor -slope.
AlibiBias(seq_q, seq_k, causal) ==
  [i \in 0 .. seq_q - 1 |-> [j \in 0 .. seq_k - 1 |->
     LET delta == QPos(seq_q, seq_k, i) - j
     IN  IF causal THEN Clamp(delta) ELSE Abs(delta)]]

---------------------------------------------------------------------------
(* Rotary embedding.  freq[i] is the angle of pair i per position.  Rows   *)
(* are vectors of one head. *)

Cos(angle) == CASE angle % 4 = 0 -> 1 [] angle % 4 = 2 -> -1 [] OTHER -> 0
Sin(angle) == Cos(angle - 1)

\* Mutant: the second element is rotated with the new first one.
RotatedPairInPlace(v, lo, hi, angle) ==
  LET a == v[lo] * Cos(angle) - v[hi] * Sin(angle)
  IN  [v EXCEPT ![lo] = a, ![hi] = a * Sin(angle) + v[hi] * Cos(angle)]

\* The pair rotated by an angle.
RotatedPair(v, lo, hi, angle) ==
  [v EXCEPT ![lo] = v[lo] * Cos(angle) - v[hi] * Sin(angle),
            ![hi] = v[lo] * Sin(angle) + v[hi] * Cos(angle)]

\* Where pair i of a vector of dimension d is.
PairLo(i, d) == IF interleaved THEN 2 * i ELSE i
PairHi(i, d) == IF interleaved THEN 2 * i + 1 ELSE i + d \div 2

\* Pairs 0 .. n - 1 rotated, each by its angle.
Rotated(v, angles) ==
  LET d == Len(angles) * 2
      at[n \in 0 .. Len(angles)] ==
        IF n = 0 THEN v
        ELSE RotatedPair(at[n - 1], PairLo(n - 1, d), PairHi(n - 1, d),
                         angles[n])
  IN  at[Len(angles)]

\* rope_ref: the angle is computed for each row.
RopeRef(x, pos_offset) ==
  [s \in DOMAIN x |->
     Rotated(x[s], [i \in DOMAIN freq |-> ((pos_offset + s) * freq_scale) * freq[i]])]

TablePos(pos_offset, s) == pos_offset + s

\* rope: the angles of all positions are in a table, one row of it per row.
Rope(x, pos_offset) ==
  LET tab == [s \in DOMAIN x |-> [i \in DOMAIN freq |-> (TablePos(pos_offset, s) * freq_scale) * freq[i]]]
  IN  [s \in DOMAIN x |-> Rotated(x[s], tab[s])]

---------------------------------------------------------------------------
(* A sequence in chunks *)

\* Keys and queries before rotation, all different.
Key(i) == [n \in 0 .. 3 |-> 1 + i * (n + 1)]
Query(i) == [n \in 0 .. 3 |-> 2 * n - 3 * i]

RotaryInit ==
  /\ freq \in Freqs /\ freq_scale \in FreqScales /\ interleaved \in BOOLEAN
  /\ ks = <<>> /\ qs = <<>> /\ bias = <<>>

\* m tokens more.
Feed(m) ==
  LET len  == Len(ks)
      Rows(f) == [s \in 0 .. m - 1 |-> f[len + s]]
      k    == Rope(Rows([i \in 0 .. MaxLen |-> Key(i)]), len)
      q    == Rope(Rows([i \in 0 .. MaxLen |-> Query(i)]), len)
      rows == AlibiBias(m, len + m, TRUE)
  IN  /\ len + m <= MaxLen
      /\ ks' = ks \o [s \in 1 .. m |-> k[s - 1]]
      /\ qs' = qs \o [s \in 1 .. m |-> q[s - 1]]
      /\ bias' = bias \o [s \in 1 .. m |-> rows[s - 1]]
      /\ UNCHANGED <<freq, freq_scale, interleaved>>

RotaryNext == \E m \in 1 .. MaxLen : Feed(m)

RotarySpec == RotaryInit /\ [][RotaryNext]_rotaryVars

---------------------------------------------------------------------------
(* Properties *)

Dot(v, w) == v[0] * w[0] + v[1] * w[1] + v[2] * w[2] + v[3] * w[3]

\* However it was cut, the cache holds the rows that rope_ref makes of the
\* whole sequence at once, and a query's biases are its row of the whole
\* bias, as far as it sees.
ChunksMatchWhole ==
  LET n     == Len(ks)
      whole == RopeRef([s \in 0 .. n - 1 |-> Key(s)], 0)
      rows  == AlibiBias(n, n, TRUE)
  IN  \A i \in 1 .. n :
        /\ ks[i] = whole[i - 1]
        /\ \A j \in DOMAIN bias[i] : bias[i][j] = rows[i - 1][j]

\* Scores depend on the distance alone: a query scores a cached key as if the
\* key were at position 0 and the query at their distance.
ScoresRelative ==
  \A i, j \in 1 .. Len(ks) :
    LET q == RopeRef([s \in {0} |-> Query(i - 1)], i - j)[0]
    IN  Dot(qs[i], ks[j]) = Dot(q, Key(j - 1))

\* Rows rotated as they arrive are those of rope_ref on the whole sequence,
\* with the biases of the whole, and their scores depend on distance alone.
PositionsRelative == ChunksMatchWhole /\ ScoresRelative
=============================================================================
