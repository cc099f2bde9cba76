-------------------------------- MODULE TopK --------------------------------
(***************************************************************************)
(* topk and argmax of reduction.cpp, and the row of moe_router that keeps  *)
(* a heap in the same way and turns what it keeps into gates.              *)
(*                                                                         *)
(* The heap is a set of pairs.  Its front is a smallest pair by value;     *)
(* which one of several, std::push_heap and std::pop_heap leave open, and  *)
(* so does the model.                                                      *)
(***************************************************************************)
EXTENDS Attention

CONSTANTS Rows, Dims, Ks  \* shapes of the calls

ASSUME TopKAssumption == Rows \in Nat /\ Dims \subseteq Int /\ Ks \subseteq Int

Scores == NegInf .. MaxScore

VARIABLES values, dim, keep, \* the call: x, its second dimension, and k
          line, scan,        \* the row at work, and its elements scanned
          heap,
          picked             \* out_val and out_idx, by address

topKVars == <<values, dim, keep, line, scan, heap, picked>>

\* k as the call clamps it; 0 stands for a call that returns at once.
Kept == IF keep <= 0 \/ dim <= 0 THEN 0 ELSE Smaller(keep, dim)

\* argmax of a row of n: a strictly greater value takes over.
Argmax(xr, n) ==
  LET best[j \in 0 .. n] ==
        IF j = 0 THEN [m |-> NegInf, idx |-> 0]
        ELSE IF xr[j - 1] > best[j - 1].m THEN [m |-> xr[j - 1], idx |-> j - 1]
        ELSE best[j - 1]
  IN  best[n].idx

\* Mutant: the comparator of the heap is the other way round.
FrontsLargest == {p \in heap : \A p2 \in heap : p[1] >= p2[1]}

\* The pairs that may be at the front of the heap.
Fronts == {p \in heap : \A p2 \in heap : p[1] <= p2[1]}

\* The order of the result, and what is left in the heap in that order.
Before(a, b) == a[1] > b[1] \/ (a[1] = b[1] /\ a[2] < b[2])
Sorted(h) ==
  CHOOSE s \in [1 .. Cardinality(h) -> h] :
    Range(s) = h /\ \A m, n \in DOMAIN s : m < n => Before(s[m], s[n])

---------------------------------------------------------------------------

TopKInit ==
  /\ dim \in Dims /\ keep \in Ks
  /\ values \in [0 .. Rows - 1 -> [0 .. dim - 1 -> Scores]]
  /\ line = 0 /\ scan = 0 /\ heap = {} /\ picked = <<>>

Scanning == line < Rows /\ Kept > 0 /\ scan < dim

Push ==
  /\ Scanning /\ Cardinality(heap) < Kept
  /\ heap' = heap \cup {<<values[line][scan], scan>>}
  /\ scan' = scan + 1
  /\ UNCHANGED <<values, dim, keep, line, picked>>

Beats(front) ==
  \/ values[line][scan] > front[1]
  \/ values[line][scan] = front[1] /\ scan < front[2]

Replace ==
  /\ Scanning /\ Cardinality(heap) = Kept
  /\ \E front \in Fronts :
       heap' = IF Beats(front) THEN (heap \ {front}) \cup {<<values[line][scan], scan>>}
               ELSE heap
  /\ scan' = scan + 1
  /\ UNCHANGED <<values, dim, keep, line, picked>>

WriteRow ==
  /\ line < Rows /\ Kept > 0 /\ scan = dim
  /\ LET base == line * Kept
     IN  picked' = [a \in 0 .. base + Kept - 1 |->
                      IF a < base THEN picked[a] ELSE Sorted(heap)[a - base + 1]]
  /\ line' = line + 1 /\ scan' = 0 /\ heap' = {}
  /\ UNCHANGED <<values, dim, keep>>

TopKNext == Push \/ Replace \/ WriteRow

TopKSpec == TopKInit /\ [][TopKNext]_topKVars

---------------------------------------------------------------------------
(* The gates of moe_router for a row of logits of which s is kept, relative *)
(* to their sum. *)

Gates(xr, s, renorm) ==
  LET w == Softmax(xr, IF renorm THEN {s[j][2] : j \in DOMAIN s} ELSE DOMAIN xr)
  IN  [gate |-> [j \in DOMAIN s |-> Exp(s[j][1], w.m)], sum |-> w.l]

---------------------------------------------------------------------------
(* Properties *)

\* What the heap holds of a row so far is the k largest values of it: nothing
\* it dropped is larger than anything it keeps.
KeepsLargest ==
  /\ heap \subseteq {<<values[line][j], j>> : j \in 0 .. scan - 1}
  /\ Cardinality(heap) = Smaller(scan, Kept)
  /\ \A j \in 0 .. scan - 1, p \in heap :
       <<values[line][j], j>> \notin heap => values[line][j] <= p[1]

\* "Output is in sorted-descending order", and its head is what argmax picks,
\* even between equal values: greedy decoding and top-k agree.
TopIsArgmax ==
  \A r \in 0 .. line - 1 :
    /\ picked[r * Kept][2] = Argmax(values[r], dim)
    /\ \A a \in r * Kept + 1 .. (r + 1) * Kept - 1 : Before(picked[a - 1], picked[a])

\* Renormalised gates sum to one, and choosing before the softmax gives the
\* same proportions as choosing after it.
GatesProportional ==
  \A r \in 0 .. line - 1 :
    LET s   == [j \in 0 .. Kept - 1 |-> picked[r * Kept + j]]
        new == Gates(values[r], s, TRUE)
        raw == Gates(values[r], s, FALSE)
    IN  values[r][Argmax(values[r], dim)] # NegInf =>
          /\ SumFunction(new.gate) = new.sum
          /\ SumFunction(raw.gate) <= raw.sum
          /\ \A a, b \in DOMAIN s : new.gate[a] * raw.gate[b] = new.gate[b] * raw.gate[a]

\* Top-k and the router keep the largest of what they scanned, in order, with
\* the head that argmax picks, and the gates of what is kept are in proportion
\* to their probabilities, renormalised or not.
RoutingKeepsBest == KeepsLargest /\ TopIsArgmax /\ GatesProportional
=============================================================================
