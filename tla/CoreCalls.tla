----------------------------- MODULE CoreCalls -----------------------------
(***************************************************************************)
(* What the kernels stand on: tensors and their allocators, the profiler   *)
(* and the tracer, the storage formats of floats, the transforms of        *)
(* layout, and rows by index.  None of them calls another or shares state  *)
(* with it, so a behavior uses one; `facility' says which.  The variables  *)
(* of Tensors and Profiling are their own, and stay as they began when     *)
(* they are not used; those of the others are in slots, None when not      *)
(* used.                                                                   *)
(***************************************************************************)
EXTENDS Tensors, Profiling, TLC

VARIABLES facility, s1, s2, s3, s4

slots == <<s1, s2, s3, s4>>
own == <<vars, profilingVars>>
allVars == <<facility, own, slots>>

None == "none"

\* Fields of the numbers to store: the ends of the range of each format and
\* of its subnormal numbers; mantissas at and next to the ends, the powers of
\* two and the halfway points.
EdgeExps == {0, 1, 254, 255}
              \cup (101 .. 104) \cup (109 .. 114) \cup (116 .. 121) \cup {127}
              \cup (134 .. 136) \cup (141 .. 143)
Edges == UNION {{2 ^ n, 3 * 2 ^ n, 2 ^ 23 - 2 ^ n} : n \in 0 .. 21}
EdgeMants == {m \in UNION {{e - 1, e, e + 1} : e \in Edges} : m \in 0 .. 2 ^ 23 - 1}

Storage == INSTANCE FloatStorage WITH
  Types <- {"half", "bf16", "e4m3", "e5m2"}, Exps <- EdgeExps, Mants <- EdgeMants,
  x <- s1, type <- s2, bits <- s3, y <- s4

Moves == INSTANCE Transforms WITH
  Tile <- 2, MaxDim <- 3, Ranks <- {1, 2, 3}, MaxOps <- 4,
  parts <- s1, axis <- s2, order <- s3, ops <- s4

\* One index below the table and one above.
Rows == INSTANCE RowTable WITH
  Vocab <- 3, Ids <- -1 .. 3, Xs <- {-1, 2}, BatchSizes <- {1, 2}, MaxBatches <- 2,
  y <- s1, batch <- s2, sums <- s3, n <- s4

TensorsIdle ==
  /\ Init
  /\ \A a \in Addresses : held[a] = 0
  /\ \A i \in DOMAIN bytes : bytes[i] = 0

NoSlots == s1 = None /\ s2 = None /\ s3 = None /\ s4 = None

CallInit ==
  \/ facility = "tensors" /\ ProfilingInit /\ Init /\ NoSlots
  \/ facility = "profiling" /\ TensorsIdle /\ ProfilingInit /\ NoSlots
  \/ /\ TensorsIdle /\ ProfilingInit
     /\ \/ facility = "storage" /\ Storage!Init
        \/ facility = "moves" /\ Moves!Init
        \/ facility = "rows" /\ Rows!Init

UseTensors ==
  facility = "tensors" /\ Next /\ UNCHANGED <<facility, profilingVars, slots>>
UseProfiling ==
  facility = "profiling" /\ ProfilingNext /\ UNCHANGED <<facility, vars, slots>>
UseStorage == facility = "storage" /\ Storage!Next /\ UNCHANGED <<facility, own>>
UseMoves == facility = "moves" /\ Moves!Next /\ UNCHANGED <<facility, own>>
UseRows == facility = "rows" /\ Rows!Next /\ UNCHANGED <<facility, own>>

CallNext ==
  UseTensors \/ UseProfiling \/ UseStorage \/ UseMoves \/ UseRows

CallSpec == CallInit /\ [][CallNext]_allVars

Symmetry == Permutations(Names) \cup Permutations(Addresses)

---------------------------------------------------------------------------
(* Properties, beside those of the modules it extends *)

\* fp32 stored in any of the four short types is rounded to nearest even at
\* every boundary of the formats (but for the fp8 flush), and what was loaded
\* is stored back unchanged, through any sequence of types.
StoredNearest == facility = "storage" => Storage!StoredNearest /\ Storage!ReloadExact

\* Any sequence of permute, transpose2d, split and concat leaves each element
\* where TensorView finds its index; rows scattered by index add up, whatever
\* indices repeat or are out of range, and gather is the adjoint.
ElementsTracked ==
  /\ facility = "moves" => Moves!ElementsTracked
  /\ facility = "rows" => Rows!RowsAccumulate /\ Rows!GatherAdjoint
=============================================================================
