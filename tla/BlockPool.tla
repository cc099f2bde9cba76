------------------------------ MODULE BlockPool ------------------------------
(***************************************************************************)
(* What the cache manager promises, with neither counts nor a free list:   *)
(* requests whose tables name blocks, callers that hold blocks, and two    *)
(* rules: a block given out as fresh is one that no table names and nobody *)
(* holds, and a table grows all the way to a new length or not at all.     *)
(* CacheClients is shown to implement it.                                  *)
(***************************************************************************)
EXTENDS Integers, Sequences

CONSTANTS NumBlocks, BlockSize

VARIABLES table,  \* table[r] for each live request r
          length, \* length[r]: tokens of each live request
          held    \* held[b]: references on b owned outside requests

poolVars == <<table, length, held>>

Blocks == 0 .. NumBlocks - 1

Named(b) == \E r \in DOMAIN table : \E i \in DOMAIN table[r] : table[r][i] = b

Unreferenced(b) == held[b] = 0 /\ ~ Named(b)

PoolInit ==
  /\ table = [r \in {} |-> <<>>] /\ length = [r \in {} |-> 0]
  /\ held = [b \in Blocks |-> 0]

\* A request with no blocks appears under an id that is not in use.
Open(r) ==
  /\ r \notin DOMAIN table
  /\ table' = [q \in DOMAIN table \cup {r} |-> IF q = r THEN <<>> ELSE table[q]]
  /\ length' = [q \in DOMAIN table \cup {r} |-> IF q = r THEN 0 ELSE length[q]]
  /\ UNCHANGED held

Close(r) ==
  /\ table' = [q \in DOMAIN table \ {r} |-> table[q]]
  /\ length' = [q \in DOMAIN table \ {r} |-> length[q]]
  /\ UNCHANGED held

OnlyLengthOf(r) ==
  /\ DOMAIN length' = DOMAIN length
  /\ \A q \in DOMAIN length \ {r} : length'[q] = length[q]

\* A request whose blocks suffice has a new length.
Resize(r) ==
  /\ OnlyLengthOf(r)
  /\ length'[r] <= Len(table[r]) * BlockSize
  /\ UNCHANGED <<table, held>>

\* A table grows by distinct blocks that were unreferenced, to the fewest
\* that hold the request's new length: never a part of them.
Extend(r) ==
  /\ OnlyLengthOf(r)
  /\ (Len(table'[r]) - 1) * BlockSize < length'[r]
  /\ length'[r] <= Len(table'[r]) * BlockSize
  /\ DOMAIN table' = DOMAIN table
  /\ \A q \in DOMAIN table \ {r} : table'[q] = table[q]
  /\ Len(table'[r]) > Len(table[r])
  /\ \A i \in DOMAIN table'[r] :
       IF i <= Len(table[r])
       THEN table'[r][i] = table[r][i]
       ELSE /\ table'[r][i] \in Blocks
            /\ Unreferenced(table'[r][i])
            /\ \A j \in DOMAIN table'[r] : table'[r][j] = table'[r][i] => j = i
  /\ UNCHANGED held

\* One entry comes to name a block that was in use; entries skipped on the
\* way name none.
Point(r) ==
  /\ DOMAIN table' = DOMAIN table
  /\ \A q \in DOMAIN table \ {r} : table'[q] = table[q]
  /\ Len(table'[r]) >= Len(table[r])
  /\ \E i \in DOMAIN table'[r] :
       /\ table'[r][i] \in Blocks
       /\ ~ Unreferenced(table'[r][i])
       /\ \A j \in DOMAIN table'[r] \ {i} :
            table'[r][j] = IF j <= Len(table[r]) THEN table[r][j] ELSE -1
  /\ UNCHANGED <<length, held>>

TakeFresh(b) ==
  /\ Unreferenced(b)
  /\ held' = [held EXCEPT ![b] = 1]
  /\ UNCHANGED <<table, length>>

Hold(b) ==
  /\ ~ Unreferenced(b)
  /\ held' = [held EXCEPT ![b] = @ + 1]
  /\ UNCHANGED <<table, length>>

Unhold(b) ==
  /\ held[b] > 0
  /\ held' = [held EXCEPT ![b] = @ - 1]
  /\ UNCHANGED <<table, length>>

PoolNext ==
  \/ \E r \in DOMAIN table' : Open(r)
  \/ \E r \in DOMAIN table : Close(r) \/ Resize(r) \/ Extend(r) \/ Point(r)
  \/ \E b \in Blocks : TakeFresh(b) \/ Hold(b) \/ Unhold(b)

Spec == PoolInit /\ [][PoolNext]_poolVars
=============================================================================
