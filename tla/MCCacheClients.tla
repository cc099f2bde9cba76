--------------------------- MODULE MCCacheClients ---------------------------
(***************************************************************************)
(* CacheClients for TLC.  The bounds are constants, given by the cfg:      *)
(* tables grow to MaxTokens \div BlockSize = MaxTable entries by growth    *)
(* and by sharing alike.                                                   *)
(***************************************************************************)
EXTENDS CacheClients

ASSUME BoundsAgree == MaxTokens = MaxTable * BlockSize

\* A caller that may also point an entry at the block it already names, as a
\* prefix-cache hit does when it is applied twice.
RepeatSpec ==
  Init /\ [][ \/ Next
              \/ \E id \in Live, idx \in 0 .. MaxTable - 1, b \in Block :
                   Point(id, idx, b) ]_vars
=============================================================================
