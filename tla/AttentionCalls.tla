--------------------------- MODULE AttentionCalls ---------------------------
(***************************************************************************)
(* The kernels around attention, called by a caller that uses one of them: *)
(* attention itself, tiled and split; a sequence decoded in pieces through *)
(* the dense, paged and int8 caches; the mask of a tree of drafts; rotary  *)
(* embedding and ALiBi.  The kernels keep no state between calls and share *)
(* none, so nothing is lost by looking at one kernel in each behaviour;    *)
(* `kernel' says which.  Each has its own variables, idle when not used.   *)
(***************************************************************************)
EXTENDS FlashDecode, ChunkedDecode, TreeBias, Positional

VARIABLE kernel

allVars == <<kernel, vars, chunkedVars, treeVars, rotaryVars>>

None == "none"

\* Quarter turns per position of the two pairs of a head.
PairFreqs == {<<1, 0>>, <<1, 2>>, <<3, 1>>}

FlashIdle ==
  /\ q = [seq_k |-> 0] /\ pc = "idle" /\ split = 0 /\ j0 = 0
  /\ part = None /\ merged = None /\ added = <<>>

ChunkedIdle ==
  /\ ChunkedInit /\ cfg.window = 0 /\ cfg.chunk = 0
  /\ \A b \in 1 .. NumBlocks : table[b] = b - 1

\* One node, without a history.
TreeIdle ==
  /\ parents = [c \in {0} |-> -1] /\ n_history = 0 /\ self_loops = FALSE
  /\ bias_out = [c \in Nodes |-> Blank] /\ row = 0 /\ node = 0

RotaryIdle == RotaryInit /\ freq = <<1, 0>> /\ freq_scale = 1 /\ ~ interleaved

CallInit ==
  \/ kernel = "flash" /\ ChunkedIdle /\ TreeIdle /\ RotaryIdle /\ Init
  \/ kernel = "chunked" /\ FlashIdle /\ TreeIdle /\ RotaryIdle /\ ChunkedInit
  \/ kernel = "tree" /\ FlashIdle /\ ChunkedIdle /\ RotaryIdle /\ TreeInit
  \/ kernel = "rotary" /\ FlashIdle /\ ChunkedIdle /\ TreeIdle /\ RotaryInit

CallFlash ==
  kernel = "flash" /\ Next /\ UNCHANGED <<kernel, chunkedVars, treeVars, rotaryVars>>
CallChunked ==
  kernel = "chunked" /\ ChunkedNext /\ UNCHANGED <<kernel, vars, treeVars, rotaryVars>>
CallTree ==
  kernel = "tree" /\ TreeNext /\ UNCHANGED <<kernel, vars, chunkedVars, rotaryVars>>
CallRotary ==
  kernel = "rotary" /\ RotaryNext /\ UNCHANGED <<kernel, vars, chunkedVars, treeVars>>

CallNext == CallFlash \/ CallChunked \/ CallTree \/ CallRotary

CallSpec == CallInit /\ [][CallNext]_allVars
=============================================================================
