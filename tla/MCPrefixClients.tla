-------------------------- MODULE MCPrefixClients --------------------------
(***************************************************************************)
(* PrefixClients for TLC: prompts of one and two blocks that share a first *)
(* block, one that ends between blocks, and one that shares nothing.       *)
(***************************************************************************)
EXTENDS PrefixClients

SharedPrompts == {<<1, 2, 1, 1>>, <<1, 2, 1, 2>>, <<1, 2, 1>>, <<2, 2>>}
=============================================================================
