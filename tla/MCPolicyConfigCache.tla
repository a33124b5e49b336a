------------------------ MODULE MCPolicyConfigCache ------------------------
(***************************************************************************)
(* PolicyConfigCache on a small instance.  Three policies of different     *)
(* sizes: two entries fit together unless both are large.                  *)
(***************************************************************************)
EXTENDS PolicyConfigCache, TLC

CONSTANTS small, large, huge

MCEntrySize == [kc \in Keys \X Configs |->
  CASE kc[2] = large -> 2 [] kc[2] = huge -> 4 [] OTHER -> 1]

Symmetry == Permutations(Callers) \union Permutations(Loads)
=============================================================================
