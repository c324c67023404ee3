------------------------------ MODULE MCDexSwap ------------------------------
(* DexSwap with every combination of what may happen to the purchase.      *)
EXTENDS DexSwap

MCFaultSets == SUBSET {"rivals", "evictions", "calls", "replies"}
=============================================================================
