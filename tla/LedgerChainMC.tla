-------------------------- MODULE LedgerChainMC --------------------------
(* LedgerChain on small instances.                                         *)
EXTENDS LedgerChain, TLC

Symmetry == Permutations(Contents) \union Permutations(Labels)

===========================================================================
