------------------------- MODULE IntentDispatchMC -------------------------
(* IntentDispatch on small instances.                                      *)
EXTENDS IntentDispatch, TLC

Symmetry == Permutations(Intents) \union Permutations(Owners)

Plain == {FALSE}
Both  == BOOLEAN

===========================================================================
