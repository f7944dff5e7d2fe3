------------------------- MODULE MCSharedConnection -------------------------
(* TLC instance of SharedConnection. Calls are interchangeable. *)
EXTENDS SharedConnection, TLC
CallSymmetry == Permutations(Calls)
=============================================================================
