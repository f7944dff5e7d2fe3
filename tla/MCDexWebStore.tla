--------------------------- MODULE MCDexWebStore ----------------------------
(* DexWebStore for TLC. *)
EXTENDS DexWebStore, TLC

Symmetry == Permutations(Tasks) \union Permutations(Connections)
=============================================================================
