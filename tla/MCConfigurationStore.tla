------------------------ MODULE MCConfigurationStore ------------------------
(* ConfigurationStore for TLC.                                             *)
EXTENDS ConfigurationStore, TLC

CONSTANTS w1, w2, k1, k2

MCWriters == {w1, w2}
MCKeys == {k1, k2}
Symmetry == Permutations(MCWriters) \union Permutations(MCKeys)
=============================================================================
