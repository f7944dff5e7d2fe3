------------------------ MODULE MCCredentialExchange ------------------------
(* TLC instance of CredentialExchange. Callers are interchangeable. *)
EXTENDS CredentialExchange, TLC
CallerSymmetry == Permutations(Callers)
=============================================================================
