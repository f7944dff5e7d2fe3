------------------------- MODULE MCTriggerDelivery --------------------------
(* TLC instance of TriggerDelivery. Replicas are interchangeable. *)
EXTENDS TriggerDelivery, TLC
ReplicaSymmetry == Permutations(Replicas)
=============================================================================
