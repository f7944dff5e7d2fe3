---------------------------- MODULE EventLedger -----------------------------
(***************************************************************************)
(* What durable Trigger delivery promises, with replicas, storage and      *)
(* locks left out: an event is acknowledged to its provider only once it   *)
(* is recorded, reaches the application only once it is recorded, and is   *)
(* forgotten only once the application consumed it.                        *)
(***************************************************************************)
CONSTANT Events

VARIABLES pending,    \* recorded and not yet forgotten
          acked,      \* acknowledged to the provider
          consumed    \* consumed by the application

ledgerVars == <<pending, acked, consumed>>

Init == pending = {} /\ acked = {} /\ consumed = {}

Record(e) ==
    /\ pending' = pending \union {e}
    /\ UNCHANGED <<acked, consumed>>

Acknowledge(e) ==
    /\ e \in pending \union consumed
    /\ acked' = acked \union {e}
    /\ UNCHANGED <<pending, consumed>>

Consume(e) ==
    /\ e \in pending
    /\ consumed' = consumed \union {e}
    /\ UNCHANGED <<pending, acked>>

Forget(e) ==
    /\ e \in consumed
    /\ pending' = pending \ {e}
    /\ UNCHANGED <<acked, consumed>>

Next == \E e \in Events : Record(e) \/ Acknowledge(e) \/ Consume(e) \/ Forget(e)

Spec == Init /\ [][Next]_ledgerVars
=============================================================================
