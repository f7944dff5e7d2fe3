------------------------- MODULE ConditionalObject --------------------------
(***************************************************************************)
(* One object of the project ObjectStore (projectconfig/storage.py, and    *)
(* storage.go in the Go SDK) as its writers see it: strongly consistent    *)
(* reads, create-only and compare-and-swap writes, and writes whose        *)
(* outcome is unknown.                                                     *)
(*                                                                         *)
(* A write of unknown outcome may have been applied, may never be applied, *)
(* or may still be on its way and arrive later.  The ETag of an S3 object  *)
(* is a digest of its contents, so a precondition is met again when the    *)
(* object returns to equal contents: the ETag is the contents here, the    *)
(* weakest token the interface allows.                                     *)
(***************************************************************************)
EXTENDS Integers, FiniteSets

CONSTANTS Absent,     \* the value of an object that was never created
          MaxLate     \* bound on the writes that are still on their way

ASSUME MaxLateAssumption == MaxLate \in Nat

VARIABLES object,     \* the current contents
          late        \* writes of unknown outcome that have not arrived yet

storeVars == <<object, late>>

StoreInit == object = Absent /\ late = {}

\* create_object is the case expected = Absent, compare_and_swap_object the others.
WriteAccepted(expected, contents) ==
    /\ object = expected
    /\ object' = contents
    /\ UNCHANGED late

\* ObjectConflictError: the precondition failed, or S3 saw a concurrent request for the key.
WriteRefused == UNCHANGED storeVars

\* OutcomeUnknownError.
WriteUnknown(expected, contents) ==
    \/ WriteAccepted(expected, contents)
    \/ UNCHANGED storeVars
    \/ /\ Cardinality(late) < MaxLate
       /\ late' = late \union {[expected |-> expected, contents |-> contents]}
       /\ UNCHANGED object

\* A late write meets its precondition or is refused without anybody noticing.
LateWriteArrives ==
    \E w \in late :
        /\ late' = late \ {w}
        /\ object' = IF object = w.expected THEN w.contents ELSE object
=============================================================================
