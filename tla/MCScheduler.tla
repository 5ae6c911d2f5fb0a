----------------------------- MODULE MCScheduler -----------------------------
(* Instances of Scheduler for TLC. *)
EXTENDS Scheduler, TLC

\* A job of two tasks: Parent waits for the other one.
Parent      == CHOOSE t \in Tasks : TRUE
Chain       == {Parent} \X (Tasks \ {Parent})

OneShot     == [t \in Tasks |-> 1]
RunTwice    == [t \in Tasks |-> 2]
ChildTwice  == [t \in Tasks |-> IF t = Parent THEN 1 ELSE 2]
NoRetry     == [t \in Tasks |-> 0]
RetryOnce   == [t \in Tasks |-> 1]

Symmetry    == Permutations(Workers)
=============================================================================
