------------------------------ MODULE MCUClamp ------------------------------
(* An instance of UClamp for TLC. *)
EXTENDS UClamp, TLC

CONSTANT g1 \* a group below Root

OneGroup == g1 :> Root

\* A request for SCHED_LOTTERY with a minimum and SCHED_FLAG_KEEP_PARAMS.
SomeAttrs == {[MIN |-> 2, MAX |-> Keep, reset |-> FALSE, params |-> FALSE]}

Symmetry == Permutations(Task)
=============================================================================
