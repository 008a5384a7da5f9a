----------------------------- MODULE MCAffinity -----------------------------
(* An instance of Affinity for TLC. *)
EXTENDS Affinity

CONSTANTS k1, k2

\* Two callers from outside, or one and P itself; with migrate-disabled regions and without.
AffinityScenarios == [self : {None, k2}, nesting : {0, 2}]
=============================================================================
