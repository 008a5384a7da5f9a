------------------------- MODULE MCKernelScenarios -------------------------
(***************************************************************************)
(* An instance of KernelSched for TLC that joins two small ones; their     *)
(* product would be too large.                                             *)
(***************************************************************************)
EXTENDS MCKernelSched

\* The slots a behaviour uses.  Two processes wait, fork and are reniced; three fork in both ways and
\* change their policies in all ways, but neither wait nor are reniced.
VARIABLE slots

Calls(op) == {call[t] : t \in {u \in Task : call[u].op = op}}

Waits ==
    /\ \A c \in Calls("fork") : c.p \in slots /\ c.kind = "clone"
    /\ \A c \in Calls("setsched") : c.attr.reset

Forks ==
    /\ waking = {} /\ Calls("wait") = {}
    /\ \A p \in Task : task[p].static_prio = DEFAULT_PRIO

Allowed ==
    /\ Cardinality(slots) = 2 => Waits
    /\ Cardinality(slots) = 3 => Forks

MCInit == Init /\ slots \in {s \in SUBSET Task : Cardinality(s) >= 2 /\ \A p \in Task \ s : Unused(p)} /\ Allowed
MCNext == UNCHANGED slots /\ Next /\ Allowed'
MCSpec == MCInit /\ [][MCNext]_<<vars, slots>>
============================================================================
