--------------------------- MODULE MCCopyProcess ----------------------------
(* An instance of CopyProcess for TLC. *)
EXTENDS CopyProcess

CONSTANTS s1, t1, t2, t3

Thread == {"THREAD", "SIGHAND", "VM", "FILES", "FS"}

\* Threads and processes that share some structures, a sibling and flags that are refused, with
\* references to task_structs; threads and processes that get signals; and such that install filters.
ForkScenarios ==
    {[flags |-> {Thread, {"FS", "PIDFD"}, {"VM", "PARENT"}, {"THREAD", "SIGHAND"}}, events |-> {"refs"}, forks |-> 2],
     [flags |-> {Thread, {}}, events |-> {"signal", "kill"}, forks |-> 2],
     [flags |-> {Thread, {}}, events |-> {"seccomp", "namespace"}, forks |-> 2]}
=============================================================================
