---------------------------- MODULE MCSmpWakeup ----------------------------
(* An instance of SmpWakeup for TLC. *)
EXTENDS SmpWakeup

CONSTANTS c1, c2, t1, t2

OneCache == [c \in CPUs |-> "llc0"]

\* One task that waits without regard to signals for I/O, and may exit, with everything that
\* can interfere; one whose wait a signal ends; and one that shares the CPUs with a task that
\* is always runnable.
SmpScenarios ==
    {[tasks |-> {t1}, waiters |-> {t1}, uninterruptible |-> {t1}, io |-> {t1}, mortal |-> {t1},
      signals |-> TRUE, balancing |-> TRUE, inspected |-> TRUE],
     [tasks |-> {t1}, waiters |-> {t1}, uninterruptible |-> {}, io |-> {}, mortal |-> {t1},
      signals |-> TRUE, balancing |-> FALSE, inspected |-> FALSE],
     [tasks |-> {t1, t2}, waiters |-> {t1}, uninterruptible |-> {t1}, io |-> {t1}, mortal |-> {},
      signals |-> FALSE, balancing |-> TRUE, inspected |-> FALSE]}
=============================================================================
