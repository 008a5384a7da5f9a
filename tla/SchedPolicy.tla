---------------------------- MODULE SchedPolicy ----------------------------
(***************************************************************************)
(* Scheduling policies, classes and priorities: the predicates of          *)
(* kernel/sched/sched.h, the order of the classes that the linker script   *)
(* fixes, and the mapping from a policy to a priority and a class          *)
(* (kernel/sched/core.c).                                                  *)
(***************************************************************************)
EXTENDS Integers, Sequences

MAX_RT_PRIO == 100
DEFAULT_PRIO == 120
MAX_DL_PRIO == 0

Policy == {"NORMAL", "BATCH", "IDLE", "FIFO", "RR", "DEADLINE", "LOTTERY"}

\* sched_setparam() and SCHED_FLAG_KEEP_POLICY pass -1: keep the policy.
SETPARAM_POLICY == "SETPARAM"

idle_policy(policy) == policy = "IDLE"
fair_policy(policy) == policy \in {"NORMAL", "BATCH"}
rt_policy(policy) == policy \in {"FIFO", "RR"}
dl_policy(policy) == policy = "DEADLINE"
ltr_policy(policy) == policy = "LOTTERY"

valid_policy(policy) ==
    idle_policy(policy) \/ fair_policy(policy) \/ rt_policy(policy) \/ dl_policy(policy)
    \/ ltr_policy(policy)

NICE_TO_PRIO(nice) == nice + DEFAULT_PRIO
PRIO_TO_NICE(prio) == prio - DEFAULT_PRIO

dl_prio(prio) == prio < MAX_DL_PRIO
rt_prio(prio) == prio < MAX_RT_PRIO

__normal_prio(policy, rt_priority, nice) ==
    IF dl_policy(policy) THEN MAX_DL_PRIO - 1
    ELSE IF rt_policy(policy) THEN MAX_RT_PRIO - 1 - rt_priority
    ELSE NICE_TO_PRIO(nice)

(***************************************************************************)
(* SCHED_DATA places the classes in this order.  A pointer comparison of   *)
(* two classes compares their places, and for_each_class walks from the    *)
(* end.                                                                    *)
(***************************************************************************)
SchedClasses == <<"idle", "fair", "rt", "dl", "stop", "lottery">>

Rank(class) == CHOOSE i \in 1 .. Len(SchedClasses) : SchedClasses[i] = class

\* The class __setscheduler_prio gives a task.
class_of(policy, prio) ==
    IF ltr_policy(policy) THEN "lottery"
    ELSE IF dl_prio(prio) THEN "dl"
    ELSE IF rt_prio(prio) THEN "rt"
    ELSE "fair"
============================================================================
