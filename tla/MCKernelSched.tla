--------------------------- MODULE MCKernelSched ---------------------------
(* Small instances of KernelSched for TLC. *)
EXTENDS KernelSched, TLC

\* sched_setscheduler(p, SCHED_LOTTERY) by a privileged caller.
SetLottery ==
    [form |-> "setscheduler", policy |-> "LOTTERY", priority |-> 0, nice |-> 0, reset |-> FALSE,
     keep |-> FALSE, capable |-> TRUE]

\* The same with SCHED_RESET_ON_FORK; and by a caller without CAP_SYS_NICE.
SetLotteryReset == [SetLottery EXCEPT !.reset = TRUE]
AskLottery == [SetLottery EXCEPT !.capable = FALSE]

\* sched_set_fifo, which is refused.
SetFifo == [SetLottery EXCEPT !.policy = "FIFO", !.priority = MAX_RT_PRIO \div 2]

\* sched_setattr with SCHED_FLAG_KEEP_POLICY and SCHED_FLAG_KEEP_PARAMS.
KeepAll == [SetLottery EXCEPT !.form = "setattr", !.policy = SETPARAM_POLICY, !.keep = TRUE]

\* sched_setscheduler(p, SCHED_NORMAL).
BackToNormal == [SetLottery EXCEPT !.policy = "NORMAL"]

SomeRequests == {SetLotteryReset, AskLottery, SetFifo, KeepAll}
LotteryRequests == {SetLottery, BackToNormal}

\* Reset-on-fork treats negative nice values apart.
SomeNices == {-1}

Symmetry == Permutations(Task)
============================================================================
