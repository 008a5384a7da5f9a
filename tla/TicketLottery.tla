--------------------------- MODULE TicketLottery ---------------------------
(***************************************************************************)
(* What the lottery class promises, without queue, counters or random      *)
(* numbers: the runnable lottery tasks are the contenders; every draw is   *)
(* won by a contender; and once the class has the CPU it gives it up only  *)
(* when nobody contends any more, because lottery_sched_class is the first *)
(* class __pick_next_task asks.                                            *)
(***************************************************************************)
CONSTANTS Task, NULL

VARIABLES
    contenders,   \* tasks with a ticket in the draw
    winner        \* the contender on the CPU; NULL: no lottery task runs

vars == <<contenders, winner>>

Init == contenders = {} /\ winner = NULL

\* A task becomes runnable.  If it was on the CPU when it changed to the
\* lottery policy, it is there as a contender now.
Enter(t) ==
    /\ t \notin contenders
    /\ contenders' = contenders \cup {t}
    /\ \/ winner' = winner
       \/ winner = NULL /\ winner' = t

\* A draw; the outgoing winner may stop contending first.
Draw ==
    /\ \/ contenders' = contenders
       \/ winner # NULL /\ contenders' = contenders \ {winner}
    /\ IF contenders' = {} THEN winner' = NULL ELSE winner' \in contenders'

Next == Draw \/ \E t \in Task : Enter(t)

Spec == Init /\ [][Next]_vars
============================================================================
