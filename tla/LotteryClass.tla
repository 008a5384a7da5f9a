---------------------------- MODULE LotteryClass ----------------------------
(***************************************************************************)
(* The lottery scheduling class of one run queue as a state machine: the   *)
(* hooks of lottery_sched_class (kernel/sched/lottery.c) under the calling *)
(* protocol of kernel/sched/core.c.  KernelSched models that caller and is *)
(* shown to follow the protocol.                                           *)
(*                                                                         *)
(* Every action is one rq->lock section, hence atomic.  Operators marked   *)
(* "Bug" are faulty variants that no specification uses (see Lottery).     *)
(***************************************************************************)
EXTENDS Lottery

CONSTANTS
    CloneTickets,  \* the values kernel_clone may store in p->ltr.tickets: {5}
    MaxTickets     \* an upper bound of CloneTickets

ASSUME TaskAssumption == IsFiniteSet(Task)
ASSUME TicketsAssumption == MaxTickets \in Nat /\ CloneTickets \subseteq 1 .. MaxTickets
\* All tasks together hold fewer tickets than an unsigned int counts, and so
\* does a counter of tasks.
ASSUME WidthAssumption ==
    Cardinality(Task) < Word /\ Cardinality(Task) * MaxTickets < Word

VARIABLES
    ltr,           \* rq->ltr
    tickets,       \* p->ltr.tickets of every task
    curr,          \* rq->curr if it is a lottery task, else NULL
    need_resched   \* TIF_NEED_RESCHED of rq->curr

vars == <<ltr, tickets, curr, need_resched>>

Init ==
    /\ ltr = init_ltr_rq
    /\ tickets \in [Task -> {0} \cup CloneTickets]
    /\ curr = NULL
    /\ need_resched = FALSE

-----------------------------------------------------------------------------

\* Bug: += for =.
Clone_accumulates(p) ==
    /\ ~ Linked(ltr, p)
    /\ \E n \in CloneTickets : tickets' = [tickets EXCEPT ![p] = @ + n]
    /\ UNCHANGED <<ltr, curr, need_resched>>

\* Bug: the grant comes after wake_up_new_task, to a task that is queued.
Clone_grants_late(p) ==
    /\ \E n \in CloneTickets : tickets' = [tickets EXCEPT ![p] = n]
    /\ UNCHANGED <<ltr, curr, need_resched>>

\* dup_task_struct copies the parent's tickets with the rest of the
\* task_struct; kernel_clone then grants the child its own.  The child is
\* TASK_NEW, hence not linked.
Clone(p) ==
    /\ ~ Linked(ltr, p)
    /\ \E n \in CloneTickets \cup {tickets[q] : q \in Task} : tickets' = [tickets EXCEPT ![p] = n]
    /\ UNCHANGED <<ltr, curr, need_resched>>

\* activate_task of a task that is not on the run queue, and the
\* check_preempt_curr that follows: no effect against a running lottery
\* task, a resched of any other (its class ranks lower).
Enqueue(p) ==
    /\ ~ Linked(ltr, p)
    /\ tickets[p] \in CloneTickets
    /\ ltr' = enqueue_task_lottery(ltr, p, tickets)
    /\ need_resched' = (need_resched \/ curr = NULL)
    /\ UNCHANGED <<tickets, curr>>

\* __sched_setscheduler moves a queued task of another class into this one;
\* that task may be the one on the CPU.  switched_to_lottery does nothing.
SwitchTo(p) ==
    /\ ~ Linked(ltr, p)
    /\ tickets[p] \in CloneTickets
    /\ ltr' = enqueue_task_lottery(ltr, p, tickets)
    /\ \/ curr' = curr
       \/ curr = NULL /\ curr' = p
    /\ UNCHANGED <<tickets, need_resched>>

\* dequeue_task ... enqueue_task around a change of the task's parameters
\* (set_user_nice, rt_mutex_setprio, __sched_setscheduler).
Requeue(p) ==
    /\ Linked(ltr, p)
    /\ ltr' = enqueue_task_lottery(dequeue_task_lottery(ltr, p, tickets), p, tickets)
    /\ UNCHANGED <<tickets, curr, need_resched>>

\* scheduler_tick while a lottery task runs.
Tick ==
    /\ curr # NULL
    /\ \E should_preempt \in RandomWord :
          need_resched' = (need_resched \/ task_tick_lottery(ltr, should_preempt))
    /\ UNCHANGED <<ltr, tickets, curr>>

\* __schedule picks from this class: put_prev_task, pick_next_task_lottery,
\* set_next_task, clear_tsk_need_resched.  prev stays linked while it runs.
Schedule(rq, random) ==
    /\ ltr' = rq
    /\ curr' = pick_next_task_lottery(rq, tickets, Task, random)
    /\ need_resched' = FALSE
    /\ UNCHANGED tickets

\* The running task blocks, or exits: deactivate_task, then the draw.
Block ==
    /\ curr # NULL
    /\ \E random \in RandomWord : Schedule(dequeue_task_lottery(ltr, curr, tickets), random)

\* __schedule with prev still runnable (preemption, yield), or from a task
\* of another class.
Reschedule == \E random \in RandomWord : Schedule(ltr, random)

\* A task of another class runs: its class may set or clear need_resched, and
\* __schedule may take the fair class's fast path and not ask this class.
OtherClass ==
    /\ curr = NULL
    /\ need_resched' \in BOOLEAN
    /\ UNCHANGED <<ltr, tickets, curr>>

Next ==
    \/ \E p \in Task : Clone(p) \/ Enqueue(p) \/ SwitchTo(p) \/ Requeue(p)
    \/ Tick \/ Block \/ Reschedule \/ OtherClass

Spec == Init /\ [][Next]_vars

-----------------------------------------------------------------------------
(* Fairness.  The timer interrupts with HZ frequency, so a roll that hits   *)
(* comes up as long as ticks do.  A task with need_resched set enters       *)
(* __schedule at the latest on the next return from an interrupt, and       *)
(* get_random_bytes draws each ticket again and again: every outcome that   *)
(* stays possible happens (strong fairness, the almost-sure behaviour).     *)
(***************************************************************************)
TickHits == Tick /\ need_resched'

Elect(p) == need_resched /\ curr # NULL /\ Reschedule /\ curr' = p

FairSpec ==
    /\ Spec
    /\ WF_vars(TickHits)
    /\ \A p \in Task : SF_vars(Elect(p))

-----------------------------------------------------------------------------
(* Properties.                                                             *)

TypeOK ==
    /\ ltr \in ltr_rqType
    /\ tickets \in [Task -> 0 .. MaxTickets]
    /\ curr \in Task \cup {NULL}
    /\ need_resched \in BOOLEAN

\* No node is ever linked twice: list_add_tail of a linked node would cut the
\* list.  (enqueue_task_lottery has no check of its own.)
LinkedOnce == NoDuplicates(ltr.queue)

\* nr_running and total_tickets, kept up incrementally and modulo 2^32, are
\* the length of the list and the sum over it after any sequence of calls.
Accounting ==
    /\ ltr.nr_running = Len(ltr.queue)
    /\ ltr.total_tickets = TicketCount(ltr.queue, tickets)[Len(ltr.queue)]

\* The unsigned counters stay clear of both ends: the enqueue of any ticket
\* holder carries neither of them past the word, and the dequeue of any
\* linked task takes neither below zero (lottery.c subtracts unchecked).
NoWrap ==
    \A p \in Task :
        IF Linked(ltr, p)
        THEN ltr.nr_running >= 1 /\ ltr.total_tickets >= tickets[p]
        ELSE tickets[p] \in CloneTickets =>
                ltr.nr_running + 1 < Word /\ ltr.total_tickets + tickets[p] < Word

\* Only tasks that were granted tickets are linked, so an entry of the list
\* can always win.
HoldersOnly == \A i \in 1 .. Len(ltr.queue) : tickets[ltr.queue[i]] \in CloneTickets

\* The running lottery task stays linked: the dequeue_task when it blocks is
\* a list_del of a linked node.
CurrLinked == curr # NULL => Linked(ltr, curr)

\* Whatever number is drawn, the walk of pick_next_task_lottery breaks at an
\* entry: the fall-through to the last entry is never taken.
DrawBreaks ==
    \A lucky_one \in 0 .. ltr.total_tickets - 1 :
        Hits(ltr.queue, tickets, Task, lucky_one) # {}

\* pick_next_task_lottery is a fair lottery: of the total_tickets lucky
\* numbers, exactly tickets[p] make p the winner.
ProportionalShare ==
    \A p \in Task :
        Cardinality({lucky_one \in 0 .. ltr.total_tickets - 1 :
                        pick_next_task_lottery(ltr, tickets, Task, lucky_one) = p})
        = IF Linked(ltr, p) THEN tickets[p] ELSE 0

\* While the class has the CPU, every linked task gets to run.
NoStarvation ==
    \A p \in Task : Linked(ltr, p) /\ curr # NULL ~> curr = p

\* The class implements the abstract lottery.
Abstract == INSTANCE TicketLottery WITH
    contenders <- Range(ltr.queue),
    winner <- curr

ImplementsLottery == Abstract!Spec
=============================================================================
