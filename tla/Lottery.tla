------------------------------ MODULE Lottery ------------------------------
(***************************************************************************)
(* The functions of kernel/sched/lottery.c as operators on a struct ltr_rq *)
(* (kernel/sched/sched.h:535):                                             *)
(*                                                                         *)
(*   queue          the tasks linked on ltr_rq.queue, head first           *)
(*   nr_running     unsigned int                                           *)
(*   total_tickets  unsigned int                                           *)
(*                                                                         *)
(* A task is linked exactly when it occurs in queue.  list_del poisons the *)
(* node it unlinks and nothing ever runs INIT_LIST_HEAD on p->ltr.list, so *)
(* a node that is not linked never points to itself: list_empty() of a     *)
(* task's node is always false, and list_del of an unlinked node follows a *)
(* NULL, poisoned or foreign pointer (Linked is its precondition).         *)
(*                                                                         *)
(* The module has no variables: LotteryClass and KernelSched build their   *)
(* steps from these operators.  An operator marked "Bug" is a variant of   *)
(* the one after it with a mistake the properties are expected to reveal;  *)
(* no specification uses it.                                               *)
(***************************************************************************)
EXTENDS Integers, SequencesExt, FiniteSetsExt

CONSTANTS
    Task,     \* task_structs
    Word,     \* number of values of an unsigned int (2^32 in the code)
    NULL      \* the null task pointer

ASSUME WordAssumption == Word \in Nat \ {0}
ASSUME NULLAssumption == NULL \notin Task

\* Values get_random_bytes() may store in an unsigned int.
RandomWord == 0 .. Word - 1

ltr_rqType == [queue : Seq(Task), nr_running : RandomWord, total_tickets : RandomWord]

init_ltr_rq == [queue |-> <<>>, nr_running |-> 0, total_tickets |-> 0]

\* p->ltr.list is on the queue.
Linked(ltr, p) == \E i \in 1 .. Len(ltr.queue) : ltr.queue[i] = p

\* list_add_tail, then the two counters, with their wrap-around.
enqueue_task_lottery(ltr, p, tickets) ==
    [queue         |-> Append(ltr.queue, p),
     nr_running    |-> (ltr.nr_running + 1) % Word,
     total_tickets |-> (ltr.total_tickets + tickets[p]) % Word]

\* The place of p's node on the list.
Position(queue, p) == CHOOSE i \in 1 .. Len(queue) : queue[i] = p

\* Bug: the task is unlinked, and its tickets stay in the total.
dequeue_task_lottery_keeps_total(ltr, p, tickets) ==
    [queue         |-> RemoveAt(ltr.queue, Position(ltr.queue, p)),
     nr_running    |-> (ltr.nr_running - 1) % Word,
     total_tickets |-> ltr.total_tickets]

\* list_del (p must be Linked), then the two counters.
dequeue_task_lottery(ltr, p, tickets) ==
    [queue         |-> RemoveAt(ltr.queue, Position(ltr.queue, p)),
     nr_running    |-> (ltr.nr_running - 1) % Word,
     total_tickets |-> (ltr.total_tickets - tickets[p]) % Word]

(***************************************************************************)
(* The walk of pick_next_task_lottery.  Entrants is the set of tasks with  *)
(* policy SCHED_LOTTERY: the loop skips any other entry.  TicketsBefore[i] *)
(* is tickets_cnt when the walk reaches entry i.                           *)
(***************************************************************************)
TicketsBefore(queue, tickets, Entrants) ==
    LET cnt[i \in 1 .. Len(queue)] ==
            IF i = 1 THEN 0
            ELSE IF queue[i-1] \in Entrants
                 THEN (cnt[i-1] + tickets[queue[i-1]]) % Word
                 ELSE cnt[i-1]
    IN  cnt

\* Bug: <= for <, a task also wins with the first ticket of the next one.
Hits_one_more(queue, tickets, Entrants, lucky_one) ==
    {i \in 1 .. Len(queue) :
        LET tickets_cnt == TicketsBefore(queue, tickets, Entrants)[i]
        IN  /\ queue[i] \in Entrants
            /\ lucky_one <= (tickets_cnt + tickets[queue[i]]) % Word
            /\ lucky_one >= tickets_cnt}

\* The entries at which the walk would break.
Hits(queue, tickets, Entrants, lucky_one) ==
    {i \in 1 .. Len(queue) :
        LET tickets_cnt == TicketsBefore(queue, tickets, Entrants)[i]
        IN  /\ queue[i] \in Entrants
            /\ lucky_one < (tickets_cnt + tickets[queue[i]]) % Word
            /\ lucky_one >= tickets_cnt}

\* The entry the walk stops at, or the last one if it never breaks.
Stop(queue, tickets, Entrants, lucky_one) ==
    LET hits == Hits(queue, tickets, Entrants, lucky_one)
    IN  IF hits = {} THEN Len(queue) ELSE Min(hits)

\* Bug: a task alone in the class is taken for no task.
pick_next_task_lottery_needs_two(ltr, tickets, Entrants, random) ==
    IF ltr.nr_running <= 1
    THEN NULL
    ELSE ltr.queue[Stop(ltr.queue, tickets, Entrants, random % ltr.total_tickets)]

\* random is what get_random_bytes() returned.
pick_next_task_lottery(ltr, tickets, Entrants, random) ==
    IF ltr.total_tickets = 0 \/ ltr.queue = <<>>
    THEN NULL
    ELSE ltr.queue[Stop(ltr.queue, tickets, Entrants, random % ltr.total_tickets)]

\* Bug: off by one, two tasks count as one.
task_tick_lottery_off_by_one(ltr, should_preempt) ==
    /\ ltr.nr_running > 2
    /\ should_preempt % 10 = 0

\* task_tick_lottery calls resched_curr in one roll out of ten, and never
\* when the task is alone in the class.
task_tick_lottery(ltr, should_preempt) ==
    /\ ltr.nr_running > 1
    /\ should_preempt % 10 = 0

(***************************************************************************)
(* Reference definitions the operators above are compared with.            *)
(***************************************************************************)

\* TicketCount[i] is the number of tickets the first i entries hold together.
TicketCount(queue, tickets) ==
    LET cnt[i \in 0 .. Len(queue)] ==
            IF i = 0 THEN 0 ELSE cnt[i-1] + tickets[queue[i]]
    IN  cnt

\* No task is linked twice.
NoDuplicates(queue) ==
    \A i, j \in 1 .. Len(queue) : queue[i] = queue[j] => i = j
============================================================================
