---------------------------- MODULE KernelSched ----------------------------
(***************************************************************************)
(* The core scheduler (kernel/sched/core.c) and process creation           *)
(* (kernel/fork.c) around the lottery class, on the uniprocessor ARM       *)
(* kernel the repository builds: __schedule and the choice of a class,     *)
(* wake-ups, the tick, changes of policy and nice value, fork and exit.    *)
(*                                                                         *)
(* A section under rq->lock runs with interrupts disabled and is one step. *)
(* Between two such sections a task can be preempted, and an interrupt can *)
(* wake another task; `call' records how far a task is in a kernel path    *)
(* with several sections.                                                  *)
(*                                                                         *)
(* The functions of core.c are operators on k = [task, rq, fault]; an      *)
(* action applies them in the order of the code and commits the result.    *)
(* The fair, rt and dl classes are not in the repository.  Only what       *)
(* core.c relies on is modelled: they count a task in rq->nr_running while *)
(* it is queued, and pick a task that is queued.  Operators marked "Bug"   *)
(* are faulty variants that no specification uses (see Lottery).           *)
(***************************************************************************)
EXTENDS Lottery, SchedPolicy

CONSTANTS
    Idle,       \* the idle task, PID 0
    Nices,      \* nice values handed to set_user_nice
    Requests,   \* arguments of a change of policy, see RequestType
    Clones,     \* ways to create a process, a subset of CloneKind
    Blocking    \* whether tasks enter wait loops

\* kernel_clone: p->ltr.tickets = 5
GrantedTickets == 5

CloneKind == {"clone", "io_thread"}

\* form      "setscheduler": the caller passes no nice value and p keeps its own
\* keep      SCHED_FLAG_KEEP_PARAMS
\* capable   the caller is the kernel, or holds CAP_SYS_NICE
RequestType ==
    [form : {"setscheduler", "setattr"}, policy : Policy \cup {SETPARAM_POLICY},
     priority : 0 .. MAX_RT_PRIO, nice : Int, reset : BOOLEAN, keep : BOOLEAN,
     capable : BOOLEAN]

ASSUME ProcessAssumption == IsFiniteSet(Task)
ASSUME IdleAssumption == Idle \notin Task /\ Idle # NULL
ASSUME RequestAssumption ==
    /\ Requests \subseteq RequestType /\ Nices \subseteq Int
    /\ Clones \subseteq CloneKind /\ Blocking \in BOOLEAN

VARIABLES
    task,    \* the task_structs
    rq,      \* the run queue; need_resched is TIF_NEED_RESCHED of rq->curr
    call,    \* how far each task is in a kernel path
    cond,    \* the condition each task waits for in its wait loop
    waking,  \* tasks somebody has made the condition true for, and not woken yet
    fault    \* how the kernel went down, or "none"

vars == <<task, rq, call, cond, waking, fault>>

TaskState == {"RUNNING", "INTERRUPTIBLE", "NEW", "DEAD"}

TaskStruct ==
    [state : TaskState, on_rq : BOOLEAN, policy : Policy,
     sched_class : {"idle", "fair", "rt", "dl", "lottery"},
     prio : Int, static_prio : Int, normal_prio : Int, rt_priority : 0 .. MAX_RT_PRIO,
     sched_reset_on_fork : BOOLEAN, tickets : Nat]

RunQueue ==
    [curr : Task \cup {Idle}, need_resched : BOOLEAN, nr_running : Nat, ltr : ltr_rqType,
     queued : [{"fair", "rt", "dl"} -> SUBSET Task]]

NoCall == [op |-> "none"]

K == [task |-> task, rq |-> rq, fault |-> fault]

Commit(k) == task' = k.task /\ rq' = k.rq /\ fault' = k.fault

-----------------------------------------------------------------------------
(* The run queue.                                                          *)

Tickets(k) == [p \in Task |-> k.task[p].tickets]

resched_curr(k) == [k EXCEPT !.rq.need_resched = TRUE]

\* list_del follows the pointers of a node that is not linked.
list_del_lottery(k, p) ==
    IF Linked(k.rq.ltr, p)
    THEN [k EXCEPT !.rq.ltr = dequeue_task_lottery(@, p, Tickets(k))]
    ELSE [k EXCEPT !.fault = "list_del"]

\* enqueue_task_lottery leaves rq->nr_running alone.
enqueue_task(k, p) ==
    LET class == k.task[p].sched_class
    IN  IF class = "lottery"
        THEN [k EXCEPT !.rq.ltr = enqueue_task_lottery(@, p, Tickets(k))]
        ELSE [k EXCEPT !.rq.queued[class] = @ \cup {p}, !.rq.nr_running = @ + 1]

dequeue_task(k, p) ==
    LET class == k.task[p].sched_class
    IN  IF class = "lottery"
        THEN list_del_lottery(k, p)
        ELSE [k EXCEPT !.rq.queued[class] = @ \ {p}, !.rq.nr_running = @ - 1]

activate_task(k, p) == [enqueue_task(k, p) EXCEPT !.task[p].on_rq = TRUE]

deactivate_task(k, p) == dequeue_task([k EXCEPT !.task[p].on_rq = FALSE], p)

\* preempt: what the class of both tasks decides, if it is not the lottery
\* class (check_preempt_curr_lottery does nothing).
check_preempt_curr(k, p, preempt) ==
    LET class == k.task[p].sched_class
        curr_class == k.task[k.rq.curr].sched_class
    IN  IF \/ class = curr_class /\ class # "lottery" /\ preempt
           \/ Rank(class) > Rank(curr_class)
        THEN resched_curr(k)
        ELSE k

\* The node of a task is never INIT_LIST_HEADed, so !list_empty() holds.
switched_from(k, p, prev_class) ==
    IF prev_class = "lottery" THEN list_del_lottery(k, p) ELSE k

\* switched_to and prio_changed of p's class: nothing in the lottery class; the
\* others decide (preempt) whether a queued p is a reason to reschedule.
notify_class(k, p, preempt) ==
    IF k.task[p].sched_class = "lottery" \/ ~ k.task[p].on_rq \/ ~ preempt THEN k
    ELSE IF p = k.rq.curr THEN resched_curr(k)
    ELSE check_preempt_curr(k, p, preempt)

check_class_changed(k, p, prev_class, oldprio, preempt) ==
    LET class == k.task[p].sched_class
        prio == k.task[p].prio
        left == IF prev_class # class THEN switched_from(k, p, prev_class) ELSE k
        told == prev_class # class \/ oldprio # prio \/ dl_prio(prio)
    IN  IF told THEN notify_class(left, p, preempt) ELSE left

-----------------------------------------------------------------------------
(* __schedule.                                                             *)

\* The test of __pick_next_task's fast path.
all_fair(k) ==
    /\ Rank(k.task[k.rq.curr].sched_class) <= Rank("fair")
    /\ k.rq.nr_running = Cardinality(k.rq.queued["fair"])

\* Tasks the pick_next_task function of a class may return.
ClassPicks(k, class) ==
    IF class = "idle" THEN {Idle}
    ELSE IF class = "lottery"
    THEN LET Entrants == {p \in Task : ltr_policy(k.task[p].policy)}
         IN  {pick_next_task_lottery(k.rq.ltr, Tickets(k), Entrants, random) : random \in RandomWord} \ {NULL}
    ELSE k.rq.queued[class]

\* Tasks __pick_next_task may return.
__pick_next_task(k) ==
    LET asked == IF all_fair(k) THEN {"fair", "idle"} ELSE {"lottery", "dl", "rt", "fair", "idle"}
        class == CHOOSE c \in asked :
                     /\ ClassPicks(k, c) # {}
                     /\ \A d \in asked : Rank(d) > Rank(c) => ClassPicks(k, d) = {}
    IN  ClassPicks(k, class)

\* Bug: a preempted task is put to sleep like one that blocks.
put_to_sleep_preempted(k, sched_mode, signal) ==
    LET prev == k.rq.curr
    IN  IF k.task[prev].state = "RUNNING" THEN k
        ELSE IF signal /\ k.task[prev].state = "INTERRUPTIBLE"
        THEN [k EXCEPT !.task[prev].state = "RUNNING"]
        ELSE deactivate_task(k, prev)

\* Bug: a task that exits stays on the run queue.
put_to_sleep_not_dead(k, sched_mode, signal) ==
    LET prev == k.rq.curr
    IN  IF sched_mode = "SM_PREEMPT" \/ k.task[prev].state # "INTERRUPTIBLE" THEN k
        ELSE IF signal THEN [k EXCEPT !.task[prev].state = "RUNNING"]
        ELSE deactivate_task(k, prev)

\* What becomes of prev.  signal: a signal is pending for it.
put_to_sleep(k, sched_mode, signal) ==
    LET prev == k.rq.curr
    IN  IF sched_mode = "SM_PREEMPT" \/ k.task[prev].state = "RUNNING" THEN k
        ELSE IF signal /\ k.task[prev].state = "INTERRUPTIBLE"
        THEN [k EXCEPT !.task[prev].state = "RUNNING"]
        ELSE deactivate_task(k, prev)

\* The states __schedule may leave behind.
__schedule(k, sched_mode) ==
    UNION {LET prev == put_to_sleep(k, sched_mode, signal)
           IN  {[prev EXCEPT !.rq.curr = next, !.rq.need_resched = FALSE] :
                    next \in __pick_next_task(prev)} : signal \in BOOLEAN}

-----------------------------------------------------------------------------
(* Wake-ups.                                                               *)

\* Wakers ask for TASK_NORMAL.
ttwu_state_match(p) == p.state = "INTERRUPTIBLE"

ttwu_do_wakeup(k, p, preempt) ==
    [check_preempt_curr(k, p, preempt) EXCEPT !.task[p].state = "RUNNING"]

ttwu_do_activate(k, p, preempt) == ttwu_do_wakeup(activate_task(k, p), p, preempt)

\* Bug: no test of p->on_rq, a task that has not got to schedule() yet is
\* activated again.
try_to_wake_up_activates(k, p, preempt) ==
    IF ~ ttwu_state_match(k.task[p]) THEN k
    ELSE IF p = k.rq.curr THEN [k EXCEPT !.task[p].state = "RUNNING"]
    ELSE ttwu_do_activate(k, p, preempt)

\* Bug: the task is taken for runnable without a look at p->on_rq.
try_to_wake_up_runnable(k, p, preempt) ==
    IF ~ ttwu_state_match(k.task[p]) THEN k ELSE ttwu_do_wakeup(k, p, preempt)

try_to_wake_up(k, p, preempt) ==
    IF ~ ttwu_state_match(k.task[p]) THEN k
    ELSE IF p = k.rq.curr THEN [k EXCEPT !.task[p].state = "RUNNING"]
    ELSE IF k.task[p].on_rq THEN ttwu_do_wakeup(k, p, preempt)
    ELSE ttwu_do_activate(k, p, preempt)

wake_up_new_task(k, p, preempt) ==
    check_preempt_curr(activate_task([k EXCEPT !.task[p].state = "RUNNING"], p), p, preempt)

-----------------------------------------------------------------------------
(* Priorities, policies and fork.                                          *)

normal_prio(p) == __normal_prio(p.policy, p.rt_priority, PRIO_TO_NICE(p.static_prio))

\* p->prio = effective_prio(p), which also stores p->normal_prio.
effective_prio(p) ==
    [p EXCEPT !.normal_prio = normal_prio(p),
              !.prio = IF rt_prio(p.prio) THEN p.prio ELSE normal_prio(p)]

\* The child is on no queue.  (The list heads of the rt and fair classes are
\* initialized here, and p->ltr.list is not.)
__sched_fork(p) == [p EXCEPT !.on_rq = FALSE]

\* Bug: the class follows the priority alone, as before the lottery class.
sched_fork_by_prio(p, curr) ==
    [p EXCEPT !.prio = curr.normal_prio, !.state = "NEW", !.on_rq = FALSE,
              !.sched_class = class_of("NORMAL", curr.normal_prio)]

\* What a copy of a task must not inherit; curr is the parent as it is by
\* the time of the call.
sched_fork(p, curr) ==
    LET reset == [p EXCEPT !.policy = "NORMAL", !.static_prio = NICE_TO_PRIO(0), !.rt_priority = 0]
        default == IF dl_policy(p.policy) \/ rt_policy(p.policy) THEN reset
                   ELSE IF PRIO_TO_NICE(p.static_prio) < 0 THEN [p EXCEPT !.static_prio = NICE_TO_PRIO(0)]
                   ELSE p
        child == IF p.sched_reset_on_fork
                 THEN [default EXCEPT !.prio = default.static_prio,
                                      !.normal_prio = default.static_prio,
                                      !.sched_reset_on_fork = FALSE]
                 ELSE [p EXCEPT !.prio = curr.normal_prio]
    IN  [__sched_fork(child) EXCEPT !.state = "NEW",
                                    !.sched_class = class_of(child.policy, child.prio)]

__setscheduler_params(p, policy, attr) ==
    LET q == [p EXCEPT !.policy = policy,
                       !.static_prio = IF fair_policy(policy) THEN NICE_TO_PRIO(attr.nice) ELSE @,
                       !.rt_priority = attr.priority]
    IN  [q EXCEPT !.normal_prio = normal_prio(q)]

__setscheduler_prio(p, prio) == [p EXCEPT !.sched_class = class_of(p.policy, prio), !.prio = prio]

\* Bug: every policy may be asked for.
attr_valid_all(policy, attr) ==
    /\ valid_policy(policy)
    /\ attr.priority <= MAX_RT_PRIO - 1
    /\ rt_policy(policy) <=> attr.priority # 0

\* The checks of the arguments that return -EINVAL.
attr_valid(policy, attr) ==
    /\ valid_policy(policy)
    /\ attr.priority <= MAX_RT_PRIO - 1
    /\ rt_policy(policy) <=> attr.priority # 0
    /\ ltr_policy(policy)

\* From recheck: to the lock.  policy is SETPARAM_POLICY to keep p's own,
\* which is then read here, without the lock.
recheck(p, policy, attr) ==
    LET own == policy = SETPARAM_POLICY
        new == IF own THEN p.policy ELSE policy
        reset_on_fork == IF own THEN p.sched_reset_on_fork ELSE attr.reset
    IN  [policy |-> new,
         oldpolicy |-> IF own THEN p.policy ELSE SETPARAM_POLICY,
         reset_on_fork |-> reset_on_fork,
         allowed |-> /\ attr_valid(new, attr)
                     /\ attr.capable \/ (p.sched_reset_on_fork => reset_on_fork)]

\* Under the lock: nothing but the reset flag changes.
same_policy(p, policy, attr) ==
    /\ policy = p.policy
    /\ fair_policy(policy) => attr.nice = PRIO_TO_NICE(p.static_prio)
    /\ rt_policy(policy) => attr.priority = p.rt_priority

\* Under the lock, from change: on.
change(k, p, policy, attr, preempt) ==
    LET old == k.task[p]
        newprio == __normal_prio(policy, attr.priority, attr.nice)
        new == IF attr.keep THEN old
               ELSE __setscheduler_prio(__setscheduler_params(old, policy, attr), newprio)
        out == IF old.on_rq THEN dequeue_task(k, p) ELSE k
        mid == [out EXCEPT !.task[p] = new]
        in == IF old.on_rq THEN enqueue_task(mid, p) ELSE mid
    IN  check_class_changed(in, p, old.sched_class, old.prio, preempt)

set_user_nice(k, p, nice, preempt) ==
    LET old == k.task[p]
        renice == [old EXCEPT !.static_prio = NICE_TO_PRIO(nice)]
        out == IF old.on_rq THEN dequeue_task(k, p) ELSE k
        mid == [out EXCEPT !.task[p] = effective_prio(renice)]
        in == IF old.on_rq THEN enqueue_task(mid, p) ELSE mid
    IN  IF dl_policy(old.policy) \/ rt_policy(old.policy)
        THEN [k EXCEPT !.task[p] = renice]
        ELSE notify_class(in, p, preempt)

\* lottery_sched_class has no update_curr.
task_sched_runtime(k, p) ==
    IF k.rq.curr = p /\ k.task[p].on_rq /\ k.task[p].sched_class = "lottery"
    THEN [k EXCEPT !.fault = "update_curr"]
    ELSE k

\* preempt: what the task_tick of another class decides.
scheduler_tick(k, should_preempt, preempt) ==
    LET class == k.task[k.rq.curr].sched_class
    IN  IF \/ class = "lottery" /\ task_tick_lottery(k.rq.ltr, should_preempt)
           \/ class \in {"fair", "rt", "dl"} /\ preempt
        THEN resched_curr(k)
        ELSE k

-----------------------------------------------------------------------------
(* The state machine.                                                      *)

\* A task_struct as dup_task_struct finds it: not a process.
FreeTask ==
    [state |-> "DEAD", on_rq |-> FALSE, policy |-> "NORMAL", sched_class |-> "fair",
     prio |-> DEFAULT_PRIO, static_prio |-> DEFAULT_PRIO, normal_prio |-> DEFAULT_PRIO,
     rt_priority |-> 0, sched_reset_on_fork |-> FALSE, tickets |-> 0]

\* Some processes, made by kernel_clone at boot, are runnable; one runs.
Init ==
    /\ \E processes \in SUBSET Task : \E first \in processes :
          /\ task = [p \in Task \cup {Idle} |->
                        IF p \in processes THEN [FreeTask EXCEPT !.state = "RUNNING", !.on_rq = TRUE,
                                                           !.tickets = GrantedTickets]
                        ELSE IF p = Idle THEN [FreeTask EXCEPT !.state = "RUNNING", !.on_rq = TRUE,
                                                               !.sched_class = "idle"]
                        ELSE FreeTask]
          /\ rq = [curr |-> first, need_resched |-> FALSE, ltr |-> init_ltr_rq,
                   nr_running |-> Cardinality(processes),
                   queued |-> [fair |-> processes, rt |-> {}, dl |-> {}]]
    /\ call = [p \in Task |-> NoCall]
    /\ cond = [p \in Task |-> FALSE]
    /\ waking = {}
    /\ fault = "none"

Up == fault = "none"

\* t runs and is in no kernel path.
Runs(t) == Up /\ rq.curr = t /\ call[t] = NoCall

\* t runs in the kernel path op.
RunsIn(t, op) == Up /\ rq.curr = t /\ call[t].op = op

\* find_process_by_pid finds p.
Visible(p) == task[p].state # "DEAD"

Tick ==
    /\ Up
    /\ \E k \in {scheduler_tick(K, should_preempt, preempt) :
                    should_preempt \in RandomWord, preempt \in BOOLEAN} : Commit(k)
    /\ UNCHANGED <<call, cond, waking>>

\* preempt_schedule_irq, or schedule_idle in the idle loop.
Preempt ==
    /\ Up
    /\ rq.need_resched
    /\ \E k \in __schedule(K, "SM_PREEMPT") : Commit(k)
    /\ UNCHANGED <<call, cond, waking>>

\* yield_task of the lottery class does nothing; schedule() follows.
do_sched_yield(t) ==
    /\ Runs(t)
    /\ \E k \in __schedule(K, "SM_NONE") : Commit(k)
    /\ UNCHANGED <<call, cond, waking>>

(***************************************************************************)
(* The wait loop every blocking kernel path is an instance of:             *)
(* set_current_state, test of the condition, schedule(), and again.        *)
(***************************************************************************)
set_current_state(t) ==
    /\ Blocking
    /\ Runs(t) \/ (RunsIn(t, "wait") /\ call[t].pc = "again")
    /\ task' = [task EXCEPT ![t].state = "INTERRUPTIBLE"]
    /\ call' = [call EXCEPT ![t] = [op |-> "wait", pc |-> "test"]]
    /\ UNCHANGED <<rq, cond, waking, fault>>

test_condition(t) ==
    /\ RunsIn(t, "wait") /\ call[t].pc = "test"
    /\ IF cond[t]
       THEN /\ task' = [task EXCEPT ![t].state = "RUNNING"]
            /\ cond' = [cond EXCEPT ![t] = FALSE]
            /\ call' = [call EXCEPT ![t] = NoCall]
       ELSE /\ call' = [call EXCEPT ![t].pc = "sleep"]
            /\ UNCHANGED <<task, cond>>
    /\ UNCHANGED <<rq, waking, fault>>

schedule(t) ==
    /\ RunsIn(t, "wait") /\ call[t].pc = "sleep"
    /\ \E k \in __schedule(K, "SM_NONE") : Commit(k)
    /\ call' = [call EXCEPT ![t].pc = "again"]
    /\ UNCHANGED <<cond, waking>>

\* A waker, in an interrupt or in another task: CONDITION = 1 ...
set_condition(p) ==
    /\ Up /\ Blocking
    /\ Visible(p) /\ p \notin waking /\ ~ cond[p]
    /\ cond' = [cond EXCEPT ![p] = TRUE]
    /\ waking' = waking \cup {p}
    /\ UNCHANGED <<task, rq, call, fault>>

\* ... then wake_up_process.
wake_up_process(p) ==
    /\ Up
    /\ p \in waking
    /\ \E k \in {try_to_wake_up(K, p, preempt) : preempt \in BOOLEAN} : Commit(k)
    /\ waking' = waking \ {p}
    /\ UNCHANGED <<call, cond>>

(***************************************************************************)
(* Process creation.  Until copy_process attaches the child's PID, the     *)
(* copy is private to the parent's path (embryo).                          *)
(***************************************************************************)

\* A task_struct nobody holds a reference to.
Unused(c) ==
    /\ task[c].state = "DEAD"
    /\ c # rq.curr /\ c \notin waking
    /\ \A t \in Task : call[t].op \in {"fork", "setsched"} => call[t].p # c

dup_task_struct(t) ==
    /\ Runs(t)
    /\ \E c \in Task, kind \in Clones :
          /\ Unused(c)
          /\ call' = [call EXCEPT ![t] = [op |-> "fork", pc |-> "dup", kind |-> kind, p |-> c,
                                          embryo |-> task[t]]]
    /\ UNCHANGED <<task, rq, cond, waking, fault>>

\* copy_process fails: kernel_clone stores the tickets through the error
\* pointer, before its IS_ERR test; create_io_thread returns it.
copy_process_fails(t) ==
    /\ RunsIn(t, "fork") /\ call[t].pc \in {"dup", "forked"}
    /\ fault' = IF call[t].kind = "clone" THEN "err_ptr" ELSE "none"
    /\ call' = [call EXCEPT ![t] = NoCall]
    /\ UNCHANGED <<task, rq, cond, waking>>

\* sched_fork refuses (-EAGAIN) a child that would be a deadline task.
copy_process_sched_fork(t) ==
    /\ RunsIn(t, "fork") /\ call[t].pc = "dup"
    /\ LET child == sched_fork(call[t].embryo, task[t])
       IN  /\ child.sched_class # "dl"
           /\ call' = [call EXCEPT ![t].pc = "forked", ![t].embryo = child]
    /\ UNCHANGED <<task, rq, cond, waking, fault>>

\* attach_pid: from here on other tasks find the child.
copy_process_attach(t) ==
    /\ RunsIn(t, "fork") /\ call[t].pc = "forked"
    /\ task' = [task EXCEPT ![call[t].p] = call[t].embryo]
    /\ call' = [call EXCEPT ![t] = [op |-> "fork", kind |-> @.kind, p |-> @.p,
                                    pc |-> IF @.kind = "clone" THEN "grant" ELSE "wake"]]
    /\ UNCHANGED <<rq, cond, waking, fault>>

grant_tickets(t) ==
    /\ RunsIn(t, "fork") /\ call[t].pc = "grant"
    /\ task' = [task EXCEPT ![call[t].p].tickets = GrantedTickets]
    /\ call' = [call EXCEPT ![t].pc = "wake"]
    /\ UNCHANGED <<rq, cond, waking, fault>>

kernel_clone_wake(t) ==
    /\ RunsIn(t, "fork") /\ call[t].pc = "wake"
    /\ \E k \in {wake_up_new_task(K, call[t].p, preempt) : preempt \in BOOLEAN} : Commit(k)
    /\ call' = [call EXCEPT ![t] = NoCall]
    /\ UNCHANGED <<cond, waking>>

do_task_dead(t) ==
    /\ Runs(t)
    /\ \E k \in __schedule([K EXCEPT !.task[t].state = "DEAD"], "SM_NONE") : Commit(k)
    /\ cond' = [cond EXCEPT ![t] = FALSE]
    /\ UNCHANGED <<call, waking>>

(***************************************************************************)
(* __sched_setscheduler, called by t for p.                                *)
(***************************************************************************)

\* SCHED_FLAG_KEEP_PARAMS: the parameters come from p.
get_params(p, attr) ==
    IF rt_policy(p.policy) THEN [attr EXCEPT !.priority = p.rt_priority]
    ELSE [attr EXCEPT !.nice = PRIO_TO_NICE(p.static_prio)]

\* What the callers of __sched_setscheduler pass.
fill_attr(request, p) ==
    IF request.form = "setscheduler" THEN [request EXCEPT !.nice = PRIO_TO_NICE(p.static_prio)]
    ELSE IF request.keep THEN get_params(p, request)
    ELSE request

setscheduler_check(t, p, request) ==
    /\ Runs(t) /\ Visible(p)
    /\ LET attr == fill_attr(request, task[p])
           r == recheck(task[p], attr.policy, attr)
       IN  \/ /\ r.allowed
              /\ call' = [call EXCEPT ![t] = [op |-> "setsched", p |-> p, attr |-> attr,
                             policy |-> r.policy, oldpolicy |-> r.oldpolicy,
                             reset_on_fork |-> r.reset_on_fork]]
           \/ /\ ~ r.allowed \/ ~ attr.capable   \* -EINVAL; -EPERM
              /\ UNCHANGED call
    /\ UNCHANGED <<task, rq, cond, waking, fault>>

\* Under rq->lock.  A caller that keeps p's policy starts over if the policy
\* it read is stale.
setscheduler_locked(t) ==
    /\ RunsIn(t, "setsched")
    /\ LET c == call[t]
           old == task[c.p]
           k == [K EXCEPT !.task[c.p].sched_reset_on_fork = c.reset_on_fork]
           r == recheck(old, SETPARAM_POLICY, c.attr)
       IN  IF same_policy(old, c.policy, c.attr)
           THEN Commit(k) /\ call' = [call EXCEPT ![t] = NoCall]
           ELSE IF c.oldpolicy \notin {SETPARAM_POLICY, old.policy}
           THEN /\ call' = [call EXCEPT ![t] =
                               IF r.allowed THEN [c EXCEPT !.policy = r.policy, !.oldpolicy = r.oldpolicy,
                                                           !.reset_on_fork = r.reset_on_fork]
                               ELSE NoCall]
                /\ UNCHANGED <<task, rq, fault>>
           ELSE /\ \E new \in {change(k, c.p, c.policy, c.attr, preempt) : preempt \in BOOLEAN} : Commit(new)
                /\ call' = [call EXCEPT ![t] = NoCall]
    /\ UNCHANGED <<cond, waking>>

renice(t, p, nice) ==
    /\ Runs(t) /\ Visible(p)
    /\ nice # PRIO_TO_NICE(task[p].static_prio)
    /\ \E k \in {set_user_nice(K, p, nice, preempt) : preempt \in BOOLEAN} : Commit(k)
    /\ UNCHANGED <<call, cond, waking>>

\* clock_gettime(CLOCK_PROCESS_CPUTIME_ID) and the like.
read_runtime(t) ==
    /\ Runs(t)
    /\ Commit(task_sched_runtime(K, t))
    /\ UNCHANGED <<call, cond, waking>>

\* The machine is down.
Halted == ~ Up /\ UNCHANGED vars

TaskStep(t) ==
    \/ do_sched_yield(t) \/ set_current_state(t) \/ test_condition(t) \/ schedule(t)
    \/ dup_task_struct(t) \/ copy_process_fails(t) \/ copy_process_sched_fork(t)
    \/ copy_process_attach(t) \/ grant_tickets(t) \/ kernel_clone_wake(t) \/ do_task_dead(t)
    \/ \E p \in Task, request \in Requests : setscheduler_check(t, p, request)
    \/ setscheduler_locked(t)
    \/ \E p \in Task, nice \in Nices : renice(t, p, nice)
    \/ read_runtime(t)

Next ==
    \/ Tick \/ Preempt \/ Halted
    \/ \E t \in Task : TaskStep(t) \/ set_condition(t) \/ wake_up_process(t)

Spec == Init /\ [][Next]_vars

(***************************************************************************)
(* Fairness.  A pending reschedule is acted upon at the next return from   *)
(* an interrupt, a waker that set the condition gets to its wake-up, a     *)
(* task in a kernel path goes on when it runs, and a draw that can go to p *)
(* again and again does so once.                                           *)
(***************************************************************************)
InCall(t) == test_condition(t) \/ schedule(t) \/ setscheduler_locked(t)

FairSpec ==
    /\ Spec
    /\ WF_vars(Preempt)
    /\ \A t \in Task : /\ WF_vars(wake_up_process(t))
                       /\ WF_vars(InCall(t))
                       /\ SF_vars(Preempt /\ rq'.curr = t)

-----------------------------------------------------------------------------
(* Properties.                                                             *)

CallType ==
    {NoCall}
    \cup [op : {"wait"}, pc : {"test", "sleep", "again"}]
    \cup [op : {"fork"}, pc : {"dup", "forked"}, kind : CloneKind, p : Task, embryo : TaskStruct]
    \cup [op : {"fork"}, pc : {"grant", "wake"}, kind : CloneKind, p : Task]
    \cup [op : {"setsched"}, p : Task, attr : RequestType, policy : Policy,
          oldpolicy : Policy \cup {SETPARAM_POLICY}, reset_on_fork : BOOLEAN]

TypeOK ==
    /\ task \in [Task \cup {Idle} -> TaskStruct]
    /\ rq \in RunQueue
    /\ call \in [Task -> CallType]
    /\ cond \in [Task -> BOOLEAN]
    /\ waking \in SUBSET Task
    /\ fault \in {"none", "list_del", "update_curr", "err_ptr"}

\* Whatever a task was through, p->on_rq says whether the queue of p's class
\* holds p, no other queue does, and rq->nr_running counts the tasks of the
\* classes that keep it up.
QueuesMatchTasks ==
    /\ \A p \in Task, class \in {"fair", "rt", "dl"} :
          p \in rq.queued[class] <=> task[p].on_rq /\ task[p].sched_class = class
    /\ \A p \in Task : Linked(rq.ltr, p) <=> task[p].on_rq /\ task[p].sched_class = "lottery"
    /\ NoDuplicates(rq.ltr.queue)
    /\ rq.nr_running = Cardinality(UNION {rq.queued[class] : class \in {"fair", "rt", "dl"}})

\* Every entry of the lottery queue has the policy the walk of
\* pick_next_task_lottery looks for, and every task with that policy is in
\* the class, however it got the policy (inherited, set while it was new,
\* asleep or running).
ClassFollowsPolicy ==
    \A p \in Task : Visible(p) => (ltr_policy(task[p].policy) <=> task[p].sched_class = "lottery")

\* A task in TASK_RUNNING is on the run queue, and so is the one that runs.
RunnableIsQueued ==
    \A p \in Task : task[p].state = "RUNNING" \/ rq.curr = p => task[p].on_rq

\* No wake-up is lost between the test of the condition and schedule(): once
\* the waker is done, a task whose condition holds is runnable.
NoLostWakeup ==
    \A p \in Task : cond[p] /\ p \notin waking /\ task[p].state # "NEW" => task[p].on_rq

\* list_del never meets a node that is not linked.
ListOpsLegal == fault # "list_del"

\* core.c drives the lottery class by the protocol LotteryClass assumes.
Class == INSTANCE LotteryClass WITH
    CloneTickets <- {GrantedTickets},
    MaxTickets <- GrantedTickets,
    ltr <- rq.ltr,
    tickets <- [p \in Task |-> task[p].tickets],
    curr <- IF task[rq.curr].sched_class = "lottery" THEN rq.curr ELSE NULL,
    need_resched <- rq.need_resched

ImplementsClass == Class!Spec

-----------------------------------------------------------------------------
(***************************************************************************)
(* What comments and documents of the repository say, and the code does    *)
(* not do.                                                                 *)
(***************************************************************************)

\* documentation.md:94: "pick_next_task_lottery: This function is called to
\* select the next task to run."  A lottery task that is queued while the CPU
\* is idle is selected sooner or later.
IdleCpuRunsLottery ==
    \A p \in Task : Linked(rq.ltr, p) /\ rq.curr = Idle ~> rq.curr = p \/ ~ Up

\* kernel_clone (fork.c:2557): "It copies the process, and if successful
\* kick-starts it".  An unsuccessful copy is not written to.
CloneChecksCopy == fault # "err_ptr"

\* task_sched_runtime (core.c:5195): "In case the task is currently running,
\* return the runtime plus current's pending runtime", whatever its class.
RuntimeReadable == fault # "update_curr"

=============================================================================
