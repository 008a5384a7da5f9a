------------------------------ MODULE SmpWakeup ------------------------------
(***************************************************************************)
(* Sleeping and waking on several CPUs: __schedule(), finish_task_switch() *)
(* and try_to_wake_up() of kernel/sched/core.c, at the grain of the reads  *)
(* and writes of p->__state, p->on_rq, p->on_cpu and task_cpu(p) that race *)
(* without a common lock.                                                  *)
(*                                                                         *)
(* A CPU executes one piece of kernel code at a time.  ctx[c] says which   *)
(* and where: "run" is its current task (or the idle loop) with interrupts *)
(* enabled; every other value is inside one of the modelled functions,     *)
(* which all run with interrupts disabled, so that the wake-list interrupt *)
(* is taken only at "run".  Memory is sequentially consistent, in the      *)
(* order the barriers of the code impose; a mutant that swaps two reads    *)
(* stands for a missing barrier.  All CPUs stay active and every task may  *)
(* run on each of them (Affinity and Hotplug model the rest).              *)
(***************************************************************************)
EXTENDS Integers, FiniteSets, FiniteSetsExt

CONSTANTS
    CPUs,        \* the CPUs of the machine
    Tasks,       \* the threads that sleep, wake and exit
    Idle,        \* stands for the idle task of each CPU
    NoTask,      \* no task
    Free,        \* the owner of a lock nobody holds
    Scenarios,   \* what happens in a behaviour: tasks (the others have exited), those that wait (waiters),
                 \* in TASK_UNINTERRUPTIBLE (uninterruptible), in io_schedule() (io), or may exit (mortal),
                 \* whether signals are sent, queued tasks are balanced, and tasks are inspected
    LLC,         \* LLC[c] is the last-level cache of CPU c
    TTWU_QUEUE,  \* the scheduler feature of that name
    UINT         \* nr_uninterruptible is an unsigned int: 2^32, or fewer for TLC

ASSUME CpuAssumption == Free \notin CPUs /\ IsFiniteSet(CPUs) /\ CPUs # {}
ASSUME TaskAssumption == Idle \notin Tasks /\ NoTask \notin Tasks /\ IsFiniteSet(Tasks)
ASSUME ScenarioAssumption ==
    Scenarios \subseteq [tasks : SUBSET Tasks, waiters : SUBSET Tasks, uninterruptible : SUBSET Tasks,
                         io : SUBSET Tasks, mortal : SUBSET Tasks,
                         signals : BOOLEAN, balancing : BOOLEAN, inspected : BOOLEAN]
ASSUME LlcAssumption == DOMAIN LLC = CPUs
ASSUME UintAssumption == UINT \in Nat /\ UINT > Cardinality(Tasks)
ASSUME FlagAssumption == TTWU_QUEUE \in BOOLEAN

VARIABLES
    scenario,    \* the one of this behaviour
    state,       \* state[t]: p->__state
    on_rq,       \* on_rq[t]: 0, TASK_ON_RQ_QUEUED or TASK_ON_RQ_MIGRATING
    on_cpu,      \* on_cpu[t]: p->on_cpu
    cpu,         \* cpu[t]: task_cpu(p)
    contributes, \* contributes[t]: p->sched_contributes_to_load
    loop,        \* loop[t]: where the task is in its wait loop
    cond,        \* cond[t]: CONDITION of that loop
    sig,         \* sig[t]: TIF_SIGPENDING
    drops,       \* drops[t]: references dropped by finish_task_switch()
    pi_lock,     \* pi_lock[t]: the CPU that holds p->pi_lock
    rq_lock,     \* rq_lock[c]: the CPU that holds the lock of c's run queue
    queued,      \* queued[c]: the tasks on c's run queue
    curr,        \* curr[c]: rq->curr
    wake_list,   \* wake_list[c]: the pending remote wake-ups of c
    nr_uninterruptible, nr_iowait, \* the counters of each run queue
    ctx          \* ctx[c]: the kernel code CPU c is executing

taskVars == <<state, on_rq, on_cpu, cpu, contributes>>
waitVars == <<loop, cond, sig, drops>>
rqVars == <<queued, curr, wake_list, nr_uninterruptible, nr_iowait>>
stepVars == <<taskVars, waitVars, pi_lock, rq_lock, rqVars, ctx>>
vars == <<scenario, stepVars>>

State == {"RUNNING", "INTERRUPTIBLE", "UNINTERRUPTIBLE", "WAKING", "DEAD"}
OnRq == {"no", "queued", "migrating"}

SleepState(t) == IF t \in scenario.uninterruptible THEN "UNINTERRUPTIBLE" ELSE "INTERRUPTIBLE"

TASK_NORMAL == {"INTERRUPTIBLE", "UNINTERRUPTIBLE"}
Masks == {TASK_NORMAL, {"INTERRUPTIBLE"}}

Stages == {"run", "sched", "preempt", "deactivate", "switch", "finish", "finish_task",
           "finish_lock", "ttwu", "match", "on_rq", "runnable", "waking", "on_cpu", "wait",
           "queue", "activate", "detached", "locked", "recheck", "func"}
Ctx == [at : Stages, p : Tasks \cup {Idle, NoTask}, st : State, mask : Masks, mig : BOOLEAN]
Running == [at |-> "run", p |-> NoTask, st |-> "RUNNING", mask |-> TASK_NORMAL, mig |-> FALSE]

Live(t) == t \in scenario.tasks

Init ==
    /\ scenario \in Scenarios
    /\ state = [t \in Tasks |-> IF Live(t) THEN "RUNNING" ELSE "DEAD"]
    /\ on_rq = [t \in Tasks |-> IF Live(t) THEN "queued" ELSE "no"]
    /\ on_cpu = [t \in Tasks |-> FALSE]
    /\ cpu \in {f \in [Tasks -> CPUs] : \A t \in Tasks : Live(t) \/ f[t] = CHOOSE c \in CPUs : TRUE}
    /\ contributes = [t \in Tasks |-> FALSE]
    /\ loop = [t \in Tasks |-> IF Live(t) THEN "work" ELSE "dead"]
    /\ cond = [t \in Tasks |-> FALSE]
    /\ sig = [t \in Tasks |-> FALSE]
    /\ drops = [t \in Tasks |-> IF Live(t) THEN 0 ELSE 1]
    /\ pi_lock = [t \in Tasks |-> Free]
    /\ rq_lock = [c \in CPUs |-> Free]
    /\ queued = [c \in CPUs |-> {t \in Tasks : Live(t) /\ cpu[t] = c}]
    /\ curr = [c \in CPUs |-> Idle]
    /\ wake_list = [c \in CPUs |-> {}]
    /\ nr_uninterruptible = [c \in CPUs |-> 0]
    /\ nr_iowait = [c \in CPUs |-> 0]
    /\ ctx = [c \in CPUs |-> Running]

At(c, stage) == ctx[c].at = stage
Goto(c, stage) == ctx' = [ctx EXCEPT ![c].at = stage]
Return(c) == ctx' = [ctx EXCEPT ![c] = Running]

-----------------------------------------------------------------------------
(* The wait loop of a task, and its exit *)

\* set_current_state(): the store that the test of CONDITION comes after.
set_current_state(c) ==
    LET t == curr[c] IN
    /\ At(c, "run") /\ t \in scenario.waiters /\ loop[t] \in {"work", "asleep"}
    /\ state' = [state EXCEPT ![t] = SleepState(t)]
    /\ loop' = [loop EXCEPT ![t] = "test"]
    /\ UNCHANGED <<on_rq, on_cpu, cpu, contributes, cond, sig, drops, pi_lock, rq_lock, rqVars, ctx>>

\* CONDITION holds, or a signal interrupts the wait: leave the loop.
wait_over(c) ==
    LET t == curr[c] IN
    /\ At(c, "run") /\ t \in Tasks /\ loop[t] = "test"
    /\ cond[t] \/ (sig[t] /\ t \notin scenario.uninterruptible)
    /\ state' = [state EXCEPT ![t] = "RUNNING"]
    /\ loop' = [loop EXCEPT ![t] = "work"]
    /\ cond' = [cond EXCEPT ![t] = FALSE]
    /\ sig' = [sig EXCEPT ![t] = FALSE]
    /\ UNCHANGED <<on_rq, on_cpu, cpu, contributes, drops, pi_lock, rq_lock, rqVars, ctx>>

\* Bug: the loop tests CONDITION before it sets the task state.
wait_schedule_unconditionally(c) ==
    LET t == curr[c] IN
    /\ At(c, "run") /\ t \in Tasks /\ loop[t] = "test"
    /\ loop' = [loop EXCEPT ![t] = "asleep"]
    /\ Goto(c, "sched")
    /\ UNCHANGED <<taskVars, cond, sig, drops, pi_lock, rq_lock, rqVars>>

\* CONDITION does not hold: schedule().
wait_schedule(c) ==
    LET t == curr[c] IN
    /\ At(c, "run") /\ t \in Tasks /\ loop[t] = "test"
    /\ ~cond[t] /\ (sig[t] => t \in scenario.uninterruptible)
    /\ loop' = [loop EXCEPT ![t] = "asleep"]
    /\ Goto(c, "sched")
    /\ UNCHANGED <<taskVars, cond, sig, drops, pi_lock, rq_lock, rqVars>>

\* p->in_iowait is set around schedule() by io_schedule().
in_iowait(t) == t \in scenario.io /\ loop[t] = "asleep"

\* set_special_state(): stored under p->pi_lock, so that no waker is half-way.
set_special_state(t, st) ==
    /\ pi_lock[t] = Free
    /\ state' = [state EXCEPT ![t] = st]

\* The last schedule of a task; the exit path runs with preemption disabled.
do_task_dead(c) ==
    LET t == curr[c] IN
    /\ At(c, "run") /\ t \in scenario.mortal /\ loop[t] = "work"
    /\ set_special_state(t, "DEAD")
    /\ loop' = [loop EXCEPT ![t] = "dead"]
    /\ Goto(c, "sched")
    /\ UNCHANGED <<on_rq, on_cpu, cpu, contributes, cond, sig, drops, pi_lock, rq_lock, rqVars>>

-----------------------------------------------------------------------------
(* __schedule() on CPU c *)

\* An interrupt preempts the current task, or the idle loop calls schedule_idle().
preempt_schedule_irq(c) ==
    /\ At(c, "run")
    /\ Goto(c, "preempt")
    /\ UNCHANGED <<taskVars, waitVars, pi_lock, rq_lock, rqVars>>

\* rq->lock is taken and prev->__state loaded once; a task that calls schedule() in a sleeping
\* state is to be deactivated, unless a signal is pending.
schedule_lock(c) ==
    LET prev == curr[c]
        sleeps == At(c, "sched") /\ prev \in Tasks /\ state[prev] # "RUNNING"
        signalled == sleeps /\ sig[prev] /\ state[prev] = "INTERRUPTIBLE"
        load == sleeps /\ ~signalled /\ state[prev] = "UNINTERRUPTIBLE"
    IN /\ ctx[c].at \in {"sched", "preempt"}
       /\ rq_lock[c] = Free
       /\ rq_lock' = [rq_lock EXCEPT ![c] = c]
       /\ state' = IF signalled THEN [state EXCEPT ![prev] = "RUNNING"] ELSE state
       /\ contributes' = IF sleeps /\ ~signalled THEN [contributes EXCEPT ![prev] = load]
                         ELSE contributes
       /\ nr_uninterruptible' = [nr_uninterruptible EXCEPT ![c] = (@ + (IF load THEN 1 ELSE 0)) % UINT]
       /\ ctx' = [ctx EXCEPT ![c].p = prev,
                             ![c].at = IF sleeps /\ ~signalled THEN "deactivate" ELSE "switch"]
       /\ UNCHANGED <<on_rq, on_cpu, cpu, waitVars, pi_lock, queued, curr, wake_list, nr_iowait>>

\* deactivate_task() publishes p->on_rq = 0 first: from here on a waker goes the long way.
deactivate_task(c) ==
    /\ At(c, "deactivate")
    /\ on_rq' = [on_rq EXCEPT ![ctx[c].p] = "no"]
    /\ Goto(c, "switch")
    /\ UNCHANGED <<state, on_cpu, cpu, contributes, waitVars, pi_lock, rq_lock, rqVars>>

prepare_task(next) == on_cpu' = [t \in Tasks |-> on_cpu[t] \/ t = next]

\* The rest of __schedule() up to the stack switch: the dequeue and the I/O accounting of a
\* sleeper, the choice of the next task, rq->curr, and prepare_task().
context_switch(c) ==
    LET prev == ctx[c].p
        slept == prev \in Tasks /\ on_rq[prev] = "no"
        left == IF slept THEN queued[c] \ {prev} ELSE queued[c]
    IN /\ At(c, "switch")
       /\ queued' = [queued EXCEPT ![c] = left]
       /\ nr_iowait' = [nr_iowait EXCEPT ![c] = @ + (IF slept /\ in_iowait(prev) THEN 1 ELSE 0)]
       /\ \E next \in IF left = {} THEN {Idle} ELSE left :
            /\ curr' = [curr EXCEPT ![c] = next]
            /\ IF next = prev
               THEN rq_lock' = [rq_lock EXCEPT ![c] = Free] /\ on_cpu' = on_cpu /\ Return(c)
               ELSE /\ prepare_task(next)
                    /\ rq_lock' = rq_lock /\ Goto(c, "finish")
       /\ UNCHANGED <<state, on_rq, cpu, contributes, waitVars, pi_lock, wake_list,
                      nr_uninterruptible>>

\* finish_task_switch(): prev->__state is read while prev is still marked as on this CPU.
finish_task_switch(c) ==
    LET prev == ctx[c].p IN
    /\ At(c, "finish")
    /\ ctx' = [ctx EXCEPT ![c].at = "finish_task",
                          ![c].st = IF prev \in Tasks THEN state[prev] ELSE "RUNNING"]
    /\ UNCHANGED <<taskVars, waitVars, pi_lock, rq_lock, rqVars>>

\* finish_task(): the release store after which a waker may move prev to another CPU.
finish_task(c) ==
    LET prev == ctx[c].p IN
    /\ At(c, "finish_task")
    /\ on_cpu' = [t \in Tasks |-> on_cpu[t] /\ t # prev]
    /\ Goto(c, "finish_lock")
    /\ UNCHANGED <<state, on_rq, cpu, contributes, waitVars, pi_lock, rq_lock, rqVars>>

\* finish_lock_switch() releases rq->lock, and the reference of a dead prev is dropped.
finish_lock_switch(c) ==
    /\ At(c, "finish_lock")
    /\ rq_lock' = [rq_lock EXCEPT ![c] = Free]
    /\ drops' = IF ctx[c].st = "DEAD" THEN [drops EXCEPT ![ctx[c].p] = @ + 1] ELSE drops
    /\ Return(c)
    /\ UNCHANGED <<taskVars, loop, cond, sig, pi_lock, rqVars>>

-----------------------------------------------------------------------------
(* try_to_wake_up() by CPU c, on behalf of its current task or in an interrupt *)

\* The waker makes CONDITION true, or sets TIF_SIGPENDING, and then calls
\* wake_up_state(p, mask).
wake_event(c, t) ==
    /\ At(c, "run")
    /\ cond' = [cond EXCEPT ![t] = TRUE]
    /\ ctx' = [ctx EXCEPT ![c] = [Running EXCEPT !.at = "ttwu", !.p = t, !.mask = TASK_NORMAL]]
    /\ UNCHANGED <<taskVars, loop, sig, drops, pi_lock, rq_lock, rqVars>>

wake_signal(c, t) ==
    /\ At(c, "run") /\ scenario.signals
    /\ sig' = [sig EXCEPT ![t] = TRUE]
    /\ ctx' = [ctx EXCEPT ![c] = [Running EXCEPT !.at = "ttwu", !.p = t,
                                                 !.mask = {"INTERRUPTIBLE"}]]
    /\ UNCHANGED <<taskVars, loop, cond, drops, pi_lock, rq_lock, rqVars>>

Unlock(c) == pi_lock' = [pi_lock EXCEPT ![ctx[c].p] = Free] /\ Return(c)

\* Waking current: no lock, the CPU is running the task itself.
ttwu_current(c) ==
    LET p == ctx[c].p IN
    /\ At(c, "ttwu") /\ p = curr[c]
    /\ state' = IF state[p] \in ctx[c].mask THEN [state EXCEPT ![p] = "RUNNING"] ELSE state
    /\ Return(c)
    /\ UNCHANGED <<on_rq, on_cpu, cpu, contributes, waitVars, pi_lock, rq_lock, rqVars>>

ttwu_lock(c) ==
    LET p == ctx[c].p IN
    /\ At(c, "ttwu") /\ p # curr[c]
    /\ pi_lock[p] = Free
    /\ pi_lock' = [pi_lock EXCEPT ![p] = c]
    /\ Goto(c, "match")
    /\ UNCHANGED <<taskVars, waitVars, rq_lock, rqVars>>

\* ttwu_state_match(): only a task in one of the states of the mask is woken.
ttwu_state_match(c) ==
    /\ At(c, "match")
    /\ IF state[ctx[c].p] \in ctx[c].mask
       THEN Goto(c, "on_rq") /\ pi_lock' = pi_lock
       ELSE Unlock(c)
    /\ UNCHANGED <<taskVars, waitVars, rq_lock, rqVars>>

\* p->on_rq is loaded after p->__state.
ttwu_on_rq(c) ==
    /\ At(c, "on_rq")
    /\ Goto(c, IF on_rq[ctx[c].p] = "no" THEN "waking" ELSE "runnable")
    /\ UNCHANGED <<taskVars, waitVars, pi_lock, rq_lock, rqVars>>

\* __task_rq_lock(): the queue of the task, whose lock is free and the task not in migration.
task_rq_lockable(p) == rq_lock[cpu[p]] = Free /\ on_rq[p] # "migrating"

ttwu_do_wakeup(ps) == state' = [t \in Tasks |-> IF t \in ps THEN "RUNNING" ELSE state[t]]

\* Bug: ttwu_runnable() trusts the p->on_rq it read before it took the lock.
ttwu_runnable_unchecked(c) ==
    LET p == ctx[c].p IN
    /\ At(c, "runnable") /\ task_rq_lockable(p)
    /\ state' = [state EXCEPT ![p] = "RUNNING"] /\ Unlock(c)
    /\ UNCHANGED <<on_rq, on_cpu, cpu, contributes, waitVars, rq_lock, rqVars>>

\* ttwu_runnable(): the task is still queued under its rq->lock, so it has not slept yet.
ttwu_runnable(c) ==
    LET p == ctx[c].p IN
    /\ At(c, "runnable") /\ task_rq_lockable(p)
    /\ IF on_rq[p] = "queued"
       THEN ttwu_do_wakeup({p}) /\ Unlock(c)
       ELSE Goto(c, "waking") /\ UNCHANGED <<state, pi_lock>>
    /\ UNCHANGED <<on_rq, on_cpu, cpu, contributes, waitVars, rq_lock, rqVars>>

\* The task is ours to enqueue: TASK_WAKING keeps every other waker away.
ttwu_waking(c) ==
    /\ At(c, "waking")
    /\ state' = [state EXCEPT ![ctx[c].p] = "WAKING"]
    /\ Goto(c, "on_cpu")
    /\ UNCHANGED <<on_rq, on_cpu, cpu, contributes, waitVars, pi_lock, rq_lock, rqVars>>

cpus_share_cache(c, d) == LLC[c] = LLC[d]

\* Leave the activation to CPU d, which does not share the waker's cache or has nothing to run?
ttwu_queue_cond(c, d) == ~cpus_share_cache(c, d) \/ (c # d /\ queued[d] = {})
ttwu_queue_wakelist(c, d) == TTWU_QUEUE /\ ttwu_queue_cond(c, d)

__ttwu_queue_wakelist(p, d, migrated) ==
    wake_list' = [wake_list EXCEPT ![d] = @ \cup {[p |-> p, sched_remote_wakeup |-> migrated]}]

\* The task is still being switched out: let that CPU do the wake-up once it is through.
ttwu_on_cpu(c) ==
    LET p == ctx[c].p IN
    /\ At(c, "on_cpu")
    /\ IF on_cpu[p] /\ ttwu_queue_wakelist(c, cpu[p])
       THEN __ttwu_queue_wakelist(p, cpu[p], FALSE) /\ Unlock(c)
       ELSE Goto(c, "wait") /\ UNCHANGED <<wake_list, pi_lock>>
    /\ UNCHANGED <<taskVars, waitVars, rq_lock, queued, curr, nr_uninterruptible, nr_iowait>>

\* select_task_rq(): any CPU, by the choice of the task's class.
select_task_rq(p) == CPUs

\* Bug: the waker does not wait until the old CPU is done with the task.
ttwu_no_wait(c) ==
    LET p == ctx[c].p IN
    /\ At(c, "wait")
    /\ \E d \in select_task_rq(p) :
         /\ nr_iowait' = [nr_iowait EXCEPT
                            ![cpu[p]] = @ - (IF d # cpu[p] /\ in_iowait(p) THEN 1 ELSE 0)]
         /\ cpu' = [cpu EXCEPT ![p] = d]
         /\ ctx' = [ctx EXCEPT ![c].at = "queue", ![c].mig = (d # cpu[p])]
    /\ UNCHANGED <<state, on_rq, on_cpu, contributes, waitVars, pi_lock, rq_lock, queued, curr,
                   wake_list, nr_uninterruptible>>

\* Wait until the old CPU has cleared p->on_cpu, then choose a CPU and move the task there.
ttwu_wait(c) ==
    LET p == ctx[c].p IN
    /\ At(c, "wait")
    /\ ~on_cpu[p]
    /\ \E d \in select_task_rq(p) :
         /\ nr_iowait' = [nr_iowait EXCEPT
                            ![cpu[p]] = @ - (IF d # cpu[p] /\ in_iowait(p) THEN 1 ELSE 0)]
         /\ cpu' = [cpu EXCEPT ![p] = d]
         /\ ctx' = [ctx EXCEPT ![c].at = "queue", ![c].mig = (d # cpu[p])]
    /\ UNCHANGED <<state, on_rq, on_cpu, contributes, waitVars, pi_lock, rq_lock, queued, curr,
                   wake_list, nr_uninterruptible>>

\* ttwu_queue(): by the wake list of the chosen CPU, or by taking its lock.
ttwu_queue(c) ==
    LET p == ctx[c].p IN
    /\ At(c, "queue")
    /\ IF ttwu_queue_wakelist(c, cpu[p])
       THEN __ttwu_queue_wakelist(p, cpu[p], ctx[c].mig) /\ Unlock(c)
       ELSE Goto(c, "activate") /\ UNCHANGED <<wake_list, pi_lock>>
    /\ UNCHANGED <<taskVars, waitVars, rq_lock, queued, curr, nr_uninterruptible, nr_iowait>>

\* Bug: a task that moved is not taken out of the load.
ttwu_do_activate_moved_load(d, ps, moved) ==
    /\ nr_uninterruptible' = [nr_uninterruptible EXCEPT
                                ![d] = (@ - Cardinality({p \in ps \ moved : contributes[p]})) % UINT]
    /\ nr_iowait' = [nr_iowait EXCEPT ![d] = @ - Cardinality({p \in ps \ moved : in_iowait(p)})]
    /\ queued' = [queued EXCEPT ![d] = @ \cup ps]
    /\ on_rq' = [t \in Tasks |-> IF t \in ps THEN "queued" ELSE on_rq[t]]
    /\ ttwu_do_wakeup(ps)

\* ttwu_do_activate() of the tasks ps on d's queue, of which those in moved came from another.
ttwu_do_activate(d, ps, moved) ==
    /\ nr_uninterruptible' = [nr_uninterruptible EXCEPT
                                ![d] = (@ - Cardinality({p \in ps : contributes[p]})) % UINT]
    /\ nr_iowait' = [nr_iowait EXCEPT ![d] = @ - Cardinality({p \in ps \ moved : in_iowait(p)})]
    /\ queued' = [queued EXCEPT ![d] = @ \cup ps]
    /\ on_rq' = [t \in Tasks |-> IF t \in ps THEN "queued" ELSE on_rq[t]]
    /\ ttwu_do_wakeup(ps)

ttwu_activate(c) ==
    LET p == ctx[c].p IN
    /\ At(c, "activate")
    /\ rq_lock[cpu[p]] = Free
    /\ ttwu_do_activate(cpu[p], {p}, IF ctx[c].mig THEN {p} ELSE {})
    /\ Unlock(c)
    /\ UNCHANGED <<on_cpu, cpu, contributes, waitVars, rq_lock, curr, wake_list>>

\* sched_ttwu_pending(): the interrupt that activates the tasks of the wake list.  The two
\* checks with a WARN_ON_ONCE are WakeListClean.
sched_ttwu_pending(c) ==
    LET ps == {w.p : w \in wake_list[c]}
        moved == {w.p : w \in {v \in wake_list[c] : v.sched_remote_wakeup}}
    IN /\ At(c, "run") /\ wake_list[c] # {} /\ rq_lock[c] = Free
       /\ ttwu_do_activate(c, ps, moved)
       /\ wake_list' = [wake_list EXCEPT ![c] = {}]
       /\ UNCHANGED <<on_cpu, cpu, contributes, waitVars, pi_lock, rq_lock, curr, ctx>>

-----------------------------------------------------------------------------
(* The load balancer, and try_invoke_on_locked_down_task() *)

\* A queued task that no CPU runs leaves queue d, marked as migrating ...
detach_task(c, p) ==
    LET d == cpu[p] IN
    /\ scenario.balancing /\ At(c, "run") /\ rq_lock[d] = Free
    /\ p \in queued[d] /\ ~on_cpu[p]
    /\ on_rq' = [on_rq EXCEPT ![p] = "migrating"]
    /\ queued' = [queued EXCEPT ![d] = @ \ {p}]
    /\ cpu' = [cpu EXCEPT ![p] = c]
    /\ ctx' = [ctx EXCEPT ![c].at = "detached", ![c].p = p]
    /\ UNCHANGED <<state, on_cpu, contributes, waitVars, pi_lock, rq_lock, curr, wake_list,
                   nr_uninterruptible, nr_iowait>>

\* ... and enters the queue of CPU c.
attach_task(c) ==
    LET p == ctx[c].p IN
    /\ At(c, "detached") /\ rq_lock[c] = Free
    /\ on_rq' = [on_rq EXCEPT ![p] = "queued"]
    /\ queued' = [queued EXCEPT ![c] = @ \cup {p}]
    /\ Return(c)
    /\ UNCHANGED <<state, on_cpu, cpu, contributes, waitVars, pi_lock, rq_lock, curr, wake_list,
                   nr_uninterruptible, nr_iowait>>

\* p->pi_lock is taken; p->on_rq decides how the task is pinned down.
try_invoke_on_locked_down_task(c, p) ==
    /\ scenario.inspected /\ At(c, "run") /\ pi_lock[p] = Free
    /\ pi_lock' = [pi_lock EXCEPT ![p] = c]
    /\ ctx' = [ctx EXCEPT ![c].p = p, ![c].at = IF on_rq[p] # "no" THEN "locked" ELSE "recheck"]
    /\ UNCHANGED <<taskVars, waitVars, rq_lock, rqVars>>

\* Runnable: func runs under the lock of the task's queue.
invoke_locked(c) ==
    LET p == ctx[c].p IN
    /\ At(c, "locked") /\ task_rq_lockable(p)
    /\ rq_lock' = [rq_lock EXCEPT ![cpu[p]] = c]
    /\ Goto(c, "func")
    /\ UNCHANGED <<taskVars, waitVars, pi_lock, rqVars>>

\* Bug: the state of the task is not looked at.
invoke_sleeping_unchecked(c) ==
    /\ At(c, "recheck")
    /\ Goto(c, "func")
    /\ UNCHANGED <<taskVars, waitVars, pi_lock, rq_lock, rqVars>>

\* Not runnable: func runs if the task is asleep and still not on a queue.
invoke_sleeping(c) ==
    LET p == ctx[c].p IN
    /\ At(c, "recheck")
    /\ IF state[p] \in {"RUNNING", "WAKING"} \/ on_rq[p] # "no"
       THEN Unlock(c)
       ELSE Goto(c, "func") /\ pi_lock' = pi_lock
    /\ UNCHANGED <<taskVars, waitVars, rq_lock, rqVars>>

invoke_return(c) ==
    /\ At(c, "func")
    /\ rq_lock' = [d \in CPUs |-> IF rq_lock[d] = c THEN Free ELSE rq_lock[d]]
    /\ Unlock(c)
    /\ UNCHANGED <<taskVars, waitVars, rqVars>>

-----------------------------------------------------------------------------
Wait(c) == set_current_state(c) \/ wait_over(c) \/ wait_schedule(c) \/ do_task_dead(c)
__schedule(c) == schedule_lock(c) \/ deactivate_task(c) \/ context_switch(c)
                 \/ finish_task_switch(c) \/ finish_task(c) \/ finish_lock_switch(c)
try_to_wake_up(c) == ttwu_current(c) \/ ttwu_lock(c) \/ ttwu_state_match(c) \/ ttwu_on_rq(c)
                     \/ ttwu_runnable(c) \/ ttwu_waking(c) \/ ttwu_on_cpu(c) \/ ttwu_wait(c)
                     \/ ttwu_queue(c) \/ ttwu_activate(c)
Invoke(c) == invoke_locked(c) \/ invoke_sleeping(c) \/ invoke_return(c)

Step == \E c \in CPUs :
          \/ Wait(c) \/ preempt_schedule_irq(c) \/ __schedule(c) \/ try_to_wake_up(c)
          \/ sched_ttwu_pending(c) \/ attach_task(c) \/ Invoke(c)
          \/ \E t \in scenario.waiters : wake_event(c, t) \/ wake_signal(c, t) \/ detach_task(c, t)
                                         \/ try_invoke_on_locked_down_task(c, t)

Next == Step /\ UNCHANGED scenario

Spec == Init /\ [][Next]_vars

\* Kernel code does not stop half-way and queued spin locks are granted in the order of the
\* requests; a pending interrupt is taken when interrupts are enabled again.
Fairness ==
    \A c \in CPUs :
      /\ SF_stepVars(__schedule(c) \/ try_to_wake_up(c) \/ attach_task(c) \/ Invoke(c))
      /\ SF_stepVars(sched_ttwu_pending(c))

FairSpec == Spec /\ Fairness

-----------------------------------------------------------------------------
(* Properties *)

TypeOK ==
    /\ scenario \in Scenarios
    /\ state \in [Tasks -> State] /\ on_rq \in [Tasks -> OnRq]
    /\ on_cpu \in [Tasks -> BOOLEAN] /\ cpu \in [Tasks -> CPUs]
    /\ contributes \in [Tasks -> BOOLEAN]
    /\ loop \in [Tasks -> {"work", "test", "asleep", "dead"}]
    /\ cond \in [Tasks -> BOOLEAN] /\ sig \in [Tasks -> BOOLEAN] /\ drops \in [Tasks -> Nat]
    /\ pi_lock \in [Tasks -> CPUs \cup {Free}] /\ rq_lock \in [CPUs -> CPUs \cup {Free}]
    /\ queued \in [CPUs -> SUBSET Tasks] /\ curr \in [CPUs -> Tasks \cup {Idle}]
    /\ wake_list \in [CPUs -> SUBSET [p : Tasks, sched_remote_wakeup : BOOLEAN]]
    /\ nr_uninterruptible \in [CPUs -> 0..UINT-1] /\ nr_iowait \in [CPUs -> Int]
    /\ ctx \in [CPUs -> Ctx]

\* CPU c is executing on the stack of t, or has not finished switching away from it.
OnStack(c, t) == \/ curr[c] = t
                 \/ ctx[c].p = t /\ ctx[c].at \in {"finish", "finish_task"}

\* The program-order guarantee: a task never runs on a CPU while another CPU is still using its
\* stack, and a CPU only uses the stack of a task that has on_cpu set.
OneStack ==
    \A t \in Tasks : /\ Cardinality({c \in CPUs : OnStack(c, t)}) <= 1
                     /\ \A c \in CPUs : OnStack(c, t) => on_cpu[t]

\* A task is on at most one queue, the one task_cpu() names, and exactly while p->on_rq says so;
\* the only exception is the sleeper between the two stores of deactivate_task().
QueuedOnce ==
    \A t \in Tasks, c \in CPUs :
      t \in queued[c] <=>
        /\ cpu[t] = c
        /\ on_rq[t] = "queued" \/ (on_rq[t] = "no" /\ At(c, "switch") /\ ctx[c].p = t)

\* The two warnings of sched_ttwu_pending() cannot fire: when CPU c takes the interrupt, no task
\* of its wake list is still on a CPU, and each is assigned to c.
WakeListClean ==
    \A c \in CPUs : At(c, "run") =>
      \A w \in wake_list[c] : ~on_cpu[w.p] /\ cpu[w.p] = c /\ state[w.p] = "WAKING"

\* No wake-up is lost between the wait loop, schedule() and try_to_wake_up(): a task that has
\* gone to sleep although its condition holds has a waker on its way to it.
NoLostWakeup ==
    \A t \in Tasks : cond[t] /\ on_rq[t] = "no" /\ loop[t] # "dead" =>
      \/ \E c \in CPUs : ctx[c].p = t /\ ctx[c].at \in
              {"ttwu", "match", "on_rq", "runnable", "waking", "on_cpu", "wait", "queue", "activate"}
      \/ \E c \in CPUs : \E w \in wake_list[c] : w.p = t

\* The reference of a dead task is dropped once, after the task has left every queue, and the
\* BUG() behind the last __schedule() is never reached.
DeadIsFinal ==
    \A t \in Tasks :
      /\ drops[t] <= 1
      /\ drops[t] = 1 => on_rq[t] = "no" /\ ~on_cpu[t]
      /\ loop[t] = "dead" => \A c \in CPUs : curr[c] = t => ctx[c].at \in {"sched", "deactivate", "switch"}

\* Where a task is has one answer at every moment of a wake-up that races with the switch away
\* from the task: its stack, its queue, its wake list entry and its last reference.
OnePlace == OneStack /\ QueuedOnce /\ WakeListClean /\ DeadIsFinal

\* The load average counts every uninterruptible sleeper once: the counters of the queues, which
\* a task that wakes up elsewhere leaves unbalanced (they wrap below zero), sum up to their number.
LoadCounted ==
    MapThenSumSet(LAMBDA c : nr_uninterruptible[c], CPUs) % UINT
      = Cardinality({t \in Tasks : contributes[t] /\
            (on_rq[t] = "no" \/ \E c \in CPUs : At(c, "deactivate") /\ ctx[c].p = t)})

\* nr_iowait of a queue is the number of tasks that sleep there in io_schedule(); a sleeper that
\* is being moved has left it.
IowaitCounted ==
    \A c \in CPUs :
      nr_iowait[c] = Cardinality({t \in Tasks :
        /\ in_iowait(t) /\ on_rq[t] = "no" /\ cpu[t] = c
        /\ ~(At(c, "switch") /\ ctx[c].p = t)
        /\ ~\E d \in CPUs : ctx[d].p = t /\ ctx[d].at \in {"queue", "activate"} /\ ctx[d].mig
        /\ [p |-> t, sched_remote_wakeup |-> TRUE] \notin wake_list[c]})

\* The counters that deactivation and wake-up change on different queues count every sleeper once.
SleepersCounted == LoadCounted /\ IowaitCounted

\* While func runs in try_invoke_on_locked_down_task() the task neither leaves nor enters a
\* queue and no CPU starts or stops running it, apart from the end of a switch away from it.
LockedDown ==
    [][\A c \in CPUs : At(c, "func") =>
         LET p == ctx[c].p IN
         on_rq'[p] = on_rq[p] /\ cpu'[p] = cpu[p] /\ (on_cpu'[p] => on_cpu[p])]_vars

\* A waker that finds a sleeping task gets it onto a run queue.
WokenTaskIsQueued ==
    \A t \in Tasks : (cond[t] /\ on_rq[t] = "no" /\ loop[t] = "asleep") ~> on_rq[t] = "queued"
=============================================================================
