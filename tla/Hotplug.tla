------------------------------ MODULE Hotplug -------------------------------
(***************************************************************************)
(* CPU hotplug as kernel/sched/core.c takes part in it: a CPU is made      *)
(* inactive, its tasks are pushed away by balance_push() each time it      *)
(* schedules, the hotplug thread waits until it is alone, and the CPU      *)
(* dies; later it is started and activated again.  The state machine that  *)
(* calls these functions is kernel/cpu.c, which the repository does not    *)
(* hold: it runs one operation at a time and may reverse one half way.     *)
(*                                                                         *)
(* Wake-ups run in two parts inside an RCU read-side section, because      *)
(* between the choice of a CPU and the enqueue the CPU may be deactivated. *)
(***************************************************************************)
EXTENDS Naturals, FiniteSets

CONSTANTS
    CPUs,       \* the possible CPUs
    Boot,       \* the CPU that is never taken down
    Sibling,    \* Sibling[c]: the other hyperthread of c's core, or c
    Tasks,      \* the tasks
    Kind,       \* Kind[t]: "user", "kthread" (unbound) or "percpu" (KTHREAD_IS_PER_CPU)
    Home,       \* Home[t]: the affinity t starts with
    Cpuset,     \* the CPUs of the tasks' cpuset
    None,       \* no task, no CPU
    Hp,         \* the hotplug thread of the CPU being operated on
    Stop,       \* the stopper of a CPU
    Idle,       \* the idle task of a CPU
    Pins        \* the tasks that use migrate_disable()

CpuAssumption == IsFiniteSet(CPUs) /\ Boot \in CPUs /\ None \notin CPUs
SiblingAssumption == Sibling \in [CPUs -> CPUs] /\ \A c \in CPUs : Sibling[Sibling[c]] = c
TaskAssumption ==
    /\ {None, Hp, Stop, Idle} \cap Tasks = {} /\ Pins \subseteq Tasks
    /\ Hp # Stop /\ Idle \notin {Hp, Stop}
HomeAssumption ==
    /\ Home \in [Tasks -> SUBSET CPUs]
    /\ \A t \in Tasks : Kind[t] = "percpu" => \E c \in CPUs : Home[t] = {c}
MaskAssumption == Boot \in Cpuset /\ Cpuset \subseteq CPUs

VARIABLES
    online,     \* cpu_online_mask
    active,     \* cpu_active_mask
    dying,      \* cpu_dying_mask
    rq_online,  \* the CPUs with rq->online
    push,       \* the CPUs whose rq->balance_callback is balance_push_callback
    spliced,    \* the callbacks a splice_balance_callbacks() has taken off a CPU
    smt_present,        \* sched_smt_present
    num_cpus_frozen,
    domains,    \* the scheduling domains: "cpusets", or "single" during suspend
    suspend,    \* "no", "freeze" or "thaw"
    frozen,     \* the CPUs suspend has taken down
    hp,         \* the hotplug operation: its CPU, where it is, tasks frozen, its thread
    readers,    \* the wake-ups synchronize_rcu() waits for
    curr,       \* curr[c]: rq->curr
    push_work,  \* push_work[c]: the task of the stopper work of balance_push()
    state,      \* state[t]: "sleeping", "woken" (CPU chosen), "listed", "queued" or "parked"
    cpu,        \* task_cpu(t)
    mask,       \* t->cpus_ptr, while t is not migrate-disabled
    pinned,     \* the migrate-disabled tasks
    warned      \* a WARN of sched_cpu_dying() or balance_push_set() has fired

maskVars == <<online, active, dying, rq_online>>
countVars == <<smt_present, num_cpus_frozen, domains, suspend, frozen>>
taskVars == <<curr, push_work, state, cpu, mask, pinned>>
vars == <<maskVars, push, spliced, countVars, hp, readers, taskVars, warned>>

NoCallback == [cpu |-> None, cb |-> "other"]
NoOp == [cpu |-> None, at |-> "none", tasks_frozen |-> FALSE, thread |-> "none"]
Stages == {"none", "down", "push", "sync", "cpuset", "park", "wait", "takedown", "unpush",
           "activate", "rebuild"}

Cores2 == {c \in CPUs : Sibling[c] # c}

Init ==
    /\ online = CPUs /\ active = CPUs /\ dying = {} /\ rq_online = CPUs
    /\ push = {} /\ spliced = NoCallback
    /\ smt_present = Cardinality(Cores2) \div 2 /\ num_cpus_frozen = 0
    /\ domains = "cpusets" /\ suspend = "no" /\ frozen = {}
    /\ hp = NoOp /\ readers = {}
    /\ curr = [c \in CPUs |-> Idle] /\ push_work = [c \in CPUs |-> None]
    /\ state = [t \in Tasks |-> "sleeping"]
    /\ mask = Home
    /\ cpu \in [Tasks -> CPUs] /\ \A t \in Tasks : cpu[t] \in Home[t]
    /\ pinned = {} /\ warned = FALSE

-----------------------------------------------------------------------------
(* Which CPUs a task may use *)

kthread_is_per_cpu(t) == t \in {Hp, Stop, Idle} \/ (t \in Tasks /\ Kind[t] = "percpu")

cpus_ptr(t) == IF t \in pinned THEN {cpu[t]} ELSE mask[t]

is_cpu_allowed(t, m, c) ==
    /\ c \in m
    /\ IF t \in pinned THEN c \in online
       ELSE CASE Kind[t] = "user"        -> c \in active
              [] kthread_is_per_cpu(t)   -> c \in online
              [] OTHER                   -> c \in online /\ c \notin dying

Allowed(t, m) == {c \in m : is_cpu_allowed(t, m, c)}

\* The CPUs select_fallback_rq() may return, with the affinity it leaves: the task's own, that of
\* its cpuset (unless the cpuset has none to offer), or every CPU.
select_fallback_rq(t) ==
    IF Allowed(t, cpus_ptr(t)) # {}
        THEN Allowed(t, cpus_ptr(t)) \X {mask[t]}
        ELSE (Allowed(t, Cpuset) \X {Cpuset}) \cup (Allowed(t, CPUs) \X {CPUs})

-----------------------------------------------------------------------------
(* Wake-ups *)

\* try_to_wake_up() takes pi_lock, which starts the read-side section, and select_task_rq()
\* takes what the class proposes when the task may run there.
select_task_rq(t) ==
    /\ state[t] = "sleeping"
    /\ \E c \in cpus_ptr(t) :
         \E d \in IF is_cpu_allowed(t, cpus_ptr(t), c) THEN {<<c, mask[t]>>} ELSE select_fallback_rq(t) :
           /\ cpu' = [cpu EXCEPT ![t] = d[1]]
           /\ mask' = [mask EXCEPT ![t] = d[2]]
    /\ state' = [state EXCEPT ![t] = "woken"]
    /\ UNCHANGED <<maskVars, push, spliced, countVars, hp, readers, curr, push_work, pinned, warned>>

ttwu_queue_cond(c) == c \in active

\* ttwu_queue(): on the wake list of the CPU, or with its rq->lock straight on its queue.
ttwu_queue(t) ==
    /\ state[t] = "woken"
    /\ \/ ttwu_queue_cond(cpu[t]) /\ state' = [state EXCEPT ![t] = "listed"]
       \/ state' = [state EXCEPT ![t] = "queued"]
    /\ readers' = readers \ {t}
    /\ UNCHANGED <<maskVars, push, spliced, countVars, hp, curr, push_work, cpu, mask, pinned, warned>>

Listed(c) == {t \in Tasks : state[t] = "listed" /\ cpu[t] = c}
Queued(c) == {t \in Tasks : state[t] = "queued" /\ cpu[t] = c}

\* The interrupt that empties the wake list; a CPU takes it before its tasks go on.
sched_ttwu_pending(c) ==
    /\ c \in online /\ Listed(c) # {}
    /\ state' = [t \in Tasks |-> IF t \in Listed(c) THEN "queued" ELSE state[t]]
    /\ UNCHANGED <<maskVars, push, spliced, countVars, hp, readers, curr, push_work, cpu, mask, pinned,
                   warned>>

TaskContext(c) == c \in online /\ Listed(c) = {}

-----------------------------------------------------------------------------
(* Scheduling on a CPU, and balance_push() at the end of it *)

OnHp(c) == hp.cpu = c /\ hp.thread = "queued"

\* What is queued on c besides its stopper.
OnRq(c) == Queued(c) \cup (IF OnHp(c) THEN {Hp} ELSE {})

rq_has_pinned_tasks(c) == \E t \in pinned : cpu[t] = c

\* A running task t that is not about to be pushed.
Runs(t) == TaskContext(cpu[t]) /\ curr[cpu[t]] = t /\ push_work[cpu[t]] = None

\* The idle task of a CPU with nothing queued and nothing pinned wakes the hotplug thread.
WakeHotplugWait(c, q) ==
    hp' = IF q = {} /\ ~rq_has_pinned_tasks(c) /\ hp.cpu = c /\ hp.thread = "wait"
          THEN [hp EXCEPT !.thread = "queued"] ELSE hp

\* balance_push() for the task p that c has just switched to, with q queued.
balance_push(c, p, q) ==
    IF c \notin push \/ c \notin dying THEN UNCHANGED <<hp, push_work>>
    ELSE IF kthread_is_per_cpu(p) \/ p \in pinned
    THEN WakeHotplugWait(c, q) /\ UNCHANGED push_work
    ELSE push_work' = [push_work EXCEPT ![c] = p] /\ UNCHANGED hp

\* c switches to next, or keeps it; a task that sleeps leaves the queue first, and the stopper
\* leaves it when its work is done.
__schedule(c, next) ==
    LET cur == curr[c] IN
    \E sleeps \in BOOLEAN :
    LET q == IF sleeps THEN OnRq(c) \ {cur} ELSE OnRq(c) IN
    /\ TaskContext(c)
    /\ sleeps => cur \in Tasks /\ Runs(cur)
    /\ cur = Stop => push_work[c] = None
    /\ next \in IF push_work[c] # None THEN {Stop} ELSE IF q # {} THEN q ELSE {Idle}
    /\ state' = IF sleeps THEN [state EXCEPT ![cur] = "sleeping"] ELSE state
    /\ curr' = [curr EXCEPT ![c] = next]
    /\ balance_push(c, next, IF next = Stop THEN q \cup {Stop} ELSE q)
    /\ UNCHANGED <<maskVars, push, spliced, countVars, readers, cpu, mask, pinned, warned>>

__balance_push_cpu_stop(c) ==
    LET p == push_work[c] IN
    /\ TaskContext(c) /\ curr[c] = Stop /\ p # None
    /\ IF cpu[p] = c /\ state[p] = "queued"
       THEN \E d \in select_fallback_rq(p) :
              cpu' = [cpu EXCEPT ![p] = d[1]] /\ mask' = [mask EXCEPT ![p] = d[2]]
       ELSE UNCHANGED <<cpu, mask>>
    /\ push_work' = [push_work EXCEPT ![c] = None]
    /\ UNCHANGED <<maskVars, push, spliced, countVars, hp, readers, curr, state, pinned, warned>>

migrate_disable(t) ==
    /\ t \in Pins \ pinned /\ Runs(t)
    /\ pinned' = pinned \cup {t}
    /\ UNCHANGED <<maskVars, push, spliced, countVars, hp, readers, curr, push_work, state, cpu, mask, warned>>

migrate_enable(t) ==
    /\ t \in pinned /\ Runs(t)
    /\ pinned' = pinned \ {t}
    /\ UNCHANGED <<maskVars, push, spliced, countVars, hp, readers, curr, push_work, state, cpu, mask, warned>>

\* The load balancer pulls a queued task to an active CPU it may use.
can_migrate_task(t) ==
    /\ state[t] = "queued" /\ curr[cpu[t]] # t /\ t \notin pinned
    /\ \E d \in (Allowed(t, mask[t]) \cap active) \ {cpu[t]} : cpu' = [cpu EXCEPT ![t] = d]
    /\ UNCHANGED <<maskVars, push, spliced, countVars, hp, readers, curr, push_work, state, mask, pinned,
                   warned>>

\* Bug: balance_push_callback is spliced like any other.
splice_balance_callbacks_all(c) ==
    /\ spliced.cpu = None
    /\ spliced' = [cpu |-> c, cb |-> IF c \in push THEN "push" ELSE "other"]
    /\ push' = push \ {c}
    /\ UNCHANGED <<maskVars, countVars, hp, readers, taskVars, warned>>

\* __sched_setscheduler() or rt_mutex_setprio() takes the callbacks queued under rq->lock off c, to
\* run them after it has dropped the lock.  queue_balance_callback() adds none and the splice takes
\* none while balance_push_callback is there.
splice_balance_callbacks(c) ==
    /\ spliced.cpu = None /\ c \notin push
    /\ spliced' = [cpu |-> c, cb |-> "other"]
    /\ UNCHANGED <<maskVars, push, countVars, hp, readers, taskVars, warned>>

\* The spliced callbacks run; balance_push() called from another CPU only makes itself stay.
balance_callbacks ==
    /\ spliced.cpu # None
    /\ push' = IF spliced.cb = "push" THEN push \cup {spliced.cpu} ELSE push
    /\ spliced' = NoCallback
    /\ UNCHANGED <<maskVars, countVars, hp, readers, taskVars, warned>>

-----------------------------------------------------------------------------
(* Going down: sched_cpu_deactivate(), sched_cpu_wait_empty(), sched_cpu_dying() *)

\* The hotplug thread of c runs stage s.
At(c, s) == hp.cpu = c /\ hp.at = s /\ curr[c] = Hp /\ TaskContext(c) /\ hp.thread = "queued"
Goto(s) == hp' = [hp EXCEPT !.at = s]

\* _cpu_down(): one operation at a time, never the last CPU; suspend freezes the tasks first.
cpu_down(c) ==
    /\ hp = NoOp /\ c \in active \ {Boot} /\ suspend # "thaw"
    /\ hp' = [cpu |-> c, at |-> "down", tasks_frozen |-> suspend = "freeze", thread |-> "queued"]
    /\ dying' = dying \cup {c}
    /\ UNCHANGED <<online, active, rq_online, push, spliced, countVars, readers, taskVars, warned>>

sched_cpu_deactivate(c) ==
    /\ At(c, "down")
    /\ active' = active \ {c}
    /\ Goto("push")
    /\ UNCHANGED <<online, dying, rq_online, push, spliced, countVars, readers, taskVars, warned>>

\* balance_push_set(.on = true), after which synchronize_rcu() sleeps.
balance_push_set_on(c) ==
    /\ At(c, "push")
    /\ push' = push \cup {c}
    /\ warned' = (warned \/ c \in push)
    /\ readers' = {t \in Tasks : state[t] = "woken"}
    /\ hp' = [hp EXCEPT !.at = "sync", !.thread = "sync"]
    /\ UNCHANGED <<maskVars, spliced, countVars, taskVars>>

\* Bug: no grace period.
synchronize_rcu_returns_at_once ==
    /\ hp.thread = "sync"
    /\ hp' = [hp EXCEPT !.thread = "queued"]
    /\ UNCHANGED <<maskVars, push, spliced, countVars, readers, taskVars, warned>>

synchronize_rcu ==
    /\ hp.thread = "sync" /\ readers = {}
    /\ hp' = [hp EXCEPT !.thread = "queued"]
    /\ UNCHANGED <<maskVars, push, spliced, countVars, readers, taskVars, warned>>

\* cpu_smt_mask(c) holds the online siblings.
BothSiblings(c) == Sibling[c] # c /\ {c, Sibling[c]} \subseteq online
sched_smt_present_inc(c) == smt_present' = IF BothSiblings(c) THEN smt_present + 1 ELSE smt_present
sched_smt_present_dec(c) == smt_present' = IF BothSiblings(c) THEN smt_present - 1 ELSE smt_present

set_rq_online(c) == rq_online' = rq_online \cup {c}
set_rq_offline(c) == rq_online' = rq_online \ {c}

\* The part of sched_cpu_deactivate() after the grace period.
sched_cpu_deactivate_offline(c) ==
    /\ At(c, "sync")
    /\ set_rq_offline(c)
    /\ sched_smt_present_dec(c)
    /\ Goto("cpuset")
    /\ UNCHANGED <<online, active, dying, push, spliced, num_cpus_frozen, domains, suspend, frozen, readers,
                   taskVars, warned>>

\* Bug: the counter of SMT cores is not put back.
cpuset_cpu_inactive_fails_smt(c) ==
    /\ At(c, "cpuset") /\ ~hp.tasks_frozen
    /\ push' = push \ {c} /\ active' = active \cup {c}
    /\ hp' = NoOp /\ dying' = dying \ {c}
    /\ UNCHANGED <<online, rq_online, spliced, countVars, readers, taskVars, warned>>

\* dl_bw_check_overflow() refuses: deactivation is undone, but for rq->online.
cpuset_cpu_inactive_fails(c) ==
    /\ At(c, "cpuset") /\ ~hp.tasks_frozen
    /\ sched_smt_present_inc(c)
    /\ push' = push \ {c} /\ active' = active \cup {c}
    /\ hp' = NoOp /\ dying' = dying \ {c}
    /\ UNCHANGED <<online, rq_online, spliced, num_cpus_frozen, domains, suspend, frozen, readers, taskVars,
                   warned>>

cpuset_cpu_inactive(c) ==
    /\ At(c, "cpuset")
    /\ domains' = IF hp.tasks_frozen THEN "single" ELSE "cpusets"
    /\ frozen' = IF hp.tasks_frozen THEN frozen \cup {c} ELSE frozen
    /\ num_cpus_frozen' = IF hp.tasks_frozen THEN num_cpus_frozen + 1 ELSE num_cpus_frozen
    /\ Goto("park")
    /\ UNCHANGED <<maskVars, push, spliced, smt_present, suspend, readers, taskVars, warned>>

PerCpu(c) == {t \in Tasks : Kind[t] = "percpu" /\ mask[t] = {c}}

\* The per-CPU threads stop in their parking loop.
smpboot_park_threads(c) ==
    /\ At(c, "park") /\ \A t \in PerCpu(c) : state[t] = "sleeping"
    /\ state' = [t \in Tasks |-> IF t \in PerCpu(c) THEN "parked" ELSE state[t]]
    /\ Goto("wait")
    /\ UNCHANGED <<maskVars, push, spliced, countVars, readers, curr, push_work, cpu, mask, pinned, warned>>

\* A later callback fails and the hotplug thread turns round.
cpuhp_reverse(c) ==
    /\ At(c, "park") \/ At(c, "wait")
    /\ dying' = dying \ {c}
    /\ Goto("unpush")
    /\ UNCHANGED <<online, active, rq_online, push, spliced, countVars, readers, taskVars, warned>>

\* Go on when nr_running is 1, which is this thread, and nothing is pinned; sleep otherwise.
balance_hotplug_wait(c) ==
    hp' = IF OnRq(c) = {Hp} /\ push_work[c] = None /\ ~rq_has_pinned_tasks(c)
          THEN [hp EXCEPT !.at = "takedown", !.thread = "none"] ELSE [hp EXCEPT !.thread = "wait"]

sched_cpu_wait_empty(c) ==
    /\ At(c, "wait")
    /\ balance_hotplug_wait(c)
    /\ UNCHANGED <<maskVars, push, spliced, countVars, readers, taskVars, warned>>

\* The stopper takes the CPU down and is the one task it counts; the CPU ends in its idle task.
sched_cpu_dying(c) ==
    /\ hp.cpu = c /\ hp.at = "takedown" /\ TaskContext(c) /\ push_work[c] = None
    /\ warned' = (warned \/ Queued(c) # {} \/ rq_has_pinned_tasks(c))
    /\ online' = online \ {c}
    /\ curr' = [curr EXCEPT ![c] = Idle]
    /\ hp' = NoOp
    /\ UNCHANGED <<active, dying, rq_online, push, spliced, countVars, readers, push_work, state, cpu, mask,
                   pinned>>

-----------------------------------------------------------------------------
(* Coming up: sched_cpu_starting(), sched_cpu_activate() *)

\* _cpu_up(): outside suspend, or for a CPU that suspend took down.
sched_cpu_starting(c) ==
    /\ hp = NoOp /\ c \in CPUs \ online
    /\ suspend = "no" \/ (suspend = "thaw" /\ c \in frozen)
    /\ online' = online \cup {c} /\ dying' = dying \ {c}
    /\ hp' = [cpu |-> c, at |-> "unpush", tasks_frozen |-> suspend = "thaw", thread |-> "queued"]
    /\ UNCHANGED <<active, rq_online, push, spliced, countVars, readers, taskVars, warned>>

\* The per-CPU threads are unparked, then balance_push_set(.on = false).
sched_cpu_activate(c) ==
    /\ At(c, "unpush")
    /\ state' = [t \in Tasks |-> IF t \in PerCpu(c) /\ state[t] = "parked" THEN "sleeping" ELSE state[t]]
    /\ push' = push \ {c}
    /\ Goto("activate")
    /\ UNCHANGED <<maskVars, spliced, countVars, readers, curr, push_work, cpu, mask, pinned, warned>>

set_cpu_active(c) ==
    /\ At(c, "activate")
    /\ sched_smt_present_inc(c)
    /\ active' = active \cup {c}
    /\ Goto("rebuild")
    /\ UNCHANGED <<online, dying, rq_online, push, spliced, num_cpus_frozen, domains, suspend, frozen, readers,
                   taskVars, warned>>

cpuset_cpu_active ==
    /\ num_cpus_frozen' = IF hp.tasks_frozen THEN num_cpus_frozen - 1 ELSE num_cpus_frozen
    /\ domains' = IF hp.tasks_frozen /\ num_cpus_frozen' # 0 THEN "single" ELSE "cpusets"

\* The part of sched_cpu_activate() after set_cpu_active().
sched_cpu_activate_online(c) ==
    /\ At(c, "rebuild")
    /\ cpuset_cpu_active
    /\ frozen' = frozen \ {c}
    /\ set_rq_online(c)
    /\ hp' = NoOp
    /\ curr' = [curr EXCEPT ![c] = Idle]
    /\ UNCHANGED <<online, active, dying, push, spliced, smt_present, suspend, readers, push_work, state, cpu,
                   mask, pinned, warned>>

\* freeze_secondary_cpus() and thaw_secondary_cpus() of kernel/cpu.c.
SuspendStep ==
    /\ hp = NoOp
    /\ suspend' = CASE suspend = "no" -> "freeze"
                    [] suspend = "freeze" -> "thaw"
                    [] OTHER -> IF frozen = {} THEN "no" ELSE "thaw"
    /\ UNCHANGED <<maskVars, push, spliced, smt_present, num_cpus_frozen, domains, frozen, hp, readers,
                   taskVars, warned>>

-----------------------------------------------------------------------------
HotplugStep(c) ==
    \/ cpu_down(c) \/ sched_cpu_deactivate(c) \/ balance_push_set_on(c)
    \/ sched_cpu_deactivate_offline(c) \/ cpuset_cpu_inactive_fails(c) \/ cpuset_cpu_inactive(c)
    \/ smpboot_park_threads(c) \/ cpuhp_reverse(c)
    \/ sched_cpu_wait_empty(c) \/ sched_cpu_dying(c)
    \/ sched_cpu_starting(c) \/ sched_cpu_activate(c) \/ set_cpu_active(c) \/ sched_cpu_activate_online(c)

Next ==
    \/ \E t \in Tasks : select_task_rq(t) \/ ttwu_queue(t) \/ migrate_disable(t) \/ migrate_enable(t)
                        \/ can_migrate_task(t)
    \/ \E c \in CPUs : \/ sched_ttwu_pending(c) \/ __balance_push_cpu_stop(c) \/ splice_balance_callbacks(c)
                       \/ \E next \in Tasks \cup {Hp, Stop, Idle} : __schedule(c, next)
                       \/ HotplugStep(c)
    \/ balance_callbacks \/ synchronize_rcu \/ SuspendStep

Spec == Init /\ [][Next]_vars

-----------------------------------------------------------------------------
TypeOK ==
    /\ active \subseteq online /\ online \subseteq CPUs /\ dying \subseteq CPUs
    /\ rq_online \subseteq CPUs /\ push \subseteq CPUs
    /\ spliced \in [cpu : CPUs \cup {None}, cb : {"push", "other"}]
    /\ smt_present \in 0..Cardinality(CPUs) /\ num_cpus_frozen \in 0..Cardinality(CPUs)
    /\ domains \in {"cpusets", "single"} /\ suspend \in {"no", "freeze", "thaw"} /\ frozen \subseteq CPUs
    /\ hp \in [cpu : CPUs \cup {None}, at : Stages, tasks_frozen : BOOLEAN,
               thread : {"none", "queued", "sync", "wait"}]
    /\ readers \subseteq Tasks /\ pinned \subseteq Tasks /\ warned \in BOOLEAN
    /\ curr \in [CPUs -> Tasks \cup {Hp, Stop, Idle}] /\ push_work \in [CPUs -> Tasks \cup {None}]
    /\ state \in [Tasks -> {"sleeping", "woken", "listed", "queued", "parked"}]
    /\ cpu \in [Tasks -> CPUs] /\ mask \in [Tasks -> SUBSET CPUs]

\* A CPU that has gone offline was vacated: the warnings of sched_cpu_dying() and balance_push_set()
\* never fire, and no task is queued, on the wake list, on its way or pinned there; and until then
\* the push, the pull and the wake-up of one task never move it from under the CPU that runs it.
Vacated ==
    /\ ~warned
    /\ \A c \in CPUs \ online : /\ \A t \in Tasks : cpu[t] = c => state[t] \in {"sleeping", "parked"}
                                /\ ~rq_has_pinned_tasks(c)
    /\ \A c \in CPUs : curr[c] \in Tasks => state[curr[c]] = "queued" /\ cpu[curr[c]] = c

\* From balance_push_set(on) until sched_cpu_activate() the queue keeps balance_push_callback,
\* whatever __schedule() and sched_setscheduler() do with the callbacks in between.
PushPersists ==
    \A c \in CPUs : c \notin online \/ (hp.cpu = c /\ hp.at \in {"sync", "cpuset", "park", "wait", "takedown"})
                    => c \in push

\* Between operations the counters agree with the CPUs, even when an operation was reversed half
\* way: sched_smt_present counts the cores with two active siblings, num_cpus_frozen the CPUs
\* suspend has taken down; and when suspend and resume are over the domains of the cpusets are back.
CountersBalanced ==
    hp = NoOp =>
      /\ 2 * smt_present = Cardinality({c \in Cores2 : {c, Sibling[c]} \subseteq active})
      /\ num_cpus_frozen = Cardinality(frozen)
      /\ suspend = "no" => domains = "cpusets"
=============================================================================
