# A lottery scheduler in Linux 5.15: TLA+ models, checks and proofs

The repository adds a scheduling class, `lottery_sched_class`, and a policy,
`SCHED_LOTTERY`, to a Linux 5.15.180 kernel that is built for a uniprocessor
ARM board and run under QEMU. This directory models the class, the core
scheduler and the process creation around it, checks the models with TLC and
proves the main results about the class and the kernel around it with TLAPS.

Paths below are relative to `src/linux-5.15.180/` unless they start with
`src/`.

## 1. Inventory

| Component | State | Operations | Interacts with |
|---|---|---|---|
| Lottery class (`kernel/sched/lottery.c`) | `struct ltr_rq`: list, `nr_running`, `total_tickets`; `p->ltr.tickets`, `p->ltr.list` | enqueue, dequeue, draw (`pick_next_task_lottery`), tick, `switched_from`; the other hooks are empty | called by `core.c` under `rq->lock` |
| Policies and classes (`kernel/sched/sched.h`, `include/uapi/linux/sched.h`, `include/asm-generic/vmlinux.lds.h`) | none | policy predicates, order of classes, priority of a policy | used everywhere |
| Run queue and `__schedule` (`kernel/sched/core.c`) | `struct rq`: `curr`, `nr_running`, the queues of the classes, `TIF_NEED_RESCHED`; `p->on_rq`, `p->__state` | activate, deactivate, preemption check, choice of a class and a task, tick, yield, exit | calls the hooks of every class |
| Wake-ups (`core.c`, `include/linux/sched.h`) | `p->__state`, `p->on_rq`, `p->on_cpu`, wake lists | wait loop, `try_to_wake_up`, `wake_up_new_task`, remote wake-ups | interrupts and other CPUs wake; `__schedule` puts to sleep |
| Change of policy and nice value (`core.c`) | `policy`, `prio`, `static_prio`, `normal_prio`, `sched_class`, `sched_reset_on_fork` | `__sched_setscheduler` and its wrappers, `set_user_nice` | requeues a task in another class while it runs, waits or sleeps |
| Process creation (`kernel/fork.c`) | a copy of the parent's `task_struct` | `copy_process` step by step, `sched_fork`, grant of tickets, first wake-up, failure | the child becomes visible to others before it has its own tickets |
| Affinity and migration (`core.c`) | `cpus_mask`, `cpus_ptr`, `migration_disabled`, `migration_pending`, stopper works | `set_cpus_allowed_ptr`, `migrate_disable`/`enable`, `migration_cpu_stop`, `migrate_swap`, `sched_exec` | callers share a structure on the stack of one of them |
| CPU hotplug (`core.c`) | CPU masks, `balance_push_callback`, `nr_pinned`, `sched_smt_present`, `num_cpus_frozen` | activate, deactivate, wait until empty, dying, starting, suspend | pushes tasks away at the end of every `__schedule` |
| Core scheduling (`core.c`, `sched.h`) | the static key, `rq->core`, cookie trees | switch on and off, lock and unlock of run queues, leaders | the lock of a run queue changes while it is being taken |
| Utilization clamps (`core.c`) | buckets of a run queue, requests of tasks and groups | enqueue, dequeue, `sched_setattr`, fork, writes of the cgroup and sysctl files | walks over groups and tasks one lock at a time |
| CPU bandwidth of groups (`core.c`) | quota, period, burst, hierarchical quotas, the static key, flags of the run queues | writes of four cgroup files | throttling, timer and hotplug in `fair.c` |
| Resources in `fork.c` | references to `files`, `fs`, `sighand`, `signal`, `mm`, executable, areas, `task_struct` | copy or share, error labels, `mmput`, `mmdrop`, vfork, `dup_mmap`, `replace_mm_exe_file` | exec, exit, `/proc`, OOM killer |
| Priority inheritance, CPU time accounting, group lifetime | | | section 9 |
| Benchmark, scripts | | | not modelled: load generation and plotting |

What is hard here: kernel paths of several lock sections that are preempted or
interrupted between two of them (wait loops, fork, change of policy); counters
kept incrementally next to the list they count; list operations without any
check of their own; a fast path that trusts a counter; random decisions that
must be neither unfair nor starve anyone; reads and writes of several CPUs
without a common lock; structures that live on the stack of one of several
waiters; operations that are reversed half way; failure in the middle of a fork.
`PROJECT.json` lists these hazards line by line with the properties about them.

What makes each part correct:

* class: list and counters agree after every sequence of calls; a draw is won by
  exactly the holder of the drawn ticket, each task with as many numbers as it has
  tickets; nobody queued starves while the class has the CPU;
* run queue: `on_rq`, the queues and `nr_running` agree; runnable tasks are queued;
* wake-ups: none is lost, none enqueues twice, no two CPUs use one stack;
* policy changes and fork: a task sits in the class of its policy, and the class's
  list is never touched illegally;
* affinity: a pinned task stays, a changed mask holds once its caller returns, and
  nobody uses a stack frame that is gone;
* hotplug: no task is left on a CPU that died, and what an operation took apart is
  put together again, also when it was reversed;
* core scheduling: whoever unlocks a run queue unlocks the lock it took;
* clamps and bandwidth: what the queues show follows from the tasks and the files;
* resources: each is given back exactly once, and not while somebody uses it.

## 2. Modules

| Module | Models |
|---|---|
| `Lottery` | the functions of `lottery.c` as operators on `struct ltr_rq`; counters modulo `Word` (2^32 in the code) |
| `TicketLottery` | abstract specification: contenders and a winner |
| `LotteryClass` | the class as a state machine: its hooks under the protocol of `core.c`; refines `TicketLottery` |
| `SchedPolicy` | policies, priorities, order of the classes |
| `KernelSched` | composition on one CPU: `core.c` and `fork.c` around the class; refines `LotteryClass` |
| `SmpWakeup` | sleeping and waking on several CPUs |
| `Affinity` | affinity, migrate-disabled regions and the stoppers |
| `Hotplug` | CPUs that go down and come up under tasks |
| `CoreSched` | core scheduling switched on and off, and the locks of run queues |
| `UClamp` | utilization clamps of tasks, groups and queues |
| `CfsBandwidth` | quotas of groups |
| `CopyProcess` | `copy_process` with every error exit, against signals, exit and seccomp |
| `MmLifetime` | `mm_users` and `mm_count`, lazy mms, vfork |
| `DupMmap` | `dup_mmap` and the executable of a process |
| `LotteryClassProofs` | lemmas about the operators of `Lottery`, theorems about `LotteryClass` |
| `KernelSchedProofs` | lemmas about the operators of `KernelSched`; its inductive invariant; `KernelSched` implements `LotteryClass`; the class's theorems carried over to the kernel |
| `AffinityProofs` | the safety properties of `Affinity` for any number of CPUs and callers |
| `HotplugProofs` | the safety properties of `Hotplug` for any number of CPUs, cores and tasks |
| `SmpWakeupProofs` | the safety properties of `SmpWakeup` for any number of CPUs and tasks |
| `MmLifetimeProofs` | the safety properties of `MmLifetime` for any number of CPUs, tasks and `mm_struct`s |
| `CoreSchedProofs` | the safety properties of `CoreSched` for any number of CPUs, cores, lock holders and users |
| `CopyProcessProofs` | the safety properties of `CopyProcess` for any number of tasks, signals and forks at a time |
| `MC*` | instances for TLC |

The chain is `KernelSched` => `LotteryClass` => `TicketLottery`: both steps are
model-checked and proved.

**Lottery.** The list is a sequence. `Linked` is the precondition of `list_del`:
nothing initializes `p->ltr.list`, a child inherits its parent's pointers and
`list_del` poisons the node, so an unlinked node never looks empty. `Hits` is the
set of entries at which the `list_for_each` loop would break; `Stop` the one it
stops at, or the last entry if it does not break.

**LotteryClass.** `ltr`, `tickets`, `curr` (NULL while another class runs) and
`need_resched`. One action per kind of call: `Clone` (the tickets of a task that
is not linked change), `Enqueue`, `SwitchTo`, `Requeue`, `Tick`, `Block`,
`Reschedule`, `OtherClass`. A lottery task stays linked while it runs.

**KernelSched.** `task` holds the fields of `task_struct` the scheduler decides
on; `rq` the run queue; `call` how far a task is in a wait loop, a fork or a
change of policy; `cond` and `waking` the condition of each task's wait loop and
the wakers between `CONDITION = 1` and the wake-up; `fault` how the kernel went
down. The functions of `core.c` are operators on `[task, rq, fault]` composed in
the order of the code. Every section under `rq->lock` is one step; between steps `Preempt` may
switch to another task and wakers may run.

* A uniprocessor with kernel preemption. Without kernel preemption a path is
  interrupted only where it sleeps, which is a subset of these behaviours.
* The fair, rt, dl and idle classes are not in the repository. They queue a task in
  a set, count it in `rq->nr_running`, pick any queued task and may ask for a
  reschedule whenever the kernel lets them.
* The deadline path of `__sched_setscheduler` (bandwidth admission) is behind the
  policy check that rejects everything but `SCHED_LOTTERY`, and is left out.
  Credentials are a flag of the request; a caller without `CAP_SYS_NICE` may be
  refused for reasons outside the model.
* `set_user_nice` reads the nice value once without the lock, only to skip a
  useless call; check and call are one step.
* `do_task_dead` runs with preemption disabled and is one step. A `task_struct` is
  reused when it is dead and no path in progress refers to it.
* A fault stops the machine (`Halted`).

**SmpWakeup.** Each CPU executes one piece of kernel code at a time; `ctx[c]` says
which and where. The steps are the single reads and writes of `p->__state`,
`p->on_rq`, `p->on_cpu` and `task_cpu(p)` in `__schedule`, `finish_task_switch`,
`try_to_wake_up`, `sched_ttwu_pending` and `try_invoke_on_locked_down_task`, with
`pi_lock` and the locks of the run queues. Memory is sequentially consistent in the
order the barriers impose. The balancer and the choice of the classes are external.

**Affinity.** One task P, its callers, its migrate-disabled regions and the
stoppers of the CPUs; `pend[k]` is the `set_affinity_pending` on the stack of
caller k. Every critical section under `pi_lock` and `rq->lock` is one step.
`push_cpu_stop` (`MDF_PUSH`) moves rt and dl tasks, of which there are none, and is
left out.

**Hotplug.** The CPU masks, `balance_push` at the end of every `__schedule`, and the
operation in progress (`hp`), which may be reversed half way or be part of a
suspend. `kernel/cpu.c`, the cpusets and the stopper threads are external. Wake-ups
run in two parts inside an RCU read-side section.

**CoreSched.** `locker` paths lock one run queue or two, through
`raw_spin_rq_lock`, the trylock, `double_rq_lock` and both forms of
`double_lock_balance`; a user holds a cookie from `sched_core_get`; `flip` is
`__sched_core_enable` or `__sched_core_disable`; `hp` a hotplug operation.
`core_sched.c` is external.

**UClamp.** `rq[c]` holds the buckets and clamps, `task` the requests and the
counted clamps, `tg` the groups, `walk` the walk over groups and tasks under
`uclamp_mutex`. All of enqueue, dequeue, fork, exit, `sched_setattr`, the sysctl,
the cgroup files and `sched_move_task` change them. A request either moves the task
into the lottery class, whose tasks are not counted, or, with
`SCHED_FLAG_KEEP_PARAMS`, leaves it in the fair class (core.c:7547) with clamps of
its own.

**CfsBandwidth.** Writers go through `tg_set_cfs_bandwidth`: the reads, the checks,
`cfs_constraints_mutex` and the walk, the new values, the run queue of each CPU, the
static key. Arithmetic has the width of the code (`U64_MAX`, signed and unsigned
conversions). Throttling, the timer and `rq_online`/`rq_offline` are external.

**CopyProcess.** `Steps` lists what `copy_process` takes in order, `Labels` its error
labels with what each gives back; `ptr` and `holds` tell a pointer copied from the
creator from a counted reference. Meanwhile tasks send signals to the group, kill,
install filters, exit, are reaped and hold references to `task_struct`.

**MmLifetime.** `mm`, `active_mm`, `rq->prev_mm` and the two counts through
`context_switch`, `finish_task_switch`, fork, exec, exit, `kthread_use_mm`,
`get_task_mm` and the OOM killer; the completion of a vfork on the parent's stack;
the word `pthread_join` waits for.

**DupMmap.** The loop of `dup_mmap` area by area with its labels; the copy and the
replacement of the executable; `deny_write_access` and the reference of every
holder. `get_mm_exe_file` is two steps for each of its callers, the read of the
pointer and the reference that is refused once the file is gone. The file and area
helpers are external.

`scenario` (in `MmLifetime`, `uses`) is a rigid variable: it is chosen at first
and says which tasks, CPUs and kinds of events a behaviour has. It lets one
run cover several small combinations where their product would be too large, and
does not occur in the actions otherwise. `slots` in `MCKernelScenarios` and
`clamping` in `MCCoreSched` do the same for the tasks and the requests of
`KernelSched` and `UClamp`.

`LotteryClass` and `KernelSched` describe the kernel the repository builds. The
repository's configuration compiles out SMP, hotplug, core scheduling and
cgroups; their code is in the repository, and the other modules model it. On a
multiprocessor the lottery class could not run at all: it defines neither
`select_task_rq` nor `balance` nor `pick_task`. These modules therefore speak
about tasks of other classes.

Operators marked "Bug" are faulty variants of the operator after them. No
specification uses them; with one of them in place of the original a property
must fail, which shows that the property speaks about that code.

## 3. Runs that pass

| Run | Instance | States | Shows |
|---|---|---|---|
| `class` | 3 tasks, 1-3 tickets each, 16-value word | 3,296 | counters and list agree and never wrap, draw, refinement of `TicketLottery`, no starvation inside the class |
| `kernel` | 2 processes with wait loops, forks, nice values, changes of policy, exits; and 3 processes with both ways to fork, every kind of request, reset-on-fork | 323,327 | queues and flags agree, runnable tasks are queued, no wake-up is lost; children in the class of their policy, no illegal `list_del`, refinement of `LotteryClass` |
| `smp` | 2 CPUs, 2 tasks, events, signals, interrupts, remote wake-ups | 58,716 | one queue and one stack at a time, sleepers counted once, a woken task gets queued |
| `affinity` | 2 CPUs, 2 callers, nesting 2 | 19,392 | pendings outlive their users, a pinned task stays, every caller returns |
| `hotplug` | one core of 2 CPUs, 3 tasks; and 2 CPUs, 2 groups, 2 writers, 8-bit numbers | 387,210 | no task left behind, reversed operations undone; quotas fit the hierarchy and its limits |
| `core_sched` | a core with a locking path and a cookie; and 2 tasks, 2 groups, 2 buckets, 4 requests | 759,672 | lock and unlock take the same lock; clamps follow tasks and files |
| `fork` | 3 tasks, 2 forks at a time, 1 signal | 544,721 | every failure gives back exactly what was taken; no signal, kill or filter misses the child |
| `memory` | 2 CPUs, 2 slots, 2 mms; and 2 files, 2 replacers | 834,759 | an `mm_struct` lives as long as it is needed; charges, references and denials exact, no file comes back that is gone |

`hotplug`, `core_sched` and `memory` explore two modules each (`Hotplug` with
`CfsBandwidth`, `CoreSched` with `UClamp`, `MmLifetime` with `DupMmap`). The two
share no variable: a behaviour chooses one of them at first and leaves the other
where it began, so the states add and do not multiply.

Bounds. Three tasks are enough for a first, a middle and a last entry of the
list; a word of 16 values just counts their 9 tickets and exercises the
reduction of the drawn number. Unequal grants (1 to 3) make the intervals of a draw
differ; the kernel's grant is 5 for all. Two processes and the idle task give every
pair of classes for `prev` and `next`; a waker is an interrupt and needs no
process. A third process lets somebody change the policy of a child its parent is
still creating. The nice value -1 beside the default 0 gives the two cases
of reset-on-fork. Two CPUs are a waker's and a sleeper's, the one a task is moved from
and the one it is moved to; the locks are taken in pairs at most. Two callers are
the owner of a pending and one that shares it; a nesting of 2 has an inner and an
outermost region. Two buckets and two values let a clamp move to another bucket
and empty one. The 8-bit numbers of `CfsBandwidth` reach every conversion limit of
the code with the constants scaled alike. With three slots for tasks a second fork
finds no free slot before it could exceed `max_threads`, so no two forks race for the
last thread; a fork that is over a limit is one of the failures of its step `limits`,
which may fail at any time. Proofs (section 5) remove these bounds for the
class, the kernel on one CPU, the affinity of a task, sleeping and waking on
several CPUs, CPU hotplug, the life of an `mm_struct`, core scheduling, and the
creation and end of tasks.

Symmetry. Process slots of `KernelSched`, the tasks of `UClamp` in `MCCoreSched`
and the writers of `CfsBandwidth` in `MCHotplug` are interchangeable. Only runs
without liveness use it.

Fairness. Each is what the scheduling of the code provides, no more.

* `LotteryClass`: ticks keep coming until one of the rolls hits (`WF` of
  `TickHits`), and a draw that is repeated for ever goes to each contender again and
  again (`SF` of `Elect(p)`), the almost-sure behaviour of `get_random_bytes`. A
  draw is made again and again only because ticks hit, so `WF` of `Elect` would not
  say it.
* `KernelSched`: a pending reschedule is acted upon at the next return from an
  interrupt, wakers and kernel paths go on when they run. It is used only to
  refute `IdleCpuRunsLottery`: the more is assumed, the more the refutation says.
* `SmpWakeup`: on each CPU the kernel code that runs goes on (`SF`, for spinlocks
  that hand over to whoever waits), and wake lists are emptied.
* `Affinity`: stoppers run, P is scheduled again and again and leaves its
  migrate-disabled regions, callers that were released go on. That P is never
  moved while it stays in a region for ever is not assumed away: callers wait for
  it, as the comment at core.c:2582 says they must.

## 4. Runs that find a disagreement

Each checks what a comment or a document of the repository says.

| Run | Said | Done |
|---|---|---|
| `idle_cpu` | src/documentation/documentation.md:94: `pick_next_task_lottery` "is called to select the next task to run" | lottery tasks are not counted in `rq->nr_running` (core.c:5653), so the fast path for "all tasks are in the fair class" is taken and a queued lottery task waits for ever on an idle CPU |
| `copy_fails` | fork.c:2557: `kernel_clone` kick-starts the copy "if successful" | it stores `p->ltr.tickets` before it tests `IS_ERR(p)` |
| `runtime` | core.c:5195: returns the runtime of a running task | calls `update_curr`, which the lottery class does not define |
| `clamps_lazy` | core.c:1763: a change of the defaults updates "all RUNNABLE tasks" when task groups are in use | the walk skips a group whose own clamps stay as they are (core.c:10148), so a task that is counted there with a minimum of its own above the new default keeps it until it is queued again |

`ClampsUpToDate` is what fails in `clamps_lazy`; `ClampsFollow`, which holds, says
what the walk does reach: the maximum of every task, the tasks of the root group and
those that ask for no minimum above that of their group. The minimum any other task
is counted with stays between that of its group and what the group lets it ask for.

Met while modelling, and kept in the models as the code has it, without a run of
their own:

* src/documentation/documentation.md:49 says the class "has the lowest priority";
  `for_each_class` (sched.h:2235) starts at the end of the list of
  vmlinux.lds.h:135, so it has the highest.
* core.c:7679 asserts that `SCHED_FIFO` is accepted; core.c:7357 refuses every
  policy but `SCHED_LOTTERY`.
* core.c:2048: an unboosted task's priority is its normal priority; a nice value
  passed with `SCHED_LOTTERY` changes `prio` only (core.c:7288).
* core.c:2582 and 2713-2717: a caller cannot return before the outermost
  `migrate_enable()`, which finds a pending. `migration_cpu_stop()` (core.c:2367)
  completes the pending of a task that was preempted in its region as if the one
  CPU of `cpus_ptr` were its mask. This is why `AffinityHolds` is stated for tasks
  without migrate-disabled regions.
* core.c:9156: an activation puts the run queue online "if not already"; the error
  path of `sched_cpu_deactivate` (core.c:9232) leaves it offline.
* fork.c:1225 forbids the change of an executable that is still mapped; an area
  mapped between the test and the exchange is not seen.
* core.c:10558: "On cgroup2, always take the min"; the minimum is taken of signed
  values in which "no limit" is -1 (core.c:10563).
* core.c:5928: "Something should have been selected"; the lottery class has no
  `pick_task`, which core scheduling asks first (core.c:5834).
* sched.h:2541: run queues are locked core first so that no two orders meet; the
  leader the order is based on may change between two evaluations (sched.h:2550).

Two of them interact with results of section 3. The refusal at core.c:7357 is what
keeps a task from ever leaving the lottery class, and with it the second dequeue in
`switched_from_lottery` from corrupting the list: without it `ListOpsLegal` fails.
And `NoStarvation` holds only while the class has the CPU, because of the fast path.

## 5. What is proved

### The class (`LotteryClassProofs`)

For every finite set of tasks, every set of positive grants and every word size,
from the assumptions named in `Lottery` and `LotteryClass`: all tasks together hold
fewer tickets than a word counts (`WidthAssumption`), NULL is no task, grants are
positive and bounded.

| Theorem | Says |
|---|---|
| `Invariance` | `IInv` is invariant |
| `CountersNeverWrap` | `TypeOK` and `NoWrap`: no enqueue carries a counter past the word, no dequeue takes one below zero |
| `AccountingCorrect` | `nr_running` and `total_tickets` are the length of the list and the sum over it |
| `DrawAlwaysBreaks` | every draw stops at a ticket holder |
| `DrawProportional` | each queued task wins with exactly `tickets[p]` numbers, any other with none |
| `Refinement` | the class implements `TicketLottery` |

The inductive invariant `IInv` joins `TypeOK`, `LinkedOnce`, `Accounting`,
`HoldersOnly` and `CurrLinked`. `Accounting` alone is not inductive: a decrement
stays above zero only because the task is linked (`CurrLinked`), an increment
fits the word only because nobody is linked twice (`LinkedOnce`, through a bound on
the length of a list without duplicates), and a draw is not refused only because
everybody queued holds a ticket (`HoldersOnly`). `TypeOK` alone would not say that
the counters never wrap, since they are taken modulo `Word`; `NoWrap` does, about the
next enqueue or dequeue of each task (`EnqueueFits`, `DequeueFits`).

The lemmas are the facts about sums over the list: the recursive function
`TicketCount` exists and is monotone; appending or removing an entry changes the
last sum by its tickets; the modular sums of the walk equal the true ones; and the
intervals of the entries partition the numbers below the total, so the walk breaks
at exactly one. Induction is by a least counterexample (`LeastElement`).

### The kernel on one CPU (`KernelSchedProofs`)

For every finite set of processes, every set of requests and of nice values, both
ways to fork, with and without wait loops; the word may have any size, since these
theorems do not need the counters.

| Theorem | Says |
|---|---|
| `KernelInvariant` | `Inv` is invariant |
| `KernelTypeCorrect` | `TypeOK` |
| `QueuesAlwaysMatch` | `on_rq`, the queue of the task's class and `rq->nr_running` agree |
| `RunnableAlwaysQueued` | a task in `TASK_RUNNING` is on the queue of its class |
| `WakeupsNeverLost` | whoever sleeps although its condition holds has a waker under way |
| `ClassAlwaysFollowsPolicy` | a live task is in the class of its policy |
| `ListOpsAlwaysLegal` | no `list_del` of an unlinked task (a `list_add` of a linked one would break `QueuesAlwaysMatch`) |

`Inv` joins the five properties with four clauses they need. `TaskStates`: a dead or
new task is off the queues and in no kernel path, and only a wait loop leaves
`TASK_RUNNING`; otherwise a wake-up could queue a task that is being created.
`WaitLoops`: a task is queued until it gets to `schedule()`, and arrives there in
`TASK_RUNNING` if it was woken after it found its condition false: this is the
argument why `NoLostWakeup` survives the gap between the test and the sleep.
`ForksPrivate`: a child belongs to one fork, is no process before it is attached and
new until it is woken, and its copy has the class its policy asks for: a grant of
tickets thus never touches a linked task. `RequestsLottery`: a change of policy that
got past the checks asks for `SCHED_LOTTERY`, so `switched_from_lottery` is never
called with a linked task. Lemmas show what each operator of `core.c` (activation,
deactivation, preemption check, choice of a task, `__schedule`) does to a state in
which the queues match; the step proofs compose them.

Its second half proves `KernelImplementsClass`: every step of `KernelSched` is a
step of `LotteryClass` or leaves its variables unchanged, under the refinement
mapping of `KernelSched`, and the grants it makes are those the class allows
(`Granted`). `core.c` thereby follows the protocol that the theorems about the class
presuppose. Two of them are carried over the mapping, if a word can
count the tickets of all tasks (`GrantsFit`; 2^32 against five tickets a task):
`KernelCountsExactly` (the counters of the queue are exact in every kernel state)
and `KernelDrawsEqually` (each queued task wins with exactly five numbers, so all
have the same share).

### Affinity (`AffinityProofs`)

For every finite set of CPUs and of callers, and any nesting of migrate-disabled
regions, with and without preemption.

| Theorem | Says |
|---|---|
| `AffinityInvariant` | `Inv` is invariant |
| `AffinityTypeCorrect` | `TypeOK`: references never exceed the callers, no mask gets empty |
| `PendingAlwaysSafe` | no pending is used after its owner returned; works and pendings match; without regions the last mask holds |
| `PinnedTaskStays` | a task inside a region is not moved, and `nr_pinned` counts it throughout |

A pending is safe to use while its owner waits; the owner waits while the pending is
not done or others that share it are counted; and it is not done while it is
installed or a stopper has its work. `OwnersStay`, `RefsCounted` (the references are
as many as the waiters), `InstalledWaits` and `OneWork` are these links: none is
inductive without the next. `Heading` says what holds before a caller is released: a
task outside its mask has an installed pending whose destination is inside, which
makes `AffinityHolds` inductive. `Narrowed` says when `cpus_ptr` is the one CPU of a
pinned task, which is why a waking or moved task that is pinned stays.

### CPU hotplug (`HotplugProofs`)

For every finite set of CPUs with a boot CPU, in cores of one or two hyperthreads
(`SiblingAssumption`), and every set of tasks, of which the per-CPU threads start with
a mask of one CPU (`HomeAssumption`). The assumptions are hypotheses of the theorems;
TLC evaluates them for the constants of `MCHotplug`.

| Theorem | Says |
|---|---|
| `HotplugInvariant` | `Inv` is invariant |
| `HotplugTypeCorrect` | `TypeOK` |
| `DyingCpuIsVacated` | no warning fires, nothing is left on a CPU that is down (`Vacated`) |
| `PushIsNotSpliced` | `balance_push_callback` stays (`PushPersists`) |
| `CountersSurvive` | `sched_smt_present`, `num_cpus_frozen` and the domains agree with the CPUs between operations (`CountersBalanced`) |

`Vacated` says what holds when the CPU is gone; `Inv` says how it gets there.
`Operation` and `Masks` tie the masks and the callback of the CPU to the stage of the
operation. `Vacating`: from the grace period on, a task that has chosen the CPU but is
not enqueued yet is one of the `readers`, or pinned, or a per-CPU thread; since
`select_task_rq` and `select_fallback_rq` choose no inactive or dying CPU for any other
task (`ChosenStays`), the first kind is gone when `synchronize_rcu` returns. The last
kind is parked before the wait (`PerCpuThreads`), and pinned tasks keep the hotplug
thread waiting. `Runners`: a task handed to the stopper cannot become pinned, since its
CPU runs nothing but the stopper until it has moved; so the push moves no pinned task.
`Counts` follows `sched_smt_present` through the stages at which the CPU is not counted.
That twice the counter is the number of hyperthreads with an active sibling needs no
more than that a CPU takes none or two with it (`PairsLeave`); that it starts so is that
this number is even (`PairsEven`, a smallest counterexample).

### Sleeping and waking on several CPUs (`SmpWakeupProofs`)

For every finite set of CPUs and of tasks, every topology of caches and every
scenario, at the grain of the single reads and writes.

| Theorem | Says |
|---|---|
| `SmpInvariant` | `Inv` is invariant |
| `SmpTypeCorrect` | `TypeOK` |
| `TaskInOnePlace` | one stack, one queue, one wake list entry, one last reference (`OnePlace`) |
| `NoWakeupLostOnSmp` | a task asleep with its condition true has a waker or a wake list entry |
| `InspectedTaskStays` | `try_invoke_on_locked_down_task` finds the task where it was |
| `SleepersCountedOnce` | `nr_uninterruptible`, summed over the queues, and `nr_iowait` of each queue count every sleeper once (`SleepersCounted`) |

`Inv` says what the code at each point relies on. `LocksHeld`: who holds which lock
where. `Targets`: the task a CPU is concerned with, for instance that
`deactivate_task` still works on `rq->curr`. `Stacks`: `p->on_cpu` is set exactly
while `task_cpu(p)` uses the stack, which is what the loop on `p->on_cpu` in
`try_to_wake_up` buys. `Queues`: `QueuedOnce`, and where a task in migration is.
`Wakers`: a task in `TASK_WAKING` has one activation coming, from the holder of its
`pi_lock` or from one wake list, and it is off its queue; the entry of a list is
assigned to that CPU. `Sleepers`: a task leaves its queue only from a wait loop or
to exit, so a preempted one never does; the step that is easy to get wrong is
`ttwu_runnable`, which turns a task back into `TASK_RUNNING` and is safe only
because the lock of the queue keeps it out of the gap between the load of
`p->__state` and `deactivate_task`. `Dead`: a dead task stays dead and one CPU drops
the reference. `Followed`: a waker that made the condition true is on its way, has
matched, or has handed over. `OnePlace` is not inductive by itself: that a waker may
write `task_cpu(p)` needs `Stacks` with `Wakers`, and that the lists are clean needs
`Wakers` with the exclusion of a second waker by `pi_lock` (`LocksHeld`).

The counters need an invariant of their own on top of `Inv`: `Counted`. `Balanced`
says that the counters `nr_uninterruptible`, each of which wraps, sum up to the number
of uninterruptible sleepers plus a multiple of `UINT`, so that a task may be added on
one queue and taken off another; the sum modulo `UINT` is that number because there
are fewer tasks than counter values (`UintAssumption`). `Waiting(c)` are the I/O
sleepers of one queue, without those that their waker is moving: `nr_iowait` is exactly
their number. `Parked`: a task that is moved is on no CPU, so its switch away is over
and the old queue has counted it. One lemma per step that counts or moves a sleeper
(from `schedule_lock` to the activations and the balancer), and one for all the others
(`SameCounts`). The sum is the community modules' `MapThenSumSet`, a recursive
function over the subsets of the CPUs. What it is, and that changing one counter
changes it by the difference, is shown without an induction theorem: a least
counterexample, from which the CPU that the sum picks first is removed (`ByRemoving`).

### The life of an `mm_struct` (`MmLifetimeProofs`)

For every finite, nonempty set of CPUs, each with an idle task of its own
(`CpuAssumption`), every finite set of tasks, every set of `mm_struct`s with one
besides `init_mm` (`MmAssumption`), and every scenario.

| Theorem | Says |
|---|---|
| `MmInvariant` | `Inv` is invariant |
| `MmTypeCorrect` | `TypeOK`: neither count is ever negative or larger than its possible holders |
| `MmStructAlwaysSafe` | both counts exact, no use after free, no task in an `mm_struct` that is torn down, an owner exists (`MmStructSafe`) |
| `ReleaseAlwaysTellsAll` | no vfork completion lost or written to a parent that returned, joining threads told (`ReleaseTellsAll`) |

`Counted` is the core of `Inv`: `mm_users` is the number of tasks with that `mm`, and
one for an observer; `mm_count` is one for all users together (or for the `__mmput`
still to be run), and one for each borrower, each unfinished switch and an OOM
victim. A step is proved by moves: one task changes its `mm` (`UserMoves`), one or,
in `context_switch`, two tasks change what they borrow (`BorrowerMoves`,
`BorrowerPasses`), one CPU changes `rq->prev_mm` (`SwitchMoves`). Each moves one of
the sums by what the argument brings and takes, by `CountMoves` about the
cardinality of a preimage, and the code moves the counts by the same amount.
Counting alone is not inductive. `Spaces` is needed to know who borrows: a task with
an `mm` runs on it, one without has an `active_mm` only on a CPU, so that the lazy
switch takes or passes on a reference exactly when a borrower appears. `OnCpu`
makes the borrower the one task on that CPU. `Stages` ties the two counts to the
life of the structure: a free one has no count, so a new one starts clean, and
`__mmput` runs once. `Stations` keeps a half-made child off the CPUs and `Owners`
keeps `mm->owner` among the users. `Vforks`: a child that is to complete
has a parent that waits for it; when a killed parent returns, it has taken the
pointer away. `Alive` collects what these say of whoever holds an `mm_struct`.

### Core scheduling (`CoreSchedProofs`)

For every finite set of CPU numbers, every division of
them into cores (`SiblingsAssumption`: `cpu_smt_mask` is the same for all CPUs of a
core), every finite set of users, any number of paths that lock run queues, and any
CPUs that may go. `NameAssumption` only says that the switching thread, the hotplug
thread and the paths are different ones.

| Theorem | Says |
|---|---|
| `Invariance` | `Inv` is invariant |
| `TypeCorrect` | `TypeOK` |
| `HoldsTheLock` | who locked a run queue holds the lock it has now (`LocksTheSame`) |
| `UnlocksIt` | no path unlocks a lock that is not its own |
| `CoresExclude` | with core scheduling on, the run queues of one core have one owner at a time |
| `StaysEnabled` | core scheduling stays on while a reference is held (`EnabledWhileUsed`) |
| `LedByOne` | the online CPUs of a core agree on an online leader (`OneLeader`) |

`raw_spin_rq_lock` reads the lock of a run queue, waits for it and looks whether it
still is the lock. What it looked at can change in two ways: the flag of the run
queue or its leader. `__sched_core_flip` changes flags under the locks of all run
queues of a core, and the hotplug callbacks change leaders under the same locks;
`FlipLocks` and `HpLocks` say so at every point of their loops, so whoever holds
the lock of a run queue excludes both (`Held`). The first switch is different:
the static key is turned on without any lock, and a path that took `&rq->__lock`
before saw no key and does not look again. Such a path runs without preemption:
`Waited` says that `synchronize_rcu` waits for it before the first flag changes, and
that afterwards everybody who holds or wants a lock is one that looks. `Switched` says
which flags are set at each stage. `Leaders` adds to `OneLeader` that an offline CPU leads
itself and one about to go leads nobody, without which a callback that fails halfway
would leave a core with an offline leader. `StaysEnabled` is an argument about
counts: `sched_core_count` is the number of users with a reference, and one for the
work of `sched_core_put` while it is to run or is running (`Counted`), and the
mutex is held whenever the key and the count disagree (`Mutex`). Finally, a cookie
enters a tree only under a reference (`Trees`).

### Process creation (`CopyProcessProofs`)

For every finite set of `task_struct` slots, any signals, scenarios (flags, events,
forks at a time) and any `max_threads` above 0. `RootAssumption` says that the task
that exists at boot is one of the slots.

| Theorem | Says |
|---|---|
| `Invariance` | `Inv` is invariant |
| `TypeCorrect` | `TypeOK`: counts between 0 and the number of tasks, never less than one process and thread |
| `NothingLeaks` | every count is the number of holders, a failed fork leaves nothing (`CountsExact`) |
| `FreedLast` | a `task_struct` is freed after its last user (`StructOutlivesUsers`) |
| `NoSignalLost` | a signal to the group reaches the processes that were being created (`SignalsReachAll`) |
| `ThreadsAlike` | threads share `mm` and `sighand` and agree on a seccomp filter (`ThreadsAgree`) |
| `KilledStayBounded` | nobody joins a group that has been killed or a namespace that has been closed (`KilledGroupsShrink`) |

The central clause, `ChildHas`, ties the two halves of `copy_process` together: before
step s the child has exactly what the labels from `FailLabel(s)` down give back
(`Owed(s)`), but for what its flags exclude: a thread has no reference to the
`signal_struct` before it is published, and without `CLONE_PIDFD` there is no pidfd.
`Ladder` computes `Owed` label by label, so that each successful step is one more
entry and each failure (`UnwindKeeps`) returns to a free slot. A pointer of the child
that is not its creator's has a reference of its own; the remaining ones are
borrowed, which is why the error path must not drop them. `Stage` says what a task has
in each stage of its life, and what `rcu_users` counts: the scheduler's reference
lasts as long as the stack. A `signal_struct` a child got by `copy_signal` is known to
nobody else until `publish`, so signals and kills cannot come through it; they arrive
in `delayed`, and base and delayed signals together are all that were sent (`Forking`).
That it is unused when it is chosen is a pigeonhole argument (`Allocates`: each task
holds one reference of a kind at most). `Family` says that leaders lead themselves and
parents are alive, and `KilledInUse` that a `signal_struct` marked as killed still has a
user, so that no new process can be given it.

## 6. What is only model-checked

* Liveness (`NoStarvation`, `WokenTaskIsQueued`, `CallersReturn`): the prover has no rules for fairness
  and `ENABLED`.
* What a recursive definition computes for every input: induction theorems take an
  operator as a parameter, which the provers cannot instantiate. The facts about
  `TicketCount` and about the sums over the queues above go through least
  counterexamples instead.
* The safety of `UClamp`, `CfsBandwidth` and `DupMmap`: not yet proved.

## 7. Plan

Next, the clamps of `UClamp`, the quotas of `CfsBandwidth` and the charges of `DupMmap`.

## 8. Map and hazards

`PROJECT.json` maps every definition to the lines it models, and every hazard to
its line and to the properties that would fail. Every property of a passing run has
a mutant: the code changed the way a plausible bug would, on which the run fails.

## 9. What is not modelled and why

* Priority inheritance (`rt_mutex_setprio`): its caller, the rtmutex code, is not in
  the repository, and no task can have an rt priority, since core.c:7357 refuses
  those policies.
* Lifetime of task groups (`sched_create_group` and its like): allocation and RCU
  callbacks of `fair.c` and `rt.c`, which are not in the repository.
* The cache of thread stacks in `fork.c`: a per-CPU cache whose slots are exchanged
  with one atomic instruction each; nothing else is shared.
* CPU time accounting other than `task_sched_runtime`: sums nobody decides on.
* `push_cpu_stop`, `wait_task_inactive`, `wake_q`: for rt and dl tasks, ptrace and
  the futex code respectively.
* Load averages, schedstats, tracing, latency warnings, `log_event`: written, never
  read by a decision.
* Boot, the `/proc` and sysfs files, the benchmark programs, build and launch
  scripts: I/O, load generation and plotting.
