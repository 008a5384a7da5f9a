------------------------------ MODULE Affinity ------------------------------
(***************************************************************************)
(* The CPU affinity of one task P: set_cpus_allowed_ptr() by several       *)
(* concurrent callers, the migrate-disabled regions of P, and the CPU      *)
(* stoppers that move P, of kernel/sched/core.c.                           *)
(*                                                                         *)
(* Each critical section under P's pi_lock and rq->lock is one step.  A    *)
(* caller that has to wait owns, or shares, a struct set_affinity_pending  *)
(* that lives on the stack of the caller that installed it: pend[k] is the *)
(* one of caller k, and P's migration_pending, the stopper works and the   *)
(* waiters all refer to it by the name of its owner.  P calls for itself   *)
(* under the name self.  All CPUs are active here; Hotplug models the      *)
(* rest.                                                                   *)
(***************************************************************************)
EXTENDS Naturals, FiniteSets

CONSTANTS
    CPUs,       \* the CPUs
    Callers,    \* the callers of set_cpus_allowed_ptr()
    Scenarios,  \* what happens in a behaviour: self (the caller that is P itself, or None) and nesting (a bound
                \* on the nesting of migrate_disable(), 0 when P does not use it)
    Exec,       \* names the stopper work of sched_exec()
    None,       \* no caller, no CPU
    OwnMask,    \* p->cpus_ptr points to p->cpus_mask
    PREEMPTION  \* CONFIG_PREEMPTION: preempt_enable() gives way to a waiting stopper

ASSUME CpuAssumption == IsFiniteSet(CPUs) /\ CPUs # {} /\ None \notin CPUs /\ OwnMask \notin CPUs
ASSUME CallerAssumption == IsFiniteSet(Callers) /\ None \notin Callers /\ Exec \notin Callers /\ Exec # None
ASSUME ScenarioAssumption == Scenarios \subseteq [self : Callers \cup {None}, nesting : Nat] /\ PREEMPTION \in BOOLEAN

VARIABLES
    scenario,   \* the one of this behaviour
    run,        \* "running", "queued", "sleeping" or "waking": p->on_cpu, p->on_rq and p->__state
    cpu,        \* task_cpu(p)
    cpus_mask,  \* p->cpus_mask
    cpus_ptr,   \* p->cpus_ptr: OwnMask, or the one CPU of cpumask_of()
    migration_disabled, \* p->migration_disabled
    enabling,   \* P is inside the preempt-disabled part of migrate_enable()
    nr_pinned,  \* nr_pinned[c]: rq->nr_pinned
    migration_pending,  \* p->migration_pending
    pend,       \* pend[k]: the set_affinity_pending of caller k
    stopq,      \* stopq[c]: the migration works queued on the stopper of c
    exec,       \* the destination of a pending sched_exec(), or None
    swap,       \* the arguments of a pending migrate_swap(), or NoSwap
    pc          \* pc[k]: where caller k is, and whose pending it waits for

taskVars == <<run, cpu, cpus_mask, cpus_ptr, migration_disabled, enabling, nr_pinned>>
pendVars == <<migration_pending, pend, stopq, pc>>
moveVars == <<exec, swap>>
stepVars == <<taskVars, pendVars, moveVars>>
vars == <<scenario, stepVars>>

Pending == [live : BOOLEAN, refs : 0..Cardinality(Callers), stop_pending : BOOLEAN,
            done : BOOLEAN, dest_cpu : CPUs \cup {None}]
NoPending == [live |-> FALSE, refs |-> 0, stop_pending |-> FALSE, done |-> FALSE, dest_cpu |-> None]
NoSwap == [src |-> None, dst |-> None]
Idle == [at |-> "idle", on |-> None]

Init ==
    /\ scenario \in Scenarios
    /\ run = "queued" /\ cpu \in CPUs
    /\ cpus_mask = CPUs /\ cpus_ptr = OwnMask
    /\ migration_disabled = 0 /\ enabling = FALSE
    /\ nr_pinned = [c \in CPUs |-> 0]
    /\ migration_pending = None
    /\ pend = [k \in Callers |-> NoPending]
    /\ stopq = [c \in CPUs |-> {}]
    /\ exec = None /\ swap = NoSwap
    /\ pc = [k \in Callers |-> Idle]

self == scenario.self
is_migration_disabled == migration_disabled # 0
AllowedMask == IF cpus_ptr = OwnMask THEN cpus_mask ELSE {cpus_ptr}
is_cpu_allowed(c) == c \in AllowedMask

\* P is in a system call that waits for its own migration.
InCall == exec # None \/ (self # None /\ pc[self] # Idle)

\* set_task_cpu(); its warning about migrate-disabled tasks is PinnedStays.
set_task_cpu(d) == cpu' = d

-----------------------------------------------------------------------------
(* P is scheduled, sleeps and is woken *)

migrate_disable_switch ==
    cpus_ptr' = IF is_migration_disabled /\ cpus_ptr = OwnMask THEN cpu ELSE cpus_ptr

\* __schedule() switches P out, preempted or asleep.
switch_out(to) ==
    /\ run = "running" /\ ~enabling
    /\ run' = to
    /\ migrate_disable_switch
    /\ UNCHANGED <<cpu, cpus_mask, migration_disabled, enabling, nr_pinned, pendVars, moveVars>>

\* __schedule() picks P; a stopper with work comes first.
switch_in ==
    /\ run = "queued" /\ stopq[cpu] = {}
    /\ run' = "running"
    /\ UNCHANGED <<cpu, cpus_mask, cpus_ptr, migration_disabled, enabling, nr_pinned, pendVars,
                   moveVars>>

\* try_to_wake_up(): select_task_rq() chooses an allowed CPU, and the wake list of that CPU has
\* to be emptied before P is queued.
try_to_wake_up ==
    /\ run = "sleeping" /\ ~InCall
    /\ run' = "waking"
    /\ \E d \in AllowedMask : set_task_cpu(d)
    /\ UNCHANGED <<cpus_mask, cpus_ptr, migration_disabled, enabling, nr_pinned, pendVars, moveVars>>

\* complete_all() or wake_up_var() wakes P in its own call.
complete_wakes_self ==
    /\ run = "sleeping"
    /\ self # None
    /\ \/ pc[self].at = "wait" /\ pend[pc[self].on].done
       \/ pc[self].at = "drain" /\ pend[self].refs = 0
    /\ run' = "waking"
    /\ \E d \in AllowedMask : set_task_cpu(d)
    /\ UNCHANGED <<cpus_mask, cpus_ptr, migration_disabled, enabling, nr_pinned, pendVars, moveVars>>

sched_ttwu_pending ==
    /\ run = "waking"
    /\ run' = "queued"
    /\ UNCHANGED <<cpu, cpus_mask, cpus_ptr, migration_disabled, enabling, nr_pinned, pendVars,
                   moveVars>>

\* The load balancer moves P where its mask allows it, unless P is migrate-disabled.
load_balance ==
    /\ run = "queued" /\ ~is_migration_disabled
    /\ \E d \in AllowedMask \ {cpu} : set_task_cpu(d)
    /\ UNCHANGED <<run, cpus_mask, cpus_ptr, migration_disabled, enabling, nr_pinned, pendVars,
                   moveVars>>

-----------------------------------------------------------------------------
(* Changing the affinity *)

Complete(o) == [pend EXCEPT ![o].done = TRUE]

\* Bug: a pending is completed although a stopper still has its work.
affine_move_task_stays_early(k) ==
    /\ migration_pending' = None
    /\ pend' = IF migration_pending # None THEN Complete(migration_pending) ELSE pend
    /\ UNCHANGED <<stopq, pc>>

\* affine_move_task(), P may stay where it is: pending waiters are released, unless a stopper
\* is going to do it.
affine_move_task_stays(k) ==
    LET o == migration_pending
        complete == o # None /\ ~pend[o].stop_pending
    IN /\ migration_pending' = IF complete THEN None ELSE o
       /\ pend' = IF complete THEN Complete(o) ELSE pend
       /\ UNCHANGED <<stopq, pc>>

\* The first caller installs its pending, the others share it and set its destination.
Install(k, d) ==
    IF migration_pending = None
    THEN [pend EXCEPT ![k] = [live |-> TRUE, refs |-> 1, stop_pending |-> FALSE, done |-> FALSE,
                              dest_cpu |-> d]]
    ELSE [pend EXCEPT ![migration_pending].refs = @ + 1, ![migration_pending].dest_cpu = d]

\* affine_move_task(), P has to move to d: a running or waking P is left to the stopper, a
\* queued one is moved, and a migrate-disabled one is left to migrate_enable().
affine_move_task(k, d) ==
    LET o == IF migration_pending = None THEN k ELSE migration_pending
        p1 == Install(k, d)
    IN /\ pc' = [pc EXCEPT ![k] = [at |-> "wait", on |-> o]]
       /\ IF run \in {"running", "waking"}
          THEN /\ migration_pending' = o
               /\ pend' = [p1 EXCEPT ![o].stop_pending = TRUE]
               /\ stopq' = IF p1[o].stop_pending THEN stopq ELSE [stopq EXCEPT ![cpu] = @ \cup {o}]
               /\ cpu' = cpu
          ELSE LET complete == ~is_migration_disabled /\ ~p1[o].stop_pending
               IN /\ cpu' = IF ~is_migration_disabled /\ run = "queued" THEN d ELSE cpu
                  /\ migration_pending' = IF complete THEN None ELSE o
                  /\ pend' = IF complete THEN [p1 EXCEPT ![o].done = TRUE] ELSE p1
                  /\ stopq' = stopq

\* __do_set_cpus_allowed(): P is taken off its queue around the change and put back.
__do_set_cpus_allowed(m) == cpus_mask' = m

\* __set_cpus_allowed_ptr() of caller k for the mask m, of which cpumask_any_and_distribute()
\* picks any CPU.  An unchanged mask is left alone; P may not move itself out of a
\* migrate-disabled region (-EBUSY).
__set_cpus_allowed_ptr(k, m) ==
    /\ pc[k] = Idle /\ (k = self => run = "running" /\ exec = None /\ ~enabling)
    /\ m # {} /\ m # cpus_mask
    /\ ~(k = self /\ is_migration_disabled /\ cpu \notin m)
    /\ __do_set_cpus_allowed(m)
    /\ IF cpu \in m
       THEN affine_move_task_stays(k) /\ cpu' = cpu
       ELSE \E d \in m : affine_move_task(k, d)
    /\ UNCHANGED <<run, cpus_ptr, migration_disabled, enabling, nr_pinned, moveVars>>

\* wait_for_completion(), and the reference to the pending is dropped.  The owner stays.
wait_for_completion(k) ==
    LET o == pc[k].on IN
    /\ pc[k].at = "wait" /\ pend[o].done
    /\ k = self => run = "running"
    /\ pend' = [pend EXCEPT ![o].refs = @ - 1]
    /\ pc' = [pc EXCEPT ![k] = IF o = k THEN [at |-> "drain", on |-> k] ELSE Idle]
    /\ UNCHANGED <<taskVars, migration_pending, stopq, moveVars>>

\* Bug: the owner of a pending does not wait for the other callers.
wait_var_event_skipped(k) ==
    /\ pc[k].at = "drain"
    /\ k = self => run = "running"
    /\ pend' = [pend EXCEPT ![k] = NoPending]
    /\ pc' = [pc EXCEPT ![k] = Idle]
    /\ UNCHANGED <<taskVars, migration_pending, stopq, moveVars>>

\* The owner returns when nobody uses the pending on its stack any more.
wait_var_event(k) ==
    /\ pc[k].at = "drain" /\ pend[k].refs = 0
    /\ k = self => run = "running"
    /\ pend' = [pend EXCEPT ![k] = NoPending]
    /\ pc' = [pc EXCEPT ![k] = Idle]
    /\ UNCHANGED <<taskVars, migration_pending, stopq, moveVars>>

-----------------------------------------------------------------------------
(* Migrate-disabled regions *)

migrate_disable ==
    /\ run = "running" /\ ~enabling /\ ~InCall /\ migration_disabled < scenario.nesting
    /\ nr_pinned' = IF is_migration_disabled THEN nr_pinned ELSE [nr_pinned EXCEPT ![cpu] = @ + 1]
    /\ migration_disabled' = migration_disabled + 1
    /\ UNCHANGED <<run, cpu, cpus_mask, cpus_ptr, enabling, pendVars, moveVars>>

migrate_enable_nested ==
    /\ run = "running" /\ ~enabling /\ ~InCall /\ migration_disabled > 1
    /\ migration_disabled' = migration_disabled - 1
    /\ UNCHANGED <<run, cpu, cpus_mask, cpus_ptr, enabling, nr_pinned, pendVars, moveVars>>

\* Bug: migrate_enable() does not look at the affinity that was set meanwhile.
affine_move_task_enable_ignores == UNCHANGED pendVars

\* affine_move_task(SCA_MIGRATE_ENABLE): P is running, so a wrong CPU is left to the stopper of
\* the pending there should be (without one -EINVAL is returned).
affine_move_task_enable ==
    LET o == migration_pending IN
    CASE cpu \in cpus_mask -> affine_move_task_stays(self)
      [] cpu \notin cpus_mask /\ o = None -> UNCHANGED pendVars
      [] OTHER ->
         /\ pend' = [pend EXCEPT ![o].stop_pending = TRUE]
         /\ stopq' = IF pend[o].stop_pending THEN stopq ELSE [stopq EXCEPT ![cpu] = @ \cup {o}]
         /\ UNCHANGED <<migration_pending, pc>>

\* The outermost migrate_enable(), with preemption disabled: p->cpus_ptr is restored first ...
migrate_enable ==
    /\ run = "running" /\ ~enabling /\ ~InCall /\ migration_disabled = 1
    /\ enabling' = TRUE
    /\ cpus_ptr' = OwnMask
    /\ IF cpus_ptr # OwnMask THEN affine_move_task_enable ELSE UNCHANGED pendVars
    /\ UNCHANGED <<run, cpu, cpus_mask, migration_disabled, nr_pinned, moveVars>>

\* ... and migration_disabled is cleared after that; preempt_enable() may switch to the stopper.
migrate_enable_finish ==
    /\ enabling
    /\ enabling' = FALSE
    /\ run' = IF PREEMPTION /\ stopq[cpu] # {} THEN "queued" ELSE run
    /\ migration_disabled' = 0
    /\ nr_pinned' = [nr_pinned EXCEPT ![cpu] = @ - 1]
    /\ UNCHANGED <<cpu, cpus_mask, cpus_ptr, pendVars, moveVars>>

-----------------------------------------------------------------------------
(* The stoppers *)

\* The stopper of c runs: P has been pushed off that CPU.
StopperRuns(c) == ~(run = "running" /\ cpu = c)

\* flush_smp_call_function_from_idle(): the wake list of this CPU is emptied first.
Flushed(c) == IF run = "waking" /\ cpu = c THEN "queued" ELSE run

\* __migrate_task(): the affinity may have changed again; otherwise P moves to the queue of d.
__migrate_task(d) == IF is_cpu_allowed(d) THEN d ELSE cpu

\* migration_cpu_stop() for the pending o, on CPU c.
migration_cpu_stop(c, o) ==
    LET r == Flushed(c)
        here == cpu = c
        rest == [stopq EXCEPT ![c] = @ \ {o}]
        Finish(complete) ==
            /\ migration_pending' = IF complete THEN None ELSE migration_pending
            /\ pend' = [pend EXCEPT ![o].stop_pending = FALSE, ![o].done = @ \/ complete]
            /\ stopq' = rest
    IN /\ o \in stopq[c] /\ StopperRuns(c)
       /\ run' = r
       /\ \/ here /\ is_migration_disabled /\ Finish(FALSE) /\ cpu' = cpu
          \/ /\ here /\ ~is_migration_disabled
             /\ cpu' = IF cpu \notin cpus_mask /\ r = "queued"
                       THEN __migrate_task(pend[o].dest_cpu) ELSE cpu
             /\ Finish(TRUE)
          \/ ~here /\ is_cpu_allowed(cpu) /\ Finish(TRUE) /\ cpu' = cpu
          \/ /\ ~here /\ ~is_cpu_allowed(cpu)
             /\ stopq' = [rest EXCEPT ![cpu] = @ \cup {o}]
             /\ UNCHANGED <<cpu, migration_pending, pend>>
       /\ UNCHANGED <<cpus_mask, cpus_ptr, migration_disabled, enabling, nr_pinned, pc, moveVars>>

\* sched_exec(): P asks the stopper of its CPU to move it to the CPU its class selects, and
\* waits for it.
sched_exec ==
    /\ run = "running" /\ ~enabling /\ ~InCall /\ ~is_migration_disabled
    /\ exec' \in AllowedMask \ {cpu}
    /\ stopq' = [stopq EXCEPT ![cpu] = @ \cup {Exec}]
    /\ UNCHANGED <<taskVars, migration_pending, pend, pc, swap>>

\* migration_cpu_stop() without a pending.
sched_exec_stop(c) ==
    /\ Exec \in stopq[c] /\ StopperRuns(c)
    /\ run' = Flushed(c)
    /\ cpu' = IF cpu = c /\ ~is_migration_disabled /\ run' = "queued"
              THEN __migrate_task(exec) ELSE cpu
    /\ stopq' = [stopq EXCEPT ![c] = @ \ {Exec}]
    /\ exec' = None
    /\ UNCHANGED <<cpus_mask, cpus_ptr, migration_disabled, enabling, nr_pinned, migration_pending,
                   pend, pc, swap>>

\* migrate_swap(): the lockless tests, then the stoppers of both CPUs.
migrate_swap(d) ==
    /\ swap = NoSwap /\ d # cpu /\ is_cpu_allowed(d)
    /\ swap' = [src |-> cpu, dst |-> d]
    /\ UNCHANGED <<taskVars, pendVars, exec>>

\* __migrate_swap_task(): a task that is no longer queued only remembers its p->wake_cpu.
__migrate_swap_task(d) == set_task_cpu(IF run = "queued" THEN d ELSE cpu)

\* Bug: migrate_swap_stop() relies on the lockless tests.
migrate_swap_stop_unchecked ==
    /\ swap # NoSwap /\ StopperRuns(swap.src) /\ StopperRuns(swap.dst)
    /\ cpu' = cpu \/ __migrate_swap_task(swap.dst)
    /\ swap' = NoSwap
    /\ UNCHANGED <<run, cpus_mask, cpus_ptr, migration_disabled, enabling, nr_pinned, pendVars, exec>>

\* migrate_swap_stop() repeats the tests under the locks; those on the other task may fail too.
migrate_swap_stop ==
    /\ swap # NoSwap /\ StopperRuns(swap.src) /\ StopperRuns(swap.dst)
    /\ \/ cpu' = cpu
       \/ cpu = swap.src /\ is_cpu_allowed(swap.dst) /\ __migrate_swap_task(swap.dst)
    /\ swap' = NoSwap
    /\ UNCHANGED <<run, cpus_mask, cpus_ptr, migration_disabled, enabling, nr_pinned, pendVars, exec>>

-----------------------------------------------------------------------------
Schedule == switch_out("queued") \/ switch_out("sleeping") \/ switch_in \/ try_to_wake_up
            \/ complete_wakes_self \/ sched_ttwu_pending \/ load_balance
Region == migrate_disable \/ migrate_enable_nested \/ migrate_enable \/ migrate_enable_finish
Stopper(c) == sched_exec_stop(c) \/ \E o \in Callers : migration_cpu_stop(c, o)

Step ==
    \/ Schedule \/ Region \/ sched_exec \/ migrate_swap_stop
    \/ \E c \in CPUs : Stopper(c) \/ migrate_swap(c)
    \/ \E k \in Callers : \/ wait_for_completion(k) \/ wait_var_event(k)
                          \/ \E m \in SUBSET CPUs : __set_cpus_allowed_ptr(k, m)

Next == Step /\ UNCHANGED scenario

Spec == Init /\ [][Next]_vars

\* Stoppers run; P is scheduled again and again, gets out of its migrate-disabled regions, and
\* is preempted by a stopper; the callers, once released, go on.
Fairness ==
    /\ \A c \in CPUs : SF_stepVars(Stopper(c))
    /\ SF_stepVars(\/ switch_out("queued") /\ stopq[cpu] # {}
                   \/ switch_in \/ sched_ttwu_pending \/ try_to_wake_up \/ complete_wakes_self \/ migrate_enable_finish)
    /\ SF_stepVars(migrate_enable_nested) /\ SF_stepVars(migrate_enable)
    /\ \A k \in Callers : SF_stepVars(wait_for_completion(k) \/ wait_var_event(k))

FairSpec == Spec /\ Fairness

-----------------------------------------------------------------------------
(* Properties *)

TypeOK ==
    /\ scenario \in Scenarios
    /\ run \in {"running", "queued", "sleeping", "waking"} /\ cpu \in CPUs
    /\ cpus_mask \in (SUBSET CPUs) \ {{}} /\ cpus_ptr \in CPUs \cup {OwnMask}
    /\ migration_disabled \in 0..scenario.nesting /\ enabling \in BOOLEAN
    /\ nr_pinned \in [CPUs -> Nat]
    /\ migration_pending \in Callers \cup {None}
    /\ pend \in [Callers -> Pending]
    /\ stopq \in [CPUs -> SUBSET (Callers \cup {Exec})]
    /\ exec \in CPUs \cup {None}
    /\ swap \in [src : CPUs, dst : CPUs] \cup {NoSwap}
    /\ pc \in [Callers -> [at : {"idle", "wait", "drain"}, on : Callers \cup {None}]]

\* The pending lives on its owner's stack: whoever refers to it, the task, a stopper or another
\* caller, finds the owner still there.
NoDanglingPending ==
    /\ migration_pending # None => pend[migration_pending].live
    /\ \A c \in CPUs, o \in Callers : o \in stopq[c] => pend[o].live
    /\ \A k \in Callers : pc[k].at # "idle" => pend[pc[k].on].live

\* The warnings of migration_cpu_stop() and affine_move_task(): a work that is queued belongs to
\* the pending of the task, exactly the works queued have stop_pending set, once, and a pending
\* that was completed is not installed.
StopWorkMatches ==
    /\ \A o \in Callers :
         /\ pend[o].stop_pending <=> \E c \in CPUs : o \in stopq[c]
         /\ Cardinality({c \in CPUs : o \in stopq[c]}) <= 1
    /\ \A c \in CPUs : \A o \in stopq[c] \ {Exec} : migration_pending = o
    /\ migration_pending # None => ~pend[migration_pending].done

\* The last affinity set is the one that holds: a runnable task that has no migrate-disabled regions,
\* and that no caller still waits for, is on a CPU of its mask.
AffinityHolds ==
    scenario.nesting = 0 /\ migration_pending = None /\ run \in {"running", "queued"} => cpu \in cpus_mask

\* Callers of set_cpus_allowed_ptr() and stoppers share one pending at a time: whoever refers to it finds
\* it, a late stopper of an earlier call touches no other, and once nobody has one the task is where the
\* last caller wanted it.
PendingSafe == NoDanglingPending /\ StopWorkMatches /\ AffinityHolds

\* nr_pinned counts the migrate-disabled tasks of a CPU: hotplug waits for it to become zero.
PinnedCounted ==
    \A c \in CPUs : nr_pinned[c] = IF is_migration_disabled /\ cpu = c THEN 1 ELSE 0

\* A task in a migrate-disabled region stays on its CPU, whoever else wants to move it, and its CPU
\* counts it all the time.
PinnedStays ==
    [][/\ PinnedCounted'
       /\ is_migration_disabled /\ migration_disabled' # 0 => cpu' = cpu]_vars

\* Every caller of set_cpus_allowed_ptr() returns.
CallersReturn == \A k \in Callers : pc[k] # Idle ~> pc[k] = Idle
=============================================================================
