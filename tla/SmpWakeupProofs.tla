-------------------------- MODULE SmpWakeupProofs --------------------------
(***************************************************************************)
(* The safety of sleeping and waking for any number of CPUs and tasks: a   *)
(* task is in one place at a time, no wake-up is lost, an inspected task   *)
(* stays where it is, and the counters of the queues count every sleeper   *)
(* once.                                                                   *)
(*                                                                         *)
(* What a CPU knows at each point of __schedule() and try_to_wake_up() is  *)
(* the invariant.  p->on_cpu protects a task from being moved while its    *)
(* stack is in use, the lock of a run queue from being dequeued or picked, *)
(* p->pi_lock from a second waker, and TASK_WAKING from everybody once the *)
(* lock has been dropped with the task on a wake list.                     *)
(***************************************************************************)
EXTENDS SmpWakeup, FiniteSetTheorems, WellFoundedInduction, TLAPS

\* Inside __schedule() with rq->lock held; with p->pi_lock of ctx[c].p held;
\* and between the store of TASK_WAKING and the activation.
RqStages == {"deactivate", "switch", "finish", "finish_task", "finish_lock"}
PiStages == {"match", "on_rq", "runnable", "waking", "on_cpu", "wait", "queue", "activate",
             "locked", "recheck", "func"}
WakingStages == {"on_cpu", "wait", "queue", "activate"}

\* Each lock is held by the CPU that is in a section it protects.
LocksHeld ==
    /\ \A t \in Tasks, c \in CPUs : pi_lock[t] = c <=> ctx[c].p = t /\ ctx[c].at \in PiStages
    /\ \A c \in CPUs : ctx[c].at \in RqStages => rq_lock[c] = c
    /\ \A c, d \in CPUs : rq_lock[d] = c => At(c, "func") \/ (d = c /\ ctx[c].at \in RqStages)

\* The task a CPU is concerned with.
Targets ==
    \A c \in CPUs :
        /\ ctx[c].at \in {"deactivate", "switch"} => ctx[c].p = curr[c]
        /\ ctx[c].at \in {"sched", "deactivate"} => curr[c] \in Tasks
        /\ ctx[c].at \in {"finish", "finish_task"} => ctx[c].p # curr[c]
        /\ ctx[c].at \in PiStages \cup {"ttwu", "detached"} => ctx[c].p \in Tasks

\* p->on_cpu is set exactly while the CPU of the task uses its stack; a task
\* that runs is queued.
Stacks ==
    /\ \A t \in Tasks, c \in CPUs : OnStack(c, t) <=> on_cpu[t] /\ cpu[t] = c
    /\ \A c \in CPUs : curr[c] \in Tasks /\ ~At(c, "switch") => on_rq[curr[c]] = "queued"

\* A task is on the queue of its CPU, or on its way there.
Queues ==
    /\ QueuedOnce
    /\ \A c \in CPUs : At(c, "detached") => on_rq[ctx[c].p] = "migrating" /\ cpu[ctx[c].p] = c

\* What the holder of p->pi_lock knows, and who is responsible for a task in TASK_WAKING.
Wakers ==
    /\ \A c \in CPUs :
         /\ ctx[c].at \in {"on_rq", "runnable", "waking"} =>
              state[ctx[c].p] \notin {"WAKING", "DEAD"}
         /\ At(c, "waking") => on_rq[ctx[c].p] = "no"
         /\ ctx[c].at \in WakingStages =>
              state[ctx[c].p] = "WAKING" /\ \A d \in CPUs : \A w \in wake_list[d] : w.p # ctx[c].p
         /\ ctx[c].at \in {"locked", "func"} => state[ctx[c].p] # "WAKING"
         /\ At(c, "func") => on_rq[ctx[c].p] = "no" \/ rq_lock[cpu[ctx[c].p]] = c
    /\ \A d \in CPUs : \A w \in wake_list[d] : state[w.p] = "WAKING" /\ cpu[w.p] = d
    /\ \A t \in Tasks : state[t] = "WAKING" =>
         /\ on_rq[t] = "no"
         /\ \/ \E c \in CPUs : ctx[c].p = t /\ ctx[c].at \in WakingStages
            \/ \E d \in CPUs : \E w \in wake_list[d] : w.p = t

\* Only a task that called schedule() in a sleeping state leaves its queue.
Sleepers ==
    /\ \A t \in Tasks : on_rq[t] = "no" => state[t] # "RUNNING" /\ loop[t] \in {"asleep", "dead"}
    /\ \A c \in CPUs :
         ctx[c].at \in {"sched", "deactivate"} => loop[curr[c]] \in {"asleep", "dead"}
    /\ \A c \in CPUs : At(c, "deactivate") => state[curr[c]] # "RUNNING"

\* CPU c is about to drop the last reference of t.
Drops(c, t) == At(c, "finish_lock") /\ ctx[c].p = t /\ ctx[c].st = "DEAD"

\* A dead task is on its way out, and one CPU drops its reference.
Dead ==
    /\ \A t \in Tasks :
         /\ state[t] = "DEAD" <=> loop[t] = "dead"
         /\ state[t] = "DEAD" =>
              \/ on_rq[t] = "no"
              \/ \E c \in CPUs : curr[c] = t /\ ctx[c].at \in {"sched", "deactivate"}
         /\ drops[t] \in {0, 1}
         /\ drops[t] = 1 => state[t] = "DEAD" /\ on_rq[t] = "no" /\ ~on_cpu[t]
    /\ \A c \in CPUs : ctx[c].at \in {"finish_task", "finish_lock"} /\ ctx[c].st = "DEAD" =>
         ctx[c].p \in Tasks /\ state[ctx[c].p] = "DEAD"
    /\ \A t \in Tasks, c \in CPUs : Drops(c, t) =>
         on_rq[t] = "no" /\ ~on_cpu[t] /\ drops[t] = 0 /\ \A d \in CPUs : Drops(d, t) => d = c

\* Somebody is going to wake t: a waker that will find its state in its mask,
\* one that found it, or the CPU with t on its wake list.
Woken(t) ==
    \/ \E c \in CPUs : /\ ctx[c].p = t
                       /\ \/ ctx[c].at \in {"ttwu", "match"} /\ ctx[c].mask = TASK_NORMAL
                          \/ ctx[c].at \in {"on_rq", "runnable", "waking"} \cup WakingStages
    \/ \E d \in CPUs : \E w \in wake_list[d] : w.p = t

\* A task that went to sleep before its condition became true is going to be woken.
Followed ==
    \A t \in Tasks : cond[t] /\ loop[t] = "asleep" /\ state[t] # "RUNNING" => Woken(t)

\* The inductive invariant.
Inv ==
    /\ TypeOK /\ LocksHeld /\ Targets /\ Stacks /\ Queues
    /\ Wakers /\ Sleepers /\ Dead /\ Followed

-----------------------------------------------------------------------------
(* What the types give.                                                    *)

LEMMA Types ==
  ASSUME Inv
  PROVE  /\ state \in [Tasks -> State] /\ on_rq \in [Tasks -> OnRq]
         /\ on_cpu \in [Tasks -> BOOLEAN] /\ cpu \in [Tasks -> CPUs]
         /\ loop \in [Tasks -> {"work", "test", "asleep", "dead"}]
         /\ cond \in [Tasks -> BOOLEAN] /\ sig \in [Tasks -> BOOLEAN] /\ drops \in [Tasks -> Nat]
         /\ pi_lock \in [Tasks -> CPUs \cup {Free}] /\ rq_lock \in [CPUs -> CPUs \cup {Free}]
         /\ queued \in [CPUs -> SUBSET Tasks] /\ curr \in [CPUs -> Tasks \cup {Idle}]
         /\ wake_list \in [CPUs -> SUBSET [p : Tasks, sched_remote_wakeup : BOOLEAN]]
         /\ ctx \in [CPUs -> Ctx]
         /\ \A c \in CPUs : ctx[c].at \in Stages /\ ctx[c].p \in Tasks \cup {Idle, NoTask}
         /\ scenario.waiters \subseteq Tasks /\ scenario.mortal \subseteq Tasks
         /\ Free \notin CPUs /\ Idle \notin Tasks /\ NoTask \notin Tasks
<1>1. scenario \in Scenarios
  BY DEF Inv, TypeOK
<1>2. scenario.waiters \subseteq Tasks /\ scenario.mortal \subseteq Tasks
  BY <1>1, ScenarioAssumption
<1>3. ctx \in [CPUs -> Ctx]
  BY DEF Inv, TypeOK
<1>4. \A c \in CPUs : ctx[c].at \in Stages /\ ctx[c].p \in Tasks \cup {Idle, NoTask}
  BY <1>3 DEF Ctx
<1> QED BY <1>2, <1>3, <1>4, CpuAssumption, TaskAssumption DEF Inv, TypeOK

LEMMA Listed ==
  ASSUME Inv
  PROVE  /\ \A d \in CPUs : \A w \in wake_list[d] : w.p \in Tasks
         /\ \A t \in Tasks : cpu[t] \in CPUs /\ state[t] \in State
         /\ Free \notin CPUs /\ Idle \notin Tasks /\ NoTask \notin Tasks
BY Types

\* g is f with another value at x.
Changed(g, f, S, x, v) == g[x] = v /\ \A y \in S : y # x => g[y] = f[y]

\* CPU c goes on to another stage of the same function, about the same task.
Moved(c, stage) ==
    /\ ctx' \in [CPUs -> Ctx]
    /\ ctx'[c].at = stage /\ ctx'[c].p = ctx[c].p /\ ctx'[c].st = ctx[c].st
    /\ ctx'[c].mask = ctx[c].mask /\ ctx'[c].mig = ctx[c].mig
    /\ \A d \in CPUs : d # c => ctx'[d] = ctx[d]

\* CPU c starts on the task p.
Started(c, stage, p) ==
    /\ ctx' \in [CPUs -> Ctx]
    /\ ctx'[c].at = stage /\ ctx'[c].p = p
    /\ \A d \in CPUs : d # c => ctx'[d] = ctx[d]

\* CPU c leaves the activation of its task to the CPU of the task.
Handed(c, w) ==
    /\ Started(c, "run", NoTask) /\ Changed(pi_lock', pi_lock, Tasks, ctx[c].p, Free)
    /\ w.p = ctx[c].p
    /\ \A d \in CPUs : \A v :
         v \in wake_list'[d] <=> v \in wake_list[d] \/ (v = w /\ d = cpu[w.p])

LEMMA Wraps == \A x \in Int : x % UINT \in 0..UINT-1
BY UintAssumption, TaskAssumption, FS_CardinalityType

LEMMA GotoMoves ==
  ASSUME Inv, NEW c \in CPUs, NEW stage \in Stages, Goto(c, stage)
  PROVE  Moved(c, stage)
<1>1. ctx \in [CPUs -> Ctx] /\ ctx' = [ctx EXCEPT ![c].at = stage]
  BY Types DEF Goto
<1>2. [ctx[c] EXCEPT !.at = stage] \in Ctx
  BY <1>1 DEF Ctx
<1> QED BY <1>1, <1>2 DEF Moved, Ctx

LEMMA ReturnStarts ==
  ASSUME Inv, NEW c \in CPUs, Return(c)
  PROVE  Started(c, "run", NoTask)
<1>1. ctx \in [CPUs -> Ctx] /\ ctx' = [ctx EXCEPT ![c] = Running]
  BY Types DEF Return
<1>2. Running \in Ctx
  BY DEF Running, Ctx, Stages, State, Masks
<1> QED BY <1>1, <1>2 DEF Started, Running

\* What func of try_invoke_on_locked_down_task() relies on, in one step.
Undisturbed ==
    \A c \in CPUs : At(c, "func") =>
        LET p == ctx[c].p IN
        on_rq'[p] = on_rq[p] /\ cpu'[p] = cpu[p] /\ (on_cpu'[p] => on_cpu[p])

\* What a step from the invariant has to show.
Keeps == Inv' /\ Undisturbed

-----------------------------------------------------------------------------
(* The wait loop, and the exit of a task.                                  *)

\* The current task is queued, and it holds no state that a waker relies on.
LEMMA SetCurrentStateKeeps ==
  ASSUME Inv, UNCHANGED scenario, NEW c \in CPUs, set_current_state(c)
  PROVE  Keeps
<1>1. /\ ctx[c].at = "run" /\ curr[c] \in Tasks /\ loop[curr[c]] \in {"work", "asleep"}
      /\ Changed(state', state, Tasks, curr[c], SleepState(curr[c]))
      /\ SleepState(curr[c]) \in {"INTERRUPTIBLE", "UNINTERRUPTIBLE"}
      /\ Changed(loop', loop, Tasks, curr[c], "test")
      /\ UNCHANGED <<on_rq, on_cpu, cpu, contributes, cond, sig, drops, pi_lock, rq_lock, queued,
                     curr, wake_list, nr_uninterruptible, nr_iowait, ctx>>
  BY Types DEF set_current_state, SleepState, At, Changed, taskVars, waitVars, rqVars
<1>2. TypeOK'
  BY <1>1, Types DEF Inv, TypeOK, set_current_state, SleepState, State, OnRq
<1>3. LocksHeld'
  BY <1>1 DEF Inv, LocksHeld, At, PiStages, RqStages
<1>4. Stacks'
  BY <1>1 DEF Inv, Stacks, OnStack, At
<1>5. Queues'
  BY <1>1 DEF Inv, Queues, QueuedOnce, At
<1>6. Wakers'
  BY <1>1, Listed
     DEF Changed, Inv, Wakers, At, WakingStages, LocksHeld, Targets, Stacks, PiStages, RqStages
<1>7. Sleepers'
  BY <1>1 DEF Changed, Inv, Sleepers, At, Stacks, Targets, OnStack
<1>8. Dead'
  BY <1>1 DEF Changed, Inv, Dead, Drops, At
<1>9. Followed'
  BY <1>1 DEF Changed, Inv, Followed, Woken
<1>10. Targets' /\ Undisturbed
  BY <1>1 DEF Undisturbed, Inv, Targets
<1> QED BY <1>2, <1>3, <1>4, <1>5, <1>6, <1>7, <1>8, <1>9, <1>10 DEF Keeps, Inv

\* A task that leaves its loop needs no waker any more.
LEMMA WaitOverKeeps ==
  ASSUME Inv, UNCHANGED scenario, NEW c \in CPUs, wait_over(c)
  PROVE  Keeps
<1>1. /\ ctx[c].at = "run" /\ curr[c] \in Tasks /\ loop[curr[c]] = "test"
      /\ Changed(state', state, Tasks, curr[c], "RUNNING")
      /\ Changed(loop', loop, Tasks, curr[c], "work")
      /\ Changed(cond', cond, Tasks, curr[c], FALSE)
      /\ UNCHANGED <<on_rq, on_cpu, cpu, contributes, drops, pi_lock, rq_lock, queued, curr,
                     wake_list, nr_uninterruptible, nr_iowait, ctx>>
  BY Types DEF wait_over, At, Changed, taskVars, waitVars, rqVars
<1>2. TypeOK'
  BY <1>1, Types DEF Inv, TypeOK, wait_over, State, OnRq
<1>3. LocksHeld'
  BY <1>1 DEF Inv, LocksHeld, At, PiStages, RqStages
<1>4. Stacks'
  BY <1>1 DEF Inv, Stacks, OnStack, At
<1>5. Queues'
  BY <1>1 DEF Inv, Queues, QueuedOnce, At
<1>6. Wakers'
  BY <1>1, Listed
     DEF Changed, Inv, Wakers, At, WakingStages, LocksHeld, Targets, Stacks, PiStages, RqStages
<1>7. Sleepers'
  BY <1>1 DEF Changed, Inv, Sleepers, At, Stacks, Targets, OnStack
<1>8. Dead'
  BY <1>1 DEF Changed, Inv, Dead, Drops, At
<1>9. Followed'
  BY <1>1 DEF Changed, Inv, Followed, Woken
<1>10. Targets' /\ Undisturbed
  BY <1>1 DEF Undisturbed, Inv, Targets
<1> QED BY <1>2, <1>3, <1>4, <1>5, <1>6, <1>7, <1>8, <1>9, <1>10 DEF Keeps, Inv

\* The condition is false at its test, so whoever makes it true wakes the task afterwards.
LEMMA WaitScheduleKeeps ==
  ASSUME Inv, UNCHANGED scenario, NEW c \in CPUs, wait_schedule(c)
  PROVE  Keeps
<1>1. Moved(c, "sched")
  BY GotoMoves DEF wait_schedule, Stages
<1>2. /\ ctx[c].at = "run" /\ curr[c] \in Tasks /\ loop[curr[c]] = "test" /\ ~cond[curr[c]]
      /\ Changed(loop', loop, Tasks, curr[c], "asleep")
      /\ UNCHANGED <<state, on_rq, on_cpu, cpu, contributes, cond, sig, drops, pi_lock, rq_lock,
                     queued, curr, wake_list, nr_uninterruptible, nr_iowait>>
  BY <1>1, Types DEF wait_schedule, At, Changed, taskVars, waitVars, rqVars
<1>3. TypeOK'
  BY <1>1, <1>2, Types DEF Inv, TypeOK, Moved, wait_schedule, State, OnRq
<1>4. LocksHeld'
  BY <1>1, <1>2 DEF Inv, LocksHeld, At, PiStages, RqStages, Moved
<1>5. Targets'
  BY <1>1, <1>2 DEF Inv, Targets, PiStages, Moved
<1>6. Stacks'
  BY <1>1, <1>2 DEF Inv, Stacks, OnStack, At, Moved
<1>7. Queues'
  BY <1>1, <1>2 DEF Inv, Queues, QueuedOnce, At, Moved
<1>8. Wakers'
  BY <1>1, <1>2 DEF Inv, Wakers, At, WakingStages, Moved
<1>9. Sleepers'
  BY <1>1, <1>2 DEF Changed, Inv, Sleepers, At, Stacks, Targets, OnStack, Moved
<1>10. Dead'
  BY <1>1, <1>2 DEF Changed, Inv, Dead, Drops, At, Moved
<1>11. Followed'
  BY <1>1, <1>2 DEF Changed, Inv, Followed, Woken, WakingStages, Moved
<1>12. Undisturbed
  BY <1>1, <1>2 DEF Undisturbed
<1> QED BY <1>3, <1>4, <1>5, <1>6, <1>7, <1>8, <1>9, <1>10, <1>11, <1>12 DEF Keeps, Inv

\* p->pi_lock is free, so no waker has matched the old state of the task.
LEMMA DoTaskDeadKeeps ==
  ASSUME Inv, UNCHANGED scenario, NEW c \in CPUs, do_task_dead(c)
  PROVE  Keeps
<1>1. Moved(c, "sched")
  BY GotoMoves DEF do_task_dead, set_special_state, Stages
<1>2. /\ ctx[c].at = "run" /\ curr[c] \in Tasks /\ loop[curr[c]] = "work"
      /\ pi_lock[curr[c]] = Free
      /\ Changed(state', state, Tasks, curr[c], "DEAD")
      /\ Changed(loop', loop, Tasks, curr[c], "dead")
      /\ UNCHANGED <<on_rq, on_cpu, cpu, contributes, cond, sig, drops, pi_lock, rq_lock, queued,
                     curr, wake_list, nr_uninterruptible, nr_iowait>>
  BY <1>1, Types DEF do_task_dead, set_special_state, At, Changed, taskVars, waitVars, rqVars
<1>3. TypeOK'
  BY <1>1, <1>2, Types DEF Inv, TypeOK, Moved, do_task_dead, set_special_state, State, OnRq
<1>4. LocksHeld'
  BY <1>1, <1>2 DEF Inv, LocksHeld, At, PiStages, RqStages, Moved
<1>5. Targets'
  BY <1>1, <1>2 DEF Inv, Targets, PiStages, Moved
<1>6. Stacks'
  BY <1>1, <1>2 DEF Inv, Stacks, OnStack, At, Moved
<1>7. Queues'
  BY <1>1, <1>2 DEF Inv, Queues, QueuedOnce, At, Moved
<1>8. Wakers'
  BY <1>1, <1>2, Listed
     DEF Changed, Inv, Wakers, At, WakingStages, LocksHeld, Targets, Stacks, PiStages, RqStages,
         Moved
<1>9. Sleepers'
  BY <1>1, <1>2 DEF Changed, Inv, Sleepers, At, Stacks, Targets, OnStack, Moved
<1>10. Dead'
  BY <1>1, <1>2 DEF Changed, Inv, Dead, Drops, At, Moved
<1>11. Followed'
  BY <1>1, <1>2 DEF Changed, Inv, Followed, Woken, WakingStages, Moved
<1>12. Undisturbed
  BY <1>1, <1>2 DEF Undisturbed
<1> QED BY <1>3, <1>4, <1>5, <1>6, <1>7, <1>8, <1>9, <1>10, <1>11, <1>12 DEF Keeps, Inv

-----------------------------------------------------------------------------
(* __schedule().                                                           *)

\* The task goes on to be scheduled as it is, whatever its state.
LEMMA PreemptScheduleIrqKeeps ==
  ASSUME Inv, UNCHANGED scenario, NEW c \in CPUs, preempt_schedule_irq(c)
  PROVE  Keeps
<1>1. Moved(c, "preempt")
  BY GotoMoves DEF preempt_schedule_irq, Stages
<1>2. /\ ctx[c].at = "run"
      /\ UNCHANGED <<state, on_rq, on_cpu, cpu, contributes, loop, cond, sig, drops, pi_lock,
                     rq_lock, queued, curr, wake_list, nr_uninterruptible, nr_iowait>>
  BY <1>1, Types DEF preempt_schedule_irq, At, Changed, taskVars, waitVars, rqVars
<1>3. TypeOK'
  BY <1>1, <1>2, Types DEF Inv, TypeOK, Moved, preempt_schedule_irq, State, OnRq
<1>4. LocksHeld'
  BY <1>1, <1>2 DEF Inv, LocksHeld, At, PiStages, RqStages, Moved
<1>5. Targets'
  BY <1>1, <1>2 DEF Inv, Targets, PiStages, Moved
<1>6. Stacks'
  BY <1>1, <1>2 DEF Inv, Stacks, OnStack, At, Moved
<1>7. Queues'
  BY <1>1, <1>2 DEF Inv, Queues, QueuedOnce, At, Moved
<1>8. Wakers'
  BY <1>1, <1>2 DEF Inv, Wakers, At, WakingStages, Moved
<1>9. Sleepers'
  BY <1>1, <1>2 DEF Inv, Sleepers, At, Moved
<1>10. Dead'
  BY <1>1, <1>2 DEF Inv, Dead, Drops, At, Moved
<1>11. Followed'
  BY <1>1, <1>2 DEF Inv, Followed, Woken, WakingStages, Moved
<1>12. Undisturbed
  BY <1>1, <1>2 DEF Undisturbed
<1> QED BY <1>3, <1>4, <1>5, <1>6, <1>7, <1>8, <1>9, <1>10, <1>11, <1>12 DEF Keeps, Inv

\* The task is still queued; only one that called schedule() in a sleeping state is deactivated.
LEMMA ScheduleLockKeeps ==
  ASSUME Inv, UNCHANGED scenario, NEW c \in CPUs, schedule_lock(c)
  PROVE  Keeps
<1>1. /\ rq_lock[c] = Free /\ ctx[c].at \in {"sched", "preempt"}
      /\ At(c, "sched") => curr[c] \in Tasks
  BY DEF schedule_lock, Inv, Targets, At
<1>2. Changed(rq_lock', rq_lock, CPUs, c, c)
  BY <1>1, Types DEF schedule_lock, Changed
<1>3. \A t \in Tasks : t # curr[c] => state'[t] = state[t]
  BY Types DEF schedule_lock
<1>4. curr[c] \in Tasks =>
        \/ state'[curr[c]] = state[curr[c]]
        \/ At(c, "sched") /\ state[curr[c]] = "INTERRUPTIBLE" /\ state'[curr[c]] = "RUNNING"
  BY Types DEF schedule_lock
<1>5. \/ Started(c, "switch", curr[c]) /\ (At(c, "sched") => state'[curr[c]] = "RUNNING")
      \/ Started(c, "deactivate", curr[c]) /\ At(c, "sched") /\ state'[curr[c]] # "RUNNING"
  <2> DEFINE stage == IF /\ At(c, "sched") /\ curr[c] \in Tasks /\ state[curr[c]] # "RUNNING"
                         /\ ~(sig[curr[c]] /\ state[curr[c]] = "INTERRUPTIBLE")
                      THEN "deactivate" ELSE "switch"
  <2>1. /\ ctx \in [CPUs -> Ctx] /\ curr[c] \in Tasks \cup {Idle}
        /\ ctx' = [ctx EXCEPT ![c].p = curr[c], ![c].at = stage]
    BY Types DEF schedule_lock
  <2>a. stage \in Stages
    BY DEF Stages
  <2> HIDE DEF stage
  <2>2. [ctx[c] EXCEPT !.p = curr[c], !.at = stage] \in Ctx
    BY <2>1, <2>a DEF Ctx
  <2>3. Started(c, stage, curr[c])
    BY <2>1, <2>2 DEF Started, Ctx
  <2> USE DEF stage
  <2>4. stage = "deactivate" =>
          At(c, "sched") /\ state'[curr[c]] = state[curr[c]] /\ state[curr[c]] # "RUNNING"
    BY Types DEF schedule_lock
  <2>5. stage = "switch" /\ At(c, "sched") => state'[curr[c]] = "RUNNING"
    BY <1>1, Types DEF schedule_lock
  <2>6. stage \in {"deactivate", "switch"}
    OBVIOUS
  <2> QED BY <2>3, <2>4, <2>5, <2>6
<1>6. /\ UNCHANGED <<on_rq, on_cpu, cpu, loop, cond, sig, drops, pi_lock, queued, curr, wake_list,
                     nr_iowait>>
  BY <1>1, <1>2, <1>3, <1>4, <1>5, Types
     DEF schedule_lock, At, Changed, taskVars, waitVars, rqVars
<1>7. TypeOK'
  <2>2. nr_uninterruptible' \in [CPUs -> 0..UINT-1]
    BY Wraps DEF schedule_lock, Inv, TypeOK
  <2>3. /\ state' \in [Tasks -> State] /\ contributes' \in [Tasks -> BOOLEAN]
        /\ rq_lock' \in [CPUs -> CPUs \cup {Free}]
    BY Types DEF schedule_lock, Inv, TypeOK, State
  <2>4. ctx' \in [CPUs -> Ctx]
    BY <1>1, <1>2, <1>3, <1>4, <1>5, <1>6 DEF Started
  <2> QED BY <1>1, <1>2, <1>3, <1>4, <1>5, <1>6, <2>2, <2>3, <2>4 DEF Inv, TypeOK, schedule_lock
<1>8. LocksHeld'
  BY <1>1, <1>2, <1>3, <1>4, <1>5, <1>6
     DEF Changed, Inv, LocksHeld, At, PiStages, RqStages, Started
<1>9. Targets'
  BY <1>1, <1>2, <1>3, <1>4, <1>5, <1>6 DEF Inv, Targets, PiStages, Started
<1>10. Stacks'
  BY <1>1, <1>2, <1>3, <1>4, <1>5, <1>6 DEF Inv, Stacks, OnStack, At, Started
<1>11. Queues'
  BY <1>1, <1>2, <1>3, <1>4, <1>5, <1>6
     DEF Inv, Queues, QueuedOnce, At, Stacks, Targets, OnStack, Started
<1>12. Wakers'
  BY <1>1, <1>2, <1>3, <1>4, <1>5, <1>6, Listed
     DEF Changed, Inv, Wakers, At, WakingStages, LocksHeld, Targets, Stacks, PiStages, RqStages,
         Started
<1>13. Sleepers'
  BY <1>1, <1>2, <1>3, <1>4, <1>5, <1>6 DEF Inv, Sleepers, At, Stacks, Targets, OnStack, Started
<1>14. Dead'
  BY <1>1, <1>2, <1>3, <1>4, <1>5, <1>6 DEF Inv, Dead, Drops, At, Started
<1>15. Followed'
  BY <1>1, <1>2, <1>3, <1>4, <1>5, <1>6 DEF Inv, Followed, Woken, WakingStages, Started
<1>16. Undisturbed
  BY <1>1, <1>2, <1>3, <1>4, <1>5, <1>6 DEF Undisturbed
<1> QED BY <1>7, <1>8, <1>9, <1>10, <1>11, <1>12, <1>13, <1>14, <1>15, <1>16 DEF Keeps, Inv

\* From here on the task is off its queue for wakers, but still on its CPU.
LEMMA DeactivateTaskKeeps ==
  ASSUME Inv, UNCHANGED scenario, NEW c \in CPUs, deactivate_task(c)
  PROVE  Keeps
<1>1. Moved(c, "switch")
  BY GotoMoves DEF deactivate_task, Stages
<1>2. /\ ctx[c].at = "deactivate" /\ ctx[c].p = curr[c] /\ curr[c] \in Tasks
      /\ Changed(on_rq', on_rq, Tasks, curr[c], "no")
      /\ UNCHANGED <<state, on_cpu, cpu, contributes, loop, cond, sig, drops, pi_lock, rq_lock,
                     queued, curr, wake_list, nr_uninterruptible, nr_iowait>>
  BY <1>1, Types DEF deactivate_task, At, Changed, taskVars, waitVars, rqVars, Inv, Targets
<1>3. TypeOK'
  BY <1>1, <1>2, Types DEF Inv, TypeOK, Moved, deactivate_task, State, OnRq
<1>4. LocksHeld'
  BY <1>1, <1>2 DEF Inv, LocksHeld, At, PiStages, RqStages, Moved
<1>5. Stacks'
  BY <1>1, <1>2 DEF Changed, Inv, Stacks, OnStack, At, Moved
<1>6. Queues'
  BY <1>1, <1>2 DEF Changed, Inv, Queues, QueuedOnce, At, Stacks, Targets, OnStack, Moved
<1>7. Wakers'
  BY <1>1, <1>2, Listed
     DEF Changed, Inv, Wakers, At, WakingStages, LocksHeld, Targets, Stacks, PiStages, RqStages,
         Moved
<1>8. Sleepers'
  BY <1>1, <1>2 DEF Changed, Inv, Sleepers, At, Moved
<1>9. Dead'
  BY <1>1, <1>2 DEF Changed, Inv, Dead, Drops, At, Moved
<1>10. Followed'
  BY <1>1, <1>2 DEF Inv, Followed, Woken, WakingStages, Moved
<1>11. Undisturbed
  BY <1>1, <1>2
     DEF Changed, Undisturbed, Inv, LocksHeld, Wakers, At, PiStages, RqStages, Stacks, OnStack,
         Targets, Queues, QueuedOnce, Moved
<1>12. Targets'
  BY <1>1, <1>2 DEF Inv, Targets, Moved
<1> QED BY <1>3, <1>4, <1>5, <1>6, <1>7, <1>8, <1>9, <1>10, <1>11, <1>12 DEF Keeps, Inv

\* The next task is queued here and on no stack; nobody else holds this queue's lock.
LEMMA ContextSwitchKeeps ==
  ASSUME Inv, UNCHANGED scenario, NEW c \in CPUs, context_switch(c)
  PROVE  Keeps
<1>1. ctx[c].at = "switch" /\ ctx[c].p = curr[c] /\ curr[c] \in Tasks \cup {Idle}
  BY Types DEF context_switch, Inv, Targets, At
<1>2. rq_lock[c] = c
  BY <1>1 DEF Inv, LocksHeld, RqStages
<1>3. PICK next \in Tasks \cup {Idle} :
        /\ next \in Tasks => next \in queued[c] /\ ~(next = curr[c] /\ on_rq[next] = "no")
        /\ curr' = [curr EXCEPT ![c] = next]
        /\ IF next = curr[c]
           THEN rq_lock' = [rq_lock EXCEPT ![c] = Free] /\ on_cpu' = on_cpu /\ Return(c)
           ELSE prepare_task(next) /\ rq_lock' = rq_lock /\ Goto(c, "finish")
  BY <1>1, Types DEF context_switch
<1>4. Changed(curr', curr, CPUs, c, next)
  BY <1>3, Types DEF Changed
<1>5. \A d \in CPUs, t \in Tasks :
        t \in queued'[d] <=> t \in queued[d] /\ ~(d = c /\ t = curr[c] /\ on_rq[t] = "no")
  BY <1>1, Types DEF context_switch
<1>6. \/ /\ next = curr[c] /\ Changed(rq_lock', rq_lock, CPUs, c, Free) /\ on_cpu' = on_cpu
         /\ Started(c, "run", NoTask)
      \/ /\ next # curr[c] /\ rq_lock' = rq_lock /\ Moved(c, "finish")
         /\ \A t \in Tasks : on_cpu'[t] <=> on_cpu[t] \/ t = next
  <2>1. CASE next = curr[c]
    BY <1>3, <2>1, Types, ReturnStarts DEF Changed
  <2>2. CASE next # curr[c]
    BY <1>3, <2>2, Types, GotoMoves DEF prepare_task, Stages
  <2> QED BY <2>1, <2>2
<1>7. next \in Tasks => on_rq[next] = "queued" /\ cpu[next] = c
  BY <1>1, <1>3 DEF Inv, Queues, QueuedOnce
<1>8. /\ UNCHANGED <<state, on_rq, cpu, contributes, loop, cond, sig, drops, pi_lock, wake_list,
                     nr_uninterruptible>>
  BY <1>1, <1>2, <1>3, <1>4, <1>5, <1>6, <1>7, Types
     DEF context_switch, At, Changed, taskVars, waitVars, rqVars
<1>9. TypeOK'
  <2>1. queued' \in [CPUs -> SUBSET Tasks] /\ nr_iowait' \in [CPUs -> Int]
    BY DEF context_switch, Inv, TypeOK
  <2>2. /\ rq_lock' \in [CPUs -> CPUs \cup {Free}] /\ on_cpu' \in [Tasks -> BOOLEAN]
        /\ curr' \in [CPUs -> Tasks \cup {Idle}]
    BY <1>3, Types DEF prepare_task
  <2>3. ctx' \in [CPUs -> Ctx]
    BY <1>1, <1>2, <1>3, <1>4, <1>5, <1>6, <1>7, <1>8 DEF Started, Moved
  <2> QED BY <1>1, <1>2, <1>3, <1>4, <1>5, <1>6, <1>7, <1>8, <2>1, <2>2, <2>3 DEF Inv, TypeOK
<1>10. LocksHeld'
  BY <1>1, <1>2, <1>3, <1>4, <1>5, <1>6, <1>7, <1>8, Listed
     DEF Changed, Inv, LocksHeld, At, PiStages, RqStages, Targets, Moved, Started
<1>11. Targets'
  BY <1>1, <1>2, <1>3, <1>4, <1>5, <1>6, <1>7, <1>8
     DEF Changed, Inv, Targets, PiStages, Moved, Started
<1>12. Stacks'
  BY <1>1, <1>2, <1>3, <1>4, <1>5, <1>6, <1>7, <1>8
     DEF Changed, Inv, Stacks, OnStack, At, Moved, Started
<1>13. Queues'
  BY <1>1, <1>2, <1>3, <1>4, <1>5, <1>6, <1>7, <1>8
     DEF Inv, Queues, QueuedOnce, At, Moved, Started
<1>14. Wakers'
  BY <1>1, <1>2, <1>3, <1>4, <1>5, <1>6, <1>7, <1>8, Listed
     DEF Changed, Inv, Wakers, At, WakingStages, LocksHeld, Targets, Stacks, PiStages, RqStages,
         Moved, Started
<1>15. Sleepers'
  BY <1>1, <1>2, <1>3, <1>4, <1>5, <1>6, <1>7, <1>8 DEF Changed, Inv, Sleepers, At, Moved, Started
<1>16. Dead'
  BY <1>1, <1>2, <1>3, <1>4, <1>5, <1>6, <1>7, <1>8
     DEF Changed, Inv, Dead, Drops, At, Moved, Started
<1>17. Followed'
  BY <1>1, <1>2, <1>3, <1>4, <1>5, <1>6, <1>7, <1>8
     DEF Inv, Followed, Woken, WakingStages, Moved, Started
<1>18. Undisturbed
  BY <1>1, <1>2, <1>3, <1>4, <1>5, <1>6, <1>7, <1>8
     DEF Undisturbed, Inv, LocksHeld, Wakers, At, PiStages, RqStages, Stacks, OnStack, Targets,
         Queues, QueuedOnce, Moved, Started
<1> QED BY <1>9, <1>10, <1>11, <1>12, <1>13, <1>14, <1>15, <1>16, <1>17, <1>18 DEF Keeps, Inv

\* prev->on_cpu is still set: its state is read before a waker may let it run elsewhere.
LEMMA FinishTaskSwitchKeeps ==
  ASSUME Inv, UNCHANGED scenario, NEW c \in CPUs, finish_task_switch(c)
  PROVE  Keeps
<1>1. /\ Started(c, "finish_task", ctx[c].p)
      /\ ctx'[c].st = (IF ctx[c].p \in Tasks THEN state[ctx[c].p] ELSE "RUNNING")
  <2> DEFINE st == IF ctx[c].p \in Tasks THEN state[ctx[c].p] ELSE "RUNNING"
  <2>1. /\ ctx \in [CPUs -> Ctx] /\ st \in State
        /\ ctx' = [ctx EXCEPT ![c].at = "finish_task", ![c].st = st]
    BY Types DEF finish_task_switch, State
  <2>2. [ctx[c] EXCEPT !.at = "finish_task", !.st = st] \in Ctx
    BY <2>1 DEF Ctx, Stages
  <2> QED BY <2>1, <2>2 DEF Started, Ctx
<1>2. /\ ctx[c].at = "finish"
      /\ UNCHANGED <<state, on_rq, on_cpu, cpu, contributes, loop, cond, sig, drops, pi_lock,
                     rq_lock, queued, curr, wake_list, nr_uninterruptible, nr_iowait>>
  BY <1>1, Types DEF finish_task_switch, At, Changed, taskVars, waitVars, rqVars
<1>3. TypeOK'
  BY <1>1, <1>2, Types DEF Inv, TypeOK, Started, finish_task_switch, State, OnRq
<1>4. LocksHeld'
  BY <1>1, <1>2 DEF Inv, LocksHeld, At, PiStages, RqStages, Started
<1>5. Targets'
  BY <1>1, <1>2 DEF Inv, Targets, PiStages, Started
<1>6. Stacks'
  BY <1>1, <1>2 DEF Inv, Stacks, OnStack, At, Started
<1>7. Queues'
  BY <1>1, <1>2 DEF Inv, Queues, QueuedOnce, At, Started
<1>8. Wakers'
  BY <1>1, <1>2 DEF Inv, Wakers, At, WakingStages, Started
<1>9. Sleepers'
  BY <1>1, <1>2 DEF Inv, Sleepers, At, Started
<1>10. Dead'
  BY <1>1, <1>2 DEF Inv, Dead, Drops, At, Started
<1>11. Followed'
  BY <1>1, <1>2 DEF Inv, Followed, Woken, WakingStages, Started
<1>12. Undisturbed
  BY <1>1, <1>2 DEF Undisturbed
<1> QED BY <1>3, <1>4, <1>5, <1>6, <1>7, <1>8, <1>9, <1>10, <1>11, <1>12 DEF Keeps, Inv

\* The stack of prev is free: no CPU uses it, and wakers may move it.
LEMMA FinishTaskKeeps ==
  ASSUME Inv, UNCHANGED scenario, NEW c \in CPUs, finish_task(c)
  PROVE  Keeps
<1>1. Moved(c, "finish_lock")
  BY GotoMoves DEF finish_task, Stages
<1>2. /\ ctx[c].at = "finish_task"
      /\ \A t \in Tasks : on_cpu'[t] <=> on_cpu[t] /\ t # ctx[c].p
      /\ UNCHANGED <<state, on_rq, cpu, contributes, loop, cond, sig, drops, pi_lock, rq_lock,
                     queued, curr, wake_list, nr_uninterruptible, nr_iowait>>
  BY <1>1, Types DEF finish_task, At, Changed, taskVars, waitVars, rqVars
<1>3. TypeOK'
  BY <1>1, <1>2, Types DEF Inv, TypeOK, Moved, finish_task, State, OnRq
<1>4. LocksHeld'
  BY <1>1, <1>2 DEF Inv, LocksHeld, At, PiStages, RqStages, Moved
<1>5. Targets'
  BY <1>1, <1>2 DEF Inv, Targets, PiStages, Moved
<1>6. Stacks'
  BY <1>1, <1>2 DEF Inv, Stacks, OnStack, At, Targets, Moved
<1>7. Queues'
  BY <1>1, <1>2 DEF Inv, Queues, QueuedOnce, At, Moved
<1>8. Wakers'
  BY <1>1, <1>2 DEF Inv, Wakers, At, WakingStages, Moved
<1>9. Sleepers'
  BY <1>1, <1>2 DEF Inv, Sleepers, At, Moved
<1>10. Dead'
  BY <1>1, <1>2 DEF Inv, Dead, Drops, At, Stacks, OnStack, Targets, Moved
<1>11. Followed'
  BY <1>1, <1>2 DEF Inv, Followed, Woken, WakingStages, Moved
<1>12. Undisturbed
  BY <1>1, <1>2
     DEF Undisturbed, Inv, LocksHeld, Wakers, At, PiStages, RqStages, Stacks, OnStack, Targets,
         Queues, QueuedOnce, Moved
<1> QED BY <1>3, <1>4, <1>5, <1>6, <1>7, <1>8, <1>9, <1>10, <1>11, <1>12 DEF Keeps, Inv

\* A dead prev has left its queue and its stack, and only this CPU drops its reference.
LEMMA FinishLockSwitchKeeps ==
  ASSUME Inv, UNCHANGED scenario, NEW c \in CPUs, finish_lock_switch(c)
  PROVE  Keeps
<1>1. Started(c, "run", NoTask)
  BY ReturnStarts DEF finish_lock_switch
<1>2. /\ ctx[c].at = "finish_lock"
      /\ Changed(rq_lock', rq_lock, CPUs, c, Free)
      /\ ctx[c].st = "DEAD" => Changed(drops', drops, Tasks, ctx[c].p, drops[ctx[c].p] + 1)
      /\ ctx[c].st # "DEAD" => drops' = drops
      /\ UNCHANGED <<state, on_rq, on_cpu, cpu, contributes, loop, cond, sig, pi_lock, queued,
                     curr, wake_list, nr_uninterruptible, nr_iowait>>
  BY <1>1, Types DEF finish_lock_switch, At, Changed, taskVars, waitVars, rqVars, Inv, Dead
<1>3. TypeOK'
  <2>1. ctx[c].st = "DEAD" => ctx[c].p \in Tasks
    BY <1>1, <1>2 DEF Inv, Dead
  <2>2. drops' \in [Tasks -> Nat]
    BY <2>1, Types DEF finish_lock_switch
  <2> QED BY <1>1, <1>2, <2>2, Types DEF Inv, TypeOK, Started, finish_lock_switch
<1>4. LocksHeld'
  BY <1>1, <1>2, Listed DEF Changed, Inv, LocksHeld, At, PiStages, RqStages, Targets, Started
<1>5. Targets'
  BY <1>1, <1>2 DEF Inv, Targets, PiStages, Started
<1>6. Stacks'
  BY <1>1, <1>2 DEF Inv, Stacks, OnStack, At, Started
<1>7. Queues'
  BY <1>1, <1>2 DEF Inv, Queues, QueuedOnce, At, Started
<1>8. Wakers'
  BY <1>1, <1>2, Listed
     DEF Changed, Inv, Wakers, At, WakingStages, LocksHeld, Targets, Stacks, PiStages, RqStages,
         Started
<1>9. Sleepers'
  BY <1>1, <1>2 DEF Inv, Sleepers, At, Started
<1>10. Dead'
  BY <1>1, <1>2 DEF Changed, Inv, Dead, Drops, At, Started
<1>11. Followed'
  BY <1>1, <1>2 DEF Inv, Followed, Woken, WakingStages, Started
<1>12. Undisturbed
  BY <1>1, <1>2 DEF Undisturbed
<1> QED BY <1>3, <1>4, <1>5, <1>6, <1>7, <1>8, <1>9, <1>10, <1>11, <1>12 DEF Keeps, Inv

-----------------------------------------------------------------------------
(* try_to_wake_up().                                                       *)

\* The waker that made the condition true is the one Followed asks for.
LEMMA WakeEventKeeps ==
  ASSUME Inv, UNCHANGED scenario, NEW c \in CPUs, NEW t \in scenario.waiters, wake_event(c, t)
  PROVE  Keeps
<1>1. Started(c, "ttwu", t) /\ ctx'[c].mask = TASK_NORMAL
  <2> DEFINE new == [Running EXCEPT !.at = "ttwu", !.p = t, !.mask = TASK_NORMAL]
  <2>1. ctx \in [CPUs -> Ctx] /\ ctx' = [ctx EXCEPT ![c] = new] /\ t \in Tasks
    BY Types DEF wake_event
  <2>2. new \in Ctx /\ new.at = "ttwu" /\ new.p = t /\ new.mask = TASK_NORMAL
    BY <2>1 DEF Ctx, Running, Stages, State, Masks
  <2> QED BY <2>1, <2>2 DEF Started
<1>2. /\ ctx[c].at = "run" /\ t \in Tasks
      /\ Changed(cond', cond, Tasks, t, TRUE)
      /\ UNCHANGED <<state, on_rq, on_cpu, cpu, contributes, loop, sig, drops, pi_lock, rq_lock,
                     queued, curr, wake_list, nr_uninterruptible, nr_iowait>>
  BY <1>1, Types DEF wake_event, At, Changed, taskVars, waitVars, rqVars
<1>3. TypeOK'
  BY <1>1, <1>2, Types DEF Inv, TypeOK, Started, wake_event, State, OnRq
<1>4. LocksHeld'
  BY <1>1, <1>2 DEF Inv, LocksHeld, At, PiStages, RqStages, Started
<1>5. Stacks'
  BY <1>1, <1>2 DEF Inv, Stacks, OnStack, At, Started
<1>6. Queues'
  BY <1>1, <1>2 DEF Inv, Queues, QueuedOnce, At, Started
<1>7. Wakers'
  BY <1>1, <1>2 DEF Inv, Wakers, At, WakingStages, Started
<1>8. Sleepers'
  BY <1>1, <1>2 DEF Inv, Sleepers, At, Started
<1>9. Dead'
  BY <1>1, <1>2 DEF Inv, Dead, Drops, At, Started
<1>10. Followed'
  BY <1>1, <1>2 DEF Changed, Inv, Followed, Woken, WakingStages, Started
<1>11. Targets' /\ Undisturbed
  BY <1>1, <1>2 DEF Undisturbed, Inv, Targets, Started
<1> QED BY <1>3, <1>4, <1>5, <1>6, <1>7, <1>8, <1>9, <1>10, <1>11 DEF Keeps, Inv

\* A signal makes no condition true.
LEMMA WakeSignalKeeps ==
  ASSUME Inv, UNCHANGED scenario, NEW c \in CPUs, NEW t \in scenario.waiters, wake_signal(c, t)
  PROVE  Keeps
<1>1. Started(c, "ttwu", t) /\ ctx'[c].mask = {"INTERRUPTIBLE"}
  <2> DEFINE new == [Running EXCEPT !.at = "ttwu", !.p = t, !.mask = {"INTERRUPTIBLE"}]
  <2>1. ctx \in [CPUs -> Ctx] /\ ctx' = [ctx EXCEPT ![c] = new] /\ t \in Tasks
    BY Types DEF wake_signal
  <2>2. new \in Ctx /\ new.at = "ttwu" /\ new.p = t /\ new.mask = {"INTERRUPTIBLE"}
    BY <2>1 DEF Ctx, Running, Stages, State, Masks
  <2> QED BY <2>1, <2>2 DEF Started
<1>2. /\ ctx[c].at = "run" /\ t \in Tasks
      /\ Changed(sig', sig, Tasks, t, TRUE)
      /\ UNCHANGED <<state, on_rq, on_cpu, cpu, contributes, loop, cond, drops, pi_lock, rq_lock,
                     queued, curr, wake_list, nr_uninterruptible, nr_iowait>>
  BY <1>1, Types DEF wake_signal, At, Changed, taskVars, waitVars, rqVars
<1>3. TypeOK'
  BY <1>1, <1>2, Types DEF Inv, TypeOK, Started, wake_signal, State, OnRq
<1>4. LocksHeld'
  BY <1>1, <1>2 DEF Inv, LocksHeld, At, PiStages, RqStages, Started
<1>5. Stacks'
  BY <1>1, <1>2 DEF Inv, Stacks, OnStack, At, Started
<1>6. Queues'
  BY <1>1, <1>2 DEF Inv, Queues, QueuedOnce, At, Started
<1>7. Wakers'
  BY <1>1, <1>2 DEF Inv, Wakers, At, WakingStages, Started
<1>8. Sleepers'
  BY <1>1, <1>2 DEF Inv, Sleepers, At, Started
<1>9. Dead'
  BY <1>1, <1>2 DEF Inv, Dead, Drops, At, Started
<1>10. Followed'
  BY <1>1, <1>2 DEF Inv, Followed, Woken, WakingStages, Started
<1>11. Targets' /\ Undisturbed
  BY <1>1, <1>2 DEF Undisturbed, Inv, Targets, Started
<1> QED BY <1>3, <1>4, <1>5, <1>6, <1>7, <1>8, <1>9, <1>10, <1>11 DEF Keeps, Inv

\* The task is running, hence not in TASK_WAKING.
LEMMA TtwuCurrentKeeps ==
  ASSUME Inv, UNCHANGED scenario, NEW c \in CPUs, ttwu_current(c)
  PROVE  Keeps
<1>1. ctx[c].p \in Tasks
  BY DEF ttwu_current, At, Inv, Targets
<1>2. ctx[c].mask \subseteq TASK_NORMAL
  <2>1. ctx[c] \in Ctx
    BY Types
  <2>2. ctx[c].mask \in Masks
    BY <2>1 DEF Ctx
  <2> QED BY <2>2 DEF Masks, TASK_NORMAL
<1>3. Started(c, "run", NoTask)
  BY ReturnStarts DEF ttwu_current
<1>4. /\ ctx[c].at = "ttwu" /\ ctx[c].p = curr[c] /\ curr[c] \in Tasks
      /\ IF state[curr[c]] \in ctx[c].mask
         THEN Changed(state', state, Tasks, curr[c], "RUNNING") ELSE state' = state
      /\ UNCHANGED <<on_rq, on_cpu, cpu, contributes, loop, cond, sig, drops, pi_lock, rq_lock,
                     queued, curr, wake_list, nr_uninterruptible, nr_iowait>>
  BY <1>1, <1>2, <1>3, Types
     DEF ttwu_current, At, Changed, taskVars, waitVars, rqVars, Inv, Targets
<1>5. TypeOK'
  BY <1>1, <1>2, <1>3, <1>4, Types DEF Inv, TypeOK, Started, ttwu_current, State, OnRq
<1>6. LocksHeld'
  BY <1>1, <1>2, <1>3, <1>4 DEF Inv, LocksHeld, At, PiStages, RqStages, Started
<1>7. Targets'
  BY <1>1, <1>2, <1>3, <1>4 DEF Inv, Targets, PiStages, Started
<1>8. Stacks'
  BY <1>1, <1>2, <1>3, <1>4 DEF Inv, Stacks, OnStack, At, Started
<1>9. Queues'
  BY <1>1, <1>2, <1>3, <1>4 DEF Inv, Queues, QueuedOnce, At, Started
<1>10. Wakers'
  BY <1>1, <1>2, <1>3, <1>4, Listed
     DEF Changed, Inv, Wakers, At, WakingStages, LocksHeld, Targets, Stacks, PiStages, RqStages,
         Started
<1>11. Sleepers'
  BY <1>1, <1>2, <1>3, <1>4 DEF Changed, Inv, Sleepers, At, Stacks, Targets, OnStack, Started
<1>12. Dead'
  BY <1>1, <1>2, <1>3, <1>4 DEF Changed, Inv, Dead, Drops, At, Stacks, OnStack, Targets, Started
<1>13. Followed'
  <2> SUFFICES ASSUME NEW t \in Tasks, cond[t], loop[t] = "asleep", state'[t] # "RUNNING"
               PROVE  Woken(t)'
    BY <1>1, <1>2, <1>3, <1>4 DEF Followed
  <2>1. state'[t] = state[t] /\ Woken(t) /\ state[t] # "RUNNING"
    BY <1>1, <1>2, <1>3, <1>4 DEF Changed, Inv, Followed
  <2>2. ctx[c].p = t => ctx[c].mask # TASK_NORMAL
    <3> SUFFICES ASSUME ctx[c].p = t, ctx[c].mask = TASK_NORMAL PROVE FALSE
      OBVIOUS
    <3>1. state[t] \in {"WAKING", "DEAD"}
      BY <1>1, <1>2, <1>3, <1>4, <2>1, Listed DEF Changed, State, TASK_NORMAL
    <3>2. on_rq[t] = "queued"
      BY <1>1, <1>2, <1>3, <1>4 DEF Inv, Stacks, At
    <3> QED BY <3>1, <3>2 DEF Inv, Wakers, Dead
  <2> QED BY <1>1, <1>2, <1>3, <1>4, <2>1, <2>2 DEF Woken, Started, WakingStages
<1>14. Undisturbed
  BY <1>1, <1>2, <1>3, <1>4 DEF Undisturbed
<1> QED BY <1>5, <1>6, <1>7, <1>8, <1>9, <1>10, <1>11, <1>12, <1>13, <1>14 DEF Keeps, Inv

\* p->pi_lock shuts out every other waker of the task.
LEMMA TtwuLockKeeps ==
  ASSUME Inv, UNCHANGED scenario, NEW c \in CPUs, ttwu_lock(c)
  PROVE  Keeps
<1>1. Moved(c, "match")
  BY GotoMoves DEF ttwu_lock, Stages
<1>2. /\ ctx[c].at = "ttwu" /\ ctx[c].p \in Tasks /\ ctx[c].p # curr[c]
      /\ pi_lock[ctx[c].p] = Free
      /\ Changed(pi_lock', pi_lock, Tasks, ctx[c].p, c)
      /\ UNCHANGED <<state, on_rq, on_cpu, cpu, contributes, loop, cond, sig, drops, rq_lock,
                     queued, curr, wake_list, nr_uninterruptible, nr_iowait>>
  BY <1>1, Types DEF ttwu_lock, At, Changed, taskVars, waitVars, rqVars, Inv, Targets
<1>3. TypeOK'
  BY <1>1, <1>2, Types DEF Inv, TypeOK, Moved, ttwu_lock, State, OnRq
<1>4. LocksHeld'
  BY <1>1, <1>2, Listed DEF Changed, Inv, LocksHeld, At, PiStages, RqStages, Targets, Moved
<1>5. Stacks'
  BY <1>1, <1>2 DEF Inv, Stacks, OnStack, At, Moved
<1>6. Queues'
  BY <1>1, <1>2 DEF Inv, Queues, QueuedOnce, At, Moved
<1>7. Wakers'
  BY <1>1, <1>2 DEF Inv, Wakers, At, WakingStages, Moved
<1>8. Sleepers'
  BY <1>1, <1>2 DEF Inv, Sleepers, At, Moved
<1>9. Dead'
  BY <1>1, <1>2 DEF Inv, Dead, Drops, At, Moved
<1>10. Followed'
  BY <1>1, <1>2 DEF Inv, Followed, Woken, WakingStages, Moved
<1>11. Targets' /\ Undisturbed
  BY <1>1, <1>2 DEF Undisturbed, Inv, Targets, Moved
<1> QED BY <1>3, <1>4, <1>5, <1>6, <1>7, <1>8, <1>9, <1>10, <1>11 DEF Keeps, Inv

\* A task that waits does match TASK_NORMAL, unless another waker is at work on it.
LEMMA TtwuStateMatchKeeps ==
  ASSUME Inv, UNCHANGED scenario, NEW c \in CPUs, ttwu_state_match(c)
  PROVE  Keeps
<1>1. ctx[c].p \in Tasks
  BY DEF ttwu_state_match, Inv, Targets, At, PiStages
<1>2. ctx[c].mask \subseteq TASK_NORMAL
  <2>1. ctx[c] \in Ctx
    BY Types
  <2>2. ctx[c].mask \in Masks
    BY <2>1 DEF Ctx
  <2> QED BY <2>2 DEF Masks, TASK_NORMAL
<1>3. \/ state[ctx[c].p] \in ctx[c].mask /\ Moved(c, "on_rq") /\ pi_lock' = pi_lock
      \/ /\ state[ctx[c].p] \notin ctx[c].mask /\ Started(c, "run", NoTask)
         /\ Changed(pi_lock', pi_lock, Tasks, ctx[c].p, Free)
  <2>1. CASE state[ctx[c].p] \in ctx[c].mask
    BY <1>1, <2>1, Types, ReturnStarts, GotoMoves
       DEF ttwu_state_match, Unlock, Changed, Stages, At
  <2>2. CASE ~(state[ctx[c].p] \in ctx[c].mask)
    BY <1>1, <2>2, Types, ReturnStarts, GotoMoves
       DEF ttwu_state_match, Unlock, Changed, Stages, At
  <2> QED BY <2>1, <2>2
<1>4. /\ ctx[c].at = "match"
      /\ UNCHANGED <<state, on_rq, on_cpu, cpu, contributes, loop, cond, sig, drops, rq_lock,
                     queued, curr, wake_list, nr_uninterruptible, nr_iowait>>
  BY <1>1, <1>2, <1>3, Types DEF ttwu_state_match, At, Changed, taskVars, waitVars, rqVars
<1>5. TypeOK'
  <2>1. pi_lock' \in [Tasks -> CPUs \cup {Free}]
    BY <1>1, <1>2, Types DEF ttwu_state_match, Unlock
  <2>2. ctx' \in [CPUs -> Ctx]
    BY <1>1, <1>2, <1>3, <1>4 DEF Moved, Started
  <2> QED BY <1>1, <1>2, <1>3, <1>4, <2>1, <2>2 DEF Inv, TypeOK
<1>6. LocksHeld'
  BY <1>1, <1>2, <1>3, <1>4, Listed
     DEF Changed, Inv, LocksHeld, At, PiStages, RqStages, Targets, Moved, Started
<1>7. Targets'
  BY <1>1, <1>2, <1>3, <1>4 DEF Inv, Targets, PiStages, Moved, Started
<1>8. Stacks'
  BY <1>1, <1>2, <1>3, <1>4 DEF Inv, Stacks, OnStack, At, Moved, Started
<1>9. Queues'
  BY <1>1, <1>2, <1>3, <1>4 DEF Inv, Queues, QueuedOnce, At, Moved, Started
<1>10. Wakers'
  BY <1>1, <1>2, <1>3, <1>4, Listed
     DEF Inv, Wakers, At, WakingStages, LocksHeld, Targets, Stacks, PiStages, RqStages,
         TASK_NORMAL, Moved, Started
<1>11. Sleepers'
  BY <1>1, <1>2, <1>3, <1>4 DEF Inv, Sleepers, At, Moved, Started
<1>12. Dead'
  BY <1>1, <1>2, <1>3, <1>4 DEF Inv, Dead, Drops, At, Moved, Started
<1>13. Followed'
  <2> SUFFICES ASSUME NEW t \in Tasks, cond[t], loop[t] = "asleep", state[t] # "RUNNING"
               PROVE  Woken(t)'
    BY <1>1, <1>2, <1>3, <1>4 DEF Followed
  <2>1. Woken(t)
    BY DEF Inv, Followed
  <2>2. CASE ctx[c].p # t \/ Moved(c, "on_rq")
    BY <1>1, <1>2, <1>3, <1>4, <2>1, <2>2 DEF Woken, Moved, Started, WakingStages
  <2>3. CASE ctx[c].p = t /\ ~Moved(c, "on_rq") /\ ctx[c].mask = TASK_NORMAL
    <3>1. state[t] = "WAKING"
      BY <1>1, <1>2, <1>3, <1>4, <2>3, Listed DEF TASK_NORMAL, State, Inv, Dead
    <3>2. \/ \E d \in CPUs : ctx[d].p = t /\ ctx[d].at \in WakingStages
          \/ \E d \in CPUs : \E w \in wake_list[d] : w.p = t
      BY <3>1 DEF Inv, Wakers
    <3>3. \A d \in CPUs : ctx[d].at \in WakingStages => ctx'[d] = ctx[d]
      BY <1>1, <1>2, <1>3, <1>4, <2>3 DEF Started, WakingStages
    <3> QED BY <1>1, <1>2, <1>3, <1>4, <3>2, <3>3 DEF Woken
  <2>4. CASE ctx[c].p = t /\ ~Moved(c, "on_rq") /\ ctx[c].mask # TASK_NORMAL
    BY <1>1, <1>2, <1>3, <1>4, <2>1, <2>4 DEF Woken, Started, WakingStages
  <2> QED BY <2>2, <2>3, <2>4
<1>14. Undisturbed
  BY <1>1, <1>2, <1>3, <1>4 DEF Undisturbed
<1> QED BY <1>5, <1>6, <1>7, <1>8, <1>9, <1>10, <1>11, <1>12, <1>13, <1>14 DEF Keeps, Inv

\* Only the holder of p->pi_lock queues a task that is off its queue.
LEMMA TtwuOnRqKeeps ==
  ASSUME Inv, UNCHANGED scenario, NEW c \in CPUs, ttwu_on_rq(c)
  PROVE  Keeps
<1>1. ctx[c].p \in Tasks
  BY DEF ttwu_on_rq, Inv, Targets, At, PiStages
<1>2. \/ on_rq[ctx[c].p] = "no" /\ Moved(c, "waking")
      \/ on_rq[ctx[c].p] # "no" /\ Moved(c, "runnable")
  <2>1. CASE on_rq[ctx[c].p] = "no"
    BY <1>1, <2>1, Types, ReturnStarts, GotoMoves DEF ttwu_on_rq, Unlock, Changed, Stages, At
  <2>2. CASE ~(on_rq[ctx[c].p] = "no")
    BY <1>1, <2>2, Types, ReturnStarts, GotoMoves DEF ttwu_on_rq, Unlock, Changed, Stages, At
  <2> QED BY <2>1, <2>2
<1>3. /\ ctx[c].at = "on_rq"
      /\ UNCHANGED <<state, on_rq, on_cpu, cpu, contributes, loop, cond, sig, drops, pi_lock,
                     rq_lock, queued, curr, wake_list, nr_uninterruptible, nr_iowait>>
  BY <1>1, <1>2, Types DEF ttwu_on_rq, At, Changed, taskVars, waitVars, rqVars
<1>4. TypeOK'
  BY <1>1, <1>2, <1>3, Types DEF Inv, TypeOK, Moved, ttwu_on_rq, State, OnRq
<1>5. LocksHeld'
  BY <1>1, <1>2, <1>3 DEF Inv, LocksHeld, At, PiStages, RqStages, Moved
<1>6. Stacks'
  BY <1>1, <1>2, <1>3 DEF Inv, Stacks, OnStack, At, Moved
<1>7. Queues'
  BY <1>1, <1>2, <1>3 DEF Inv, Queues, QueuedOnce, At, Moved
<1>8. Wakers'
  BY <1>1, <1>2, <1>3 DEF Inv, Wakers, At, WakingStages, Moved
<1>9. Sleepers'
  BY <1>1, <1>2, <1>3 DEF Inv, Sleepers, At, Moved
<1>10. Dead'
  BY <1>1, <1>2, <1>3 DEF Inv, Dead, Drops, At, Moved
<1>11. Targets' /\ Followed' /\ Undisturbed
  BY <1>1, <1>2, <1>3 DEF Undisturbed, Inv, Targets, Followed, Woken, Moved
<1> QED BY <1>4, <1>5, <1>6, <1>7, <1>8, <1>9, <1>10, <1>11 DEF Keeps, Inv

\* Under the queue's lock the task cannot be between its two reads in __schedule().
LEMMA TtwuRunnableKeeps ==
  ASSUME Inv, UNCHANGED scenario, NEW c \in CPUs, ttwu_runnable(c)
  PROVE  Keeps
<1>1. ctx[c].p \in Tasks
  BY DEF ttwu_runnable, Inv, Targets, At, PiStages
<1>2. \/ /\ on_rq[ctx[c].p] = "queued" /\ Started(c, "run", NoTask)
         /\ Changed(pi_lock', pi_lock, Tasks, ctx[c].p, Free)
         /\ Changed(state', state, Tasks, ctx[c].p, "RUNNING")
      \/ on_rq[ctx[c].p] = "no" /\ Moved(c, "waking") /\ UNCHANGED <<pi_lock, state>>
  <2>1. CASE on_rq[ctx[c].p] = "queued"
    BY <1>1, <2>1, Types, ReturnStarts, GotoMoves
       DEF ttwu_runnable, Unlock, Changed, Stages, At, ttwu_do_wakeup, task_rq_lockable, OnRq
  <2>2. CASE ~(on_rq[ctx[c].p] = "queued")
    BY <1>1, <2>2, Types, ReturnStarts, GotoMoves
       DEF ttwu_runnable, Unlock, Changed, Stages, At, ttwu_do_wakeup, task_rq_lockable, OnRq
  <2> QED BY <2>1, <2>2
<1>3. /\ ctx[c].at = "runnable" /\ rq_lock[cpu[ctx[c].p]] = Free /\ on_rq[ctx[c].p] # "migrating"
      /\ UNCHANGED <<on_rq, on_cpu, cpu, contributes, loop, cond, sig, drops, rq_lock, queued,
                     curr, wake_list, nr_uninterruptible, nr_iowait>>
  BY <1>1, <1>2, Types
     DEF ttwu_runnable, At, Changed, taskVars, waitVars, rqVars, task_rq_lockable
<1>4. TypeOK'
  <2>1. state' \in [Tasks -> State] /\ pi_lock' \in [Tasks -> CPUs \cup {Free}]
    BY <1>1, <1>2, Types DEF ttwu_runnable, ttwu_do_wakeup, Unlock, State
  <2>2. ctx' \in [CPUs -> Ctx]
    BY <1>1, <1>2, <1>3 DEF Moved, Started
  <2> QED BY <1>1, <1>2, <1>3, <2>1, <2>2 DEF Inv, TypeOK
<1>5. LocksHeld'
  BY <1>1, <1>2, <1>3, Listed
     DEF Changed, Inv, LocksHeld, At, PiStages, RqStages, Targets, Moved, Started
<1>6. Targets'
  BY <1>1, <1>2, <1>3 DEF Inv, Targets, PiStages, Moved, Started
<1>7. Stacks'
  BY <1>1, <1>2, <1>3 DEF Inv, Stacks, OnStack, At, Moved, Started
<1>8. Queues'
  BY <1>1, <1>2, <1>3 DEF Inv, Queues, QueuedOnce, At, Moved, Started
<1>9. Wakers'
  BY <1>1, <1>2, <1>3, Listed
     DEF Changed, Inv, Wakers, At, WakingStages, LocksHeld, Targets, Stacks, PiStages, RqStages,
         Moved, Started
<1>10. Sleepers'
  BY <1>1, <1>2, <1>3, Listed
     DEF Changed, Inv, Sleepers, At, Stacks, Targets, OnStack, LocksHeld, RqStages, Moved, Started
<1>11. Dead'
  BY <1>1, <1>2, <1>3
     DEF Changed, Inv, Dead, Drops, At, Stacks, OnStack, Targets, Wakers, Moved, Started
<1>12. Followed'
  BY <1>1, <1>2, <1>3 DEF Changed, Inv, Followed, Woken, WakingStages, Moved, Started
<1>13. Undisturbed
  BY <1>1, <1>2, <1>3 DEF Undisturbed
<1> QED BY <1>4, <1>5, <1>6, <1>7, <1>8, <1>9, <1>10, <1>11, <1>12, <1>13 DEF Keeps, Inv

\* The task is off its queue and on no wake list, and from now on its state says so.
LEMMA TtwuWakingKeeps ==
  ASSUME Inv, UNCHANGED scenario, NEW c \in CPUs, ttwu_waking(c)
  PROVE  Keeps
<1>1. ctx[c].p \in Tasks
  BY DEF ttwu_waking, Inv, Targets, At, PiStages
<1>2. Moved(c, "on_cpu")
  BY GotoMoves DEF ttwu_waking, Stages
<1>3. /\ ctx[c].at = "waking"
      /\ Changed(state', state, Tasks, ctx[c].p, "WAKING")
      /\ UNCHANGED <<on_rq, on_cpu, cpu, contributes, loop, cond, sig, drops, pi_lock, rq_lock,
                     queued, curr, wake_list, nr_uninterruptible, nr_iowait>>
  BY <1>1, <1>2, Types
     DEF ttwu_waking, At, Changed, taskVars, waitVars, rqVars, Inv, Targets, PiStages
<1>4. TypeOK'
  BY <1>1, <1>2, <1>3, Types DEF Inv, TypeOK, Moved, ttwu_waking, State, OnRq
<1>5. LocksHeld'
  BY <1>1, <1>2, <1>3 DEF Inv, LocksHeld, At, PiStages, RqStages, Moved
<1>6. Stacks'
  BY <1>1, <1>2, <1>3 DEF Inv, Stacks, OnStack, At, Moved
<1>7. Queues'
  BY <1>1, <1>2, <1>3 DEF Inv, Queues, QueuedOnce, At, Moved
<1>8. Wakers'
  BY <1>1, <1>2, <1>3, Listed
     DEF Changed, Inv, Wakers, At, WakingStages, LocksHeld, Targets, Stacks, PiStages, RqStages,
         Moved
<1>9. Sleepers'
  BY <1>1, <1>2, <1>3 DEF Changed, Inv, Sleepers, At, Stacks, Targets, OnStack, Moved
<1>10. Dead'
  BY <1>1, <1>2, <1>3 DEF Changed, Inv, Dead, Drops, At, Stacks, OnStack, Targets, Wakers, Moved
<1>11. Followed'
  BY <1>1, <1>2, <1>3 DEF Changed, Inv, Followed, Woken, WakingStages, Moved
<1>12. Targets' /\ Undisturbed
  BY <1>1, <1>2, <1>3 DEF Undisturbed, Inv, Targets, Moved
<1> QED BY <1>4, <1>5, <1>6, <1>7, <1>8, <1>9, <1>10, <1>11, <1>12 DEF Keeps, Inv

\* The wake list takes over from the waker, on the CPU that still runs the task.
LEMMA TtwuOnCpuKeeps ==
  ASSUME Inv, UNCHANGED scenario, NEW c \in CPUs, ttwu_on_cpu(c)
  PROVE  Keeps
<1>1. ctx[c].p \in Tasks
  BY DEF ttwu_on_cpu, Inv, Targets, At, PiStages
<1>2. PICK w : \/ Handed(c, w)
               \/ Moved(c, "wait") /\ UNCHANGED <<wake_list, pi_lock>>
  <2> DEFINE p == ctx[c].p
             away == on_cpu[p] /\ ttwu_queue_wakelist(c, cpu[p])
             entry == [p |-> p, sched_remote_wakeup |-> FALSE]
  <2>1. CASE away
    <3>1. /\ wake_list' = [wake_list EXCEPT ![cpu[p]] = @ \cup {entry}]
          /\ Unlock(c) /\ cpu[p] \in CPUs
      BY <1>1, <2>1, Types DEF ttwu_on_cpu, __ttwu_queue_wakelist
    <3>2. Started(c, "run", NoTask)
      BY <3>1, ReturnStarts DEF Unlock
    <3>3. /\ entry.p = p
          /\ \A d \in CPUs : \A v :
               v \in wake_list'[d] <=> v \in wake_list[d] \/ (v = entry /\ d = cpu[entry.p])
      BY <3>1, Types
    <3>4. Changed(pi_lock', pi_lock, Tasks, p, Free)
      BY <3>1, <1>1, Types DEF Unlock, Changed
    <3> QED BY <3>2, <3>3, <3>4 DEF Handed
  <2>2. CASE ~away
    BY <2>2, GotoMoves DEF ttwu_on_cpu, Stages
  <2> QED BY <2>1, <2>2
<1>3. /\ ctx[c].at = "on_cpu"
      /\ UNCHANGED <<state, on_rq, on_cpu, cpu, contributes, loop, cond, sig, drops, rq_lock,
                     queued, curr, nr_uninterruptible, nr_iowait>>
  BY <1>1, <1>2, Types DEF ttwu_on_cpu, At, Changed, taskVars, waitVars, rqVars
<1>4. TypeOK'
  <2> DEFINE entry == [p |-> ctx[c].p, sched_remote_wakeup |-> FALSE]
  <2>1. ctx[c].mig \in BOOLEAN
    BY Types DEF Ctx
  <2>2. entry \in [p : Tasks, sched_remote_wakeup : BOOLEAN]
    BY <1>1, <2>1
  <2>3. wake_list' \in {wake_list, [wake_list EXCEPT ![cpu[ctx[c].p]] = @ \cup {entry}]}
    BY DEF ttwu_on_cpu, __ttwu_queue_wakelist
  <2> HIDE DEF entry
  <2>4. wake_list' \in [CPUs -> SUBSET [p : Tasks, sched_remote_wakeup : BOOLEAN]]
    BY <1>1, <2>2, <2>3, Types
  <2>5. pi_lock' \in [Tasks -> CPUs \cup {Free}]
    BY <1>1, Types DEF ttwu_on_cpu, Unlock
  <2>6. ctx' \in [CPUs -> Ctx]
    BY <1>1, <1>2, <1>3 DEF Moved, Started, Handed
  <2> QED BY <1>1, <1>2, <1>3, <2>4, <2>5, <2>6 DEF Inv, TypeOK
<1>5. LocksHeld'
  BY <1>1, <1>2, <1>3, Listed
     DEF Changed, Inv, LocksHeld, At, PiStages, RqStages, Targets, Moved, Started, Handed
<1>6. Targets'
  BY <1>1, <1>2, <1>3 DEF Inv, Targets, PiStages, Moved, Started, Handed
<1>7. Stacks'
  BY <1>1, <1>2, <1>3 DEF Inv, Stacks, OnStack, At, Moved, Started, Handed
<1>8. Queues'
  BY <1>1, <1>2, <1>3 DEF Inv, Queues, QueuedOnce, At, Moved, Started, Handed
<1>9. Wakers'
  BY <1>1, <1>2, <1>3, Listed
     DEF Inv, Wakers, At, WakingStages, LocksHeld, Targets, Stacks, PiStages, RqStages, Moved,
         Started, Handed
<1>10. Sleepers'
  BY <1>1, <1>2, <1>3 DEF Inv, Sleepers, At, Moved, Started, Handed
<1>11. Dead'
  BY <1>1, <1>2, <1>3 DEF Inv, Dead, Drops, At, Moved, Started, Handed
<1>12. Followed'
  <2> SUFFICES ASSUME NEW t \in Tasks, cond[t], loop[t] = "asleep", state[t] # "RUNNING"
               PROVE  Woken(t)'
    BY <1>1, <1>2, <1>3 DEF Followed
  <2>1. Woken(t)
    BY DEF Inv, Followed
  <2>2. CASE \E d \in CPUs : \E v \in wake_list[d] : v.p = t
    BY <1>1, <1>2, <1>3, <2>2 DEF Woken, Handed
  <2>3. CASE \E d \in CPUs :
               /\ d # c /\ ctx[d].p = t
               /\ \/ ctx[d].at \in {"ttwu", "match"} /\ ctx[d].mask = TASK_NORMAL
                  \/ ctx[d].at \in {"on_rq", "runnable", "waking"} \cup WakingStages
    BY <1>1, <1>2, <1>3, <2>3 DEF Woken, Handed, Moved, Started
  <2>4. CASE ctx[c].p = t /\ Moved(c, "wait")
    BY <1>1, <1>2, <1>3, <2>4 DEF Woken, Moved, WakingStages
  <2>5. CASE ctx[c].p = t /\ ~Moved(c, "wait")
    BY <1>1, <1>2, <1>3, <2>5, Listed DEF Woken, Handed
  <2> QED BY <2>1, <2>2, <2>3, <2>4, <2>5 DEF Woken
<1>13. Undisturbed
  BY <1>1, <1>2, <1>3 DEF Undisturbed
<1> QED BY <1>4, <1>5, <1>6, <1>7, <1>8, <1>9, <1>10, <1>11, <1>12, <1>13 DEF Keeps, Inv

\* Off its queue, its stack and all wake lists, the task may change its CPU.
LEMMA TtwuWaitKeeps ==
  ASSUME Inv, UNCHANGED scenario, NEW c \in CPUs, ttwu_wait(c)
  PROVE  Keeps
<1>1. ctx[c].p \in Tasks
  BY DEF ttwu_wait, Inv, Targets, At, PiStages
<1>2. PICK d \in CPUs : /\ cpu' = [cpu EXCEPT ![ctx[c].p] = d]
                     /\ ctx' = [ctx EXCEPT ![c].at = "queue", ![c].mig = (d # cpu[ctx[c].p])]
  BY DEF ttwu_wait, select_task_rq
<1>3. Changed(cpu', cpu, Tasks, ctx[c].p, d)
  BY <1>1, <1>2, Types DEF Changed
<1>4. Started(c, "queue", ctx[c].p)
  <2> DEFINE mig == d # cpu[ctx[c].p]
  <2>1. ctx' = [ctx EXCEPT ![c].at = "queue", ![c].mig = mig] /\ mig \in BOOLEAN
    BY <1>2
  <2> HIDE DEF mig
  <2>2. ctx[c] \in Ctx
    BY Types
  <2>3. [ctx[c] EXCEPT !.at = "queue", !.mig = mig] \in Ctx
    BY <2>1, <2>2 DEF Ctx, Stages
  <2> QED BY <2>1, <2>3, Types DEF Started, Ctx
<1>5. /\ ctx[c].at = "wait" /\ ~on_cpu[ctx[c].p]
      /\ UNCHANGED <<state, on_rq, on_cpu, contributes, loop, cond, sig, drops, pi_lock, rq_lock,
                     queued, curr, wake_list, nr_uninterruptible>>
  BY <1>1, <1>2, <1>3, <1>4, Types DEF ttwu_wait, At, Changed, taskVars, waitVars, rqVars
<1>6. TypeOK'
  <2>1. nr_iowait' \in [CPUs -> Int]
    <3>1. PICK n \in Int, e \in CPUs : nr_iowait' = [nr_iowait EXCEPT ![e] = @ - n]
      <4> DEFINE left(x) == IF x # cpu[ctx[c].p] /\ in_iowait(ctx[c].p) THEN 1 ELSE 0
      <4>1. PICK x \in CPUs : nr_iowait' = [nr_iowait EXCEPT ![cpu[ctx[c].p]] = @ - left(x)]
        BY DEF ttwu_wait, select_task_rq
      <4>2. left(x) \in Int
        OBVIOUS
      <4>3. cpu[ctx[c].p] \in CPUs
        BY <1>1, Types
      <4> QED BY <4>1, <4>2, <4>3
    <3> QED BY <3>1 DEF Inv, TypeOK
  <2>2. cpu' \in [Tasks -> CPUs]
    BY <1>2, Types
  <2> QED BY <1>1, <1>2, <1>3, <1>4, <1>5, <2>1, <2>2 DEF Inv, TypeOK, Started
<1>7. LocksHeld'
  BY <1>1, <1>2, <1>3, <1>4, <1>5 DEF Inv, LocksHeld, At, PiStages, RqStages, Started
<1>8. Stacks'
  BY <1>1, <1>2, <1>3, <1>4, <1>5 DEF Changed, Inv, Stacks, OnStack, At, Started
<1>9. Queues'
  BY <1>1, <1>2, <1>3, <1>4, <1>5
     DEF Changed, Inv, Queues, QueuedOnce, At, Stacks, Targets, OnStack, Wakers, WakingStages,
         Started
<1>10. Wakers'
  BY <1>1, <1>2, <1>3, <1>4, <1>5 DEF Changed, Inv, Wakers, At, WakingStages, Started
<1>11. Sleepers'
  BY <1>1, <1>2, <1>3, <1>4, <1>5 DEF Inv, Sleepers, At, Started
<1>12. Dead'
  BY <1>1, <1>2, <1>3, <1>4, <1>5 DEF Inv, Dead, Drops, At, Started
<1>13. Followed'
  BY <1>1, <1>2, <1>3, <1>4, <1>5 DEF Inv, Followed, Woken, WakingStages, Started
<1>14. Undisturbed
  BY <1>1, <1>2, <1>3, <1>4, <1>5
     DEF Changed, Undisturbed, Inv, LocksHeld, Wakers, At, PiStages, RqStages, Started
<1>15. Targets'
  BY <1>1, <1>2, <1>3, <1>4, <1>5 DEF Inv, Targets, Started
<1> QED BY <1>6, <1>7, <1>8, <1>9, <1>10, <1>11, <1>12, <1>13, <1>14, <1>15 DEF Keeps, Inv

\* The wake list takes over from the waker, on the CPU that was chosen.
LEMMA TtwuQueueKeeps ==
  ASSUME Inv, UNCHANGED scenario, NEW c \in CPUs, ttwu_queue(c)
  PROVE  Keeps
<1>1. ctx[c].p \in Tasks
  BY DEF ttwu_queue, Inv, Targets, At, PiStages
<1>2. PICK w : \/ Handed(c, w)
               \/ Moved(c, "activate") /\ UNCHANGED <<wake_list, pi_lock>>
  <2> DEFINE p == ctx[c].p
             away == ttwu_queue_wakelist(c, cpu[p])
             entry == [p |-> p, sched_remote_wakeup |-> ctx[c].mig]
  <2>1. CASE away
    <3>1. /\ wake_list' = [wake_list EXCEPT ![cpu[p]] = @ \cup {entry}]
          /\ Unlock(c) /\ cpu[p] \in CPUs
      BY <1>1, <2>1, Types DEF ttwu_queue, __ttwu_queue_wakelist
    <3>2. Started(c, "run", NoTask)
      BY <3>1, ReturnStarts DEF Unlock
    <3>3. /\ entry.p = p
          /\ \A d \in CPUs : \A v :
               v \in wake_list'[d] <=> v \in wake_list[d] \/ (v = entry /\ d = cpu[entry.p])
      BY <3>1, Types
    <3>4. Changed(pi_lock', pi_lock, Tasks, p, Free)
      BY <3>1, <1>1, Types DEF Unlock, Changed
    <3> QED BY <3>2, <3>3, <3>4 DEF Handed
  <2>2. CASE ~away
    BY <2>2, GotoMoves DEF ttwu_queue, Stages
  <2> QED BY <2>1, <2>2
<1>3. /\ ctx[c].at = "queue"
      /\ UNCHANGED <<state, on_rq, on_cpu, cpu, contributes, loop, cond, sig, drops, rq_lock,
                     queued, curr, nr_uninterruptible, nr_iowait>>
  BY <1>1, <1>2, Types DEF ttwu_queue, At, Changed, taskVars, waitVars, rqVars
<1>4. TypeOK'
  <2> DEFINE entry == [p |-> ctx[c].p, sched_remote_wakeup |-> ctx[c].mig]
  <2>1. ctx[c].mig \in BOOLEAN
    BY Types DEF Ctx
  <2>2. entry \in [p : Tasks, sched_remote_wakeup : BOOLEAN]
    BY <1>1, <2>1
  <2>3. wake_list' \in {wake_list, [wake_list EXCEPT ![cpu[ctx[c].p]] = @ \cup {entry}]}
    BY DEF ttwu_queue, __ttwu_queue_wakelist
  <2> HIDE DEF entry
  <2>4. wake_list' \in [CPUs -> SUBSET [p : Tasks, sched_remote_wakeup : BOOLEAN]]
    BY <1>1, <2>2, <2>3, Types
  <2>5. pi_lock' \in [Tasks -> CPUs \cup {Free}]
    BY <1>1, Types DEF ttwu_queue, Unlock
  <2>6. ctx' \in [CPUs -> Ctx]
    BY <1>1, <1>2, <1>3 DEF Moved, Started, Handed
  <2> QED BY <1>1, <1>2, <1>3, <2>4, <2>5, <2>6 DEF Inv, TypeOK
<1>5. LocksHeld'
  BY <1>1, <1>2, <1>3, Listed
     DEF Changed, Inv, LocksHeld, At, PiStages, RqStages, Targets, Moved, Started, Handed
<1>6. Targets'
  BY <1>1, <1>2, <1>3 DEF Inv, Targets, PiStages, Moved, Started, Handed
<1>7. Stacks'
  BY <1>1, <1>2, <1>3 DEF Inv, Stacks, OnStack, At, Moved, Started, Handed
<1>8. Queues'
  BY <1>1, <1>2, <1>3 DEF Inv, Queues, QueuedOnce, At, Moved, Started, Handed
<1>9. Wakers'
  <2>1. CASE Handed(c, w)
    BY <1>1, <1>3, <2>1, Listed
       DEF Inv, Wakers, At, WakingStages, LocksHeld, Targets, Stacks, PiStages, RqStages,
           Started, Handed
  <2>2. CASE Moved(c, "activate") /\ UNCHANGED <<wake_list, pi_lock>>
    BY <1>1, <1>3, <2>2 DEF Inv, Wakers, At, WakingStages, Moved
  <2> QED BY <1>2, <2>1, <2>2
<1>10. Sleepers'
  BY <1>1, <1>2, <1>3 DEF Inv, Sleepers, At, Moved, Started, Handed
<1>11. Dead'
  BY <1>1, <1>2, <1>3 DEF Inv, Dead, Drops, At, Moved, Started, Handed
<1>12. Followed'
  <2> SUFFICES ASSUME NEW t \in Tasks, cond[t], loop[t] = "asleep", state[t] # "RUNNING"
               PROVE  Woken(t)'
    BY <1>1, <1>2, <1>3 DEF Followed
  <2>1. Woken(t)
    BY DEF Inv, Followed
  <2>2. CASE \E d \in CPUs : \E v \in wake_list[d] : v.p = t
    BY <1>1, <1>2, <1>3, <2>2 DEF Woken, Handed
  <2>3. CASE \E d \in CPUs :
               /\ d # c /\ ctx[d].p = t
               /\ \/ ctx[d].at \in {"ttwu", "match"} /\ ctx[d].mask = TASK_NORMAL
                  \/ ctx[d].at \in {"on_rq", "runnable", "waking"} \cup WakingStages
    BY <1>1, <1>2, <1>3, <2>3 DEF Woken, Handed, Moved, Started
  <2>4. CASE ctx[c].p = t /\ Moved(c, "activate")
    BY <1>1, <1>2, <1>3, <2>4 DEF Woken, Moved, WakingStages
  <2>5. CASE ctx[c].p = t /\ ~Moved(c, "activate")
    BY <1>1, <1>2, <1>3, <2>5, Listed DEF Woken, Handed
  <2> QED BY <2>1, <2>2, <2>3, <2>4, <2>5 DEF Woken
<1>13. Undisturbed
  BY <1>1, <1>2, <1>3 DEF Undisturbed
<1> QED BY <1>4, <1>5, <1>6, <1>7, <1>8, <1>9, <1>10, <1>11, <1>12, <1>13 DEF Keeps, Inv

\* The task was nowhere, and is on the queue of its CPU now.
LEMMA TtwuActivateKeeps ==
  ASSUME Inv, UNCHANGED scenario, NEW c \in CPUs, ttwu_activate(c)
  PROVE  Keeps
<1>1. ctx[c].p \in Tasks
  BY DEF ttwu_activate, Inv, Targets, At, PiStages
<1>2. \A t \in Tasks, d \in CPUs :
        t \in queued'[d] <=> t \in queued[d] \/ (t = ctx[c].p /\ d = cpu[t])
  BY <1>1, Types DEF ttwu_activate, ttwu_do_activate
<1>3. Started(c, "run", NoTask)
  BY ReturnStarts DEF ttwu_activate, ttwu_do_activate, ttwu_do_wakeup, Unlock
<1>4. /\ ctx[c].at = "activate" /\ rq_lock[cpu[ctx[c].p]] = Free
      /\ Changed(pi_lock', pi_lock, Tasks, ctx[c].p, Free)
      /\ Changed(state', state, Tasks, ctx[c].p, "RUNNING")
      /\ Changed(on_rq', on_rq, Tasks, ctx[c].p, "queued")
      /\ UNCHANGED <<on_cpu, cpu, contributes, loop, cond, sig, drops, rq_lock, curr, wake_list>>
  BY <1>1, <1>2, <1>3, Types
     DEF ttwu_activate, ttwu_do_activate, ttwu_do_wakeup, Unlock, At, Changed, taskVars, waitVars,
         rqVars
<1>5. TypeOK'
  <2>1. cpu[ctx[c].p] \in CPUs
    BY <1>1, Types
  <2>2. nr_uninterruptible' \in [CPUs -> 0..UINT-1] /\ nr_iowait' \in [CPUs -> Int]
    <3>1. \A S \in SUBSET Tasks : Cardinality(S) \in Nat
      BY TaskAssumption, FS_Subset, FS_CardinalityType
    <3>2. ctx[c].mig \in BOOLEAN
      BY Types DEF Ctx
    <3> DEFINE p == ctx[c].p
               n == Cardinality({q \in {p} : contributes[q]})
               m == Cardinality({q \in {p} \ (IF ctx[c].mig THEN {p} ELSE {}) : in_iowait(q)})
    <3>3. n \in Nat /\ m \in Nat
      BY <1>1, <3>1
    <3>4. /\ nr_uninterruptible' = [nr_uninterruptible EXCEPT ![cpu[p]] = (@ - n) % UINT]
          /\ nr_iowait' = [nr_iowait EXCEPT ![cpu[p]] = @ - m]
      BY DEF ttwu_activate, ttwu_do_activate
    <3> HIDE DEF n, m
    <3> QED BY <2>1, <3>3, <3>4, Wraps DEF Inv, TypeOK
  <2>3. /\ state' \in [Tasks -> State] /\ on_rq' \in [Tasks -> OnRq]
        /\ queued' \in [CPUs -> SUBSET Tasks]
        /\ pi_lock' \in [Tasks -> CPUs \cup {Free}]
    BY <1>1, <2>1, Types DEF ttwu_activate, ttwu_do_activate, ttwu_do_wakeup, Unlock, State, OnRq
  <2> QED BY <1>1, <1>2, <1>3, <1>4, <2>2, <2>3 DEF Inv, TypeOK, Started
<1>6. LocksHeld'
  BY <1>1, <1>2, <1>3, <1>4, Listed
     DEF Changed, Inv, LocksHeld, At, PiStages, RqStages, Targets, Started
<1>7. Targets'
  BY <1>1, <1>2, <1>3, <1>4 DEF Inv, Targets, PiStages, Started
<1>8. Stacks'
  BY <1>1, <1>2, <1>3, <1>4 DEF Changed, Inv, Stacks, OnStack, At, Started
<1>9. Queues'
  BY <1>1, <1>2, <1>3, <1>4
     DEF Changed, Inv, Queues, QueuedOnce, At, Stacks, Targets, OnStack, Wakers, WakingStages,
         Started
<1>10. Wakers'
  BY <1>1, <1>2, <1>3, <1>4, Listed
     DEF Changed, Inv, Wakers, At, WakingStages, LocksHeld, Targets, Stacks, PiStages, RqStages,
         Started
<1>11. Sleepers'
  BY <1>1, <1>2, <1>3, <1>4
     DEF Changed, Inv, Sleepers, At, Stacks, Targets, OnStack, Wakers, WakingStages, Started
<1>12. Dead'
  BY <1>1, <1>2, <1>3, <1>4
     DEF Changed, Inv, Dead, Drops, At, Stacks, OnStack, Targets, Wakers, WakingStages, Started
<1>13. Followed'
  BY <1>1, <1>2, <1>3, <1>4 DEF Changed, Inv, Followed, Woken, Started
<1>14. Undisturbed
  BY <1>1, <1>2, <1>3, <1>4
     DEF Changed, Undisturbed, Inv, LocksHeld, Wakers, At, PiStages, RqStages, Stacks, OnStack,
         Targets, Queues, QueuedOnce, Started
<1> QED BY <1>5, <1>6, <1>7, <1>8, <1>9, <1>10, <1>11, <1>12, <1>13, <1>14 DEF Keeps, Inv

\* Every entry is a task in TASK_WAKING with this CPU, so it is on no queue and no stack.
LEMMA SchedTtwuPendingKeeps ==
  ASSUME Inv, UNCHANGED scenario, NEW c \in CPUs, sched_ttwu_pending(c)
  PROVE  Keeps
<1>1. \A t \in Tasks :
        \/ /\ \E v \in wake_list[c] : v.p = t
           /\ state'[t] = "RUNNING" /\ on_rq'[t] = "queued"
           /\ \A d \in CPUs : t \in queued'[d] <=> t \in queued[d] \/ d = c
        \/ /\ \A v \in wake_list[c] : v.p # t
           /\ state'[t] = state[t] /\ on_rq'[t] = on_rq[t]
           /\ \A d \in CPUs : t \in queued'[d] <=> t \in queued[d]
  <2> SUFFICES ASSUME NEW t \in Tasks PROVE
        \/ /\ \E v \in wake_list[c] : v.p = t
           /\ state'[t] = "RUNNING" /\ on_rq'[t] = "queued"
           /\ \A d \in CPUs : t \in queued'[d] <=> t \in queued[d] \/ d = c
        \/ /\ \A v \in wake_list[c] : v.p # t
           /\ state'[t] = state[t] /\ on_rq'[t] = on_rq[t]
           /\ \A d \in CPUs : t \in queued'[d] <=> t \in queued[d]
    OBVIOUS
  <2> DEFINE ps == {v.p : v \in wake_list[c]}
  <2>1. /\ queued' = [queued EXCEPT ![c] = @ \cup ps]
        /\ on_rq' = [q \in Tasks |-> IF q \in ps THEN "queued" ELSE on_rq[q]]
        /\ state' = [q \in Tasks |-> IF q \in ps THEN "RUNNING" ELSE state[q]]
    BY DEF sched_ttwu_pending, ttwu_do_activate, ttwu_do_wakeup
  <2>2. t \in ps <=> \E v \in wake_list[c] : v.p = t
    OBVIOUS
  <2> HIDE DEF ps
  <2>3. \A d \in CPUs : queued'[d] = IF d = c THEN queued[c] \cup ps ELSE queued[d]
    BY <2>1, Types
  <2> QED BY <2>1, <2>2, <2>3
<1>2. /\ ctx[c].at = "run" /\ rq_lock[c] = Free
      /\ Changed(wake_list', wake_list, CPUs, c, {})
      /\ UNCHANGED <<on_cpu, cpu, contributes, loop, cond, sig, drops, pi_lock, rq_lock, curr,
                     ctx>>
  BY <1>1, Types DEF sched_ttwu_pending, At, Changed, taskVars, waitVars, rqVars
<1>3. TypeOK'
  <2> DEFINE ps == {v.p : v \in wake_list[c]}
             moved == {w.p : w \in {v \in wake_list[c] : v.sched_remote_wakeup}}
             n == Cardinality({p \in ps : contributes[p]})
             m == Cardinality({p \in ps \ moved : in_iowait(p)})
  <2>1. ps \subseteq Tasks
    BY Types
  <2>2. \A S \in SUBSET Tasks : Cardinality(S) \in Nat
    BY TaskAssumption, FS_Subset, FS_CardinalityType
  <2>3. n \in Nat /\ m \in Nat
    BY <2>1, <2>2
  <2>4. /\ nr_uninterruptible' = [nr_uninterruptible EXCEPT ![c] = (@ - n) % UINT]
        /\ nr_iowait' = [nr_iowait EXCEPT ![c] = @ - m]
        /\ queued' = [queued EXCEPT ![c] = @ \cup ps]
        /\ on_rq' = [q \in Tasks |-> IF q \in ps THEN "queued" ELSE on_rq[q]]
        /\ state' = [q \in Tasks |-> IF q \in ps THEN "RUNNING" ELSE state[q]]
        /\ wake_list' = [wake_list EXCEPT ![c] = {}]
    BY DEF sched_ttwu_pending, ttwu_do_activate, ttwu_do_wakeup
  <2> HIDE DEF ps, moved, n, m
  <2>5. nr_uninterruptible' \in [CPUs -> 0..UINT-1] /\ nr_iowait' \in [CPUs -> Int]
    BY <2>3, <2>4, Wraps DEF Inv, TypeOK
  <2>6. /\ queued' \in [CPUs -> SUBSET Tasks] /\ on_rq' \in [Tasks -> OnRq]
        /\ state' \in [Tasks -> State]
    BY <2>1, <2>4, Types DEF OnRq, State
  <2>7. wake_list' \in [CPUs -> SUBSET [p : Tasks, sched_remote_wakeup : BOOLEAN]]
    BY <2>4, Types
  <2> QED BY <1>1, <1>2, <2>5, <2>6, <2>7 DEF Inv, TypeOK
<1>4. LocksHeld'
  BY <1>1, <1>2 DEF Inv, LocksHeld, At, PiStages, RqStages
<1>5. Stacks'
  BY <1>1, <1>2 DEF Inv, Stacks, OnStack, At
<1>6. Queues'
  BY <1>1, <1>2 DEF Inv, Queues, QueuedOnce, At, Stacks, Targets, OnStack, Wakers, WakingStages
<1>7. Wakers'
  BY <1>1, <1>2, Listed
     DEF Changed, Inv, Wakers, At, WakingStages, LocksHeld, Targets, Stacks, PiStages, RqStages
<1>8. Sleepers'
  BY <1>1, <1>2 DEF Inv, Sleepers, At, Stacks, Targets, OnStack, Wakers, WakingStages
<1>9. Dead'
  BY <1>1, <1>2 DEF Inv, Dead, Drops, At, Stacks, OnStack, Targets, Wakers, WakingStages
<1>10. Followed'
  BY <1>1, <1>2 DEF Changed, Inv, Followed, Woken
<1>11. Undisturbed
  BY <1>1, <1>2
     DEF Undisturbed, Inv, LocksHeld, Wakers, At, PiStages, RqStages, Stacks, OnStack, Targets,
         Queues, QueuedOnce
<1>12. Targets'
  BY <1>1, <1>2 DEF Inv, Targets
<1> QED BY <1>3, <1>4, <1>5, <1>6, <1>7, <1>8, <1>9, <1>10, <1>11, <1>12 DEF Keeps, Inv

-----------------------------------------------------------------------------
(* The load balancer, and try_invoke_on_locked_down_task().                *)

\* A queued task on no stack: whoever inspects it holds the lock that is taken here.
LEMMA DetachTaskKeeps ==
  ASSUME Inv, UNCHANGED scenario, NEW c \in CPUs, NEW p \in scenario.waiters, detach_task(c, p)
  PROVE  Keeps
<1>1. p \in Tasks
  BY Types
<1>2. Started(c, "detached", p)
  <2>1. ctx[c] \in Ctx /\ p \in Tasks
    BY <1>1, Types
  <2>2. [ctx[c] EXCEPT !.at = "detached", !.p = p] \in Ctx
    BY <2>1 DEF Ctx, Stages
  <2> QED BY <2>2, Types DEF detach_task, Started, Ctx
<1>3. \A t \in Tasks, d \in CPUs : t \in queued'[d] <=> t \in queued[d] /\ ~(t = p /\ d = cpu[p])
  BY <1>1, Types DEF detach_task
<1>4. on_rq[p] = "queued"
  <2>1. p \in queued[cpu[p]] /\ ~on_cpu[p]
    BY <1>1, Types DEF detach_task
  <2> QED BY <1>1, <2>1, Types DEF Inv, Queues, QueuedOnce, Stacks, OnStack, Targets, At
<1>5. /\ ctx[c].at = "run" /\ rq_lock[cpu[p]] = Free /\ p \in queued[cpu[p]] /\ ~on_cpu[p]
      /\ Changed(on_rq', on_rq, Tasks, p, "migrating")
      /\ Changed(cpu', cpu, Tasks, p, c)
      /\ UNCHANGED <<state, on_cpu, contributes, loop, cond, sig, drops, pi_lock, rq_lock, curr,
                     wake_list, nr_uninterruptible, nr_iowait>>
  BY <1>1, <1>2, <1>3, <1>4, Types DEF detach_task, At, Changed, taskVars, waitVars, rqVars
<1>6. TypeOK'
  <2>1. /\ on_rq' \in [Tasks -> OnRq] /\ cpu' \in [Tasks -> CPUs]
        /\ queued' \in [CPUs -> SUBSET Tasks]
    BY <1>1, Types DEF detach_task, OnRq
  <2> QED BY <1>1, <1>2, <1>3, <1>4, <1>5, <2>1 DEF Inv, TypeOK, Started
<1>7. LocksHeld'
  BY <1>1, <1>2, <1>3, <1>4, <1>5 DEF Inv, LocksHeld, At, PiStages, RqStages, Started
<1>8. Stacks'
  BY <1>1, <1>2, <1>3, <1>4, <1>5 DEF Changed, Inv, Stacks, OnStack, At, Started
<1>9. Queues'
  BY <1>1, <1>2, <1>3, <1>4, <1>5
     DEF Changed, Inv, Queues, QueuedOnce, At, Stacks, Targets, OnStack, Started
<1>10. Wakers'
  BY <1>1, <1>2, <1>3, <1>4, <1>5, Listed
     DEF Changed, Inv, Wakers, At, WakingStages, LocksHeld, Targets, Stacks, PiStages, RqStages,
         Started
<1>11. Sleepers'
  BY <1>1, <1>2, <1>3, <1>4, <1>5 DEF Changed, Inv, Sleepers, At, Started
<1>12. Dead'
  BY <1>1, <1>2, <1>3, <1>4, <1>5 DEF Changed, Inv, Dead, Drops, At, Started
<1>13. Followed'
  BY <1>1, <1>2, <1>3, <1>4, <1>5 DEF Inv, Followed, Woken, WakingStages, Started
<1>14. Undisturbed
  BY <1>1, <1>2, <1>3, <1>4, <1>5, Listed
     DEF Changed, Undisturbed, Inv, LocksHeld, Wakers, At, PiStages, RqStages, Stacks, OnStack,
         Targets, Queues, QueuedOnce, Started
<1>15. Targets'
  BY <1>1, <1>2, <1>3, <1>4, <1>5 DEF Inv, Targets, Started
<1> QED BY <1>6, <1>7, <1>8, <1>9, <1>10, <1>11, <1>12, <1>13, <1>14, <1>15 DEF Keeps, Inv

\* TASK_ON_RQ_MIGRATING has kept everybody else away.
LEMMA AttachTaskKeeps ==
  ASSUME Inv, UNCHANGED scenario, NEW c \in CPUs, attach_task(c)
  PROVE  Keeps
<1>1. ctx[c].p \in Tasks
  BY DEF attach_task, Inv, Targets, At, PiStages
<1>2. \A t \in Tasks, d \in CPUs : t \in queued'[d] <=> t \in queued[d] \/ (t = ctx[c].p /\ d = c)
  BY <1>1, Types DEF attach_task
<1>3. Started(c, "run", NoTask)
  BY ReturnStarts DEF attach_task
<1>4. /\ ctx[c].at = "detached" /\ rq_lock[c] = Free
      /\ Changed(on_rq', on_rq, Tasks, ctx[c].p, "queued")
      /\ UNCHANGED <<state, on_cpu, cpu, contributes, loop, cond, sig, drops, pi_lock, rq_lock,
                     curr, wake_list, nr_uninterruptible, nr_iowait>>
  BY <1>1, <1>2, <1>3, Types DEF attach_task, At, Changed, taskVars, waitVars, rqVars
<1>5. TypeOK'
  <2>1. on_rq' \in [Tasks -> OnRq] /\ queued' \in [CPUs -> SUBSET Tasks]
    BY <1>1, Types DEF attach_task, OnRq
  <2> QED BY <1>1, <1>2, <1>3, <1>4, <2>1 DEF Inv, TypeOK, Started
<1>6. LocksHeld'
  BY <1>1, <1>2, <1>3, <1>4 DEF Inv, LocksHeld, At, PiStages, RqStages, Started
<1>7. Targets'
  BY <1>1, <1>2, <1>3, <1>4 DEF Inv, Targets, PiStages, Started
<1>8. Stacks'
  BY <1>1, <1>2, <1>3, <1>4 DEF Changed, Inv, Stacks, OnStack, At, Started
<1>9. Queues'
  BY <1>1, <1>2, <1>3, <1>4
     DEF Changed, Inv, Queues, QueuedOnce, At, Stacks, Targets, OnStack, Started
<1>10. Wakers'
  BY <1>1, <1>2, <1>3, <1>4, Listed
     DEF Changed, Inv, Wakers, At, WakingStages, LocksHeld, Targets, Stacks, PiStages, RqStages,
         Queues, Started
<1>11. Sleepers'
  BY <1>1, <1>2, <1>3, <1>4 DEF Changed, Inv, Sleepers, At, Started
<1>12. Dead'
  BY <1>1, <1>2, <1>3, <1>4
     DEF Changed, Inv, Dead, Drops, At, Stacks, OnStack, Targets, Queues, Started
<1>13. Followed'
  BY <1>1, <1>2, <1>3, <1>4 DEF Inv, Followed, Woken, WakingStages, Started
<1>14. Undisturbed
  BY <1>1, <1>2, <1>3, <1>4, Listed
     DEF Changed, Undisturbed, Inv, LocksHeld, Wakers, At, PiStages, RqStages, Stacks, OnStack,
         Targets, Queues, QueuedOnce, Started
<1> QED BY <1>5, <1>6, <1>7, <1>8, <1>9, <1>10, <1>11, <1>12, <1>13, <1>14 DEF Keeps, Inv

\* A queued task is not in TASK_WAKING.
LEMMA TryInvokeOnLockedDownTaskKeeps ==
  ASSUME Inv, UNCHANGED scenario, NEW c \in CPUs, NEW p \in scenario.waiters,
         try_invoke_on_locked_down_task(c, p)
  PROVE  Keeps
<1>1. p \in Tasks
  BY Types
<1>2. \/ Started(c, "locked", p) /\ on_rq[p] # "no"
      \/ Started(c, "recheck", p)
  <2> DEFINE stage == IF on_rq[p] # "no" THEN "locked" ELSE "recheck"
  <2>1. ctx[c] \in Ctx /\ stage \in Stages
    BY Types DEF Stages
  <2>2. ctx' = [ctx EXCEPT ![c].p = p, ![c].at = stage] /\ ctx \in [CPUs -> Ctx]
    BY Types DEF try_invoke_on_locked_down_task
  <2>3. (stage = "locked" /\ on_rq[p] # "no") \/ stage = "recheck"
    OBVIOUS
  <2> HIDE DEF stage
  <2>4. [ctx[c] EXCEPT !.p = p, !.at = stage] \in Ctx
    BY <1>1, <2>1 DEF Ctx
  <2>5. Started(c, stage, p)
    BY <2>2, <2>4 DEF Started, Ctx
  <2> QED BY <2>3, <2>5
<1>3. /\ ctx[c].at = "run" /\ pi_lock[p] = Free
      /\ Changed(pi_lock', pi_lock, Tasks, p, c)
      /\ UNCHANGED <<state, on_rq, on_cpu, cpu, contributes, loop, cond, sig, drops, rq_lock,
                     queued, curr, wake_list, nr_uninterruptible, nr_iowait>>
  BY <1>1, <1>2, Types DEF try_invoke_on_locked_down_task, At, Changed, taskVars, waitVars, rqVars
<1>4. TypeOK'
  BY <1>1, <1>2, <1>3, Types DEF Inv, TypeOK, Started, try_invoke_on_locked_down_task, State, OnRq
<1>5. LocksHeld'
  BY <1>1, <1>2, <1>3, Listed
     DEF Changed, Inv, LocksHeld, At, PiStages, RqStages, Targets, Started
<1>6. Stacks'
  BY <1>1, <1>2, <1>3 DEF Inv, Stacks, OnStack, At, Started
<1>7. Queues'
  BY <1>1, <1>2, <1>3 DEF Inv, Queues, QueuedOnce, At, Started
<1>8. Wakers'
  BY <1>1, <1>2, <1>3 DEF Inv, Wakers, At, WakingStages, Started
<1>9. Sleepers'
  BY <1>1, <1>2, <1>3 DEF Inv, Sleepers, At, Started
<1>10. Dead'
  BY <1>1, <1>2, <1>3 DEF Inv, Dead, Drops, At, Started
<1>11. Followed'
  BY <1>1, <1>2, <1>3 DEF Inv, Followed, Woken, WakingStages, Started
<1>12. Targets' /\ Undisturbed
  BY <1>1, <1>2, <1>3 DEF Undisturbed, Inv, Targets, Started
<1> QED BY <1>4, <1>5, <1>6, <1>7, <1>8, <1>9, <1>10, <1>11, <1>12 DEF Keeps, Inv

\* With the queue's lock the task can neither be dequeued nor picked nor moved.
LEMMA InvokeLockedKeeps ==
  ASSUME Inv, UNCHANGED scenario, NEW c \in CPUs, invoke_locked(c)
  PROVE  Keeps
<1>1. ctx[c].p \in Tasks
  BY DEF invoke_locked, Inv, Targets, At, PiStages
<1>2. Moved(c, "func")
  BY GotoMoves DEF invoke_locked, Stages
<1>3. /\ ctx[c].at = "locked" /\ rq_lock[cpu[ctx[c].p]] = Free
      /\ Changed(rq_lock', rq_lock, CPUs, cpu[ctx[c].p], c)
      /\ UNCHANGED <<state, on_rq, on_cpu, cpu, contributes, loop, cond, sig, drops, pi_lock,
                     queued, curr, wake_list, nr_uninterruptible, nr_iowait>>
  BY <1>1, <1>2, Types
     DEF invoke_locked, At, Changed, taskVars, waitVars, rqVars, task_rq_lockable
<1>4. TypeOK'
  BY <1>1, <1>2, <1>3, Types DEF Inv, TypeOK, Moved, invoke_locked, State, OnRq
<1>5. LocksHeld'
  BY <1>1, <1>2, <1>3, Listed DEF Changed, Inv, LocksHeld, At, PiStages, RqStages, Targets, Moved
<1>6. Stacks'
  BY <1>1, <1>2, <1>3 DEF Inv, Stacks, OnStack, At, Moved
<1>7. Queues'
  BY <1>1, <1>2, <1>3 DEF Inv, Queues, QueuedOnce, At, Moved
<1>8. Wakers'
  BY <1>1, <1>2, <1>3, Listed
     DEF Changed, Inv, Wakers, At, WakingStages, LocksHeld, Targets, Stacks, PiStages, RqStages,
         Moved
<1>9. Sleepers'
  BY <1>1, <1>2, <1>3 DEF Inv, Sleepers, At, Moved
<1>10. Dead'
  BY <1>1, <1>2, <1>3 DEF Inv, Dead, Drops, At, Moved
<1>11. Followed'
  BY <1>1, <1>2, <1>3 DEF Inv, Followed, Woken, WakingStages, Moved
<1>12. Targets' /\ Undisturbed
  BY <1>1, <1>2, <1>3 DEF Undisturbed, Inv, Targets, Moved
<1> QED BY <1>4, <1>5, <1>6, <1>7, <1>8, <1>9, <1>10, <1>11, <1>12 DEF Keeps, Inv

\* A task off its queue that nobody wakes is moved by nobody but a waker, which needs p->pi_lock.
LEMMA InvokeSleepingKeeps ==
  ASSUME Inv, UNCHANGED scenario, NEW c \in CPUs, invoke_sleeping(c)
  PROVE  Keeps
<1>1. ctx[c].p \in Tasks
  BY DEF invoke_sleeping, Inv, Targets, At, PiStages
<1>2. \/ Started(c, "run", NoTask) /\ Changed(pi_lock', pi_lock, Tasks, ctx[c].p, Free)
      \/ /\ Moved(c, "func") /\ pi_lock' = pi_lock
         /\ on_rq[ctx[c].p] = "no" /\ state[ctx[c].p] # "WAKING"
  <2>1. CASE state[ctx[c].p] \in {"RUNNING", "WAKING"} \/ on_rq[ctx[c].p] # "no"
    BY <1>1, <2>1, Types, ReturnStarts, GotoMoves DEF invoke_sleeping, Unlock, Changed, Stages, At
  <2>2. CASE ~(state[ctx[c].p] \in {"RUNNING", "WAKING"} \/ on_rq[ctx[c].p] # "no")
    BY <1>1, <2>2, Types, ReturnStarts, GotoMoves DEF invoke_sleeping, Unlock, Changed, Stages, At
  <2> QED BY <2>1, <2>2
<1>3. /\ ctx[c].at = "recheck"
      /\ UNCHANGED <<state, on_rq, on_cpu, cpu, contributes, loop, cond, sig, drops, rq_lock,
                     queued, curr, wake_list, nr_uninterruptible, nr_iowait>>
  BY <1>1, <1>2, Types DEF invoke_sleeping, At, Changed, taskVars, waitVars, rqVars
<1>4. TypeOK'
  <2>1. pi_lock' \in [Tasks -> CPUs \cup {Free}]
    BY <1>1, <1>2, Types DEF invoke_sleeping, Unlock
  <2>2. ctx' \in [CPUs -> Ctx]
    BY <1>1, <1>2, <1>3 DEF Moved, Started
  <2> QED BY <1>1, <1>2, <1>3, <2>1, <2>2 DEF Inv, TypeOK
<1>5. LocksHeld'
  BY <1>1, <1>2, <1>3, Listed
     DEF Changed, Inv, LocksHeld, At, PiStages, RqStages, Targets, Moved, Started
<1>6. Targets'
  BY <1>1, <1>2, <1>3 DEF Inv, Targets, PiStages, Moved, Started
<1>7. Stacks'
  BY <1>1, <1>2, <1>3 DEF Inv, Stacks, OnStack, At, Moved, Started
<1>8. Queues'
  BY <1>1, <1>2, <1>3 DEF Inv, Queues, QueuedOnce, At, Moved, Started
<1>9. Wakers'
  BY <1>1, <1>2, <1>3 DEF Inv, Wakers, At, WakingStages, Moved, Started
<1>10. Sleepers'
  BY <1>1, <1>2, <1>3 DEF Inv, Sleepers, At, Moved, Started
<1>11. Dead'
  BY <1>1, <1>2, <1>3 DEF Inv, Dead, Drops, At, Moved, Started
<1>12. Followed'
  BY <1>1, <1>2, <1>3 DEF Inv, Followed, Woken, WakingStages, Moved, Started
<1>13. Undisturbed
  BY <1>1, <1>2, <1>3 DEF Undisturbed
<1> QED BY <1>4, <1>5, <1>6, <1>7, <1>8, <1>9, <1>10, <1>11, <1>12, <1>13 DEF Keeps, Inv

\* Both locks are released.
LEMMA InvokeReturnKeeps ==
  ASSUME Inv, UNCHANGED scenario, NEW c \in CPUs, invoke_return(c)
  PROVE  Keeps
<1>1. ctx[c].p \in Tasks
  BY DEF invoke_return, Inv, Targets, At, PiStages
<1>2. Started(c, "run", NoTask)
  BY ReturnStarts DEF invoke_return, Unlock
<1>3. /\ ctx[c].at = "func"
      /\ Changed(pi_lock', pi_lock, Tasks, ctx[c].p, Free)
      /\ \A d \in CPUs : rq_lock'[d] = IF rq_lock[d] = c THEN Free ELSE rq_lock[d]
      /\ UNCHANGED <<state, on_rq, on_cpu, cpu, contributes, loop, cond, sig, drops, queued, curr,
                     wake_list, nr_uninterruptible, nr_iowait>>
  BY <1>1, <1>2, Types DEF invoke_return, Unlock, At, Changed, taskVars, waitVars, rqVars
<1>4. TypeOK'
  BY <1>1, <1>2, <1>3, Types DEF Inv, TypeOK, Started, invoke_return, Unlock, State, OnRq
<1>5. LocksHeld'
  BY <1>1, <1>2, <1>3, Listed
     DEF Changed, Inv, LocksHeld, At, PiStages, RqStages, Targets, Started
<1>6. Targets'
  BY <1>1, <1>2, <1>3 DEF Inv, Targets, PiStages, Started
<1>7. Stacks'
  BY <1>1, <1>2, <1>3 DEF Inv, Stacks, OnStack, At, Started
<1>8. Queues'
  BY <1>1, <1>2, <1>3 DEF Inv, Queues, QueuedOnce, At, Started
<1>9. Wakers'
  BY <1>1, <1>2, <1>3, Listed
     DEF Inv, Wakers, At, WakingStages, LocksHeld, Targets, Stacks, PiStages, RqStages, Started
<1>10. Sleepers'
  BY <1>1, <1>2, <1>3 DEF Inv, Sleepers, At, Started
<1>11. Dead'
  BY <1>1, <1>2, <1>3 DEF Inv, Dead, Drops, At, Started
<1>12. Followed'
  BY <1>1, <1>2, <1>3 DEF Inv, Followed, Woken, WakingStages, Started
<1>13. Undisturbed
  BY <1>1, <1>2, <1>3 DEF Undisturbed
<1> QED BY <1>4, <1>5, <1>6, <1>7, <1>8, <1>9, <1>10, <1>11, <1>12, <1>13 DEF Keeps, Inv

-----------------------------------------------------------------------------
(* Every step keeps the invariant.                                         *)

LEMMA WaitKeeps ==
  ASSUME Inv, UNCHANGED scenario, NEW c \in CPUs, Wait(c) \/ preempt_schedule_irq(c)
  PROVE  Keeps
BY SetCurrentStateKeeps, WaitOverKeeps, WaitScheduleKeeps, DoTaskDeadKeeps,
   PreemptScheduleIrqKeeps DEF Wait

LEMMA ScheduleKeeps ==
  ASSUME Inv, UNCHANGED scenario, NEW c \in CPUs, __schedule(c)
  PROVE  Keeps
BY ScheduleLockKeeps, DeactivateTaskKeeps, ContextSwitchKeeps, FinishTaskSwitchKeeps,
   FinishTaskKeeps, FinishLockSwitchKeeps DEF __schedule

LEMMA TryToWakeUpKeeps ==
  ASSUME Inv, UNCHANGED scenario, NEW c \in CPUs, try_to_wake_up(c)
  PROVE  Keeps
BY TtwuCurrentKeeps, TtwuLockKeeps, TtwuStateMatchKeeps, TtwuOnRqKeeps, TtwuRunnableKeeps,
   TtwuWakingKeeps, TtwuOnCpuKeeps, TtwuWaitKeeps, TtwuQueueKeeps, TtwuActivateKeeps
   DEF try_to_wake_up

LEMMA InvokeKeeps ==
  ASSUME Inv, UNCHANGED scenario, NEW c \in CPUs, Invoke(c)
  PROVE  Keeps
BY InvokeLockedKeeps, InvokeSleepingKeeps, InvokeReturnKeeps DEF Invoke

LEMMA NextKeeps ==
  ASSUME Inv, Next
  PROVE  Keeps
<1>1. UNCHANGED scenario
  BY DEF Next
<1>2. PICK c \in CPUs :
        \/ Wait(c) \/ preempt_schedule_irq(c) \/ __schedule(c) \/ try_to_wake_up(c)
        \/ sched_ttwu_pending(c) \/ attach_task(c) \/ Invoke(c)
        \/ \E t \in scenario.waiters : wake_event(c, t) \/ wake_signal(c, t) \/ detach_task(c, t)
                                       \/ try_invoke_on_locked_down_task(c, t)
  BY DEF Next, Step
<1>3. CASE Wait(c) \/ preempt_schedule_irq(c)
  BY <1>1, <1>3, WaitKeeps
<1>4. CASE __schedule(c)
  BY <1>1, <1>4, ScheduleKeeps
<1>5. CASE try_to_wake_up(c)
  BY <1>1, <1>5, TryToWakeUpKeeps
<1>6. CASE sched_ttwu_pending(c) \/ attach_task(c)
  BY <1>1, <1>6, SchedTtwuPendingKeeps, AttachTaskKeeps
<1>7. CASE Invoke(c)
  BY <1>1, <1>7, InvokeKeeps
<1>8. ASSUME NEW t \in scenario.waiters, wake_event(c, t) \/ wake_signal(c, t)
      PROVE  Keeps
  BY <1>1, <1>8, WakeEventKeeps, WakeSignalKeeps
<1>9. ASSUME NEW t \in scenario.waiters,
             detach_task(c, t) \/ try_invoke_on_locked_down_task(c, t)
      PROVE  Keeps
  BY <1>1, <1>9, DetachTaskKeeps, TryInvokeOnLockedDownTaskKeeps
<1> QED BY <1>2, <1>3, <1>4, <1>5, <1>6, <1>7, <1>8, <1>9

LEMMA StutterKeeps ==
  ASSUME Inv, UNCHANGED vars
  PROVE  Keeps
<1>1. UNCHANGED <<scenario, state, on_rq, on_cpu, cpu, contributes, loop, cond, sig, drops,
                  pi_lock, rq_lock, queued, curr, wake_list, nr_uninterruptible, nr_iowait, ctx>>
  BY DEF vars, stepVars, taskVars, waitVars, rqVars
<1>2. TypeOK' /\ LocksHeld' /\ Targets' /\ Stacks' /\ Queues'
  BY <1>1 DEF Inv, TypeOK, LocksHeld, Targets, Stacks, Queues, QueuedOnce, OnStack, At
<1>3. Wakers' /\ Sleepers' /\ Dead' /\ Followed'
  BY <1>1 DEF Inv, Wakers, Sleepers, Dead, Drops, Followed, Woken, At
<1>4. Undisturbed
  BY <1>1 DEF Undisturbed
<1> QED BY <1>2, <1>3, <1>4 DEF Keeps, Inv

LEMMA InitInv ==
  ASSUME Init
  PROVE  Inv
<1>1. TypeOK
  <2>1. Running \in Ctx
    BY DEF Running, Ctx, Stages, State, Masks
  <2>2. UINT \in Nat /\ UINT > 0
    BY UintAssumption, TaskAssumption, FS_CardinalityType
  <2>3. /\ state \in [Tasks -> State] /\ on_rq \in [Tasks -> OnRq]
        /\ on_cpu \in [Tasks -> BOOLEAN] /\ cpu \in [Tasks -> CPUs]
        /\ contributes \in [Tasks -> BOOLEAN]
    BY DEF Init, State, OnRq
  <2>4. /\ loop \in [Tasks -> {"work", "test", "asleep", "dead"}]
        /\ cond \in [Tasks -> BOOLEAN] /\ sig \in [Tasks -> BOOLEAN] /\ drops \in [Tasks -> Nat]
    BY DEF Init
  <2>5. /\ pi_lock \in [Tasks -> CPUs \cup {Free}] /\ rq_lock \in [CPUs -> CPUs \cup {Free}]
        /\ queued \in [CPUs -> SUBSET Tasks] /\ curr \in [CPUs -> Tasks \cup {Idle}]
        /\ wake_list \in [CPUs -> SUBSET [p : Tasks, sched_remote_wakeup : BOOLEAN]]
    BY DEF Init
  <2>6. nr_uninterruptible \in [CPUs -> 0..UINT-1] /\ nr_iowait \in [CPUs -> Int]
    BY <2>2 DEF Init
  <2>7. ctx \in [CPUs -> Ctx]
    BY <2>1 DEF Init
  <2> QED BY <2>3, <2>4, <2>5, <2>6, <2>7 DEF Init, TypeOK
<1>2. /\ \A t \in Tasks :
           \/ /\ state[t] = "RUNNING" /\ on_rq[t] = "queued" /\ loop[t] = "work"
              /\ drops[t] = 0 /\ Live(t)
           \/ /\ state[t] = "DEAD" /\ on_rq[t] = "no" /\ loop[t] = "dead"
              /\ drops[t] = 1 /\ ~Live(t)
      /\ \A t \in Tasks : on_cpu[t] = FALSE /\ cond[t] = FALSE /\ pi_lock[t] = Free
      /\ \A c \in CPUs : rq_lock[c] = Free /\ curr[c] = Idle /\ wake_list[c] = {}
                         /\ ctx[c].at = "run" /\ ctx[c].p = NoTask
      /\ \A c \in CPUs, t \in Tasks : t \in queued[c] <=> Live(t) /\ cpu[t] = c
  BY DEF Init, Running
<1>3. Free \notin CPUs /\ Idle \notin Tasks /\ NoTask \notin Tasks
  BY CpuAssumption, TaskAssumption
<1>4. LocksHeld /\ Targets
  BY <1>2, <1>3 DEF LocksHeld, Targets, At, PiStages, RqStages
<1>5. Stacks /\ Queues
  BY <1>2, <1>3 DEF Stacks, Queues, QueuedOnce, OnStack, At
<1>6. Wakers /\ Sleepers
  BY <1>2 DEF Wakers, Sleepers, At, WakingStages
<1>7. Dead /\ Followed
  BY <1>2 DEF Dead, Drops, Followed, At
<1> QED BY <1>1, <1>4, <1>5, <1>6, <1>7 DEF Inv

\* What each CPU in __schedule(), try_to_wake_up(), the load balancer and
\* try_invoke_on_locked_down_task() relies on holds in every behaviour.
THEOREM SmpInvariant == Spec => []Inv
<1>1. Inv /\ [Next]_vars => Inv'
  BY NextKeeps, StutterKeeps DEF Keeps
<1> QED BY InitInv, <1>1, PTL DEF Spec

\* The fields of the tasks and of the run queues, and the context of each CPU,
\* stay in their ranges through __schedule() and try_to_wake_up().
THEOREM SmpTypeCorrect == Spec => []TypeOK
<1>1. Inv => TypeOK
  BY DEF Inv
<1> QED BY SmpInvariant, <1>1, PTL

-----------------------------------------------------------------------------
(* The properties.                                                         *)

LEMMA OneStackHolds ==
  ASSUME Inv
  PROVE  OneStack
<1> SUFFICES ASSUME NEW t \in Tasks
             PROVE  /\ Cardinality({c \in CPUs : OnStack(c, t)}) <= 1
                    /\ \A c \in CPUs : OnStack(c, t) => on_cpu[t]
  BY DEF OneStack
<1> DEFINE S == {c \in CPUs : OnStack(c, t)}
<1>1. \A c \in CPUs : OnStack(c, t) => on_cpu[t] /\ cpu[t] = c
  BY DEF Inv, Stacks
<1>2. \A c, d \in S : c = d
  BY <1>1
<1> HIDE DEF S
<1>3. ASSUME S = {} PROVE Cardinality(S) = 0
  BY <1>3, FS_EmptySet
<1>4. ASSUME S # {} PROVE Cardinality(S) = 1
  <2>1. PICK c : S = {c}
    BY <1>2, <1>4
  <2> QED BY <2>1, FS_Singleton
<1>5. Cardinality(S) <= 1
  BY <1>3, <1>4
<1> QED BY <1>1, <1>5 DEF S

LEMMA WakeListCleanHolds ==
  ASSUME Inv
  PROVE  WakeListClean
<1> SUFFICES ASSUME NEW c \in CPUs, At(c, "run"), NEW w \in wake_list[c]
             PROVE  ~on_cpu[w.p] /\ cpu[w.p] = c /\ state[w.p] = "WAKING"
  BY DEF WakeListClean
<1>1. w.p \in Tasks
  BY Listed
<1>2. state[w.p] = "WAKING" /\ cpu[w.p] = c /\ on_rq[w.p] = "no"
  BY <1>1 DEF Inv, Wakers
<1>3. on_cpu[w.p] => curr[c] = w.p
  BY <1>1, <1>2 DEF Inv, Stacks, OnStack, At
<1>4. curr[c] # w.p
  BY <1>1, <1>2 DEF Inv, Stacks, At
<1> QED BY <1>2, <1>3, <1>4

LEMMA DeadIsFinalHolds ==
  ASSUME Inv
  PROVE  DeadIsFinal
<1> SUFFICES ASSUME NEW t \in Tasks
             PROVE  /\ drops[t] <= 1
                    /\ drops[t] = 1 => on_rq[t] = "no" /\ ~on_cpu[t]
                    /\ loop[t] = "dead" => \A c \in CPUs :
                         curr[c] = t => ctx[c].at \in {"sched", "deactivate", "switch"}
  BY DEF DeadIsFinal
<1>1. drops[t] \in {0, 1} /\ (drops[t] = 1 => on_rq[t] = "no" /\ ~on_cpu[t])
  BY DEF Inv, Dead
<1>2. ASSUME loop[t] = "dead", NEW c \in CPUs, curr[c] = t
      PROVE  ctx[c].at \in {"sched", "deactivate", "switch"}
  <2>1. CASE on_rq[t] = "no"
    BY <1>2, <2>1 DEF Inv, Stacks, At
  <2>2. CASE on_rq[t] # "no"
    <3>1. PICK d \in CPUs : curr[d] = t /\ ctx[d].at \in {"sched", "deactivate"}
      BY <1>2, <2>2 DEF Inv, Dead
    <3>2. d = c
      BY <1>2, <3>1 DEF Inv, Stacks, OnStack
    <3> QED BY <3>1, <3>2
  <2> QED BY <2>1, <2>2
<1> QED BY <1>1, <1>2

\* __schedule(), finish_task_switch() and try_to_wake_up() agree on where a task
\* is: one stack, one queue, one wake list entry and one last reference.
THEOREM TaskInOnePlace == Spec => []OnePlace
<1>1. Inv => OnePlace
  BY OneStackHolds, WakeListCleanHolds, DeadIsFinalHolds DEF Inv, Queues, OnePlace
<1> QED BY SmpInvariant, <1>1, PTL

\* No interleaving of the wait loop and schedule() with try_to_wake_up() lets a
\* task sleep on although its condition has become true.
THEOREM NoWakeupLostOnSmp == Spec => []NoLostWakeup
<1>1. ASSUME Inv, NEW t \in Tasks, cond[t], on_rq[t] = "no", loop[t] # "dead"
      PROVE  Woken(t)
  <2>1. state[t] # "RUNNING" /\ loop[t] = "asleep"
    BY <1>1 DEF Inv, Sleepers
  <2> QED BY <1>1, <2>1 DEF Inv, Followed
<1>2. Inv => NoLostWakeup
  BY <1>1 DEF NoLostWakeup, Woken, WakingStages
<1> QED BY SmpInvariant, <1>2, PTL

\* While func of try_invoke_on_locked_down_task() runs, the task it inspects
\* keeps its p->on_rq and its CPU and does not start to run.
THEOREM InspectedTaskStays == Spec => LockedDown
<1>1. Inv /\ [Next]_vars => Undisturbed
  BY NextKeeps, StutterKeeps DEF Keeps
<1>2. Inv /\ [Next]_vars =>
        [\A c \in CPUs : At(c, "func") =>
           LET p == ctx[c].p IN
           on_rq'[p] = on_rq[p] /\ cpu'[p] = cpu[p] /\ (on_cpu'[p] => on_cpu[p])]_vars
  BY <1>1 DEF Undisturbed
<1> QED BY SmpInvariant, <1>2, PTL DEF Spec, LockedDown

-----------------------------------------------------------------------------
(* Sums over the run queues.  Induction is by removing the CPU that        *)
(* MapThenSumSet picks next.                                               *)

\* The sum of a counter over the run queues.
Total(f) == MapThenSumSet(LAMBDA c : f[c], CPUs)

\* g sums f over every set in R, in the order in which MapThenSumSet picks the CPUs.
Pick(s) == CHOOSE x \in s : TRUE
Summed(g, f, R) == g = [s \in R |-> IF s = {} THEN 0 ELSE f[Pick(s)] + g[s \ {Pick(s)}]]
Small(n) == {s \in SUBSET CPUs : Cardinality(s) <= n}

LEMMA Smaller ==
  \A s \in SUBSET CPUs :
         /\ IsFiniteSet(s) /\ Cardinality(s) \in Nat /\ Cardinality(s) <= Cardinality(CPUs)
         /\ s = {} <=> Cardinality(s) = 0
         /\ s # {} => /\ Pick(s) \in s /\ s \ {Pick(s)} \in SUBSET CPUs
                      /\ Cardinality(s \ {Pick(s)}) = Cardinality(s) - 1
<1> TAKE s \in SUBSET CPUs
<1>1. IsFiniteSet(s) /\ Cardinality(s) \in Nat /\ Cardinality(s) <= Cardinality(CPUs)
  BY CpuAssumption, FS_Subset, FS_CardinalityType
<1>2. s = {} <=> Cardinality(s) = 0
  BY <1>1, FS_EmptySet
<1>3. s # {} => Pick(s) \in s
  BY DEF Pick
<1>4. s # {} => Cardinality(s \ {Pick(s)}) = Cardinality(s) - 1
  BY <1>1, <1>3, FS_RemoveElement
<1> QED BY <1>1, <1>2, <1>3, <1>4

\* The least natural number of a non-empty set.
LEMMA Least ==
  ASSUME NEW S \in SUBSET Nat, S # {}
  PROVE  \E m \in S : \A n \in S : m <= n
<1> DEFINE Less == {pair \in Nat \X Nat : pair[1] < pair[2]}
<1>1. IsWellFoundedOn(Less, Nat)
  BY NatLessThanWellFounded DEF OpToRel
<1> HIDE DEF Less
<1>2. PICK m \in S : \A n \in S : ~ (<<n, m>> \in Less)
  BY <1>1, WFMin
<1>3. \A n \in S : ~ (n < m)
  BY <1>2 DEF Less
<1> QED BY <1>3

\* A set of sets of CPUs that has with each non-empty set a smaller one has the empty set.
LEMMA ByRemoving ==
  ASSUME NEW B \in SUBSET (SUBSET CPUs), B # {},
         \A s \in B : s # {} => s \ {Pick(s)} \in B
  PROVE  {} \in B
<1> DEFINE N == {Cardinality(s) : s \in B}
<1>1. N \in SUBSET Nat /\ N # {}
  <2>1. \A s \in B : s \in SUBSET CPUs
    OBVIOUS
  <2>2. \A s \in B : Cardinality(s) \in Nat
    BY <2>1, Smaller
  <2> QED BY <2>2
<1>2. PICK m \in N : \A n \in N : m <= n
  BY <1>1, Least
<1>3. PICK s \in B : m = Cardinality(s)
  BY <1>2
<1>4. ASSUME s # {} PROVE FALSE
  <2>1. s \ {Pick(s)} \in B /\ Cardinality(s \ {Pick(s)}) = m - 1 /\ m \in Nat
    BY <1>3, <1>4, Smaller
  <2>2. m - 1 \in N
    BY <2>1
  <2> QED BY <1>2, <2>1, <2>2
<1> QED BY <1>3, <1>4

LEMMA SumExists ==
  ASSUME NEW f
  PROVE  \E g : Summed(g, f, SUBSET CPUs)
<1> DEFINE Bad == {n \in Nat : ~ \E g : Summed(g, f, Small(n))}
<1>1. Bad = {}
  <2> SUFFICES ASSUME Bad # {} PROVE FALSE
    OBVIOUS
  <2>1. PICK n \in Bad : \A m \in Bad : n <= m
    BY Least
  <2>2. CASE n = 0
    <3> DEFINE g == [s \in Small(0) |-> 0]
    <3>1. \A s \in Small(0) : s = {}
      <4> TAKE s \in Small(0)
      <4>1. s \in SUBSET CPUs /\ Cardinality(s) <= 0
        BY DEF Small
      <4>2. Cardinality(s) \in Nat /\ (s = {} <=> Cardinality(s) = 0)
        BY <4>1, Smaller
      <4> QED BY <4>1, <4>2
    <3>2. Summed(g, f, Small(0))
      BY <3>1 DEF Summed
    <3> QED BY <2>1, <2>2, <3>2
  <2>3. CASE n # 0
    <3>1. n - 1 \in Nat /\ n - 1 \notin Bad
      BY <2>1, <2>3
    <3>2. PICK h : Summed(h, f, Small(n - 1))
      BY <3>1
    <3> DEFINE g == [s \in Small(n) |-> IF s = {} THEN 0 ELSE f[Pick(s)] + h[s \ {Pick(s)}]]
    <3>3. ASSUME NEW s \in Small(n), s # {}
          PROVE  g[s \ {Pick(s)}] = h[s \ {Pick(s)}]
      <4> DEFINE r == s \ {Pick(s)}
      <4>1. r \in Small(n - 1) /\ r \in Small(n)
        BY <2>1, <3>3, Smaller DEF Small
      <4>2. h[r] = IF r = {} THEN 0 ELSE f[Pick(r)] + h[r \ {Pick(r)}]
        <5> HIDE DEF r
        <5> QED BY <3>2, <4>1 DEF Summed
      <4>3. g[r] = IF r = {} THEN 0 ELSE f[Pick(r)] + h[r \ {Pick(r)}]
        <5> HIDE DEF r
        <5> QED BY <4>1
      <4> QED BY <4>2, <4>3
    <3>4. Summed(g, f, Small(n))
      <4>1. g = [s \in Small(n) |-> IF s = {} THEN 0 ELSE f[Pick(s)] + g[s \ {Pick(s)}]]
        BY <3>3
      <4> HIDE DEF g
      <4> QED BY <4>1 DEF Summed
    <3> QED BY <2>1, <3>4
  <2> QED BY <2>2, <2>3
<1>2. Cardinality(CPUs) \in Nat /\ Small(Cardinality(CPUs)) = SUBSET CPUs
  BY Smaller DEF Small
<1> QED BY <1>1, <1>2

\* Total is computed by such a function.
LEMMA TotalIsSum ==
  ASSUME NEW f
  PROVE  \E g : Summed(g, f, SUBSET CPUs) /\ Total(f) = g[CPUs]
<1> DEFINE it == CHOOSE g : Summed(g, f, SUBSET CPUs)
<1>1. Summed(it, f, SUBSET CPUs)
  BY SumExists
<1>2. Total(f) = it[CPUs]
  BY DEF Total, MapThenSumSet, MapThenFoldSet, Summed, Pick
<1> HIDE DEF it
<1> QED BY <1>1, <1>2

LEMMA SumIsInt ==
  ASSUME NEW f \in [CPUs -> Int], NEW g, Summed(g, f, SUBSET CPUs)
  PROVE  \A s \in SUBSET CPUs : g[s] \in Int
<1> DEFINE Bad == {s \in SUBSET CPUs : g[s] \notin Int}
<1> SUFFICES ASSUME Bad # {} PROVE FALSE
  OBVIOUS
<1>0. /\ g[{}] = 0
      /\ \A s \in SUBSET CPUs : s # {} => g[s] = f[Pick(s)] + g[s \ {Pick(s)}]
  BY DEF Summed
<1>1. {} \notin Bad
  BY <1>0
<1>2. ASSUME NEW s \in Bad, s # {} PROVE s \ {Pick(s)} \in Bad
  <2>1. s \in SUBSET CPUs /\ g[s] = f[Pick(s)] + g[s \ {Pick(s)}]
    BY <1>0, <1>2
  <2>2. f[Pick(s)] \in Int /\ s \ {Pick(s)} \in SUBSET CPUs
    BY <1>2, <2>1, Smaller
  <2> QED BY <2>1, <2>2
<1>3. Bad \in SUBSET (SUBSET CPUs)
  OBVIOUS
<1> HIDE DEF Bad
<1> QED BY <1>1, <1>2, <1>3, ByRemoving

\* Changing the counter of one queue changes the sum by as much.
LEMMA TotalChanges ==
  ASSUME NEW f \in [CPUs -> Int], NEW h \in [CPUs -> Int], NEW c \in CPUs,
         \A d \in CPUs : d # c => h[d] = f[d]
  PROVE  Total(f) \in Int /\ Total(h) = Total(f) + (h[c] - f[c])
<1>1. PICK g : Summed(g, f, SUBSET CPUs) /\ Total(f) = g[CPUs]
  BY TotalIsSum
<1>2. PICK k : Summed(k, h, SUBSET CPUs) /\ Total(h) = k[CPUs]
  BY TotalIsSum
<1>3. \A s \in SUBSET CPUs : g[s] \in Int /\ k[s] \in Int
  BY <1>1, <1>2, SumIsInt
<1> DEFINE Bad == {s \in SUBSET CPUs : k[s] # g[s] + (IF c \in s THEN h[c] - f[c] ELSE 0)}
<1>4. Bad = {}
  <2> SUFFICES ASSUME Bad # {} PROVE FALSE
    OBVIOUS
  <2>0. /\ g[{}] = 0 /\ k[{}] = 0
        /\ \A s \in SUBSET CPUs : s # {} => /\ g[s] = f[Pick(s)] + g[s \ {Pick(s)}]
                                            /\ k[s] = h[Pick(s)] + k[s \ {Pick(s)}]
    BY <1>1, <1>2 DEF Summed
  <2>1. {} \notin Bad
    BY <2>0
  <2>2. ASSUME NEW s \in Bad, s # {} PROVE s \ {Pick(s)} \in Bad
    <3> DEFINE r == s \ {Pick(s)}
    <3>1. s \in SUBSET CPUs /\ r \in SUBSET CPUs /\ Pick(s) \in CPUs /\ Pick(s) \in s
      BY <2>2, Smaller
    <3>2. g[s] = f[Pick(s)] + g[r] /\ k[s] = h[Pick(s)] + k[r]
      BY <2>0, <2>2, <3>1
    <3>3. g[r] \in Int /\ k[r] \in Int /\ g[s] \in Int /\ k[s] \in Int
          /\ f[Pick(s)] \in Int /\ h[Pick(s)] \in Int /\ f[c] \in Int /\ h[c] \in Int
      BY <1>3, <3>1
    <3>4. k[s] # g[s] + (IF c \in s THEN h[c] - f[c] ELSE 0)
      BY <2>2
    <3>5. CASE c = Pick(s)
      <4>1. c \in s /\ c \notin r
        BY <3>1, <3>5
      <4>2. k[r] # g[r]
        BY <3>2, <3>3, <3>4, <3>5, <4>1
      <4> HIDE DEF r
      <4>3. r \in Bad
        BY <3>1, <3>3, <4>1, <4>2
      <4> QED BY <4>3 DEF r
    <3>6. CASE c # Pick(s)
      <4>1. h[Pick(s)] = f[Pick(s)] /\ (c \in s <=> c \in r)
        BY <3>1, <3>6
      <4> HIDE DEF r
      <4>2. k[r] # g[r] + (IF c \in r THEN h[c] - f[c] ELSE 0)
        BY <3>2, <3>3, <3>4, <4>1
      <4>3. r \in Bad
        BY <3>1, <4>2
      <4> QED BY <4>3 DEF r
    <3> QED BY <3>5, <3>6
  <2>3. Bad \in SUBSET (SUBSET CPUs)
    OBVIOUS
  <2> HIDE DEF Bad
  <2> QED BY <2>1, <2>2, <2>3, ByRemoving
<1> QED BY <1>1, <1>2, <1>3, <1>4

LEMMA TotalZero ==
  ASSUME NEW f \in [CPUs -> Int], \A c \in CPUs : f[c] = 0
  PROVE  Total(f) = 0
<1>1. PICK g : Summed(g, f, SUBSET CPUs) /\ Total(f) = g[CPUs]
  BY TotalIsSum
<1> DEFINE Bad == {s \in SUBSET CPUs : g[s] # 0}
<1>2. Bad = {}
  <2> SUFFICES ASSUME Bad # {} PROVE FALSE
    OBVIOUS
  <2>0. /\ g[{}] = 0
        /\ \A s \in SUBSET CPUs : s # {} => g[s] = f[Pick(s)] + g[s \ {Pick(s)}]
    BY <1>1 DEF Summed
  <2>1. {} \notin Bad
    BY <2>0
  <2>2. ASSUME NEW s \in Bad, s # {} PROVE s \ {Pick(s)} \in Bad
    <3>1. s \in SUBSET CPUs /\ s \ {Pick(s)} \in SUBSET CPUs /\ Pick(s) \in CPUs
      BY <2>2, Smaller
    <3>2. g[s] = f[Pick(s)] + g[s \ {Pick(s)}]
      BY <2>0, <2>2, <3>1
    <3>3. g[s \ {Pick(s)}] # 0
      BY <2>2, <3>1, <3>2
    <3> QED BY <3>1, <3>3
  <2>3. Bad \in SUBSET (SUBSET CPUs)
    OBVIOUS
  <2> HIDE DEF Bad
  <2> QED BY <2>1, <2>2, <2>3, ByRemoving
<1> QED BY <1>1, <1>2

\* An unsigned counter holds its value up to a multiple of UINT.
LEMMA WrapsBy ==
  ASSUME NEW x \in Int
  PROVE  \E z \in Int : x % UINT = x + UINT * z
<1>1. UINT \in Nat /\ UINT > 0
  BY UintAssumption, TaskAssumption, FS_CardinalityType
<1>2. x \div UINT \in Int /\ x = UINT * (x \div UINT) + (x % UINT) /\ x % UINT \in Int
  BY <1>1
<1>3. UINT * (-(x \div UINT)) = -(UINT * (x \div UINT)) /\ -(x \div UINT) \in Int
  BY <1>1, <1>2
<1> QED BY <1>1, <1>2, <1>3

LEMMA Remainder ==
  ASSUME NEW n \in 0..UINT-1, NEW z \in Int
  PROVE  (n + UINT * z) % UINT = n
<1>1. UINT \in Nat /\ UINT > 0
  BY UintAssumption, TaskAssumption, FS_CardinalityType
<1> DEFINE x == n + UINT * z
           q == x \div UINT
           r == x % UINT
<1>2. x \in Int /\ q \in Int /\ r \in 0..UINT-1 /\ x = UINT * q + r
  BY <1>1
<1>3. UINT * (z - q) = r - n
  BY <1>1, <1>2
<1> HIDE DEF q, r, x
<1>4. z - q >= 1 => UINT * (z - q) >= UINT
  BY <1>1, <1>2
<1>5. z - q <= -1 => UINT * (z - q) <= -UINT
  BY <1>1, <1>2
<1>6. z - q = 0
  BY <1>1, <1>2, <1>3, <1>4, <1>5
<1>7. r = n
  BY <1>1, <1>2, <1>3, <1>6
<1> QED BY <1>7 DEF r, x

-----------------------------------------------------------------------------
(* The counters of sleepers: nr_uninterruptible is incremented on the      *)
(* queue a task leaves and decremented on the one it wakes up on, so only  *)
(* the sum of all queues means something; nr_iowait is corrected on the    *)
(* old queue when the task moves.                                          *)

\* The uninterruptible sleepers, from the moment __schedule() has counted them.
Loaded ==
    {t \in Tasks : contributes[t] /\
        (on_rq[t] = "no" \/ \E c \in CPUs : At(c, "deactivate") /\ ctx[c].p = t)}

\* t is being moved to another queue by its waker.
Leaving(t) == \E d \in CPUs : ctx[d].p = t /\ ctx[d].at \in {"queue", "activate"} /\ ctx[d].mig

\* The I/O sleepers of queue c.
Waiting(c) ==
    {t \in Tasks :
        /\ in_iowait(t) /\ on_rq[t] = "no" /\ cpu[t] = c
        /\ ~(At(c, "switch") /\ ctx[c].p = t)
        /\ ~Leaving(t)
        /\ [p |-> t, sched_remote_wakeup |-> TRUE] \notin wake_list[c]}

\* The sum of the counters is the number of uninterruptible sleepers, up to wrapping.
Balanced == \E z \in Int : Total(nr_uninterruptible) = Cardinality(Loaded) + UINT * z

\* A task that is moved is on no CPU.
Parked ==
    /\ \A c \in CPUs : ctx[c].at \in {"queue", "activate"} => ~on_cpu[ctx[c].p]
    /\ \A d \in CPUs : \A w \in wake_list[d] : w.sched_remote_wakeup => ~on_cpu[w.p]

Counted ==
    /\ Balanced
    /\ \A c \in CPUs : nr_iowait[c] = Cardinality(Waiting(c))
    /\ Parked

LEMMA FiniteSleepers ==
        /\ IsFiniteSet(Loaded) /\ Cardinality(Loaded) \in 0..UINT-1
        /\ \A c \in CPUs : IsFiniteSet(Waiting(c)) /\ Cardinality(Waiting(c)) \in Nat
<1>1. Loaded \subseteq Tasks /\ \A c \in CPUs : Waiting(c) \subseteq Tasks
  BY DEF Loaded, Waiting
<1> QED BY <1>1, TaskAssumption, UintAssumption, FS_Subset, FS_CardinalityType

LEMMA CountedIsIt ==
  ASSUME Inv, Counted
  PROVE  SleepersCounted
<1>1. LoadCounted
  <2>1. PICK z \in Int : Total(nr_uninterruptible) = Cardinality(Loaded) + UINT * z
    BY DEF Counted, Balanced
  <2>2. Total(nr_uninterruptible) % UINT = Cardinality(Loaded)
    BY <2>1, FiniteSleepers, Remainder
  <2> QED BY <2>2 DEF LoadCounted, Total, Loaded
<1>2. IowaitCounted
  BY DEF Counted, IowaitCounted, Waiting, Leaving
<1> QED BY <1>1, <1>2 DEF SleepersCounted

\* The counters of the queues and what they are compared with stay the same.
Same ==
    /\ nr_uninterruptible' = nr_uninterruptible /\ nr_iowait' = nr_iowait
    /\ Loaded' = Loaded /\ \A c \in CPUs : Waiting(c)' = Waiting(c)

LEMMA SameCounts ==
  ASSUME Counted, Same, Parked'
  PROVE  Counted'
<1>1. Balanced'
  <2>1. Total(nr_uninterruptible)' = Total(nr_uninterruptible')
    BY DEF Total, MapThenSumSet, MapThenFoldSet
  <2>2. nr_uninterruptible' = nr_uninterruptible /\ Loaded' = Loaded
    BY DEF Same
  <2>3. Total(nr_uninterruptible') = Total(nr_uninterruptible)
    BY <2>2
  <2> QED BY <2>1, <2>2, <2>3 DEF Counted, Balanced
<1> QED BY <1>1 DEF Counted, Same

\* CPU c is neither in the switch nor in the last part of a wake-up, before and after the step.
Quiet(c) ==
    /\ UNCHANGED <<scenario, on_rq, cpu, contributes, wake_list, nr_uninterruptible, nr_iowait>>
    /\ \A t \in Tasks : on_cpu'[t] => on_cpu[t]
    /\ \A t \in Tasks : on_rq[t] = "no" => loop'[t] = loop[t]
    /\ \A d \in CPUs : d # c => ctx'[d] = ctx[d]
    /\ ctx[c].at \notin {"deactivate", "switch", "queue", "activate"}
    /\ ctx'[c].at \notin {"deactivate", "switch", "queue", "activate"}

LEMMA QuietCounts ==
  ASSUME Inv, Counted, NEW c \in CPUs, Quiet(c)
  PROVE  Counted'
<1>1. Parked'
  BY Listed DEF Quiet, Counted, Parked, Inv, Targets, PiStages
<1>2. Loaded' = Loaded
  BY DEF Quiet, Loaded, At
<1>3. \A t \in Tasks : on_rq[t] = "no" => (in_iowait(t)' <=> in_iowait(t))
  BY DEF Quiet, in_iowait
<1>4. \A t \in Tasks : Leaving(t)' <=> Leaving(t)
  BY DEF Quiet, Leaving
<1>5. ASSUME NEW d \in CPUs PROVE Waiting(d)' = Waiting(d)
  BY <1>3, <1>4 DEF Quiet, Waiting, At
<1> QED BY <1>1, <1>2, <1>5, SameCounts DEF Same, Quiet

\* Adding k to the counter of a queue keeps the balance if there are k sleepers more.
LEMMA BalanceMoves ==
  ASSUME Inv, Inv', Counted, NEW c \in CPUs, NEW k \in Int,
         nr_uninterruptible'[c] = (nr_uninterruptible[c] + k) % UINT,
         \A d \in CPUs : d # c => nr_uninterruptible'[d] = nr_uninterruptible[d],
         Cardinality(Loaded') = Cardinality(Loaded) + k
  PROVE  Balanced'
<1>1. UINT \in Nat /\ UINT > 0
  BY UintAssumption, TaskAssumption, FS_CardinalityType
<1>2. /\ nr_uninterruptible \in [CPUs -> Int] /\ nr_uninterruptible' \in [CPUs -> Int]
  BY <1>1 DEF Inv, TypeOK
<1>3. PICK y \in Int : Total(nr_uninterruptible) = Cardinality(Loaded) + UINT * y
  BY DEF Counted, Balanced
<1>4. PICK z \in Int :
        nr_uninterruptible'[c] = nr_uninterruptible[c] + k + UINT * z
  BY <1>2, WrapsBy
<1>5. /\ Total(nr_uninterruptible) \in Int
      /\ Total(nr_uninterruptible')
           = Total(nr_uninterruptible) + (nr_uninterruptible'[c] - nr_uninterruptible[c])
  BY <1>2, TotalChanges
<1>6. Cardinality(Loaded) \in Int /\ Cardinality(Loaded') \in Int
  BY FiniteSleepers
<1>7. UINT * (y + z) = UINT * y + UINT * z /\ UINT * y \in Int /\ UINT * z \in Int
  BY <1>1
<1>8. Total(nr_uninterruptible') = Cardinality(Loaded') + UINT * (y + z)
  BY <1>2, <1>3, <1>4, <1>5, <1>6, <1>7
<1>9. Total(nr_uninterruptible)' = Total(nr_uninterruptible')
  BY DEF Total, MapThenSumSet, MapThenFoldSet
<1> QED BY <1>8, <1>9 DEF Balanced

\* The current task is queued, so nobody counts it when it tests its condition.
LEMMA WaitQuiet ==
  ASSUME Inv, UNCHANGED scenario, NEW c \in CPUs, Wait(c)
  PROVE  Quiet(c)
<1>1. ctx[c].at = "run"
  BY DEF Wait, set_current_state, wait_over, wait_schedule, do_task_dead, At
<1>2. \A t \in Tasks : t = curr[c] => on_rq[t] = "queued"
  BY <1>1 DEF Inv, Stacks, At
<1>3. CASE set_current_state(c)
  BY <1>1, <1>2, <1>3, Types DEF set_current_state, Quiet, rqVars
<1>4. CASE wait_over(c)
  BY <1>1, <1>2, <1>4, Types DEF wait_over, Quiet, rqVars
<1>5. CASE wait_schedule(c)
  <2>1. Moved(c, "sched")
    BY <1>5, GotoMoves DEF wait_schedule, Stages
  <2> QED BY <1>1, <1>2, <1>5, <2>1, Types DEF wait_schedule, Quiet, rqVars, taskVars, Moved
<1>6. CASE do_task_dead(c)
  <2>1. Moved(c, "sched")
    BY <1>6, GotoMoves DEF do_task_dead, Stages
  <2> QED BY <1>1, <1>2, <1>6, <2>1, Types DEF do_task_dead, Quiet, rqVars, Moved
<1> QED BY <1>3, <1>4, <1>5, <1>6 DEF Wait

\* The rest of the switch away from a task: it has left its queue, or stays on it.
LEMMA FinishQuiet ==
  ASSUME Inv, UNCHANGED scenario, NEW c \in CPUs,
         preempt_schedule_irq(c) \/ finish_task_switch(c) \/ finish_task(c) \/ finish_lock_switch(c)
  PROVE  Quiet(c)
<1>1. CASE preempt_schedule_irq(c)
  <2>1. Moved(c, "preempt")
    BY <1>1, GotoMoves DEF preempt_schedule_irq, Stages
  <2> QED BY <1>1, <2>1
          DEF preempt_schedule_irq, Quiet, rqVars, taskVars, waitVars, Moved, At
<1>2. CASE finish_task_switch(c)
  <2>1. /\ ctx[c].at = "finish" /\ ctx'[c].at = "finish_task"
        /\ \A d \in CPUs : d # c => ctx'[d] = ctx[d]
    BY <1>2, Types DEF finish_task_switch, At, Ctx
  <2> QED BY <1>2, <2>1 DEF finish_task_switch, Quiet, rqVars, taskVars, waitVars
<1>3. CASE finish_task(c)
  <2>1. Moved(c, "finish_lock")
    BY <1>3, GotoMoves DEF finish_task, Stages
  <2> QED BY <1>3, <2>1 DEF finish_task, Quiet, rqVars, waitVars, Moved, At
<1>4. CASE finish_lock_switch(c)
  <2>1. Started(c, "run", NoTask)
    BY <1>4, ReturnStarts DEF finish_lock_switch
  <2> QED BY <1>4, <2>1 DEF finish_lock_switch, Quiet, rqVars, taskVars, Started, At
<1> QED BY <1>1, <1>2, <1>3, <1>4

\* Up to the store of TASK_WAKING a waker moves nothing.
LEMMA WakerQuiet ==
  ASSUME Inv, UNCHANGED scenario, NEW c \in CPUs,
         ttwu_current(c) \/ ttwu_lock(c) \/ ttwu_state_match(c) \/ ttwu_on_rq(c)
           \/ ttwu_runnable(c) \/ ttwu_waking(c)
  PROVE  Quiet(c)
<1>1. CASE ttwu_current(c)
  <2>1. Started(c, "run", NoTask)
    BY <1>1, ReturnStarts DEF ttwu_current
  <2> QED BY <1>1, <2>1 DEF ttwu_current, Quiet, rqVars, waitVars, Started, At
<1>2. CASE ttwu_lock(c)
  <2>1. Moved(c, "match")
    BY <1>2, GotoMoves DEF ttwu_lock, Stages
  <2> QED BY <1>2, <2>1 DEF ttwu_lock, Quiet, rqVars, taskVars, waitVars, Moved, At
<1>3. CASE ttwu_state_match(c)
  <2>1. Started(c, "run", NoTask) \/ Moved(c, "on_rq")
    BY <1>3, ReturnStarts, GotoMoves DEF ttwu_state_match, Unlock, Stages
  <2> QED BY <1>3, <2>1
          DEF ttwu_state_match, Quiet, rqVars, taskVars, waitVars, Started, Moved, At
<1>4. CASE ttwu_on_rq(c)
  <2>1. Moved(c, "waking") \/ Moved(c, "runnable")
    <3>1. CASE on_rq[ctx[c].p] = "no"
      BY <1>4, <3>1, GotoMoves DEF ttwu_on_rq, Stages
    <3>2. CASE on_rq[ctx[c].p] # "no"
      BY <1>4, <3>2, GotoMoves DEF ttwu_on_rq, Stages
    <3> QED BY <3>1, <3>2
  <2> QED BY <1>4, <2>1 DEF ttwu_on_rq, Quiet, rqVars, taskVars, waitVars, Moved, At
<1>5. CASE ttwu_runnable(c)
  <2>1. Started(c, "run", NoTask) \/ Moved(c, "waking")
    BY <1>5, ReturnStarts, GotoMoves DEF ttwu_runnable, Unlock, Stages
  <2> QED BY <1>5, <2>1 DEF ttwu_runnable, Quiet, rqVars, waitVars, Started, Moved, At
<1>6. CASE ttwu_waking(c)
  <2>1. Moved(c, "on_cpu")
    BY <1>6, GotoMoves DEF ttwu_waking, Stages
  <2> QED BY <1>6, <2>1 DEF ttwu_waking, Quiet, rqVars, waitVars, Moved, At
<1> QED BY <1>1, <1>2, <1>3, <1>4, <1>5, <1>6

\* The events that start a wake-up.
LEMMA EventQuiet ==
  ASSUME Inv, UNCHANGED scenario, NEW c \in CPUs, NEW t \in scenario.waiters,
         wake_event(c, t) \/ wake_signal(c, t)
  PROVE  Quiet(c)
<1>1. CASE wake_event(c, t)
  <2>1. /\ ctx[c].at = "run" /\ ctx'[c].at = "ttwu"
        /\ \A d \in CPUs : d # c => ctx'[d] = ctx[d]
    BY <1>1, Types DEF wake_event, At, Running
  <2> QED BY <1>1, <2>1 DEF wake_event, Quiet, rqVars, taskVars
<1>2. CASE wake_signal(c, t)
  <2>1. /\ ctx[c].at = "run" /\ ctx'[c].at = "ttwu"
        /\ \A d \in CPUs : d # c => ctx'[d] = ctx[d]
    BY <1>2, Types DEF wake_signal, At, Running
  <2> QED BY <1>2, <2>1 DEF wake_signal, Quiet, rqVars, taskVars
<1> QED BY <1>1, <1>2

\* try_invoke_on_locked_down_task() only takes and releases locks.
LEMMA InvokeQuiet ==
  ASSUME Inv, UNCHANGED scenario, NEW c \in CPUs,
         Invoke(c) \/ \E t \in scenario.waiters : try_invoke_on_locked_down_task(c, t)
  PROVE  Quiet(c)
<1>1. CASE invoke_locked(c)
  <2>1. Moved(c, "func")
    BY <1>1, GotoMoves DEF invoke_locked, Stages
  <2> QED BY <1>1, <2>1 DEF invoke_locked, Quiet, rqVars, taskVars, waitVars, Moved, At
<1>2. CASE invoke_sleeping(c)
  <2>1. Started(c, "run", NoTask) \/ Moved(c, "func")
    BY <1>2, ReturnStarts, GotoMoves DEF invoke_sleeping, Unlock, Stages
  <2> QED BY <1>2, <2>1
          DEF invoke_sleeping, Quiet, rqVars, taskVars, waitVars, Started, Moved, At
<1>3. CASE invoke_return(c)
  <2>1. Started(c, "run", NoTask)
    BY <1>3, ReturnStarts DEF invoke_return, Unlock
  <2> QED BY <1>3, <2>1 DEF invoke_return, Quiet, rqVars, taskVars, waitVars, Started, At
<1>4. ASSUME NEW t \in scenario.waiters, try_invoke_on_locked_down_task(c, t)
      PROVE  Quiet(c)
  <2> DEFINE stage == IF on_rq[t] # "no" THEN "locked" ELSE "recheck"
  <2>0. stage \in {"locked", "recheck"} /\ ctx' = [ctx EXCEPT ![c].p = t, ![c].at = stage]
    BY <1>4 DEF try_invoke_on_locked_down_task
  <2> HIDE DEF stage
  <2>1. ctx'[c].at = stage /\ \A d \in CPUs : d # c => ctx'[d] = ctx[d]
    BY <2>0, Types DEF Ctx
  <2>2. ctx[c].at = "run"
    BY <1>4 DEF try_invoke_on_locked_down_task, At
  <2> QED BY <1>4, <2>0, <2>1, <2>2
          DEF try_invoke_on_locked_down_task, Quiet, rqVars, taskVars, waitVars
<1> QED BY <1>1, <1>2, <1>3, <1>4 DEF Invoke

LEMMA WaitingIs ==
  \A d \in CPUs, t \in Tasks : t \in Waiting(d) <=>
        /\ in_iowait(t) /\ on_rq[t] = "no" /\ cpu[t] = d
        /\ ~(At(d, "switch") /\ ctx[d].p = t)
        /\ ~Leaving(t)
        /\ [p |-> t, sched_remote_wakeup |-> TRUE] \notin wake_list[d]
BY DEF Waiting

LEMMA LoadedIs ==
  \A t \in Tasks : t \in Loaded <=>
        contributes[t] /\ (on_rq[t] = "no" \/ \E c \in CPUs : At(c, "deactivate") /\ ctx[c].p = t)
BY DEF Loaded

LEMMA SleeperSets ==
  /\ Loaded \subseteq Tasks /\ Loaded' \subseteq Tasks
  /\ \A d \in CPUs : Waiting(d) \subseteq Tasks /\ Waiting(d)' \subseteq Tasks
BY DEF Loaded, Waiting

\* The task is counted in the step that decides to deactivate it.
LEMMA ScheduleLockCounts ==
  ASSUME Inv, Inv', Counted, UNCHANGED scenario, NEW c \in CPUs, schedule_lock(c)
  PROVE  Counted'
<1> DEFINE prev == curr[c]
           sleeps == At(c, "sched") /\ prev \in Tasks /\ state[prev] # "RUNNING"
           signalled == sleeps /\ sig[prev] /\ state[prev] = "INTERRUPTIBLE"
           load == sleeps /\ ~signalled /\ state[prev] = "UNINTERRUPTIBLE"
           stage == IF sleeps /\ ~signalled THEN "deactivate" ELSE "switch"
<1>1. /\ ctx[c].at \in {"sched", "preempt"}
      /\ UNCHANGED <<on_rq, on_cpu, cpu, loop, wake_list, nr_iowait>>
      /\ contributes' = IF sleeps /\ ~signalled THEN [contributes EXCEPT ![prev] = load]
                        ELSE contributes
      /\ nr_uninterruptible' =
           [nr_uninterruptible EXCEPT ![c] = (@ + (IF load THEN 1 ELSE 0)) % UINT]
      /\ ctx' = [ctx EXCEPT ![c].p = prev, ![c].at = stage]
  BY DEF schedule_lock, waitVars
<1>2. stage \in {"deactivate", "switch"} /\ load \in BOOLEAN
      /\ (sleeps => prev \in Tasks) /\ (load => stage = "deactivate")
      /\ (sleeps /\ ~signalled <=> stage = "deactivate")
  OBVIOUS
<1> HIDE DEF stage, load, sleeps, signalled
<1>3. /\ ctx'[c].at = stage /\ ctx'[c].p = prev /\ \A d \in CPUs : d # c => ctx'[d] = ctx[d]
  BY <1>1, Types DEF Ctx
<1>4. prev \in Tasks => on_rq[prev] = "queued" /\ cpu[prev] = c
  BY <1>1 DEF Inv, Stacks, OnStack, At
<1>5. prev \in Tasks => \A d \in CPUs : At(d, "deactivate") => ctx[d].p # prev
  BY <1>1, <1>4 DEF Inv, Stacks, OnStack, Targets, At
<1>6. prev \notin Loaded
  BY <1>4, <1>5, LoadedIs, SleeperSets
<1>7. Loaded' = IF load THEN Loaded \cup {prev} ELSE Loaded
  <2> SUFFICES ASSUME NEW t \in Tasks
               PROVE  t \in Loaded' <=> t \in Loaded \/ (load /\ t = prev)
    BY <1>2, SleeperSets
  <2>1. t \in Loaded' <=> contributes'[t] /\
          (on_rq'[t] = "no" \/ \E d \in CPUs : At(d, "deactivate")' /\ ctx'[d].p = t)
    BY DEF Loaded
  <2>2. CASE t = prev
    BY <1>1, <1>2, <1>3, <1>4, <1>5, <1>6, <2>1, <2>2, Types DEF At, Inv, TypeOK
  <2>3. CASE t # prev
    <3>1. contributes'[t] = contributes[t]
      BY <1>1, <2>3
    <3>2. \A d \in CPUs : At(d, "deactivate")' /\ ctx'[d].p = t
                             <=> At(d, "deactivate") /\ ctx[d].p = t
      BY <1>1, <1>3, <2>3 DEF At
    <3> QED BY <1>1, <2>1, <2>3, <3>1, <3>2, LoadedIs
  <2> QED BY <2>2, <2>3
<1>8. Balanced'
  <2> DEFINE k == IF load THEN 1 ELSE 0
  <2>1. k \in Int /\ Cardinality(Loaded') = Cardinality(Loaded) + k
    <3>1. IsFiniteSet(Loaded) /\ Cardinality(Loaded) \in Nat
      BY FiniteSleepers
    <3>2. Cardinality(Loaded \cup {prev}) = Cardinality(Loaded) + 1
      BY <1>6, <3>1, FS_AddElement
    <3> QED BY <1>7, <3>1, <3>2
  <2>2. /\ nr_uninterruptible'[c] = (nr_uninterruptible[c] + k) % UINT
        /\ \A d \in CPUs : d # c => nr_uninterruptible'[d] = nr_uninterruptible[d]
    BY <1>1 DEF Inv, TypeOK
  <2> HIDE DEF k
  <2> QED BY <2>1, <2>2, BalanceMoves
<1>9. ASSUME NEW d \in CPUs PROVE Waiting(d)' = Waiting(d)
  <2>1. \A t \in Tasks : Leaving(t)' <=> Leaving(t)
    BY <1>1, <1>2, <1>3 DEF Leaving
  <2>2. \A t \in Tasks : in_iowait(t)' <=> in_iowait(t)
    BY <1>1 DEF in_iowait
  <2>3. \A t \in Tasks : on_rq[t] = "no" =>
          (At(d, "switch")' /\ ctx'[d].p = t <=> At(d, "switch") /\ ctx[d].p = t)
    BY <1>1, <1>3, <1>4 DEF At
  <2> QED BY <1>1, <2>1, <2>2, <2>3 DEF Waiting
<1>10. Parked'
  BY <1>1, <1>2, <1>3 DEF Counted, Parked
<1> QED BY <1>1, <1>8, <1>9, <1>10 DEF Counted

\* The task was counted already.
LEMMA DeactivateTaskCounts ==
  ASSUME Inv, Inv', Counted, UNCHANGED scenario, NEW c \in CPUs, deactivate_task(c)
  PROVE  Counted'
<1> DEFINE prev == curr[c]
<1>1. Moved(c, "switch")
  BY GotoMoves DEF deactivate_task, Stages
<1>2. /\ ctx[c].at = "deactivate" /\ ctx[c].p = prev /\ prev \in Tasks
      /\ Changed(on_rq', on_rq, Tasks, prev, "no")
      /\ UNCHANGED <<on_cpu, cpu, contributes, loop, wake_list, nr_uninterruptible, nr_iowait>>
  BY <1>1, Types DEF deactivate_task, At, Changed, taskVars, waitVars, rqVars, Inv, Targets
<1>3. on_rq[prev] = "queued" /\ cpu[prev] = c
  BY <1>2 DEF Inv, Stacks, OnStack, At
<1>4. Loaded' = Loaded
  <2> SUFFICES ASSUME NEW t \in Tasks PROVE t \in Loaded' <=> t \in Loaded
    BY SleeperSets
  <2>1. t \in Loaded' <=> contributes'[t] /\
          (on_rq'[t] = "no" \/ \E d \in CPUs : At(d, "deactivate")' /\ ctx'[d].p = t)
    BY DEF Loaded
  <2>2. \A d \in CPUs : t # prev => (At(d, "deactivate")' /\ ctx'[d].p = t
                                       <=> At(d, "deactivate") /\ ctx[d].p = t)
    BY <1>1, <1>2 DEF At, Moved
  <2> QED BY <1>2, <2>1, <2>2, LoadedIs DEF Changed, At
<1>5. ASSUME NEW d \in CPUs PROVE Waiting(d)' = Waiting(d)
  <2>1. \A t \in Tasks : Leaving(t)' <=> Leaving(t)
    BY <1>1, <1>2 DEF Leaving, Moved
  <2>2. \A t \in Tasks : in_iowait(t)' <=> in_iowait(t)
    BY <1>2 DEF in_iowait
  <2>3. \A t \in Tasks : t # prev =>
          (At(d, "switch")' /\ ctx'[d].p = t <=> At(d, "switch") /\ ctx[d].p = t)
    BY <1>1, <1>2 DEF At, Moved
  <2>4. \A t \in Tasks : t \in Waiting(d)' <=> t \in Waiting(d)
    <3> SUFFICES ASSUME NEW t \in Tasks PROVE t \in Waiting(d)' <=> t \in Waiting(d)
      OBVIOUS
    <3>1. CASE t = prev
      <4>1. t \notin Waiting(d)
        BY <1>3, <3>1, WaitingIs
      <4>2. t \notin Waiting(d)'
        BY <1>1, <1>2, <1>3, <3>1 DEF Waiting, At, Moved
      <4> QED BY <4>1, <4>2
    <3>2. CASE t # prev
      BY <1>2, <2>1, <2>2, <2>3, <3>2 DEF Waiting, Changed
    <3> QED BY <3>1, <3>2
  <2> QED BY <2>4, SleeperSets
<1>6. Parked'
  BY <1>1, <1>2 DEF Counted, Parked, Moved
<1> QED BY <1>2, <1>4, <1>5, <1>6, SameCounts DEF Same

\* A sleeper that is off its queue but on its CPU is on no wake list of moved tasks.
LEMMA ContextSwitchCounts ==
  ASSUME Inv, Inv', Counted, UNCHANGED scenario, NEW c \in CPUs, context_switch(c)
  PROVE  Counted'
<1> DEFINE prev == ctx[c].p
           slept == prev \in Tasks /\ on_rq[prev] = "no"
           io == slept /\ in_iowait(prev)
<1>1. ctx[c].at = "switch" /\ prev = curr[c] /\ prev \in Tasks \cup {Idle}
  BY Types DEF context_switch, Inv, Targets, At
<1>2. PICK next \in Tasks \cup {Idle} :
        /\ next \in Tasks => next \in queued[c] /\ ~(next = prev /\ slept)
        /\ IF next = prev THEN on_cpu' = on_cpu /\ Return(c)
           ELSE prepare_task(next) /\ Goto(c, "finish")
  BY <1>1, Types DEF context_switch
<1>3. /\ UNCHANGED <<on_rq, cpu, contributes, loop, wake_list, nr_uninterruptible>>
      /\ nr_iowait' = [nr_iowait EXCEPT ![c] = @ + (IF io THEN 1 ELSE 0)]
  BY DEF context_switch, waitVars
<1>4. Started(c, "run", NoTask) \/ Moved(c, "finish")
  BY <1>2, ReturnStarts, GotoMoves DEF Stages
<1>5. \A t \in Tasks : on_cpu'[t] => on_cpu[t] \/ t = next
  BY <1>2 DEF prepare_task
<1>6. next \in Tasks => on_rq[next] = "queued"
  BY <1>1, <1>2 DEF Inv, Queues, QueuedOnce, At
<1>7. Parked'
  <2>1. ASSUME NEW d \in CPUs, ctx'[d].at \in {"queue", "activate"}
        PROVE  ~on_cpu'[ctx'[d].p]
    <3>1. d # c /\ ctx'[d] = ctx[d]
      BY <1>4, <2>1 DEF Moved, Started
    <3>2. ctx[d].p \in Tasks /\ on_rq[ctx[d].p] = "no" /\ ~on_cpu[ctx[d].p]
      BY <2>1, <3>1 DEF Inv, Targets, PiStages, Wakers, WakingStages, Counted, Parked
    <3> QED BY <1>5, <1>6, <3>1, <3>2
  <2>2. ASSUME NEW d \in CPUs, NEW w \in wake_list'[d], w.sched_remote_wakeup
        PROVE  ~on_cpu'[w.p]
    <3>1. w.p \in Tasks /\ on_rq[w.p] = "no" /\ ~on_cpu[w.p]
      BY <1>3, <2>2, Listed DEF Inv, Wakers, Counted, Parked
    <3> QED BY <1>5, <1>6, <3>1
  <2> QED BY <2>1, <2>2 DEF Parked
<1>8. Loaded' = Loaded
  BY <1>1, <1>3, <1>4 DEF Loaded, At, Moved, Started
<1>9. Balanced'
  <2>1. Total(nr_uninterruptible)' = Total(nr_uninterruptible')
    BY DEF Total, MapThenSumSet, MapThenFoldSet
  <2>2. Total(nr_uninterruptible') = Total(nr_uninterruptible)
    BY <1>3
  <2> QED BY <1>8, <2>1, <2>2 DEF Counted, Balanced
<1>10. ASSUME NEW d \in CPUs, NEW t \in Tasks
       PROVE  t \in Waiting(d)' <=> t \in Waiting(d) \/ (d = c /\ io /\ t = prev)
  <2>1. Leaving(t)' <=> Leaving(t)
    BY <1>1, <1>4 DEF Leaving, Moved, Started
  <2>2. in_iowait(t)' <=> in_iowait(t)
    BY <1>3 DEF in_iowait
  <2>3. t \in Waiting(d)' <=>
          /\ in_iowait(t) /\ on_rq[t] = "no" /\ cpu[t] = d
          /\ ~(At(d, "switch")' /\ ctx'[d].p = t)
          /\ ~Leaving(t)
          /\ [p |-> t, sched_remote_wakeup |-> TRUE] \notin wake_list[d]
    BY <1>3, <2>1, <2>2 DEF Waiting
  <2>4. CASE d # c
    <3>1. At(d, "switch")' /\ ctx'[d].p = t <=> At(d, "switch") /\ ctx[d].p = t
      BY <1>4, <2>4 DEF At, Moved, Started
    <3> QED BY <2>3, <2>4, <3>1, WaitingIs
  <2>5. CASE d = c
    <3>1. ~At(d, "switch")'
      BY <1>4, <2>5 DEF At, Moved, Started
    <3>2. CASE t = prev
      <4>1. cpu[t] = c /\ on_cpu[t]
        BY <1>1, <3>2 DEF Inv, Stacks, OnStack
      <4>2. ~Leaving(t)
        BY <4>1 DEF Leaving, Counted, Parked
      <4>3. [p |-> t, sched_remote_wakeup |-> TRUE] \notin wake_list[d]
        <5> DEFINE w == [p |-> t, sched_remote_wakeup |-> TRUE]
        <5>1. w.p = t /\ w.sched_remote_wakeup
          OBVIOUS
        <5> HIDE DEF w
        <5>2. w \notin wake_list[d]
          BY <4>1, <5>1 DEF Counted, Parked
        <5> QED BY <5>2 DEF w
      <4>4. t \notin Waiting(d)
        BY <1>1, <2>5, <3>2, WaitingIs DEF At
      <4> QED BY <2>3, <2>5, <3>1, <3>2, <4>1, <4>2, <4>3, <4>4
    <3>3. CASE t # prev
      BY <1>1, <2>3, <2>5, <3>1, <3>3, WaitingIs
    <3> QED BY <3>2, <3>3
  <2> QED BY <2>4, <2>5
<1>11. \A d \in CPUs : nr_iowait'[d] = Cardinality(Waiting(d)')
  <2> TAKE d \in CPUs
  <2>1. /\ nr_iowait[d] = Cardinality(Waiting(d)) /\ IsFiniteSet(Waiting(d))
        /\ Cardinality(Waiting(d)) \in Nat
    BY FiniteSleepers DEF Counted
  <2>2. CASE d = c /\ io
    <3>1. prev \in Tasks
      BY <2>2
    <3>2. prev \notin Waiting(d) /\ Waiting(d)' = Waiting(d) \cup {prev}
      <4>1. prev \notin Waiting(d)
        BY <1>1, <2>2, <3>1, WaitingIs DEF At
      <4>2. Waiting(d)' \subseteq Tasks /\ Waiting(d) \subseteq Tasks
        BY SleeperSets
      <4> QED BY <1>10, <2>2, <3>1, <4>1, <4>2
    <3>3. Cardinality(Waiting(d)') = Cardinality(Waiting(d)) + 1
      BY <2>1, <3>2, FS_AddElement
    <3>4. nr_iowait'[d] = nr_iowait[d] + 1
      BY <1>3, <2>2 DEF Inv, TypeOK
    <3> QED BY <2>1, <3>3, <3>4
  <2>3. CASE ~(d = c /\ io)
    <3>1. Waiting(d)' = Waiting(d)
      BY <1>10, <2>3, SleeperSets
    <3>2. nr_iowait'[d] = nr_iowait[d]
      BY <1>3, <2>3 DEF Inv, TypeOK
    <3> QED BY <2>1, <3>1, <3>2
  <2> QED BY <2>2, <2>3
<1> QED BY <1>7, <1>9, <1>11 DEF Counted

\* What a waker knows of its task from TASK_WAKING on.
LEMMA WakingAlone ==
  ASSUME Inv, NEW c \in CPUs, ctx[c].at \in WakingStages
  PROVE  /\ ctx[c].p \in Tasks /\ on_rq[ctx[c].p] = "no" /\ cpu[ctx[c].p] \in CPUs
         /\ \A d \in CPUs : \A w \in wake_list[d] : w.p # ctx[c].p
         /\ \A d \in CPUs : ctx[d].at \in PiStages /\ ctx[d].p = ctx[c].p => d = c
         /\ \A d \in CPUs : ~(At(d, "deactivate") /\ ctx[d].p = ctx[c].p)
<1>1. ctx[c].p \in Tasks /\ state[ctx[c].p] = "WAKING" /\ ctx[c].at \in PiStages
  BY DEF Inv, Targets, Wakers, WakingStages, PiStages
<1>2. on_rq[ctx[c].p] = "no" /\ \A d \in CPUs : \A w \in wake_list[d] : w.p # ctx[c].p
  BY <1>1 DEF Inv, Wakers
<1>3. \A d \in CPUs : ctx[d].at \in PiStages /\ ctx[d].p = ctx[c].p => d = c
  BY <1>1 DEF Inv, LocksHeld
<1>4. \A d \in CPUs : ~(At(d, "deactivate") /\ ctx[d].p = ctx[c].p)
  BY <1>1, <1>2 DEF Inv, Targets, Stacks, At
<1> QED BY <1>1, <1>2, <1>3, <1>4, Types

\* A task that is off its CPU is not being switched away from.
LEMMA OffTheSwitch ==
  ASSUME Inv, NEW t \in Tasks, ~on_cpu[t], NEW d \in CPUs
  PROVE  ~(At(d, "switch") /\ ctx[d].p = t)
BY DEF Inv, Targets, Stacks, OnStack, At

\* The other CPU does the wake-up: the task has not moved.
LEMMA TtwuOnCpuCounts ==
  ASSUME Inv, Inv', Counted, UNCHANGED scenario, NEW c \in CPUs, ttwu_on_cpu(c)
  PROVE  Counted'
<1> DEFINE p == ctx[c].p
           entry == [p |-> p, sched_remote_wakeup |-> FALSE]
<1>1. p \in Tasks /\ ctx[c].at = "on_cpu"
  BY DEF ttwu_on_cpu, Inv, Targets, At, PiStages
<1>2. Started(c, "run", NoTask) \/ Moved(c, "wait")
  BY ReturnStarts, GotoMoves DEF ttwu_on_cpu, Unlock, Stages
<1>3. wake_list' \in {wake_list, [wake_list EXCEPT ![cpu[p]] = @ \cup {entry}]}
  BY DEF ttwu_on_cpu, __ttwu_queue_wakelist
<1>4. ~entry.sched_remote_wakeup
  OBVIOUS
<1> HIDE DEF entry
<1> DEFINE more == [wake_list EXCEPT ![cpu[p]] = @ \cup {entry}]
<1>a. \A d \in CPUs : more[d] = IF d = cpu[p] THEN wake_list[d] \cup {entry} ELSE wake_list[d]
  BY <1>1, Types
<1> HIDE DEF more
<1>b. \A d \in CPUs : wake_list'[d] = wake_list[d] \/ wake_list'[d] = more[d]
  BY <1>3 DEF more
<1>5. \A d \in CPUs : \A w : w \in wake_list'[d] => w \in wake_list[d] \/ w = entry
  BY <1>a, <1>b
<1>6. \A d \in CPUs : \A w : w # entry => (w \in wake_list'[d] <=> w \in wake_list[d])
  BY <1>a, <1>b
<1>7. UNCHANGED <<on_rq, on_cpu, cpu, contributes, loop, nr_uninterruptible, nr_iowait>>
  BY DEF ttwu_on_cpu, taskVars, waitVars
<1>8. Parked'
  BY <1>1, <1>2, <1>4, <1>5, <1>7 DEF Counted, Parked, Moved, Started
<1>9. Loaded' = Loaded
  BY <1>1, <1>2, <1>7 DEF Loaded, At, Moved, Started
<1>10. ASSUME NEW d \in CPUs, NEW t \in Tasks PROVE t \in Waiting(d)' <=> t \in Waiting(d)
  <2> DEFINE w == [p |-> t, sched_remote_wakeup |-> TRUE]
  <2>1. w.sched_remote_wakeup
    OBVIOUS
  <2> HIDE DEF w
  <2>2. w \in wake_list'[d] <=> w \in wake_list[d]
    BY <1>4, <1>6, <2>1
  <2>3. Leaving(t)' <=> Leaving(t)
    BY <1>1, <1>2 DEF Leaving, Moved, Started
  <2>4. At(d, "switch")' /\ ctx'[d].p = t <=> At(d, "switch") /\ ctx[d].p = t
    BY <1>1, <1>2 DEF At, Moved, Started
  <2>5. in_iowait(t)' <=> in_iowait(t)
    BY <1>7 DEF in_iowait
  <2> QED BY <1>7, <2>2, <2>3, <2>4, <2>5 DEF Waiting, w
<1>11. \A d \in CPUs : Waiting(d)' = Waiting(d)
  BY <1>10, SleeperSets
<1> QED BY <1>7, <1>8, <1>9, <1>11, SameCounts DEF Same

\* A sleeper that gets another CPU leaves the count of the old one.
LEMMA TtwuWaitCounts ==
  ASSUME Inv, Inv', Counted, UNCHANGED scenario, NEW c \in CPUs, ttwu_wait(c)
  PROVE  Counted'
<1>1. PICK p \in Tasks :
        p = ctx[c].p /\ ctx[c].at = "wait" /\ cpu[p] \in CPUs /\ ~on_cpu[p] /\ on_rq[p] = "no"
  BY WakingAlone DEF ttwu_wait, At, WakingStages
<1>2. PICK d \in CPUs :
        /\ nr_iowait' = [nr_iowait EXCEPT
                           ![cpu[p]] = @ - (IF d # cpu[p] /\ in_iowait(p) THEN 1 ELSE 0)]
        /\ cpu' = [cpu EXCEPT ![p] = d]
        /\ ctx' = [ctx EXCEPT ![c].at = "queue", ![c].mig = (d # cpu[p])]
  BY <1>1 DEF ttwu_wait, select_task_rq
<1>3. UNCHANGED <<on_rq, on_cpu, contributes, loop, wake_list, nr_uninterruptible>>
  BY DEF ttwu_wait, waitVars
<1> DEFINE mig == d # cpu[p]
           old == cpu[p]
<1>4. /\ ctx'[c].at = "queue" /\ ctx'[c].p = p /\ (ctx'[c].mig <=> mig)
      /\ \A e \in CPUs : e # c => ctx'[e] = ctx[e]
  <2>1. mig \in BOOLEAN
    OBVIOUS
  <2> HIDE DEF mig
  <2>2. ctx' = [ctx EXCEPT ![c].at = "queue", ![c].mig = mig]
    BY <1>2 DEF mig
  <2> QED BY <1>1, <2>1, <2>2, Types DEF Ctx
<1>5. cpu'[p] = d /\ \A t \in Tasks : t # p => cpu'[t] = cpu[t]
  BY <1>1, <1>2, Types
<1>6. Parked'
  BY <1>1, <1>3, <1>4 DEF Counted, Parked
<1>7. Loaded' = Loaded
  BY <1>1, <1>3, <1>4 DEF Loaded, At
<1>8. Balanced'
  <2>1. Total(nr_uninterruptible)' = Total(nr_uninterruptible')
    BY DEF Total, MapThenSumSet, MapThenFoldSet
  <2>2. Total(nr_uninterruptible') = Total(nr_uninterruptible)
    BY <1>3
  <2> QED BY <1>7, <2>1, <2>2 DEF Counted, Balanced
<1>9. \A t \in Tasks : in_iowait(t)' <=> in_iowait(t)
  BY <1>3 DEF in_iowait
<1>10. \A e \in CPUs, t \in Tasks :
         At(e, "switch")' /\ ctx'[e].p = t <=> At(e, "switch") /\ ctx[e].p = t
  BY <1>1, <1>4 DEF At
<1>11. Leaving(p)' <=> mig
  <2>1. \A e \in CPUs : ctx[e].at \in {"queue", "activate"} => ctx[e].p # p
    <3>1. \A e \in CPUs : ctx[e].at \in PiStages /\ ctx[e].p = p => e = c
      BY <1>1, WakingAlone DEF WakingStages
    <3> QED BY <1>1, <3>1 DEF PiStages
  <2> QED BY <1>4, <2>1 DEF Leaving
<1>12. \A t \in Tasks : t # p => (Leaving(t)' <=> Leaving(t))
  BY <1>1, <1>4 DEF Leaving
<1>13. ~Leaving(p)
  <2>1. \A e \in CPUs : ctx[e].at \in PiStages /\ ctx[e].p = p => e = c
    BY <1>1, WakingAlone DEF WakingStages
  <2> QED BY <1>1, <2>1 DEF Leaving, PiStages
<1>14. \A e \in CPUs : [p |-> p, sched_remote_wakeup |-> TRUE] \notin wake_list[e]
  <2> DEFINE w == [p |-> p, sched_remote_wakeup |-> TRUE]
  <2>1. w.p = p
    OBVIOUS
  <2> HIDE DEF w
  <2>2. \A e \in CPUs : w \notin wake_list[e]
    BY <1>1, <2>1, WakingAlone DEF WakingStages
  <2> QED BY <2>2 DEF w
<1>15. \A e \in CPUs : ~(At(e, "switch") /\ ctx[e].p = p)
  BY <1>1, OffTheSwitch
<1>16. \A e \in CPUs : p \in Waiting(e) <=> in_iowait(p) /\ e = old
  BY <1>1, <1>13, <1>14, <1>15, WaitingIs
<1>17. \A e \in CPUs : p \in Waiting(e)' <=> in_iowait(p) /\ e = old /\ ~mig
  <2> TAKE e \in CPUs
  <2>1. p \in Waiting(e)' <=> in_iowait(p) /\ d = e /\ ~mig
    BY <1>1, <1>3, <1>5, <1>9, <1>10, <1>11, <1>14, <1>15 DEF Waiting
  <2> QED BY <2>1
<1>18. \A e \in CPUs, t \in Tasks : t # p => (t \in Waiting(e)' <=> t \in Waiting(e))
  BY <1>3, <1>5, <1>9, <1>10, <1>12 DEF Waiting
<1>19. \A e \in CPUs : nr_iowait'[e] = Cardinality(Waiting(e)')
  <2> TAKE e \in CPUs
  <2>1. /\ nr_iowait[e] = Cardinality(Waiting(e)) /\ IsFiniteSet(Waiting(e))
        /\ Cardinality(Waiting(e)) \in Nat /\ nr_iowait \in [CPUs -> Int]
    BY FiniteSleepers DEF Counted, Inv, TypeOK
  <2>2. CASE e = old /\ mig /\ in_iowait(p)
    <3>1. p \in Waiting(e) /\ Waiting(e)' = Waiting(e) \ {p}
      BY <1>1, <1>16, <1>17, <1>18, <2>2, SleeperSets
    <3>2. Cardinality(Waiting(e)') = Cardinality(Waiting(e)) - 1
      BY <2>1, <3>1, FS_RemoveElement
    <3>3. nr_iowait'[e] = nr_iowait[e] - 1
      BY <1>1, <1>2, <2>1, <2>2
    <3> QED BY <2>1, <3>2, <3>3
  <2>3. CASE ~(e = old /\ mig /\ in_iowait(p))
    <3>1. Waiting(e)' = Waiting(e)
      <4>1. p \in Waiting(e)' <=> p \in Waiting(e)
        BY <1>16, <1>17, <2>3
      <4> QED BY <1>18, <4>1, SleeperSets
    <3>2. nr_iowait'[e] = nr_iowait[e]
      BY <1>1, <1>2, <2>1, <2>3
    <3> QED BY <2>1, <3>1, <3>2
  <2> QED BY <2>2, <2>3
<1> QED BY <1>6, <1>8, <1>19 DEF Counted

\* Whether the task moved goes with it onto the wake list.
LEMMA TtwuQueueCounts ==
  ASSUME Inv, Inv', Counted, UNCHANGED scenario, NEW c \in CPUs, ttwu_queue(c)
  PROVE  Counted'
<1>1. PICK p \in Tasks :
        p = ctx[c].p /\ ctx[c].at = "queue" /\ cpu[p] \in CPUs /\ on_rq[p] = "no"
  BY WakingAlone DEF ttwu_queue, At, WakingStages
<1> DEFINE away == ttwu_queue_wakelist(c, cpu[p])
           entry == [p |-> p, sched_remote_wakeup |-> ctx[c].mig]
<1>2. ~on_cpu[p]
  BY <1>1 DEF Counted, Parked
<1>3. UNCHANGED <<on_rq, on_cpu, cpu, contributes, loop, nr_uninterruptible, nr_iowait>>
  BY DEF ttwu_queue, taskVars, waitVars
<1>4. CASE ~away
  <2>1. Moved(c, "activate") /\ wake_list' = wake_list
    BY <1>1, <1>4, GotoMoves DEF ttwu_queue, Stages
  <2>2. Parked'
    BY <1>1, <1>3, <2>1 DEF Counted, Parked, Moved
  <2>3. Loaded' = Loaded
    BY <1>1, <1>3, <2>1 DEF Loaded, At, Moved
  <2>4. \A t \in Tasks : Leaving(t)' <=> Leaving(t)
    BY <1>1, <2>1 DEF Leaving, Moved
  <2>5. \A e \in CPUs, t \in Tasks :
          At(e, "switch")' /\ ctx'[e].p = t <=> At(e, "switch") /\ ctx[e].p = t
    BY <1>1, <2>1 DEF At, Moved
  <2>6. \A t \in Tasks : in_iowait(t)' <=> in_iowait(t)
    BY <1>3 DEF in_iowait
  <2>7. \A e \in CPUs : Waiting(e)' = Waiting(e)
    BY <1>3, <2>1, <2>4, <2>5, <2>6 DEF Waiting
  <2> QED BY <1>3, <2>2, <2>3, <2>7, SameCounts DEF Same
<1>5. CASE away
  <2>1. wake_list' = [wake_list EXCEPT ![cpu[p]] = @ \cup {entry}] /\ Return(c)
    BY <1>1, <1>5 DEF ttwu_queue, __ttwu_queue_wakelist, Unlock
  <2>2. Started(c, "run", NoTask)
    BY <2>1, ReturnStarts
  <2>3. entry.p = p /\ (entry.sched_remote_wakeup <=> ctx[c].mig)
        /\ (entry = [p |-> p, sched_remote_wakeup |-> TRUE] <=> ctx[c].mig)
    <3>1. ctx[c].mig \in BOOLEAN
      BY Types DEF Ctx
    <3> QED BY <1>1, <3>1
  <2> HIDE DEF entry
  <2>4. \A d \in CPUs : \A w :
          w \in wake_list'[d] <=> w \in wake_list[d] \/ (w = entry /\ d = cpu[p])
    BY <1>1, <2>1, Types
  <2>5. Parked'
    BY <1>1, <1>2, <1>3, <2>2, <2>3, <2>4 DEF Counted, Parked, Started
  <2>6. Loaded' = Loaded
    BY <1>1, <1>3, <2>2 DEF Loaded, At, Started
  <2>7. \A t \in Tasks : t # p => (Leaving(t)' <=> Leaving(t))
    BY <1>1, <2>2 DEF Leaving, Started
  <2>8. (Leaving(p) <=> ctx[c].mig) /\ ~Leaving(p)'
    <3>1. \A e \in CPUs : ctx[e].at \in PiStages /\ ctx[e].p = p => e = c
      BY <1>1, WakingAlone DEF WakingStages
    <3> QED BY <1>1, <2>2, <3>1 DEF Leaving, PiStages, Started
  <2>9. \A e \in CPUs, t \in Tasks :
          At(e, "switch")' /\ ctx'[e].p = t <=> At(e, "switch") /\ ctx[e].p = t
    BY <1>1, <2>2 DEF At, Started
  <2>10. \A t \in Tasks : in_iowait(t)' <=> in_iowait(t)
    BY <1>3 DEF in_iowait
  <2>11. \A e \in CPUs, t \in Tasks : t # p =>
           ([p |-> t, sched_remote_wakeup |-> TRUE] \in wake_list'[e]
              <=> [p |-> t, sched_remote_wakeup |-> TRUE] \in wake_list[e])
    <3> TAKE e \in CPUs, t \in Tasks
    <3> DEFINE w == [p |-> t, sched_remote_wakeup |-> TRUE]
    <3>1. w.p = t
      OBVIOUS
    <3> HIDE DEF w
    <3>2. t # p => (w \in wake_list'[e] <=> w \in wake_list[e])
      BY <1>1, <2>3, <2>4, <3>1
    <3> QED BY <3>2 DEF w
  <2>12. \A e \in CPUs :
           /\ [p |-> p, sched_remote_wakeup |-> TRUE] \notin wake_list[e]
           /\ [p |-> p, sched_remote_wakeup |-> TRUE] \in wake_list'[e]
                <=> ctx[c].mig /\ e = cpu[p]
    <3> DEFINE w == [p |-> p, sched_remote_wakeup |-> TRUE]
    <3>1. w.p = p /\ (entry = w <=> ctx[c].mig)
      BY <2>3
    <3> HIDE DEF w
    <3>2. \A e \in CPUs : w \notin wake_list[e]
      BY <1>1, <3>1, WakingAlone DEF WakingStages
    <3>3. \A e \in CPUs : w \in wake_list'[e] <=> ctx[c].mig /\ e = cpu[p]
      BY <2>4, <3>1, <3>2
    <3> QED BY <3>2, <3>3 DEF w
  <2>13. ASSUME NEW e \in CPUs, NEW t \in Tasks PROVE t \in Waiting(e)' <=> t \in Waiting(e)
    <3>1. CASE t = p
      <4>1. p \in Waiting(e) <=> /\ in_iowait(p) /\ cpu[p] = e /\ ~ctx[c].mig
                                 /\ ~(At(e, "switch") /\ ctx[e].p = p)
        BY <1>1, <2>8, <2>12, WaitingIs
      <4>2. p \in Waiting(e)' <=> /\ in_iowait(p) /\ cpu[p] = e /\ ~ctx[c].mig
                                  /\ ~(At(e, "switch") /\ ctx[e].p = p)
        BY <1>1, <1>3, <2>8, <2>9, <2>10, <2>12 DEF Waiting
      <4> QED BY <3>1, <4>1, <4>2
    <3>2. CASE t # p
      BY <1>3, <2>7, <2>9, <2>10, <2>11, <3>2 DEF Waiting
    <3> QED BY <3>1, <3>2
  <2>14. \A e \in CPUs : Waiting(e)' = Waiting(e)
    BY <2>13, SleeperSets
  <2> QED BY <1>3, <2>5, <2>6, <2>14, SameCounts DEF Same
<1> QED BY <1>4, <1>5

LEMMA TakeAway ==
  ASSUME NEW S, IsFiniteSet(S), NEW C, C \subseteq S
  PROVE  /\ Cardinality(S) \in Nat /\ Cardinality(C) \in Nat
         /\ Cardinality(S \ C) = Cardinality(S) - Cardinality(C)
<1>1. IsFiniteSet(C) /\ S \cap C = C
  BY FS_Subset
<1>2. Cardinality(S \ C) = Cardinality(S) - Cardinality(S \cap C)
  BY FS_Difference
<1> QED BY <1>1, <1>2, FS_CardinalityType

\* ttwu_do_activate() uncounts the sleepers it queues: all of them from the load, and from
\* the waiters of the queue those that slept there.
LEMMA ActivateCounts ==
  ASSUME Inv, Inv', Counted, NEW d \in CPUs, NEW ps \in SUBSET Tasks, NEW moved,
         UNCHANGED <<scenario, cpu, contributes, loop>>,
         ttwu_do_activate(d, ps, moved),
         \A p \in ps : on_rq[p] = "no" /\ cpu[p] = d,
         \A p \in ps, e \in CPUs : ~(At(e, "deactivate") /\ ctx[e].p = p),
         \A p \in ps, e \in CPUs : ~(At(e, "switch") /\ ctx[e].p = p),
         \A p \in ps : p \in moved <=>
           Leaving(p) \/ [p |-> p, sched_remote_wakeup |-> TRUE] \in wake_list[d],
         \A t \in Tasks : t \notin ps => (Leaving(t)' <=> Leaving(t)),
         \A t \in Tasks, e \in CPUs : t \notin ps =>
           ([p |-> t, sched_remote_wakeup |-> TRUE] \in wake_list'[e]
              <=> [p |-> t, sched_remote_wakeup |-> TRUE] \in wake_list[e]),
         \A t \in Tasks, e \in CPUs :
           /\ At(e, "deactivate")' /\ ctx'[e].p = t <=> At(e, "deactivate") /\ ctx[e].p = t
           /\ At(e, "switch")' /\ ctx'[e].p = t <=> At(e, "switch") /\ ctx[e].p = t
  PROVE  Balanced' /\ \A e \in CPUs : nr_iowait'[e] = Cardinality(Waiting(e)')
<1> DEFINE C == {p \in ps : contributes[p]}
           D == {p \in ps \ moved : in_iowait(p)}
<1>1. /\ nr_uninterruptible' = [nr_uninterruptible EXCEPT ![d] = (@ - Cardinality(C)) % UINT]
      /\ nr_iowait' = [nr_iowait EXCEPT ![d] = @ - Cardinality(D)]
      /\ \A t \in Tasks : on_rq'[t] = IF t \in ps THEN "queued" ELSE on_rq[t]
  BY DEF ttwu_do_activate
<1>2. \A t \in Tasks : in_iowait(t)' <=> in_iowait(t)
  BY DEF in_iowait
<1>3. \A t \in Tasks : t \in Loaded' <=> t \in Loaded /\ t \notin ps
  <2> TAKE t \in Tasks
  <2>1. t \in Loaded' <=> contributes'[t] /\
          (on_rq'[t] = "no" \/ \E e \in CPUs : At(e, "deactivate")' /\ ctx'[e].p = t)
    BY DEF Loaded
  <2>2. CASE t \in ps
    BY <1>1, <2>1, <2>2, LoadedIs
  <2>3. CASE t \notin ps
    BY <1>1, <2>1, <2>3, LoadedIs
  <2> QED BY <2>2, <2>3
<1>4. C \subseteq Loaded /\ Loaded' = Loaded \ C
  <2>1. \A t \in Loaded : t \in ps <=> t \in C
    BY LoadedIs, SleeperSets
  <2>2. C \subseteq Loaded
    BY LoadedIs
  <2> HIDE DEF C
  <2> QED BY <1>3, <2>1, <2>2, SleeperSets
<1>5. Balanced'
  <2> DEFINE k == -Cardinality(C)
  <2>1. k \in Int /\ Cardinality(Loaded') = Cardinality(Loaded) + k /\ Cardinality(C) \in Nat
    <3> HIDE DEF C
    <3> QED BY <1>4, TakeAway, FiniteSleepers
  <2>2. /\ nr_uninterruptible'[d] = (nr_uninterruptible[d] + k) % UINT
        /\ \A e \in CPUs : e # d => nr_uninterruptible'[e] = nr_uninterruptible[e]
    <3>1. nr_uninterruptible[d] - Cardinality(C) = nr_uninterruptible[d] + k
      <4> HIDE DEF C
      <4>1. nr_uninterruptible[d] \in Int
        BY UintAssumption DEF Inv, TypeOK
      <4> QED BY <2>1, <4>1
    <3> HIDE DEF k
    <3> QED BY <1>1, <3>1 DEF Inv, TypeOK
  <2> HIDE DEF k, C
  <2> QED BY <2>1, <2>2, BalanceMoves
<1>6. D \subseteq Waiting(d)
  <2>1. \A p \in D : p \in Tasks /\ p \in ps /\ p \notin moved /\ in_iowait(p)
    OBVIOUS
  <2> HIDE DEF C, D
  <2>2. \A p \in D : p \in Waiting(d)
    BY <2>1, WaitingIs
  <2> QED BY <2>2
<1>7. \A t \in ps : t \in Waiting(d) => t \in D
  BY WaitingIs
<1>8. \A t \in ps, e \in CPUs : t \notin Waiting(e)' /\ (e # d => t \notin Waiting(e))
  <2>1. \A t \in ps, e \in CPUs : t \notin Waiting(e)'
    BY <1>1 DEF Waiting
  <2>2. \A t \in ps, e \in CPUs : e # d => t \notin Waiting(e)
    <3> TAKE t \in ps, e \in CPUs
    <3>1. t \in Tasks /\ cpu[t] = d
      OBVIOUS
    <3> QED BY <3>1, WaitingIs
  <2> QED BY <2>1, <2>2
<1>9. \A t \in Tasks, e \in CPUs : t \notin ps => (t \in Waiting(e)' <=> t \in Waiting(e))
  BY <1>1, <1>2 DEF Waiting
<1>10. \A e \in CPUs : nr_iowait'[e] = Cardinality(Waiting(e)')
  <2> TAKE e \in CPUs
  <2>0. D \subseteq ps
    OBVIOUS
  <2> HIDE DEF C, D
  <2>1. /\ nr_iowait[e] = Cardinality(Waiting(e)) /\ IsFiniteSet(Waiting(e))
        /\ nr_iowait \in [CPUs -> Int]
    BY FiniteSleepers DEF Counted, Inv, TypeOK
  <2>2. CASE e = d
    <3>1. Waiting(e)' = Waiting(e) \ D
      BY <1>6, <1>7, <1>8, <1>9, <2>0, <2>2, SleeperSets
    <3>2. Cardinality(Waiting(e)') = Cardinality(Waiting(e)) - Cardinality(D)
      BY <1>6, <2>1, <2>2, <3>1, TakeAway
    <3> QED BY <1>1, <2>1, <2>2, <3>2
  <2>3. CASE e # d
    <3>a. \A t \in Tasks : t \in Waiting(e)' <=> t \in Waiting(e)
      BY <1>8, <1>9, <2>3
    <3>1. Waiting(e)' = Waiting(e)
      BY <3>a, SleeperSets
    <3> QED BY <1>1, <2>1, <2>3, <3>1
  <2> QED BY <2>2, <2>3
<1> QED BY <1>5, <1>10

\* The waker's own queueing of its task.
LEMMA TtwuActivateCounts ==
  ASSUME Inv, Inv', Counted, UNCHANGED scenario, NEW c \in CPUs, ttwu_activate(c)
  PROVE  Counted'
<1>1. PICK p \in Tasks :
        p = ctx[c].p /\ ctx[c].at = "activate" /\ cpu[p] \in CPUs /\ on_rq[p] = "no"
  BY WakingAlone DEF ttwu_activate, At, WakingStages
<1>2. ~on_cpu[p]
  BY <1>1 DEF Counted, Parked
<1>3. Started(c, "run", NoTask)
  BY ReturnStarts DEF ttwu_activate, Unlock
<1>4. UNCHANGED <<on_cpu, cpu, contributes, loop, wake_list>>
  BY DEF ttwu_activate, waitVars
<1>5. Parked'
  BY <1>1, <1>3, <1>4 DEF Counted, Parked, Started
<1> DEFINE moved == IF ctx[c].mig THEN {p} ELSE {}
<1>6. ttwu_do_activate(cpu[p], {p}, moved)
  BY <1>1 DEF ttwu_activate
<1>7. /\ \A e \in CPUs : [p |-> p, sched_remote_wakeup |-> TRUE] \notin wake_list[e]
      /\ \A e \in CPUs : ~(At(e, "deactivate") /\ ctx[e].p = p)
      /\ \A e \in CPUs : ctx[e].at \in PiStages /\ ctx[e].p = p => e = c
  <2> DEFINE w == [p |-> p, sched_remote_wakeup |-> TRUE]
  <2>1. w.p = p
    OBVIOUS
  <2> HIDE DEF w
  <2>2. \A e \in CPUs : w \notin wake_list[e]
    BY <1>1, <2>1, WakingAlone DEF WakingStages
  <2>3. /\ \A e \in CPUs : ~(At(e, "deactivate") /\ ctx[e].p = p)
        /\ \A e \in CPUs : ctx[e].at \in PiStages /\ ctx[e].p = p => e = c
    BY <1>1, WakingAlone DEF WakingStages
  <2> QED BY <2>2, <2>3 DEF w
<1>8. Leaving(p) <=> ctx[c].mig
  BY <1>1, <1>7 DEF Leaving, PiStages
<1>9. \A e \in CPUs : ~(At(e, "switch") /\ ctx[e].p = p)
  BY <1>1, <1>2, OffTheSwitch
<1>10. \A t \in Tasks : t # p => (Leaving(t)' <=> Leaving(t))
  BY <1>1, <1>3 DEF Leaving, Started
<1>11. \A t \in Tasks, e \in CPUs :
         /\ At(e, "deactivate")' /\ ctx'[e].p = t <=> At(e, "deactivate") /\ ctx[e].p = t
         /\ At(e, "switch")' /\ ctx'[e].p = t <=> At(e, "switch") /\ ctx[e].p = t
  BY <1>1, <1>3 DEF At, Started
<1>12. Balanced' /\ \A e \in CPUs : nr_iowait'[e] = Cardinality(Waiting(e)')
  <2> DEFINE ps == {p}
  <2>1. ps \in SUBSET Tasks /\ \A q \in ps : q = p
    OBVIOUS
  <2>2. \A q \in ps : q \in moved <=>
          Leaving(q) \/ [p |-> q, sched_remote_wakeup |-> TRUE] \in wake_list[cpu[p]]
    BY <1>1, <1>7, <1>8
  <2>3. \A t : t \notin ps => t # p
    OBVIOUS
  <2>4. ttwu_do_activate(cpu[p], ps, moved)
    BY <1>6
  <2> HIDE DEF ps, moved
  <2> QED BY <1>1, <1>4, <1>7, <1>9, <1>10, <1>11, <2>1, <2>2, <2>3, <2>4, ActivateCounts
<1> QED BY <1>5, <1>12 DEF Counted

\* Each entry says whether its task came from another queue.
LEMMA SchedTtwuPendingCounts ==
  ASSUME Inv, Inv', Counted, UNCHANGED scenario, NEW c \in CPUs, sched_ttwu_pending(c)
  PROVE  Counted'
<1> DEFINE ps == {w.p : w \in wake_list[c]}
           moved == {w.p : w \in {v \in wake_list[c] : v.sched_remote_wakeup}}
<1>1. /\ At(c, "run") /\ ttwu_do_activate(c, ps, moved)
      /\ wake_list' = [wake_list EXCEPT ![c] = {}]
      /\ UNCHANGED <<on_cpu, cpu, contributes, loop, ctx>>
  BY DEF sched_ttwu_pending, waitVars
<1>2. ps \in SUBSET Tasks
  BY Listed
<1>3. \A q \in ps : /\ on_rq[q] = "no" /\ cpu[q] = c /\ state[q] = "WAKING"
                    /\ \E w \in wake_list[c] : w.p = q
  BY <1>2 DEF Inv, Wakers
<1>4. \A q \in ps, e \in CPUs : ~(At(e, "deactivate") /\ ctx[e].p = q)
  BY <1>2, <1>3 DEF Inv, Targets, Stacks, At
<1>5. \A q \in ps, e \in CPUs : ~(At(e, "switch") /\ ctx[e].p = q)
  <2> TAKE q \in ps, e \in CPUs
  <2>1. At(e, "switch") /\ ctx[e].p = q => curr[e] = q /\ on_cpu[q] /\ cpu[q] = e
    BY <1>2 DEF Inv, Targets, Stacks, OnStack, At
  <2> QED BY <1>1, <1>3, <2>1 DEF At
<1>6. \A q \in ps : ~Leaving(q)
  BY <1>3 DEF Leaving, Inv, Wakers, WakingStages
<1>7. \A q \in ps : q \in moved <=> [p |-> q, sched_remote_wakeup |-> TRUE] \in wake_list[c]
  <2> TAKE q \in ps
  <2>1. ASSUME NEW w \in wake_list[c], w.sched_remote_wakeup, w.p = q
        PROVE  w = [p |-> q, sched_remote_wakeup |-> TRUE]
    BY <2>1, Types
  <2>2. q \in moved => [p |-> q, sched_remote_wakeup |-> TRUE] \in wake_list[c]
    BY <2>1
  <2> DEFINE w == [p |-> q, sched_remote_wakeup |-> TRUE]
  <2>3. w.p = q /\ w.sched_remote_wakeup
    OBVIOUS
  <2> HIDE DEF w
  <2>4. w \in wake_list[c] => q \in moved
    BY <2>3
  <2> QED BY <2>2, <2>4 DEF w
<1>8. \A t \in Tasks, e \in CPUs : t \notin ps =>
        ([p |-> t, sched_remote_wakeup |-> TRUE] \in wake_list'[e]
           <=> [p |-> t, sched_remote_wakeup |-> TRUE] \in wake_list[e])
  <2> TAKE t \in Tasks, e \in CPUs
  <2> DEFINE w == [p |-> t, sched_remote_wakeup |-> TRUE]
  <2>1. w.p = t
    OBVIOUS
  <2> HIDE DEF w
  <2>2. t \notin ps => w \notin wake_list[c]
    BY <2>1
  <2> HIDE DEF ps
  <2>3. t \notin ps => (w \in wake_list'[e] <=> w \in wake_list[e])
    BY <1>1, <2>2, Types
  <2> QED BY <2>3 DEF w
<1>9. Parked'
  <2>1. \A e \in CPUs : wake_list'[e] \subseteq wake_list[e]
    BY <1>1, Types
  <2> QED BY <1>1, <2>1 DEF Counted, Parked
<1>10. \A t \in Tasks : Leaving(t)' <=> Leaving(t)
  BY <1>1 DEF Leaving
<1>11. \A t \in Tasks, e \in CPUs :
         /\ At(e, "deactivate")' /\ ctx'[e].p = t <=> At(e, "deactivate") /\ ctx[e].p = t
         /\ At(e, "switch")' /\ ctx'[e].p = t <=> At(e, "switch") /\ ctx[e].p = t
  BY <1>1 DEF At
<1>12. Balanced' /\ \A e \in CPUs : nr_iowait'[e] = Cardinality(Waiting(e)')
  <2> HIDE DEF ps, moved
  <2> QED BY <1>1, <1>2, <1>3, <1>4, <1>5, <1>6, <1>7, <1>8, <1>10, <1>11, ActivateCounts
<1> QED BY <1>9, <1>12 DEF Counted

\* The load balancer moves no sleeper.
LEMMA BalancerCounts ==
  ASSUME Inv, Inv', Counted, UNCHANGED scenario, NEW c \in CPUs,
         attach_task(c) \/ \E p \in scenario.waiters : detach_task(c, p)
  PROVE  Counted'
<1>1. PICK p \in Tasks, onto \in {"queued", "migrating"} :
        /\ on_rq[p] # "no" /\ \A e \in CPUs : ~(At(e, "deactivate") /\ ctx[e].p = p)
        /\ Changed(on_rq', on_rq, Tasks, p, onto)
        /\ \A t \in Tasks : t # p => cpu'[t] = cpu[t]
        /\ UNCHANGED <<on_cpu, contributes, loop, wake_list, nr_uninterruptible, nr_iowait>>
        /\ ctx[c].at \in {"run", "detached"} /\ ctx'[c].at \in {"run", "detached"}
        /\ \A e \in CPUs : e # c => ctx'[e] = ctx[e]
  <2>1. CASE attach_task(c)
    <3>1. ctx[c].p \in Tasks /\ on_rq[ctx[c].p] = "migrating" /\ ctx[c].at = "detached"
      BY <2>1 DEF attach_task, At, Inv, Targets, Queues
    <3>2. \A e \in CPUs : ~(At(e, "deactivate") /\ ctx[e].p = ctx[c].p)
      BY <3>1 DEF Inv, Targets, Stacks, At
    <3>3. Started(c, "run", NoTask)
      BY <2>1, ReturnStarts DEF attach_task
    <3>4. Changed(on_rq', on_rq, Tasks, ctx[c].p, "queued")
      BY <2>1, <3>1, Types DEF attach_task, Changed
    <3> QED BY <2>1, <3>1, <3>2, <3>3, <3>4 DEF attach_task, waitVars, Started
  <2>2. CASE \E p \in scenario.waiters : detach_task(c, p)
    <3>1. PICK p \in scenario.waiters : detach_task(c, p)
      BY <2>2
    <3>0. /\ on_rq' = [on_rq EXCEPT ![p] = "migrating"] /\ cpu' = [cpu EXCEPT ![p] = c]
          /\ ctx' = [ctx EXCEPT ![c].at = "detached", ![c].p = p]
      BY <3>1 DEF detach_task
    <3>2. p \in Tasks /\ ~on_cpu[p] /\ p \in queued[cpu[p]] /\ ctx[c].at = "run"
      BY <3>1, Types DEF detach_task, At
    <3>3. cpu[p] \in CPUs /\ \A e \in CPUs : curr[e] # p
      BY <3>2, Types DEF Inv, Stacks, OnStack
    <3>4. on_rq[p] = "queued"
      BY <3>2, <3>3 DEF Inv, Queues, QueuedOnce, Targets, At
    <3>5. \A e \in CPUs : ~(At(e, "deactivate") /\ ctx[e].p = p)
      BY <3>3 DEF Inv, Targets, At
    <3>6. /\ Changed(on_rq', on_rq, Tasks, p, "migrating")
          /\ \A t \in Tasks : t # p => cpu'[t] = cpu[t]
      BY <3>0, <3>2, Types DEF Changed
    <3>7. ctx'[c].at = "detached" /\ \A e \in CPUs : e # c => ctx'[e] = ctx[e]
      BY <3>0, Types DEF Ctx
    <3> QED BY <3>1, <3>2, <3>4, <3>5, <3>6, <3>7 DEF detach_task, waitVars
  <2> QED BY <2>1, <2>2
<1>2. Parked'
  BY <1>1 DEF Counted, Parked
<1>3. Loaded' = Loaded
  <2>1. \A t \in Tasks, e \in CPUs :
          At(e, "deactivate")' /\ ctx'[e].p = t <=> At(e, "deactivate") /\ ctx[e].p = t
    BY <1>1 DEF At
  <2>2. \A t \in Tasks : t \in Loaded' <=> contributes'[t] /\
          (on_rq'[t] = "no" \/ \E e \in CPUs : At(e, "deactivate")' /\ ctx'[e].p = t)
    BY DEF Loaded
  <2>3. \A t \in Tasks : t \in Loaded' <=> t \in Loaded
    BY <1>1, <2>1, <2>2, LoadedIs DEF Changed
  <2> QED BY <2>3, SleeperSets
<1>4. \A e \in CPUs : Waiting(e)' = Waiting(e)
  <2>1. \A t \in Tasks : Leaving(t)' <=> Leaving(t)
    BY <1>1 DEF Leaving
  <2>2. \A t \in Tasks : in_iowait(t)' <=> in_iowait(t)
    BY <1>1 DEF in_iowait
  <2>3. \A t \in Tasks, e \in CPUs :
          At(e, "switch")' /\ ctx'[e].p = t <=> At(e, "switch") /\ ctx[e].p = t
    BY <1>1 DEF At
  <2>4. \A t \in Tasks, e \in CPUs : t \in Waiting(e)' <=>
          /\ in_iowait(t) /\ on_rq'[t] = "no" /\ cpu'[t] = e
          /\ ~(At(e, "switch") /\ ctx[e].p = t)
          /\ ~Leaving(t)
          /\ [p |-> t, sched_remote_wakeup |-> TRUE] \notin wake_list[e]
    BY <1>1, <2>1, <2>2, <2>3 DEF Waiting
  <2>5. \A t \in Tasks, e \in CPUs : t \in Waiting(e)' <=> t \in Waiting(e)
    <3> TAKE t \in Tasks, e \in CPUs
    <3>1. CASE t = p
      <4>1. on_rq[p] # "no" /\ on_rq'[p] # "no"
        BY <1>1 DEF Changed
      <4> QED BY <2>4, <3>1, <4>1, WaitingIs
    <3>2. CASE t # p
      <4>1. on_rq'[t] = on_rq[t] /\ cpu'[t] = cpu[t]
        BY <1>1, <3>2 DEF Changed
      <4>2. t \in Waiting(e)' <=>
              /\ in_iowait(t) /\ on_rq[t] = "no" /\ cpu[t] = e
              /\ ~(At(e, "switch") /\ ctx[e].p = t)
              /\ ~Leaving(t)
              /\ [p |-> t, sched_remote_wakeup |-> TRUE] \notin wake_list[e]
        BY <2>4, <4>1
      <4> QED BY <4>2, WaitingIs
    <3> QED BY <3>1, <3>2
  <2> QED BY <2>5, SleeperSets
<1> QED BY <1>1, <1>2, <1>3, <1>4, SameCounts DEF Same

LEMMA NextCounts ==
  ASSUME Inv, Inv', Counted, Next
  PROVE  Counted'
<1>1. UNCHANGED scenario
  BY DEF Next
<1>2. PICK c \in CPUs :
        \/ Wait(c) \/ preempt_schedule_irq(c) \/ __schedule(c) \/ try_to_wake_up(c)
        \/ sched_ttwu_pending(c) \/ attach_task(c) \/ Invoke(c)
        \/ \E t \in scenario.waiters : wake_event(c, t) \/ wake_signal(c, t) \/ detach_task(c, t)
                                       \/ try_invoke_on_locked_down_task(c, t)
  BY DEF Next, Step
<1>3. Quiet(c) => Counted'
  BY QuietCounts
<1>4. CASE Wait(c) \/ preempt_schedule_irq(c)
  BY <1>1, <1>3, <1>4, WaitQuiet, FinishQuiet
<1>5. CASE __schedule(c)
  BY <1>1, <1>3, <1>5, ScheduleLockCounts, DeactivateTaskCounts, ContextSwitchCounts, FinishQuiet
     DEF __schedule
<1>6. CASE try_to_wake_up(c)
  BY <1>1, <1>3, <1>6, WakerQuiet, TtwuOnCpuCounts, TtwuWaitCounts, TtwuQueueCounts,
     TtwuActivateCounts
     DEF try_to_wake_up
<1>7. CASE sched_ttwu_pending(c)
  BY <1>1, <1>7, SchedTtwuPendingCounts
<1>8. CASE attach_task(c) \/ \E t \in scenario.waiters : detach_task(c, t)
  BY <1>1, <1>8, BalancerCounts
<1>9. CASE Invoke(c) \/ \E t \in scenario.waiters : try_invoke_on_locked_down_task(c, t)
  BY <1>1, <1>3, <1>9, InvokeQuiet
<1>10. ASSUME NEW t \in scenario.waiters, wake_event(c, t) \/ wake_signal(c, t)
       PROVE  Counted'
  BY <1>1, <1>3, <1>10, EventQuiet
<1> QED BY <1>2, <1>4, <1>5, <1>6, <1>7, <1>8, <1>9, <1>10

LEMMA InitCounted ==
  ASSUME Init
  PROVE  Counted
<1>1. /\ \A t \in Tasks : contributes[t] = FALSE /\ (on_rq[t] = "no" => loop[t] = "dead")
      /\ \A c \in CPUs : ctx[c].at = "run" /\ wake_list[c] = {}
      /\ \A c \in CPUs : nr_uninterruptible[c] = 0 /\ nr_iowait[c] = 0
      /\ nr_uninterruptible \in [CPUs -> Int]
  BY DEF Init, Running
<1>2. Loaded = {} /\ \A c \in CPUs : Waiting(c) = {}
  BY <1>1 DEF Loaded, Waiting, in_iowait
<1>3. Cardinality({}) = 0
  BY FS_EmptySet
<1>4. Balanced
  <2>1. Total(nr_uninterruptible) = 0
    BY <1>1, TotalZero
  <2>2. UINT * 0 = 0 /\ 0 \in Int
    BY UintAssumption
  <2>3. Total(nr_uninterruptible) = Cardinality(Loaded) + UINT * 0
    BY <1>2, <1>3, <2>1, <2>2
  <2> QED BY <2>2, <2>3 DEF Balanced
<1> QED BY <1>1, <1>2, <1>3, <1>4 DEF Counted, Parked

LEMMA StutterCounts ==
  ASSUME Counted, UNCHANGED vars
  PROVE  Counted'
<1>1. UNCHANGED <<scenario, on_rq, on_cpu, cpu, contributes, loop, wake_list,
                  nr_uninterruptible, nr_iowait, ctx>>
  BY DEF vars, stepVars, taskVars, waitVars, rqVars
<1>2. Parked'
  BY <1>1 DEF Counted, Parked
<1>3. Loaded' = Loaded
  BY <1>1 DEF Loaded, At
<1>4. \A c \in CPUs : Waiting(c)' = Waiting(c)
  BY <1>1 DEF Waiting, At, Leaving, in_iowait
<1> QED BY <1>1, <1>2, <1>3, <1>4, SameCounts DEF Same

\* The counters of __schedule() and ttwu_do_activate(), kept per queue and
\* changed on two queues for one sleep, count every sleeper once.
THEOREM SleepersCountedOnce == Spec => []SleepersCounted
<1>1. Init => Counted
  BY InitCounted
<1>2. Inv /\ Inv' /\ Counted /\ [Next]_vars => Counted'
  BY NextCounts, StutterCounts
<1>3. Inv /\ Counted => SleepersCounted
  BY CountedIsIt
<1> QED BY SmpInvariant, <1>1, <1>2, <1>3, PTL DEF Spec
=============================================================================
