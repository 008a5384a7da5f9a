----------------------------- MODULE CoreSched ------------------------------
(***************************************************************************)
(* Core scheduling (kernel/sched/core.c, CONFIG_SCHED_CORE): how it is     *)
(* switched on and off while run queues are being locked, and which lock   *)
(* a run queue has.  When it is on, the CPUs of a core share the lock of   *)
(* their leader; raw_spin_rq_lock() has to end up with the right lock      *)
(* although the switch, or a change of leader by CPU hotplug, may come     *)
(* between the choice of the lock and its acquisition.                     *)
(*                                                                         *)
(* A locker is a path with preemption disabled that locks one run queue or *)
(* two, changes a queue, and unlocks.  A user holds a cookie, and with it  *)
(* a reference from sched_core_get(); its task is in the core_tree of a    *)
(* run queue while it is queued with a cookie.  Cookies belong to          *)
(* core_sched.c, which the repository does not hold.                       *)
(***************************************************************************)
EXTENDS Integers, Sequences, FiniteSetsExt

CONSTANTS
    CPUs,       \* the possible CPUs, by number
    Siblings,   \* Siblings[c]: the CPUs of c's core
    Lockers,    \* paths that lock run queues
    Users,      \* holders of a cookie, each with one task
    Home,       \* Home[u]: the CPU of the task of u
    Unplug,     \* the CPUs that may be taken down
    SeqMod,     \* values of core_task_seq (2^32 in the code)
    Flipper,    \* the thread inside __sched_core_flip()
    Hp,         \* the hotplug thread
    None        \* nobody

ASSUME CpuAssumption == CPUs \subseteq Nat /\ IsFiniteSet(CPUs) /\ Unplug \subseteq CPUs
\* The cores are disjoint.
ASSUME SiblingsAssumption ==
    /\ Siblings \in [CPUs -> SUBSET CPUs]
    /\ \A c \in CPUs : c \in Siblings[c] /\ \A d \in Siblings[c] : Siblings[d] = Siblings[c]
ASSUME UserAssumption == Home \in [Users -> CPUs] /\ SeqMod \in Nat \ {0} /\ IsFiniteSet(Users)
\* The threads are different ones, and None is none of them, nor a CPU.
ASSUME NameAssumption ==
    /\ Flipper # Hp /\ Flipper # None /\ Hp # None /\ None \notin CPUs
    /\ {Flipper, Hp, None} \cap (Lockers \cup Users) = {}

VARIABLES
    __sched_core_enabled,   \* the static key
    core_enabled,   \* core_enabled[c]: rq->core_enabled
    core,           \* core[c]: rq->core, the leader
    core_task_seq,  \* core_task_seq[c]: of c as a leader
    core_tree,      \* the users whose task is in the core_tree of its CPU
    lock,           \* lock[c]: who holds rq->__lock
    online,         \* cpu_online_mask
    present,        \* the CPUs in the sibling masks
    locker,         \* what each locker does
    readers,        \* the lockers synchronize_rcu() waits for
    sched_core_count,
    sched_core_mutex,   \* who holds it
    user,           \* user[u]: "out", "slow", "enabling", "add", "in"
    cookie,         \* the users whose task has a cookie
    queued,         \* the users whose task is queued
    work,           \* WORK_STRUCT_PENDING_BIT of _work
    worker,         \* __sched_core_put(): "idle", "dec", "lock" or "disabling"
    flip,           \* __sched_core_enable() or __sched_core_disable()
    hp,             \* the hotplug operation
    warned,         \* sched_core_assert_empty() has warned
    fault           \* how the kernel went down, or "none"

coreVars == <<__sched_core_enabled, core_enabled, core, core_task_seq>>
taskVars == <<core_tree, cookie, queued>>
useVars == <<sched_core_count, sched_core_mutex, user, work, worker>>
cpuVars == <<online, present, hp>>
vars == <<coreVars, taskVars, useVars, cpuVars, lock, locker, readers, flip, warned, fault>>

NoLocker == [pc |-> "idle", want |-> <<>>, got |-> {}, on |-> None, try |-> FALSE]
NoFlip == [pc |-> "idle", by |-> None, enabled |-> FALSE, mask |-> {}, todo |-> {}, held |-> {}]
NoHp == [pc |-> "idle", cpu |-> None, todo |-> {}, held |-> {}]

cpu_smt_mask(c) == Siblings[c] \cap present

-----------------------------------------------------------------------------
(* The lock of a run queue.                                                *)

sched_core_enabled(c) == __sched_core_enabled /\ core_enabled[c]

rq_lockp(c) == IF sched_core_enabled(c) THEN core[c] ELSE c

__rq_lockp(c) == IF core_enabled[c] THEN core[c] ELSE c

rq_order_less(c, d) == core[c] < core[d] \/ (core[c] = core[d] /\ c < d)

Set(l, r) == locker' = [locker EXCEPT ![l] = r]

Keep == UNCHANGED <<lock, fault>>

\* A step of a locker that touches no lock.
Move(l, r) == Set(l, r) /\ Keep /\ UNCHANGED readers

\* The end of a section without preemption, which synchronize_rcu() waits for.
Leave(l) == Set(l, NoLocker) /\ readers' = readers \ {l}

\* Unlocking a lock somebody else holds, or nobody, is a fault.
raw_spin_unlock(l, x) ==
    IF lock[x] = l THEN lock' = [lock EXCEPT ![x] = None] /\ UNCHANGED fault
    ELSE fault' = "unlock" /\ UNCHANGED lock

\* raw_spin_rq_lock() and raw_spin_rq_trylock() of one run queue.
LockOne(l) ==
    /\ locker[l].pc = "idle"
    /\ \E c \in online, try \in BOOLEAN :
          Move(l, [NoLocker EXCEPT !.pc = "enter", !.want = <<c>>, !.try = try])

Pair(c, d) == IF rq_order_less(d, c) THEN <<d, c>> ELSE <<c, d>>

\* The order is settled before any lock is held.
double_rq_lock(l) ==
    /\ locker[l].pc = "idle"
    /\ \E c, d \in online : c # d /\ Move(l, [NoLocker EXCEPT !.pc = "enter", !.want = Pair(c, d)])

\* Bug: no look at the static key, and none at the lock once it is held.
Enter_unchecked(l) ==
    /\ locker[l].pc = "enter"
    /\ Move(l, [locker[l] EXCEPT !.pc = "own", !.on = __rq_lockp(locker[l].want[1])])

\* raw_spin_rq_lock_nested(): the test of the static key.
Enter(l) ==
    /\ locker[l].pc = "enter"
    /\ Move(l, IF __sched_core_enabled THEN [locker[l] EXCEPT !.pc = "loop"]
               ELSE [locker[l] EXCEPT !.pc = "own", !.on = locker[l].want[1]])

\* lock = __rq_lockp(rq)
Loop(l) ==
    /\ locker[l].pc = "loop"
    /\ Move(l, [locker[l] EXCEPT !.pc = "spin", !.on = __rq_lockp(locker[l].want[1])])

\* The first run queue of want is locked.
Locked(r) ==
    [r EXCEPT !.pc = IF Len(r.want) = 1 THEN "locked" ELSE "second",
              !.got = @ \cup {r.want[1]}, !.want = Tail(@), !.on = None, !.try = FALSE]

raw_spin_lock(l) ==
    /\ locker[l].pc \in {"own", "spin"} /\ lock[locker[l].on] = None
    /\ lock' = [lock EXCEPT ![locker[l].on] = l]
    /\ Set(l, IF locker[l].pc = "own" THEN Locked(locker[l]) ELSE [locker[l] EXCEPT !.pc = "check"])
    /\ UNCHANGED <<readers, fault>>

raw_spin_trylock_fails(l) ==
    /\ locker[l].pc \in {"own", "spin"} /\ locker[l].try /\ lock[locker[l].on] # None
    /\ IF locker[l].got = {} THEN Leave(l) /\ Keep
       ELSE Move(l, [locker[l] EXCEPT !.pc = "failed", !.on = None, !.try = FALSE])

\* The lock may have become the wrong one before it was acquired.
Check(l) ==
    /\ locker[l].pc = "check"
    /\ IF locker[l].on = __rq_lockp(locker[l].want[1]) THEN Set(l, Locked(locker[l])) /\ Keep
       ELSE raw_spin_unlock(l, locker[l].on) /\ Set(l, [locker[l] EXCEPT !.pc = "loop", !.on = None])
    /\ UNCHANGED readers

\* double_rq_lock(): the second run queue, unless it shares the lock.
Second(l) ==
    \E c \in locker[l].got :
       /\ locker[l].pc = "second"
       /\ Move(l, IF __rq_lockp(c) = __rq_lockp(locker[l].want[1]) THEN Locked(locker[l])
                  ELSE [locker[l] EXCEPT !.pc = "enter"])

raw_spin_rq_unlock(l) ==
    \E c \in locker[l].got :
       /\ locker[l].pc = "locked" /\ locker[l].got = {c}
       /\ raw_spin_unlock(l, rq_lockp(c)) /\ Leave(l)

\* double_unlock_balance(), and the first half of double_rq_unlock().
double_unlock(l) ==
    \E c, d \in locker[l].got :
       /\ locker[l].pc = "locked" /\ c # d
       /\ IF __rq_lockp(c) # __rq_lockp(d) THEN raw_spin_unlock(l, rq_lockp(d)) ELSE Keep
       /\ Set(l, [locker[l] EXCEPT !.got = {c}]) /\ UNCHANGED readers

\* _double_lock_balance() gives c back, to lock both in order.
GiveBack(l, c, d) ==
    /\ raw_spin_unlock(l, rq_lockp(c))
    /\ Set(l, [NoLocker EXCEPT !.pc = "reorder", !.want = <<c, d>>]) /\ UNCHANGED readers

\* c is locked, and d shall be: as with CONFIG_PREEMPTION, or as without.
double_lock_balance(l) ==
    \E c \in locker[l].got, d \in online :
       /\ locker[l].pc = "locked" /\ locker[l].got = {c} /\ c # d
       /\ \/ GiveBack(l, c, d)
          \/ Move(l, IF __rq_lockp(c) = __rq_lockp(d) THEN [locker[l] EXCEPT !.got = {c, d}]
                     ELSE [locker[l] EXCEPT !.pc = "enter", !.want = <<d>>, !.try = TRUE])

\* _double_lock_balance() without preemption: the trylock has failed.
TryFailed(l) ==
    \E c \in locker[l].got :
       /\ locker[l].pc = "failed"
       /\ IF rq_order_less(c, locker[l].want[1])
          THEN Move(l, [locker[l] EXCEPT !.pc = "enter"])
          ELSE GiveBack(l, c, locker[l].want[1])

\* _double_lock_balance(): double_rq_lock() after the unlock.
Reorder(l) ==
    /\ locker[l].pc = "reorder"
    /\ Move(l, [locker[l] EXCEPT !.pc = "enter", !.want = Pair(@[1], @[2])])

LockStep(l) ==
    /\ \/ LockOne(l) \/ double_rq_lock(l) \/ Enter(l) \/ Loop(l) \/ raw_spin_lock(l)
       \/ raw_spin_trylock_fails(l) \/ Check(l) \/ Second(l) \/ raw_spin_rq_unlock(l)
       \/ double_unlock(l) \/ double_lock_balance(l) \/ TryFailed(l) \/ Reorder(l)
    /\ UNCHANGED <<coreVars, taskVars, useVars, cpuVars, flip, warned>>

-----------------------------------------------------------------------------
(* Under the lock of a run queue.                                          *)

NextSeq(c) == core_task_seq' = [core_task_seq EXCEPT ![core[c]] = (@ + 1) % SeqMod]

\* enqueue_task(), with sched_core_enqueue()
enqueue_task(u) ==
    /\ u \notin queued /\ queued' = queued \cup {u}
    /\ IF sched_core_enabled(Home[u])
       THEN NextSeq(Home[u]) /\ core_tree' = core_tree \cup (cookie \cap {u})
       ELSE UNCHANGED <<core_task_seq, core_tree>>
    /\ UNCHANGED cookie

\* dequeue_task(), with sched_core_dequeue()
dequeue_task(u) ==
    /\ u \in queued /\ queued' = queued \ {u}
    /\ IF sched_core_enabled(Home[u]) THEN NextSeq(Home[u]) /\ core_tree' = core_tree \ {u}
       ELSE UNCHANGED <<core_task_seq, core_tree>>
    /\ UNCHANGED cookie

\* External: a task that is in the tree is taken out and put back, a task
\* that is not stays out until it is queued again.
sched_core_update_cookie(u) ==
    /\ user[u] = "in"
    /\ cookie' = IF u \in cookie THEN cookie \ {u} ELSE cookie \cup {u}
    /\ IF u \in core_tree THEN NextSeq(Home[u]) /\ core_tree' = core_tree \cap cookie'
       ELSE UNCHANGED <<core_task_seq, core_tree>>
    /\ UNCHANGED queued

\* __schedule() of a CPU with core scheduling: core_cookie is still 0 and no
\* pick is pending, so the first class in the order is asked for a task by
\* class->pick_task, a hook the lottery class does not set.
pick_next_task(c) ==
    /\ sched_core_enabled(c) /\ c \in online
    /\ fault' = "pick_task"
    /\ UNCHANGED <<core_task_seq, taskVars>>

QueueStep(l) ==
    /\ locker[l].pc = "locked"
    /\ \/ \E u \in Users : /\ Home[u] \in locker[l].got
                           /\ enqueue_task(u) \/ dequeue_task(u) \/ sched_core_update_cookie(u)
                           /\ UNCHANGED fault
       \/ \E c \in locker[l].got : pick_next_task(c)
    /\ UNCHANGED <<__sched_core_enabled, core_enabled, core, useVars, lock, cpuVars, locker, readers, flip, warned>>

-----------------------------------------------------------------------------
(* sched_core_get() and sched_core_put().                                  *)

\* atomic_inc_not_zero()
sched_core_get(u) ==
    /\ user[u] = "out"
    /\ IF sched_core_count > 0
       THEN sched_core_count' = sched_core_count + 1 /\ user' = [user EXCEPT ![u] = "in"]
       ELSE user' = [user EXCEPT ![u] = "slow"] /\ UNCHANGED sched_core_count
    /\ UNCHANGED <<sched_core_mutex, work, worker, flip>>

GetLock(u) ==
    /\ user[u] = "slow" /\ sched_core_mutex = None
    /\ sched_core_mutex' = u
    /\ IF sched_core_count = 0
       THEN /\ user' = [user EXCEPT ![u] = "enabling"]
            /\ flip' = [NoFlip EXCEPT !.pc = "key", !.by = u, !.enabled = TRUE]
       ELSE user' = [user EXCEPT ![u] = "add"] /\ UNCHANGED flip
    /\ UNCHANGED <<sched_core_count, work, worker>>

GetAdd(u) ==
    /\ user[u] = "add" /\ user' = [user EXCEPT ![u] = "in"]
    /\ sched_core_count' = sched_core_count + 1
    /\ sched_core_mutex' = None
    /\ UNCHANGED <<work, worker, flip>>

\* atomic_add_unless(-1, 1): the last reference is left to the work.
sched_core_put(u) ==
    /\ user[u] = "in" /\ u \notin cookie /\ user' = [user EXCEPT ![u] = "out"]
    /\ IF sched_core_count # 1 THEN sched_core_count' = sched_core_count - 1 /\ UNCHANGED work
       ELSE work' = TRUE /\ UNCHANGED sched_core_count
    /\ UNCHANGED <<sched_core_mutex, worker, flip>>

\* The pending bit is cleared before __sched_core_put() runs.
WorkStart ==
    /\ work /\ worker = "idle"
    /\ work' = FALSE /\ worker' = "dec"
    /\ UNCHANGED <<sched_core_count, sched_core_mutex, user, flip>>

\* atomic_dec_and_mutex_lock(): without the mutex, unless it is the last.
WorkDec ==
    /\ worker = "dec"
    /\ IF sched_core_count # 1 THEN sched_core_count' = sched_core_count - 1 /\ worker' = "idle"
       ELSE worker' = "lock" /\ UNCHANGED sched_core_count
    /\ UNCHANGED <<sched_core_mutex, user, work, flip>>

StartDisable ==
    /\ sched_core_mutex' = Flipper /\ worker' = "disabling"
    /\ flip' = [NoFlip EXCEPT !.pc = "assert", !.by = Flipper]

\* Bug: whether it is still the last is not looked at again under the mutex.
WorkLock_blind ==
    /\ worker = "lock" /\ sched_core_mutex = None
    /\ sched_core_count' = sched_core_count - 1
    /\ StartDisable
    /\ UNCHANGED <<user, work>>

WorkLock ==
    /\ worker = "lock" /\ sched_core_mutex = None
    /\ sched_core_count' = sched_core_count - 1
    /\ IF sched_core_count = 1 THEN StartDisable
       ELSE worker' = "idle" /\ UNCHANGED <<sched_core_mutex, flip>>
    /\ UNCHANGED <<user, work>>

UseStep(A) == A /\ UNCHANGED <<coreVars, taskVars, lock, cpuVars, locker, readers, warned, fault>>

-----------------------------------------------------------------------------
(* __sched_core_enable() and __sched_core_disable().                       *)

\* static_branch_enable(), and the start of synchronize_rcu()
FlipKey ==
    /\ flip.pc = "key" /\ flip' = [flip EXCEPT !.pc = "sync"]
    /\ __sched_core_enabled' = TRUE
    /\ readers' = {l \in Lockers : locker[l].pc # "idle"}
    /\ UNCHANGED <<useVars, lock, core_enabled, warned>>

\* synchronize_rcu() ends; cpus_read_lock() waits for a hotplug operation.
FlipBegin ==
    /\ flip.pc = "sync" /\ readers = {} /\ hp.pc = "idle"
    /\ flip' = [flip EXCEPT !.pc = "core", !.mask = online]
    /\ UNCHANGED <<useVars, lock, __sched_core_enabled, core_enabled, readers, warned>>

\* The next core.
FlipCore ==
    /\ flip.pc = "core" /\ flip.mask # {}
    /\ flip' = [flip EXCEPT !.pc = "lock", !.todo = cpu_smt_mask(Min(flip.mask))]
    /\ UNCHANGED <<useVars, lock, __sched_core_enabled, core_enabled, readers, warned>>

\* sched_core_lock(), with the locks of todo: the lowest number first
sched_core_lock(todo, a) == todo # {} /\ lock[Min(todo)] = None /\ lock' = [lock EXCEPT ![Min(todo)] = a]

sched_core_unlock(held) == lock' = [c \in CPUs |-> IF c \in held THEN None ELSE lock[c]]

FlipLock ==
    /\ sched_core_lock(flip.todo, Flipper)
    /\ flip' = [flip EXCEPT !.todo = @ \ {Min(@)}, !.held = @ \cup {Min(flip.todo)}]
    /\ UNCHANGED <<useVars, __sched_core_enabled, core_enabled, readers, warned>>

FlipSet ==
    /\ flip.pc = "lock" /\ flip.todo = {}
    /\ core_enabled' = [c \in CPUs |-> IF c \in flip.held THEN flip.enabled ELSE core_enabled[c]]
    /\ sched_core_unlock(flip.held)
    /\ flip' = [flip EXCEPT !.pc = "core", !.mask = @ \ flip.held, !.held = {}]
    /\ UNCHANGED <<useVars, __sched_core_enabled, readers, warned>>

\* Bug: the CPUs that are offline are left as they are.
FlipOffline_skips ==
    /\ flip.pc = "core" /\ flip.mask = {}
    /\ flip' = [flip EXCEPT !.pc = IF flip.enabled THEN "assert" ELSE "key_off"]
    /\ UNCHANGED <<useVars, lock, __sched_core_enabled, core_enabled, readers, warned>>

\* The CPUs that are offline, and cpus_read_unlock()
FlipOffline ==
    /\ flip.pc = "core" /\ flip.mask = {}
    /\ core_enabled' = [c \in CPUs |-> IF c \in online THEN core_enabled[c] ELSE flip.enabled]
    /\ flip' = [flip EXCEPT !.pc = IF flip.enabled THEN "assert" ELSE "key_off"]
    /\ UNCHANGED <<useVars, lock, __sched_core_enabled, readers, warned>>

\* After the flip when enabling, before it when disabling.
sched_core_assert_empty ==
    /\ flip.pc = "assert"
    /\ warned' = (warned \/ core_tree # {})
    /\ IF flip.enabled THEN flip' = NoFlip /\ user' = [user EXCEPT ![flip.by] = "add"]
       ELSE flip' = [flip EXCEPT !.pc = "sync"] /\ UNCHANGED user
    /\ UNCHANGED <<lock, __sched_core_enabled, core_enabled, readers,
                   sched_core_count, sched_core_mutex, work, worker>>

\* static_branch_disable(), and the mutex is unlocked.
FlipKeyOff ==
    /\ flip.pc = "key_off" /\ flip' = NoFlip
    /\ __sched_core_enabled' = FALSE
    /\ sched_core_mutex' = None /\ worker' = "idle"
    /\ UNCHANGED <<lock, core_enabled, readers, warned, sched_core_count, user, work>>

FlipStep ==
    /\ \/ FlipKey \/ FlipBegin \/ FlipCore \/ FlipLock \/ FlipSet \/ FlipOffline
       \/ sched_core_assert_empty \/ FlipKeyOff
    /\ UNCHANGED <<taskVars, cpuVars, locker, fault, core, core_task_seq>>

-----------------------------------------------------------------------------
(* CPU hotplug.                                                            *)

\* cpus_write_lock() waits for a reader.
cpus_write_lock == hp.pc = "idle" /\ flip.pc \notin {"core", "lock"}

\* sched_cpu_deactivate(), as far as sched_core_cpu_deactivate()
sched_cpu_deactivate(c) ==
    /\ cpus_write_lock /\ c \in online \cap Unplug /\ online # {c}
    /\ hp' = [pc |-> "deactivate", cpu |-> c, todo |-> cpu_smt_mask(c), held |-> {}]
    /\ UNCHANGED <<core, core_task_seq, lock, online, present>>

\* sched_cpu_starting(): the arch code has put c in the sibling masks.
sched_cpu_starting(c) ==
    /\ cpus_write_lock /\ c \notin online
    /\ present' = present \cup {c}
    /\ hp' = [pc |-> "starting", cpu |-> c, todo |-> Siblings[c] \cap present', held |-> {}]
    /\ UNCHANGED <<core, core_task_seq, lock, online>>

HpLock ==
    /\ sched_core_lock(hp.todo, Hp)
    /\ hp' = [hp EXCEPT !.todo = @ \ {Min(@)}, !.held = @ \cup {Min(hp.todo)}]
    /\ UNCHANGED <<core, core_task_seq, online, present>>

\* A leader hands the shared state of its core to the first sibling.
sched_core_cpu_deactivate(c, smt_mask) ==
    LET core_rq == Min(smt_mask \ {c})
    IN  IF smt_mask = {c} \/ core[c] # c THEN UNCHANGED <<core, core_task_seq>>
        ELSE /\ core_task_seq' = [core_task_seq EXCEPT ![core_rq] = core_task_seq[c]]
             /\ core' = [t \in CPUs |-> IF t \in smt_mask THEN core_rq ELSE core[t]]

Deactivated ==
    /\ hp.pc = "deactivate" /\ hp.todo = {}
    /\ sched_core_cpu_deactivate(hp.cpu, hp.held)
    /\ sched_core_unlock(hp.held)
    /\ hp' = [hp EXCEPT !.pc = "down", !.held = {}]
    /\ UNCHANGED <<online, present>>

\* Bug: the CPU that starts stays its own leader.
sched_core_cpu_starting_alone(c, smt_mask) == UNCHANGED core

\* The CPU that starts joins the leader of its core.
sched_core_cpu_starting(c, smt_mask) ==
    LET leaders == {t \in smt_mask \ {c} : core[t] = t}
    IN  core' = IF leaders = {} THEN core ELSE [core EXCEPT ![c] = Min(leaders)]

Started ==
    /\ hp.pc = "starting" /\ hp.todo = {}
    /\ sched_core_cpu_starting(hp.cpu, hp.held)
    /\ sched_core_unlock(hp.held)
    /\ online' = online \cup {hp.cpu}
    /\ hp' = NoHp
    /\ UNCHANGED <<core_task_seq, present>>

\* The operation is reversed, and the CPU stays.
sched_cpu_activate ==
    /\ hp.pc = "down" /\ hp' = NoHp
    /\ UNCHANGED <<core, core_task_seq, lock, online, present>>

\* stop_machine(): no CPU is in a section without preemption.  No task is
\* left on the CPU (see Hotplug).
sched_core_cpu_dying ==
    /\ hp.pc = "down" /\ hp' = NoHp
    /\ \A l \in Lockers : locker[l].pc = "idle"
    /\ \A u \in queued : Home[u] # hp.cpu
    /\ core' = [core EXCEPT ![hp.cpu] = hp.cpu]
    /\ online' = online \ {hp.cpu} /\ present' = present \ {hp.cpu}
    /\ UNCHANGED <<core_task_seq, lock>>

HotplugStep ==
    /\ \/ \E c \in CPUs : sched_cpu_deactivate(c) \/ sched_cpu_starting(c)
       \/ HpLock \/ Deactivated \/ Started \/ sched_cpu_activate \/ sched_core_cpu_dying
    /\ UNCHANGED <<taskVars, useVars, locker, readers, flip, warned, fault, __sched_core_enabled, core_enabled>>

-----------------------------------------------------------------------------

Init ==
    /\ __sched_core_enabled = FALSE
    /\ core_enabled = [c \in CPUs |-> FALSE]
    /\ core = [c \in CPUs |-> Min(Siblings[c])]
    /\ core_task_seq = [c \in CPUs |-> 0]
    /\ core_tree = {} /\ cookie = {} /\ queued = {}
    /\ lock = [c \in CPUs |-> None]
    /\ online = CPUs /\ present = CPUs
    /\ locker = [l \in Lockers |-> NoLocker]
    /\ readers = {}
    /\ sched_core_count = 0 /\ sched_core_mutex = None
    /\ user = [u \in Users |-> "out"]
    /\ work = FALSE /\ worker = "idle"
    /\ flip = NoFlip /\ hp = NoHp
    /\ warned = FALSE /\ fault = "none"

Next ==
    \/ /\ fault = "none"
       /\ \/ \E l \in Lockers : LockStep(l) \/ QueueStep(l)
          \/ \E u \in Users : UseStep(sched_core_get(u) \/ GetLock(u) \/ GetAdd(u) \/ sched_core_put(u))
          \/ UseStep(WorkStart \/ WorkDec \/ WorkLock)
          \/ FlipStep \/ HotplugStep
    \/ fault # "none" /\ UNCHANGED vars

Spec == Init /\ [][Next]_vars

-----------------------------------------------------------------------------
(* Properties.                                                             *)

TypeOK ==
    /\ __sched_core_enabled \in BOOLEAN
    /\ core_enabled \in [CPUs -> BOOLEAN]
    /\ core \in [CPUs -> CPUs]
    /\ core_task_seq \in [CPUs -> 0 .. SeqMod - 1]
    /\ lock \in [CPUs -> Lockers \cup {Flipper, Hp, None}]
    /\ online \subseteq present /\ present \subseteq CPUs
    /\ readers \subseteq Lockers
    /\ sched_core_count \in 0 .. Cardinality(Users) + 1
    /\ user \in [Users -> {"out", "slow", "enabling", "add", "in"}]
    /\ core_tree \subseteq Users /\ cookie \subseteq Users /\ queued \subseteq Users

\* Whoever has locked a run queue holds the lock the run queue has now, and
\* will unlock that one, although core scheduling was switched and leaders
\* were replaced since the lock was chosen.
LocksTheSame ==
    \A l \in Lockers : \A c \in locker[l].got : lock[rq_lockp(c)] = l

\* Once sched_core_get() has returned, core scheduling is on everywhere, on
\* CPUs that are offline too, until the reference is put: a late work item of
\* an earlier sched_core_put() does not switch it off.  And when it is
\* switched, no task is in a core_tree: sched_core_assert_empty() never warns.
EnabledWhileUsed ==
    /\ \A u \in Users : user[u] = "in" => __sched_core_enabled /\ \A c \in CPUs : core_enabled[c]
    /\ ~ warned

\* The CPUs of a core agree on a leader that is one of them and online.
OneLeader ==
    \A c \in online :
       core[c] \in online \cap Siblings[c] /\ \A d \in online \cap Siblings[c] : core[c] = core[d]
=============================================================================
